-------------------------- MODULE TxnManagerProofs --------------------------
(***************************************************************************)
(* Proofs about the transaction manager for every set of objects and every *)
(* number of transactions.                                                 *)
(***************************************************************************)
EXTENDS TxnManager, FiniteSetTheorems, TLAPS

(* What waits or runs has been scheduled, so a new number is fresh.        *)
Scheduled == pending \cup committed \subseteq 1 .. nextTx

Inv == TypeOK /\ Scheduled /\ CommittedExclusive /\ PendingExclusive

-----------------------------------------------------------------------------
(* The frame on top of a well-typed stack, and what replacing it keeps.    *)
LEMMA StackTop ==
  ASSUME TypeOK, NEW fn, AtTop(fn)
  PROVE  Top \in Frames /\ Top.fn = fn /\ Tail(stack) \in Seq(Frames)
  BY DEF TypeOK, AtTop, Top

(* A call keeps the stack well typed.                                      *)
LEMMA StackPush ==
  ASSUME NEW s \in Seq(Frames), NEW f \in Frames
  PROVE  <<f>> \o s \in Seq(Frames)
  OBVIOUS

(* What the fields of a call of commit() are, and an update of them.       *)
LEMMA CommitFrames ==
  ASSUME NEW f \in Frames, f.fn = "commit"
  PROVE  /\ f.tx \in Tx
         /\ f.todo \subseteq Objects
         /\ \A D \in SUBSET Objects :
              LET g == [f EXCEPT !.todo = D]
              IN  g \in Frames /\ g.fn = "commit" /\ g.tx = f.tx /\ g.todo = D
  BY DEF Frames

(* The same for apply().                                                   *)
LEMMA ApplyFrames ==
  ASSUME NEW f \in Frames, f.fn = "apply"
  PROVE  /\ f.tx \in Tx
         /\ f.todo \subseteq Objects
         /\ \A D \in SUBSET Objects :
              LET g == [f EXCEPT !.todo = D]
              IN  /\ g \in Frames /\ g.fn = "apply" /\ g.tx = f.tx /\ g.todo = D
                  /\ g.timedOut = f.timedOut
  BY DEF Frames

(* The same for consider_commit().                                         *)
LEMMA ConsiderFrames ==
  ASSUME NEW f \in Frames, f.fn = "consider"
  PROVE  /\ f.idx \in Nat
         /\ \A i \in Nat : LET g == [f EXCEPT !.idx = i]
                           IN  g \in Frames /\ g.fn = "consider" /\ g.idx = i
  BY DEF Frames

(* The calls that the code makes are well typed.                           *)
LEMMA NewFrames ==
  /\ \A i \in Nat : \A t \in Tx \cup {0} : Consider(i, t) \in Frames
  /\ \A t \in Tx : \A D \in SUBSET Objects : Commit(t, D) \in Frames
  /\ \A t \in Tx : \A D \in SUBSET Objects : \A b \in BOOLEAN : Apply(t, D, b) \in Frames
  BY DEF Frames, Consider, Commit, Apply

(* coalesce_transactions() reaches a fixpoint: a pending transaction that  *)
(* shares an object with the result is part of it.                         *)
LEMMA CoalescedAbsorbs ==
  ASSUME TypeOK, NEW S \in SUBSET Objects
  PROVE  Coalesced(S) \subseteq Objects /\ S \subseteq Coalesced(S) /\ Absorbs(Coalesced(S))
<1>1. Coalesced(S) \subseteq Objects /\ S \subseteq Coalesced(S)
  BY DEF Coalesced
<1>2. ASSUME NEW t \in pending, NEW o \in objs[t], o \in Coalesced(S)
      PROVE  objs[t] \subseteq Coalesced(S)
  <2>1. objs[t] \subseteq Objects
    BY DEF TypeOK
  <2>2. SUFFICES ASSUME NEW C \in SUBSET Objects, S \subseteq C, Absorbs(C)
                 PROVE  objs[t] \subseteq C
    BY <2>1 DEF Coalesced
  <2>3. o \in C
    BY <1>2, <2>2 DEF Coalesced
  <2>. QED
    BY <2>2, <2>3 DEF Absorbs
<1>. QED
  BY <1>1, <1>2 DEF Absorbs

-----------------------------------------------------------------------------
(* The manager starts with nothing scheduled.                              *)
LEMMA InitInv == Init => Inv
<1>. SUFFICES ASSUME Init PROVE Inv
  OBVIOUS
<1>1. TypeOK
  <2>1. nextTx \in 0 .. MaxTx
    BY ConstantsAssumption DEF Init
  <2>2. stack \in Seq(Frames)
    BY DEF Init
  <2>. QED
    BY <2>1, <2>2 DEF Init, TypeOK
<1>2. Scheduled /\ CommittedExclusive /\ PendingExclusive
  BY DEF Init, Scheduled, CommittedExclusive, PendingExclusive
<1>. QED
  BY <1>1, <1>2 DEF Inv

(* Only Schedule touches objs and adds to pending, and only ConsiderCommit *)
(* adds to committed: every other step preserves the rest of Inv.          *)
LEMMA ListsKept ==
  ASSUME Inv, UNCHANGED <<nextTx, objs>>,
         pending' = pending, committed' \subseteq committed
  PROVE  (Scheduled /\ CommittedExclusive /\ PendingExclusive)'
  BY DEF Inv, Scheduled, CommittedExclusive, PendingExclusive, Intersect

(* schedule_transaction() appends what no pending transaction overlaps.    *)
LEMMA ScheduleInv ==
  ASSUME Inv, NEW S \in SUBSET Objects, Schedule(S)
  PROVE  Inv'
<1>. DEFINE t == nextTx + 1
            all == Coalesced(S)
<1>1. t \in Tx /\ nextTx \in Nat /\ t \notin pending \cup committed
  BY ConstantsAssumption DEF Schedule, Inv, TypeOK, Scheduled, Tx
<1>2. all \subseteq Objects
  BY CoalescedAbsorbs DEF Inv
<1>3. /\ nextTx' = t
      /\ objs' = [objs EXCEPT ![t] = all]
      /\ pending' = {u \in pending : objs[u] \cap all = {}} \cup {t}
      /\ stack' = <<Consider(0, t)>> \o stack
      /\ idle' = TRUE
      /\ UNCHANGED <<ready, listening, timer, committed, done, object, awaited>>
  BY DEF Schedule, Call
<1>4. TypeOK'
  <2>1. Consider(0, t) \in Frames
    BY <1>1, NewFrames
  <2>2. stack' \in Seq(Frames)
    BY <1>3, <2>1, StackPush DEF Inv, TypeOK
  <2>3. nextTx' \in 0 .. MaxTx
    BY <1>1, <1>3 DEF Tx
  <2>. QED
    BY <1>1, <1>2, <1>3, <2>2, <2>3 DEF Inv, TypeOK
<1>5. objs'[t] = all /\ \A u \in pending \cup committed : u # t /\ objs'[u] = objs[u]
  BY <1>1, <1>3 DEF Inv, TypeOK
<1>6. Scheduled'
  BY <1>1, <1>3 DEF Inv, Scheduled
<1>7. CommittedExclusive'
  BY <1>3, <1>5 DEF Inv, CommittedExclusive, Intersect
<1>8. PendingExclusive'
  BY <1>3, <1>5 DEF Inv, PendingExclusive, Intersect
<1>. QED
  BY <1>4, <1>6, <1>7, <1>8 DEF Inv

-----------------------------------------------------------------------------
(* consider_commit() commits only what no committed transaction overlaps.  *)
LEMMA ConsiderationInv ==
  ASSUME Inv, Consideration
  PROVE  Inv'
<1>. DEFINE f == Top
<1>1. f \in Frames /\ f.fn = "consider" /\ Tail(stack) \in Seq(Frames)
  BY StackTop DEF Inv, Consideration, ConsiderSkip, ConsiderCommit, ConsiderReturn
<1>2. CASE ConsiderSkip
  <2>1. f.idx + 1 \in Nat /\ \A i \in Nat : [f EXCEPT !.idx = i] \in Frames
    BY <1>1, ConsiderFrames
  <2>. HIDE DEF f
  <2>a. [f EXCEPT !.idx = f.idx + 1] \in Frames
    BY <2>1
  <2>. USE DEF f
  <2>2. stack' \in Seq(Frames)
    BY <1>1, <1>2, <2>a, StackPush DEF ConsiderSkip, Become
  <2>3. TypeOK'
    BY <1>2, <2>2 DEF ConsiderSkip, txvars, mgrvars, Inv, TypeOK
  <2>. QED
    BY <1>2, <2>3, ListsKept DEF ConsiderSkip, txvars, mgrvars, Inv
<1>3. CASE ConsiderReturn
  <2>1. TypeOK'
    BY <1>1, <1>3 DEF ConsiderReturn, Return, txvars, mgrvars, Inv, TypeOK
  <2>. QED
    BY <1>3, <2>1, ListsKept DEF ConsiderReturn, txvars, mgrvars, Inv
<1>4. CASE ConsiderCommit
  <2>1. PICK t \in pending :
          /\ CanCommit(t)
          /\ pending' = pending \ {t}
          /\ committed' = committed \cup {t}
          /\ Call(IF objs[t] = {} THEN Apply(t, {}, FALSE) ELSE Commit(t, objs[t]))
    BY <1>4 DEF ConsiderCommit
  <2>2. UNCHANGED <<txvars, done, idle, object, awaited>>
    BY <1>4 DEF ConsiderCommit
  <2>3. t \in Tx /\ objs[t] \subseteq Objects
    BY DEF Inv, TypeOK
  <2>4. (IF objs[t] = {} THEN Apply(t, {}, FALSE) ELSE Commit(t, objs[t])) \in Frames
    BY <2>3, NewFrames
  <2>5. stack' \in Seq(Frames)
    BY <2>1, <2>4, StackPush DEF Call, Inv, TypeOK
  <2>6. TypeOK'
    BY <2>1, <2>2, <2>3, <2>5 DEF txvars, Inv, TypeOK
  <2>7. CommittedExclusive'
    BY <2>1, <2>2 DEF txvars, Inv, CommittedExclusive, CanCommit, Intersect
  <2>8. (Scheduled /\ PendingExclusive)'
    BY <2>1, <2>2 DEF txvars, Inv, Scheduled, PendingExclusive, Intersect
  <2>. QED
    BY <2>6, <2>7, <2>8 DEF Inv
<1>. QED
  BY <1>2, <1>3, <1>4 DEF Consideration

(* on_object_ready keeps the types whatever transaction it is called for.  *)
LEMMA OnObjectReadyTypes ==
  ASSUME TypeOK, NEW t \in Tx, NEW conn \in SUBSET Objects, NEW below \in Seq(Frames),
         OnObjectReady(t, conn, below)
  PROVE  /\ ready' \in [Tx -> Nat]
         /\ listening' \in [Tx -> SUBSET Objects]
         /\ stack' \in Seq(Frames)
<1>1. Apply(t, objs[t], FALSE) \in Frames
  BY NewFrames DEF TypeOK
<1>2. <<Apply(t, objs[t], FALSE)>> \o below \in Seq(Frames)
  BY <1>1, StackPush
<1>3. stack' = <<Apply(t, objs[t], FALSE)>> \o below \/ stack' = below
  BY DEF OnObjectReady
<1>4. \E D \in SUBSET Objects : listening' = [listening EXCEPT ![t] = D]
  BY DEF OnObjectReady
<1>5. listening' \in [Tx -> SUBSET Objects]
  BY <1>4 DEF TypeOK
<1>6. ready' \in [Tx -> Nat]
  BY DEF OnObjectReady, TypeOK
<1>. QED
  BY <1>2, <1>3, <1>5, <1>6

(* The same for the timeout callback.                                      *)
LEMMA OnTimeoutTypes ==
  ASSUME TypeOK, NEW t \in Tx, NEW below \in Seq(Frames), OnTimeout(t, below)
  PROVE  /\ listening' \in [Tx -> SUBSET Objects]
         /\ stack' \in Seq(Frames)
<1>1. Apply(t, objs[t], TRUE) \in Frames
  BY NewFrames DEF TypeOK
<1>2. <<Apply(t, objs[t], TRUE)>> \o below \in Seq(Frames)
  BY <1>1, StackPush
<1>. QED
  BY <1>2 DEF OnTimeout, TypeOK

(* transaction_t::commit() leaves the lists alone.                         *)
LEMMA CommitInv ==
  ASSUME Inv, NEW o \in Objects, CommitObject(o) \/ CommitReadyObject(o)
  PROVE  Inv'
<1>1. Top \in Frames /\ Top.fn = "commit" /\ Tail(stack) \in Seq(Frames)
  BY StackTop DEF Inv, CommitObject, CommitReadyObject
<1>2. Top.tx \in Tx /\ [Top EXCEPT !.todo = @ \ {o}] \in Frames
  BY <1>1, CommitFrames
<1>. DEFINE rest == <<[Top EXCEPT !.todo = @ \ {o}]>> \o Tail(stack)
<1>3. rest \in Seq(Frames)
  BY <1>1, <1>2, StackPush
<1>. HIDE DEF rest
<1>4. CASE CommitObject(o)
  <2>1. stack' \in Seq(Frames)
    BY <1>3, <1>4 DEF CommitObject, Become, rest
  <2>2. TypeOK'
    BY <1>2, <1>4, <2>1 DEF CommitObject, mgrvars, Inv, TypeOK
  <2>. QED
    BY <1>4, <2>2, ListsKept DEF CommitObject, mgrvars, Inv
<1>5. CASE CommitReadyObject(o)
  <2>1. OnObjectReady(Top.tx, listening[Top.tx] \cup {o}, rest)
    BY <1>5 DEF CommitReadyObject, rest
  <2>2. listening[Top.tx] \cup {o} \in SUBSET Objects
    BY <1>2 DEF Inv, TypeOK
  <2>3. /\ ready' \in [Tx -> Nat]
        /\ listening' \in [Tx -> SUBSET Objects]
        /\ stack' \in Seq(Frames)
    BY <1>2, <1>3, <2>1, <2>2, OnObjectReadyTypes DEF Inv
  <2>4. TypeOK'
    BY <1>5, <2>3 DEF CommitReadyObject, mgrvars, Inv, TypeOK
  <2>. QED
    BY <1>5, <2>4, ListsKept DEF CommitReadyObject, mgrvars, Inv
<1>. QED
  BY <1>4, <1>5

(* So does its end, with either kind of timeout.                           *)
LEMMA CommitEndInv ==
  ASSUME Inv, CommitEnd \/ CommitEndZeroTimeout
  PROVE  Inv'
<1>1. Top \in Frames /\ Top.fn = "commit" /\ Tail(stack) \in Seq(Frames)
  BY StackTop DEF Inv, CommitEnd, CommitEndZeroTimeout
<1>2. Top.tx \in Tx
  BY <1>1, CommitFrames
<1>3. CASE CommitEnd
  <2>1. TypeOK'
    BY <1>1, <1>2, <1>3 DEF CommitEnd, Return, mgrvars, Inv, TypeOK
  <2>. QED
    BY <1>3, <2>1, ListsKept DEF CommitEnd, mgrvars, Inv
<1>4. CASE CommitEndZeroTimeout
  <2>1. listening' \in [Tx -> SUBSET Objects] /\ stack' \in Seq(Frames)
    BY <1>1, <1>2, <1>4, OnTimeoutTypes DEF CommitEndZeroTimeout, Inv
  <2>2. TypeOK'
    BY <1>4, <2>1 DEF CommitEndZeroTimeout, mgrvars, Inv, TypeOK
  <2>. QED
    BY <1>4, <2>2, ListsKept DEF CommitEndZeroTimeout, mgrvars, Inv
<1>. QED
  BY <1>3, <1>4

(* apply() leaves them alone until its end takes the transaction off.      *)
LEMMA ApplyInv ==
  ASSUME Inv, (\E o \in Objects : ApplyObject(o)) \/ ApplyEnd
  PROVE  Inv'
<1>1. Top \in Frames /\ Top.fn = "apply" /\ Tail(stack) \in Seq(Frames)
  BY StackTop DEF Inv, ApplyObject, ApplyEnd
<1>2. ASSUME NEW o \in Objects, ApplyObject(o) PROVE Inv'
  <2>1. [Top EXCEPT !.todo = @ \ {o}] \in Frames
    BY <1>1, ApplyFrames
  <2>2. stack' \in Seq(Frames)
    BY <1>1, <1>2, <2>1, StackPush DEF ApplyObject, Become
  <2>3. TypeOK'
    BY <1>2, <2>2 DEF ApplyObject, txvars, mgrvars, Inv, TypeOK
  <2>. QED
    BY <1>2, <2>3, ListsKept DEF ApplyObject, txvars, mgrvars, Inv
<1>3. CASE ApplyEnd
  <2>1. Top.tx \in Tx
    BY <1>1, ApplyFrames
  <2>2. Consider(0, 0) \in Frames
    BY NewFrames
  <2>3. stack' \in Seq(Frames)
    BY <1>1, <1>3, <2>2, StackPush DEF ApplyEnd, Become
  <2>4. TypeOK'
    BY <1>3, <2>1, <2>3 DEF ApplyEnd, txvars, Inv, TypeOK
  <2>. QED
    BY <1>3, <2>4, ListsKept DEF ApplyEnd, txvars, Inv
<1>. QED
  BY <1>2, <1>3

(* So do the answers, the timers and idle_clear_done.                      *)
LEMMA EventInv ==
  ASSUME Inv, \/ \E o \in Objects : ClientReady(o)
              \/ \E t \in Tx : TimerFires(t)
              \/ IdleClearDone
  PROVE  Inv'
<1>1. ASSUME NEW o \in Objects, ClientReady(o) PROVE Inv'
  <2>1. CASE \E t \in Tx : o \in listening[t] /\ OnObjectReady(t, listening[t], stack)
    <3>1. /\ ready' \in [Tx -> Nat]
          /\ listening' \in [Tx -> SUBSET Objects]
          /\ stack' \in Seq(Frames)
      BY <2>1, OnObjectReadyTypes DEF Inv, TypeOK
    <3>2. TypeOK'
      BY <1>1, <3>1 DEF ClientReady, mgrvars, Inv, TypeOK
    <3>. QED
      BY <1>1, <3>2, ListsKept DEF ClientReady, mgrvars, Inv
  <2>2. CASE UNCHANGED <<ready, listening, stack>>
    <3>1. TypeOK'
      BY <1>1, <2>2 DEF ClientReady, mgrvars, Inv, TypeOK
    <3>. QED
      BY <1>1, <3>1, ListsKept DEF ClientReady, mgrvars, Inv
  <2>. QED
    BY <1>1, <2>1, <2>2 DEF ClientReady
<1>2. ASSUME NEW t \in Tx, TimerFires(t) PROVE Inv'
  <2>1. listening' \in [Tx -> SUBSET Objects] /\ stack' \in Seq(Frames)
    BY <1>2, OnTimeoutTypes DEF TimerFires, Inv, TypeOK
  <2>2. TypeOK'
    BY <1>2, <2>1 DEF TimerFires, mgrvars, Inv, TypeOK
  <2>. QED
    BY <1>2, <2>2, ListsKept DEF TimerFires, mgrvars, Inv
<1>3. CASE IdleClearDone
  <2>1. TypeOK'
    BY <1>3 DEF IdleClearDone, Inv, TypeOK
  <2>. QED
    BY <1>3, <2>1, ListsKept DEF IdleClearDone, Inv
<1>. QED
  BY <1>1, <1>2, <1>3

(* Every step keeps the types and both lists free of conflicts.            *)
LEMMA NextPreservesInv == Inv /\ [Next]_vars => Inv'
<1>. SUFFICES ASSUME Inv, [Next]_vars PROVE Inv'
  OBVIOUS
<1>1. CASE UNCHANGED vars
  <2>1. TypeOK'
    BY <1>1 DEF vars, txvars, mgrvars, Inv, TypeOK
  <2>. QED
    BY <1>1, <2>1, ListsKept DEF vars, txvars, mgrvars, Inv
<1>. QED
  BY <1>1, ScheduleInv, ConsiderationInv, CommitInv, CommitEndInv, ApplyInv, EventInv
  DEF Next, CallStep

-----------------------------------------------------------------------------
(* The types, with the frames of the call stack, for any number of objects *)
(* and transactions: no callback leaves the manager in a state the code    *)
(* has no name for.                                                        *)
THEOREM TypeCorrect == SafetySpec => []TypeOK
  BY InitInv, NextPreservesInv, PTL DEF SafetySpec, Inv

(* However callbacks nest, two committed transactions never share an       *)
(* object (transaction-manager.hpp:12), because can_commit_transaction()   *)
(* is evaluated against the list as it is when the commit starts.          *)
THEOREM CommittedNeverConflict == SafetySpec => []CommittedExclusive
  BY InitInv, NextPreservesInv, PTL DEF SafetySpec, Inv

(* Waiting transactions never share an object, so the order in which       *)
(* consider_commit() looks at them does not matter.                        *)
THEOREM PendingNeverConflict == SafetySpec => []PendingExclusive
  BY InitInv, NextPreservesInv, PTL DEF SafetySpec, Inv

(* Merging, committing and re-entrant scheduling never drop an object that *)
(* waits: it stays pending until the transaction that holds it starts.     *)
THEOREM UpdatesNeverLost == SafetySpec => NoLostUpdate
<1>. DEFINE Kept == \A o \in UNION {objs[t] : t \in pending} :
                      o \in UNION {objs'[t] : t \in pending' \cup committed'}
<1>1. ASSUME Inv, Next PROVE Kept
  <2>1. SUFFICES ASSUME NEW u \in pending, NEW o \in objs[u]
                 PROVE  \E t \in pending' \cup committed' : o \in objs'[t]
    OBVIOUS
  <2>2. ASSUME NEW S \in SUBSET Objects, Schedule(S)
        PROVE  \E t \in pending' \cup committed' : o \in objs'[t]
    <3>. DEFINE t == nextTx + 1
                all == Coalesced(S)
    <3>1. /\ objs' = [objs EXCEPT ![t] = all]
          /\ pending' = {v \in pending : objs[v] \cap all = {}} \cup {t}
      BY <2>2 DEF Schedule
    <3>2. u # t /\ t \in Tx
      BY <1>1, <2>2, ConstantsAssumption DEF Schedule, Inv, TypeOK, Scheduled, Tx
    <3>3. objs'[t] = all /\ objs'[u] = objs[u]
      BY <1>1, <3>1, <3>2 DEF Inv, TypeOK
    <3>4. CASE objs[u] \cap all = {}
      BY <3>1, <3>3, <3>4
    <3>5. CASE objs[u] \cap all # {}
      <4>1. objs[u] \subseteq all
        BY <1>1, <3>5, CoalescedAbsorbs DEF Inv, Absorbs
      <4>. QED
        BY <3>1, <3>3, <4>1
    <3>. QED
      BY <3>4, <3>5
  <2>3. CASE ConsiderCommit
    BY <2>3 DEF ConsiderCommit, txvars
  <2>4. CASE objs' = objs /\ pending' = pending
    BY <2>4
  <2>. QED
    BY <1>1, <2>2, <2>3, <2>4
    DEF Next, CallStep, Consideration, ConsiderSkip, ConsiderReturn, CommitObject,
        CommitReadyObject, ClientReady, CommitEnd, CommitEndZeroTimeout, TimerFires,
        ApplyObject, ApplyEnd, IdleClearDone, txvars, mgrvars
<1>2. ASSUME Inv, [Next]_vars PROVE [Kept]_vars
  BY <1>1, <1>2
<1>. QED
  BY <1>2, InitInv, NextPreservesInv, PTL DEF SafetySpec, NoLostUpdate

-----------------------------------------------------------------------------

(***************************************************************************)
(* Where a transaction is.  It is pending, then committed; its objects are *)
(* waited for until transaction_t::apply() starts; it is over from then on,*)
(* while its frames return and after.                                      *)
(***************************************************************************)
(* The calls of commit() and apply() on a stack, each once per transaction.*)
Running(s) == {f \in Frames : f.fn # "consider" /\ \E i \in DOMAIN s : s[i] = f}
Once(s) ==
  \A i, j \in DOMAIN s :
    s[i].fn # "consider" /\ s[i].fn = s[j].fn /\ s[i].tx = s[j].tx => i = j

Calls     == Running(stack)
Calling(fn, t) == \E f \in Calls : f.fn = fn /\ f.tx = t

Waiting(t) == t \in committed /\ ~Calling("apply", t)
Over(t)    == t \in (1 .. nextTx) \ pending /\ ~Waiting(t)

(* A transaction is in one list at a time.                                 *)
Places ==
  /\ done \subseteq 1 .. nextTx
  /\ pending \cap committed = {}
  /\ done \cap (pending \cup committed) = {}

(* Nothing is connected or counted before commit().                        *)
Untouched ==
  \A t \in Tx : t \in pending \/ t > nextTx =>
    ready[t] = 0 /\ listening[t] = {} /\ t \notin timer

(* commit() runs before the timer is armed, and has no object left once    *)
(* apply() has started.                                                    *)
CommitsRight ==
  \A f \in Calls : f.fn = "commit" =>
    /\ f.tx \in committed \cup done
    /\ f.tx \notin timer
    /\ f.todo \subseteq objs[f.tx]
    /\ Over(f.tx) => f.todo = {}

(* apply() finds its objects committed, and answered unless it timed out.  *)
AppliesRight ==
  \A f \in Calls : f.fn = "apply" =>
    /\ f.tx \in committed
    /\ f.todo \subseteq objs[f.tx]
    /\ \A o \in f.todo : object[o] = "committed" /\ (o \in awaited => f.timedOut)

(* While objects are waited for, the count is the number of those that have*)
(* answered, and every object is connected or still to be committed.       *)
Counted(t) ==
  /\ listening[t] \subseteq objs[t]
  /\ ready[t] = Cardinality(listening[t] \ awaited)
  /\ ready[t] < Cardinality(objs[t])
  /\ \A o \in listening[t] : object[o] = "committed"
  /\ \A o \in objs[t] \ listening[t] :
       \E f \in Calls : f.fn = "commit" /\ f.tx = t /\ o \in f.todo
  /\ \A f \in Calls : f.fn = "commit" /\ f.tx = t => f.todo \cap listening[t] = {}

(* Once it is over nothing is connected, and nothing can apply it again: it*)
(* was counted to the end, or its timeout has run.                         *)
Finished(t) ==
  /\ listening[t] = {}
  /\ ready[t] <= Cardinality(objs[t])
  /\ ready[t] = Cardinality(objs[t]) \/ (t \notin timer /\ ~Calling("commit", t))

Progress == \A t \in Tx : (Waiting(t) => Counted(t)) /\ (Over(t) => Finished(t))

CallInv ==
  Inv /\ Places /\ Untouched /\ Once(stack) /\ CommitsRight /\ AppliesRight /\ Progress

-----------------------------------------------------------------------------
(* Sets of objects are finite, and counting them is exact.                 *)
LEMMA CountingObjects ==
  ASSUME NEW S \in SUBSET Objects
  PROVE  /\ Cardinality(S) \in Nat
         /\ S # {} => 0 < Cardinality(S)
         /\ Cardinality({}) = 0
         /\ \A T \in SUBSET S : /\ Cardinality(T) <= Cardinality(S)
                              /\ Cardinality(T) = Cardinality(S) => T = S
         /\ \A o \in Objects \ S : Cardinality(S \cup {o}) = Cardinality(S) + 1
<1>1. IsFiniteSet(S)
  BY ConstantsAssumption, FS_Subset
<1>2. Cardinality(S) \in Nat
  BY <1>1, FS_CardinalityType
<1>3. \A T \in SUBSET S : Cardinality(T) <= Cardinality(S)
                         /\ (Cardinality(T) = Cardinality(S) => T = S)
  BY <1>1, FS_Subset
<1>4. \A o \in Objects \ S : Cardinality(S \cup {o}) = Cardinality(S) + 1
  BY <1>1, FS_AddElement
<1>5. (S # {} => 0 < Cardinality(S)) /\ Cardinality({}) = 0
  BY <1>1, <1>2, FS_EmptySet
<1>. QED
  BY <1>2, <1>3, <1>4, <1>5

(* A part of a set of objects is counted below the whole.                  *)
LEMMA CountingParts ==
  ASSUME NEW S \in SUBSET Objects, NEW T \in SUBSET S
  PROVE  Cardinality(S) \in Nat /\ Cardinality(T) \in Nat /\ Cardinality(T) <= Cardinality(S)
<1>1. IsFiniteSet(S)
  BY ConstantsAssumption, FS_Subset
<1>2. IsFiniteSet(T) /\ Cardinality(T) <= Cardinality(S)
  BY <1>1, FS_Subset
<1>. QED
  BY <1>1, <1>2, FS_CardinalityType

(* What a call and a return do to the running calls.                       *)
LEMMA PushedCalls ==
  ASSUME NEW s \in Seq(Frames), Once(s), NEW f \in Frames,
         f.fn = "consider" \/ \A g \in Running(s) : g.fn = f.fn => g.tx # f.tx
  PROVE  /\ Once(<<f>> \o s)
         /\ Running(<<f>> \o s) = Running(s) \cup (IF f.fn = "consider" THEN {} ELSE {f})
<1>. DEFINE r == <<f>> \o s
<1>1. /\ r \in Seq(Frames)
      /\ 1 \in DOMAIN r /\ r[1] = f
      /\ \A i \in DOMAIN s : i \in Nat /\ s[i] \in Frames /\ i + 1 \in DOMAIN r /\ r[i + 1] = s[i]
      /\ \A j \in DOMAIN r : j \in Nat /\ (j = 1 \/ (j - 1 \in DOMAIN s /\ r[j] = s[j - 1]))
  OBVIOUS
<1>. HIDE DEF r
<1>2. Running(r) = Running(s) \cup (IF f.fn = "consider" THEN {} ELSE {f})
  <2>1. ASSUME NEW g \in Running(s) PROVE g \in Running(r)
    <3>1. PICK i \in DOMAIN s : s[i] = g
      BY DEF Running
    <3>. QED
      BY <1>1, <3>1 DEF Running
  <2>2. ASSUME NEW g \in Running(r), g # f PROVE g \in Running(s)
    BY <1>1, <2>2 DEF Running
  <2>3. f \in Running(r) <=> f.fn # "consider"
    BY <1>1 DEF Running
  <2>. QED
    BY <2>1, <2>2, <2>3 DEF Running
<1>3. ASSUME NEW i \in DOMAIN r, NEW j \in DOMAIN r,
             r[i].fn # "consider", r[i].fn = r[j].fn, r[i].tx = r[j].tx
      PROVE  i = j
  <2>1. CASE i = 1 \/ j = 1
    BY <1>1, <1>3, <2>1 DEF Running
  <2>2. CASE i # 1 /\ j # 1
    <3>1. i - 1 \in DOMAIN s /\ j - 1 \in DOMAIN s /\ r[i] = s[i - 1] /\ r[j] = s[j - 1]
      BY <1>1, <2>2
    <3>2. i - 1 = j - 1
      BY <1>3, <3>1 DEF Once
    <3>. QED
      BY <1>1, <3>2
  <2>. QED
    BY <2>1, <2>2
<1>4. Once(r)
  BY <1>3 DEF Once
<1>. QED
  BY <1>2, <1>4 DEF r

(* The return of a call takes it off.                                      *)
LEMMA PoppedCalls ==
  ASSUME NEW s \in Seq(Frames), Once(s), s # <<>>
  PROVE  /\ Once(Tail(s)) /\ Tail(s) \in Seq(Frames)
         /\ Head(s) \in Frames
         /\ Head(s).fn # "consider" => Head(s) \in Running(s)
         /\ Running(Tail(s)) = Running(s) \ {Head(s)}
<1>. DEFINE r == Tail(s)
<1>1. /\ r \in Seq(Frames)
      /\ 1 \in DOMAIN s /\ Head(s) = s[1] /\ s[1] \in Frames
      /\ \A i \in DOMAIN s : i \in Nat /\ (i = 1 \/ (i - 1 \in DOMAIN r /\ r[i - 1] = s[i]))
      /\ \A j \in DOMAIN r : j \in Nat /\ j + 1 \in DOMAIN s /\ r[j] = s[j + 1] /\ j + 1 # 1
  OBVIOUS
<1>. HIDE DEF r
<1>2. ASSUME NEW i \in DOMAIN r, NEW j \in DOMAIN r,
             r[i].fn # "consider", r[i].fn = r[j].fn, r[i].tx = r[j].tx
      PROVE  i = j
  <2>1. i + 1 \in DOMAIN s /\ j + 1 \in DOMAIN s /\ r[i] = s[i + 1] /\ r[j] = s[j + 1]
    BY <1>1
  <2>2. i + 1 = j + 1
    BY <1>2, <2>1 DEF Once
  <2>. QED
    BY <1>1, <2>2
<1>3. Once(r)
  BY <1>2 DEF Once
<1>4. Head(s).fn # "consider" => Head(s) \in Running(s)
  BY <1>1 DEF Running
<1>5. ASSUME NEW f \in Running(r) PROVE f \in Running(s) /\ f # Head(s)
  <2>1. PICK i \in DOMAIN r : r[i] = f
    BY DEF Running
  <2>2. i + 1 \in DOMAIN s /\ s[i + 1] = f /\ i + 1 # 1
    BY <1>1, <2>1
  <2>3. f # s[1]
    BY <1>1, <2>2 DEF Once, Running
  <2>. QED
    BY <1>1, <2>2, <2>3 DEF Running
<1>6. ASSUME NEW f \in Running(s), f # Head(s) PROVE f \in Running(r)
  BY <1>1, <1>6 DEF Running
<1>. QED
  BY <1>1, <1>3, <1>4, <1>5, <1>6 DEF r

(* The running calls are frames, and those of a transaction are its own.   *)
LEMMA RunningCalls ==
  ASSUME CallInv
  PROVE  /\ \A f \in Calls : f \in Frames /\ f.fn \in {"commit", "apply"}
                             /\ f.tx \in Tx /\ f.tx <= nextTx /\ f.tx \notin pending
         /\ \A f, g \in Calls : f.fn = g.fn /\ f.tx = g.tx => f = g
         /\ \A f \in Calls : f.todo \subseteq Objects /\ f.todo \subseteq objs[f.tx]
<1>1. \A f \in Calls : f \in Frames /\ f.fn \in {"commit", "apply"} /\ f.tx \in Tx
                       /\ f.todo \subseteq Objects
  BY DEF Calls, Running, Frames
<1>2. \A f \in Calls : f.tx \in committed \cup done /\ f.todo \subseteq objs[f.tx]
  BY <1>1 DEF CallInv, CommitsRight, AppliesRight
<1>3. \A f \in Calls : f.tx \notin pending /\ f.tx <= nextTx
  BY <1>1, <1>2 DEF CallInv, Places, Inv, Scheduled, TypeOK, Tx
<1>4. \A f, g \in Calls : f.fn = g.fn /\ f.tx = g.tx => f = g
  BY DEF Calls, Running, CallInv, Once
<1>. QED
  BY <1>1, <1>2, <1>3, <1>4

-----------------------------------------------------------------------------
(* The scan changes no commit() or apply() that runs.                      *)
LEMMA QuietCalls ==
  ASSUME CallInv, Inv', Once(stack)', Calls' = Calls,
         UNCHANGED <<txvars, pending, committed, done, object, awaited>>
  PROVE  CallInv'
<1>. USE DEF CallInv, txvars
<1>1. \A fn, t : Calling(fn, t)' = Calling(fn, t)
  BY DEF Calling
<1>2. \A t : Waiting(t)' = Waiting(t) /\ Over(t)' = Over(t)
  BY <1>1 DEF Waiting, Over
<1>3. Places' /\ Untouched'
  BY DEF Places, Untouched
<1>4. CommitsRight' /\ AppliesRight'
  BY <1>2 DEF CommitsRight, AppliesRight
<1>5. Progress'
  BY <1>1, <1>2 DEF Progress, Counted, Finished
<1>. QED
  BY <1>3, <1>4, <1>5

(* A step of consider_commit() that commits nothing touches no call.       *)
LEMMA ScanCalls ==
  ASSUME CallInv, Inv', ConsiderSkip \/ ConsiderReturn
  PROVE  CallInv'
<1>1. /\ stack # <<>> /\ Head(stack).fn = "consider" /\ stack \in Seq(Frames) /\ Once(stack)
      /\ UNCHANGED <<txvars, mgrvars, object, awaited>>
  BY DEF ConsiderSkip, ConsiderReturn, AtTop, CallInv, Inv, TypeOK
<1>2. Once(Tail(stack)) /\ Tail(stack) \in Seq(Frames) /\ Running(Tail(stack)) = Calls
  BY <1>1, PoppedCalls DEF Calls, Running
<1>3. CASE ConsiderSkip
  <2>. DEFINE f == Top
              g == [f EXCEPT !.idx = f.idx + 1]
  <2>1. f \in Frames /\ f.fn = "consider"
    BY <1>1, <1>3, StackTop DEF ConsiderSkip, CallInv, Inv
  <2>2. stack' = <<g>> \o Tail(stack)
    BY <1>3 DEF ConsiderSkip, Become
  <2>. HIDE DEF f
  <2>3. g \in Frames /\ g.fn = "consider"
    BY <2>1, ConsiderFrames
  <2>. HIDE DEF g
  <2>4. Once(stack)' /\ Calls' = Calls
    BY <1>2, <2>2, <2>3, PushedCalls DEF Calls, Once
  <2>. QED
    BY <1>1, <2>4, QuietCalls DEF mgrvars
<1>4. CASE ConsiderReturn
  BY <1>1, <1>2, <1>4, QuietCalls DEF mgrvars, ConsiderReturn, Return, Calls, Once
<1>. QED
  BY <1>3, <1>4

(* A transaction that starts has no frame yet: it was pending.             *)
LEMMA StartCalls ==
  ASSUME CallInv, Inv', ConsiderCommit
  PROVE  CallInv'
<1>. USE DEF CallInv
<1>1. PICK t \in pending :
        /\ pending' = pending \ {t}
        /\ committed' = committed \cup {t}
        /\ Call(IF objs[t] = {} THEN Apply(t, {}, FALSE) ELSE Commit(t, objs[t]))
  BY DEF ConsiderCommit
<1>2. UNCHANGED <<nextTx, objs, ready, listening, timer, done, object, awaited>>
  BY DEF ConsiderCommit, txvars
<1>. DEFINE f == IF objs[t] = {} THEN Apply(t, {}, FALSE) ELSE Commit(t, objs[t])
<1>3. t \in Tx /\ objs[t] \subseteq Objects /\ t \in 1 .. nextTx
  BY DEF Inv, TypeOK, Scheduled
<1>4. /\ f \in Frames /\ f.tx = t /\ f.todo = objs[t] /\ f.fn # "consider"
      /\ IF objs[t] = {} THEN f.fn = "apply" ELSE f.fn = "commit"
  <2>1. f \in Frames
    BY <1>3, NewFrames
  <2>. QED
    BY <2>1 DEF Apply, Commit
<1>5. stack' = <<f>> \o stack /\ stack \in Seq(Frames)
  BY <1>1 DEF Call, Inv, TypeOK
<1>. HIDE DEF f
<1>6. \A g \in Calls : g.tx # t
  BY RunningCalls
<1>7. Once(stack)' /\ Calls' = Calls \cup {f}
  BY <1>4, <1>5, <1>6, PushedCalls DEF Calls, Once
<1>8. ready[t] = 0 /\ listening[t] = {} /\ t \notin timer
  BY <1>3 DEF Untouched
<1>9. \A u \in Tx : u # t =>
        /\ \A fn : Calling(fn, u)' = Calling(fn, u)
        /\ Waiting(u)' = Waiting(u) /\ Over(u)' = Over(u)
  <2>1. ASSUME NEW u \in Tx, u # t, NEW fn PROVE Calling(fn, u)' = Calling(fn, u)
    BY <1>4, <1>7, <2>1 DEF Calling
  <2>. QED
    BY <1>1, <1>2, <2>1 DEF Waiting, Over
<1>10. IF objs[t] = {} THEN Over(t)' /\ ~Waiting(t)' ELSE Waiting(t)' /\ ~Over(t)'
  BY <1>1, <1>2, <1>3, <1>4, <1>6, <1>7 DEF Waiting, Over, Calling
<1>11. Places' /\ Untouched'
  BY <1>1, <1>2, <1>3 DEF Places, Untouched, Inv, Scheduled
<1>12. CommitsRight'
  BY <1>1, <1>2, <1>3, <1>4, <1>6, <1>7, <1>8, <1>9, <1>10, RunningCalls DEF CommitsRight
<1>13. AppliesRight'
  BY <1>1, <1>2, <1>4, <1>7 DEF AppliesRight
<1>14. ASSUME NEW u \in Tx, u # t
       PROVE  (Waiting(u) => Counted(u))' /\ (Over(u) => Finished(u))'
  BY <1>2, <1>4, <1>7, <1>9, <1>14 DEF Progress, Counted, Finished
<1>15. (Waiting(t) => Counted(t))'
  BY <1>2, <1>3, <1>4, <1>6, <1>7, <1>8, <1>10, CountingObjects DEF Counted
<1>16. (Over(t) => Finished(t))'
  <2>1. Cardinality({}) = 0
    BY CountingObjects
  <2>. QED
    BY <1>2, <1>8, <1>10, <2>1 DEF Finished
<1>17. Progress'
  BY <1>14, <1>15, <1>16 DEF Progress
<1>. QED
  BY <1>7, <1>11, <1>12, <1>13, <1>17

(* Scheduling runs nothing; what it merges into the new transaction was    *)
(* never connected.                                                        *)
LEMMA ScheduleCalls ==
  ASSUME CallInv, Inv', NEW S \in SUBSET Objects, Schedule(S)
  PROVE  CallInv'
<1>. USE DEF CallInv
<1>. DEFINE t == nextTx + 1
            all == Coalesced(S)
            f == Consider(0, t)
<1>1. /\ nextTx' = t
      /\ objs' = [objs EXCEPT ![t] = all]
      /\ pending' = {u \in pending : objs[u] \cap all = {}} \cup {t}
      /\ stack' = <<f>> \o stack
      /\ UNCHANGED <<ready, listening, timer, committed, done, object, awaited>>
  BY DEF Schedule, Call
<1>2. t \in Tx /\ nextTx \in Nat /\ \A u \in pending \cup committed \cup done : u <= nextTx
  BY ConstantsAssumption DEF Schedule, Inv, TypeOK, Scheduled, Places, Tx
<1>. HIDE DEF all
<1>3. f \in Frames /\ f.fn = "consider" /\ stack \in Seq(Frames)
  BY <1>2, NewFrames DEF Consider, Inv, TypeOK
<1>. HIDE DEF f
<1>4. Once(stack)' /\ Calls' = Calls
  BY <1>1, <1>3, PushedCalls DEF Calls
<1>5. \A fn, u : Calling(fn, u)' = Calling(fn, u)
  BY <1>4 DEF Calling
<1>6. \A u \in Tx : Waiting(u)' = Waiting(u)
  BY <1>1, <1>5 DEF Waiting
<1>7. \A u \in Tx : u <= nextTx => objs'[u] = objs[u] /\ u # t
  BY <1>1, <1>2 DEF Inv, TypeOK, Tx
<1>8. Places' /\ Untouched'
  BY <1>1, <1>2 DEF Places, Untouched, Tx
<1>9. \A u \in Tx : Over(u)' => u <= nextTx /\ (Over(u) \/ u \in pending)
  BY <1>1, <1>2, <1>6 DEF Over, Tx
<1>10. CommitsRight'
  BY <1>1, <1>4, <1>7, <1>9, RunningCalls DEF CommitsRight
<1>11. AppliesRight'
  BY <1>1, <1>4, <1>7, RunningCalls DEF AppliesRight
<1>12. ASSUME NEW u \in Tx, Waiting(u)' PROVE Counted(u)'
  BY <1>1, <1>2, <1>4, <1>6, <1>7, <1>12 DEF Progress, Counted, Waiting
<1>13. ASSUME NEW u \in Tx, Over(u)' PROVE Finished(u)'
  <2>1. u <= nextTx /\ objs'[u] = objs[u] /\ objs[u] \subseteq Objects
    BY <1>7, <1>9, <1>13 DEF Inv, TypeOK
  <2>2. CASE Over(u)
    BY <1>1, <1>5, <2>1, <2>2 DEF Progress, Finished
  <2>3. CASE u \in pending
    <3>1. ready[u] = 0 /\ listening[u] = {} /\ u \notin timer /\ ~Calling("commit", u)
      BY <2>3, RunningCalls DEF Untouched, Calling
    <3>. QED
      BY <1>1, <1>5, <2>1, <3>1, CountingObjects DEF Finished
  <2>. QED
    BY <1>9, <1>13, <2>2, <2>3
<1>. QED
  BY <1>4, <1>8, <1>10, <1>11, <1>12, <1>13 DEF Progress

-----------------------------------------------------------------------------
(* A ready signal reaches t, whose commit() has connected conn: if it is   *)
(* the last one, every object is connected and has answered.               *)
LEMMA ReadyCalls ==
  ASSUME CallInv, Inv', NEW t \in Tx, Waiting(t), NEW o \in objs[t],
         NEW conn \in SUBSET objs[t], o \in conn,
         NEW below \in Seq(Frames), Once(below),
         OnObjectReady(t, conn, below),
         UNCHANGED <<nextTx, objs, timer, mgrvars>>,
         awaited' = awaited \ {o},
         ready[t] + 1 = Cardinality(conn \ awaited'),
         \A x \in conn : object'[x] = "committed",
         \A x \in Objects : x # o => object'[x] = object[x],
         \A fn, u : (\E f \in Running(below) : f.fn = fn /\ f.tx = u) <=> Calling(fn, u),
         \A f \in Running(below) : f.fn = "apply" \/ f.tx # t => f \in Calls,
         \A f \in Calls : f.tx # t => f \in Running(below),
         \A f \in Running(below) : f.fn = "commit" /\ f.tx = t =>
            f.todo \subseteq objs[t] /\ f.todo \cap conn = {},
         \A x \in objs[t] \ conn : \E f \in Running(below) :
            f.fn = "commit" /\ f.tx = t /\ x \in f.todo
  PROVE  CallInv'
<1>. USE DEF CallInv
<1>. DEFINE D == Running(below)
            a == Apply(t, objs[t], FALSE)
<1>. HIDE DEF D
<1>1. /\ t \in committed /\ t \in 1 .. nextTx /\ t \notin pending
      /\ objs[t] \subseteq Objects /\ o \in Objects
      /\ \A f \in D : ~(f.fn = "apply" /\ f.tx = t)
  BY DEF Waiting, Inv, TypeOK, Scheduled, Places, Calling, D
<1>2. \A u \in committed : u # t => o \notin objs[u]
  BY <1>1 DEF Inv, CommittedExclusive, Intersect
<1>3. ready' = [ready EXCEPT ![t] = ready[t] + 1]
  BY DEF OnObjectReady
<1>4. a \in Frames /\ a.fn = "apply" /\ a.tx = t /\ a.todo = objs[t] /\ a.timedOut = FALSE
  BY <1>1, NewFrames DEF Apply
<1>. HIDE DEF a
<1>5. \A f \in D : f \in Frames /\ f.fn \in {"commit", "apply"} /\ f.tx \in Tx /\ f.tx <= nextTx
                 /\ f.tx \notin pending
  BY <1>1, RunningCalls DEF D, Running, Frames
<1>6. Places' /\ Untouched'
  BY <1>1, <1>3 DEF OnObjectReady, mgrvars, Places, Untouched, Inv, TypeOK
<1>7. \A u \in Tx : u # t => ready'[u] = ready[u] /\ listening'[u] = listening[u]
  BY <1>3 DEF OnObjectReady, Inv, TypeOK
<1>8. CASE ready[t] + 1 = Cardinality(objs[t])
  <2>1. /\ listening' = [listening EXCEPT ![t] = {}]
        /\ stack' = <<a>> \o below
    BY <1>8 DEF OnObjectReady, a
  <2>2. conn \ awaited' = objs[t]
    BY <1>1, <1>8, CountingObjects
  <2>3. Once(stack)' /\ Calls' = D \cup {a}
    BY <1>1, <1>4, <2>1, PushedCalls DEF Calls, D
  <2>4. \A u \in Tx : u # t => /\ \A fn : Calling(fn, u)' = Calling(fn, u)
                               /\ Waiting(u)' = Waiting(u) /\ Over(u)' = Over(u)
    <3>1. ASSUME NEW u \in Tx, u # t, NEW fn PROVE Calling(fn, u)' = Calling(fn, u)
      BY <1>4, <2>3, <3>1 DEF Calling, D
    <3>. QED
      BY <3>1 DEF Waiting, Over, mgrvars
  <2>5. Over(t)' /\ ~Waiting(t)'
    BY <1>1, <1>4, <2>3 DEF Waiting, Over, Calling, mgrvars
  <2>6. \A f \in D : f.fn = "commit" /\ f.tx = t => f.todo = {}
    BY <2>2 DEF D
  <2>7. \A f \in D : f.fn = "commit" =>
          f.tx \in committed \cup done /\ f.tx \notin timer /\ f.todo \subseteq objs[f.tx]
    <3>1. ASSUME NEW f \in D, f.fn = "commit", f.tx # t
          PROVE  f.tx \in committed \cup done /\ f.tx \notin timer /\ f.todo \subseteq objs[f.tx]
      BY <3>1 DEF CommitsRight, D
    <3>2. Calling("commit", t) => t \notin timer
      BY DEF Calling, CommitsRight
    <3>. QED
      BY <1>1, <3>1, <3>2 DEF D
  <2>8. CommitsRight'
    BY <1>4, <1>5, <2>3, <2>4, <2>5, <2>6, <2>7 DEF CommitsRight, mgrvars, D
  <2>9. AppliesRight'
    <3>1. ASSUME NEW f \in D, f.fn = "apply"
          PROVE  /\ f.tx \in committed /\ f.todo \subseteq objs[f.tx]
                 /\ \A x \in f.todo : object'[x] = "committed" /\ (x \in awaited' => f.timedOut)
      <4>1. f \in Calls /\ f.tx # t
        BY <1>1, <3>1 DEF D
      <4>2. f.todo \subseteq Objects /\ o \notin f.todo
        BY <1>2, <3>1, <4>1, RunningCalls DEF AppliesRight
      <4>. QED
        BY <3>1, <4>1, <4>2 DEF AppliesRight
    <3>. QED
      BY <1>1, <1>4, <2>2, <2>3, <3>1 DEF AppliesRight, mgrvars
  <2>10. ASSUME NEW u \in Tx, u # t
         PROVE  (Waiting(u) => Counted(u))' /\ (Over(u) => Finished(u))'
    <3>1. (Over(u) => Finished(u))'
      BY <1>7, <2>4, <2>10 DEF Progress, Finished
    <3>2. ASSUME Waiting(u) PROVE Counted(u)'
      <4>1. o \notin objs[u] /\ Counted(u) /\ objs[u] \subseteq Objects
        BY <1>2, <2>10, <3>2 DEF Waiting, Progress, Inv, TypeOK
      <4>2. listening'[u] \ awaited' = listening[u] \ awaited
        BY <1>7, <2>10, <4>1 DEF Counted
      <4>3. \A f : f.tx = u => (f \in Calls' <=> f \in Calls)
        BY <1>4, <2>3, <2>10 DEF D
      <4>. QED
        BY <1>7, <2>10, <4>1, <4>2, <4>3 DEF Counted
    <3>. QED
      BY <2>4, <2>10, <3>1, <3>2
  <2>11. Finished(t)'
    BY <1>1, <1>3, <1>8, <2>1, CountingObjects DEF Finished, Inv, TypeOK
  <2>. QED
    BY <1>6, <2>3, <2>5, <2>8, <2>9, <2>10, <2>11 DEF Progress
<1>9. CASE ready[t] + 1 # Cardinality(objs[t])
  <2>1. /\ listening' = [listening EXCEPT ![t] = conn]
        /\ stack' = below
    BY <1>9 DEF OnObjectReady
  <2>2. Once(stack)' /\ Calls' = D
    BY <2>1 DEF Calls, D
  <2>3. ASSUME NEW fn, NEW u PROVE Calling(fn, u)' <=> Calling(fn, u)
    <3>1. Calling(fn, u)' <=> \E f \in D : f.fn = fn /\ f.tx = u
      BY <2>2 DEF Calling
    <3>. QED
      BY <3>1 DEF D
  <2>4. \A u : Waiting(u)' = Waiting(u) /\ Over(u)' = Over(u)
    BY <2>3 DEF Waiting, Over, mgrvars
  <2>5. CommitsRight'
    <3>1. ASSUME NEW f \in D, f.fn = "commit", f.tx # t
          PROVE  /\ f.tx \in committed \cup done /\ f.tx \notin timer /\ f.todo \subseteq objs[f.tx]
                 /\ Over(f.tx) => f.todo = {}
      BY <3>1 DEF CommitsRight, D
    <3>2. Calling("commit", t) => t \notin timer
      BY DEF Calling, CommitsRight
    <3>. QED
      BY <1>1, <2>2, <2>4, <3>1, <3>2 DEF CommitsRight, mgrvars, D, Over
  <2>6. AppliesRight'
    <3>1. ASSUME NEW f \in D, f.fn = "apply"
          PROVE  /\ f.tx \in committed /\ f.todo \subseteq objs[f.tx]
                 /\ \A x \in f.todo : object'[x] = "committed" /\ (x \in awaited' => f.timedOut)
      <4>1. f \in Calls /\ f.tx # t
        BY <1>1, <3>1 DEF D
      <4>2. f.todo \subseteq Objects /\ o \notin f.todo
        BY <1>2, <3>1, <4>1, RunningCalls DEF AppliesRight
      <4>. QED
        BY <3>1, <4>1, <4>2 DEF AppliesRight
    <3>. QED
      BY <2>2, <3>1 DEF AppliesRight, mgrvars
  <2>7. ASSUME NEW u \in Tx, u # t
        PROVE  (Waiting(u) => Counted(u))' /\ (Over(u) => Finished(u))'
    <3>1. (Over(u) => Finished(u))'
      BY <1>7, <2>3, <2>4, <2>7 DEF Progress, Finished
    <3>2. ASSUME Waiting(u) PROVE Counted(u)'
      <4>1. o \notin objs[u] /\ Counted(u) /\ objs[u] \subseteq Objects
        BY <1>2, <2>7, <3>2 DEF Waiting, Progress, Inv, TypeOK
      <4>2. listening'[u] \ awaited' = listening[u] \ awaited
        BY <1>7, <2>7, <4>1 DEF Counted
      <4>3. \A f : f.tx = u => (f \in Calls' <=> f \in Calls)
        BY <2>2, <2>7 DEF D
      <4>. QED
        BY <1>7, <2>7, <4>1, <4>2, <4>3 DEF Counted
    <3>. QED
      BY <2>4, <2>7, <3>1, <3>2
  <2>8. Counted(t)'
    <3>1. /\ Cardinality(objs[t]) \in Nat /\ Cardinality(conn \ awaited') \in Nat
          /\ Cardinality(conn \ awaited') <= Cardinality(objs[t])
      BY <1>1, CountingParts
    <3>2. ready'[t] = ready[t] + 1 /\ listening'[t] = conn
      BY <1>3, <2>1 DEF Inv, TypeOK
    <3>. QED
      BY <1>9, <2>2, <3>1, <3>2 DEF Counted, D
  <2>. QED
    BY <1>6, <2>2, <2>4, <2>5, <2>6, <2>7, <2>8 DEF Progress, Over
<1>. QED
  BY <1>8, <1>9

(* One iteration of transaction_t::commit() and what the object does in it.*)
LEMMA CommitCalls ==
  ASSUME CallInv, Inv', NEW o \in Objects, CommitObject(o) \/ CommitReadyObject(o)
  PROVE  CallInv'
<1>. USE DEF CallInv
<1>0. PICK f : f = Top
  OBVIOUS
<1>. DEFINE t == f.tx
            g == [f EXCEPT !.todo = f.todo \ {o}]
            rest == <<g>> \o Tail(stack)
            conn == listening[t] \cup {o}
<1>1. /\ stack # <<>> /\ f = Head(stack) /\ f.fn = "commit" /\ o \in f.todo
      /\ stack \in Seq(Frames)
  BY <1>0 DEF CommitObject, CommitReadyObject, AtTop, Top, Inv, TypeOK
<1>2. CommitObject(o) =>
        /\ listening' = [listening EXCEPT ![t] = conn]
        /\ awaited' = awaited \cup {o}
        /\ stack' = rest
        /\ UNCHANGED ready
  BY <1>0 DEF CommitObject, Become
<1>3. CommitReadyObject(o) => OnObjectReady(t, conn, rest) /\ awaited' = awaited \ {o}
  BY <1>0 DEF CommitReadyObject
<1>4. object' = [object EXCEPT ![o] = "committed"] /\ UNCHANGED <<nextTx, objs, timer, mgrvars>>
  BY DEF CommitObject, CommitReadyObject
<1>5. f \in Calls /\ Once(Tail(stack)) /\ Tail(stack) \in Seq(Frames)
      /\ Running(Tail(stack)) = Calls \ {f}
  BY <1>1, PoppedCalls DEF Calls
<1>6. /\ t \in Tx /\ f \in Frames /\ f.todo \subseteq Objects /\ f.todo \subseteq objs[t]
      /\ \A h \in Calls : h.fn = "commit" /\ h.tx = t => h = f
  BY <1>1, <1>5, RunningCalls
<1>7. g \in Frames /\ g.fn = "commit" /\ g.tx = t /\ g.todo = f.todo \ {o}
  BY <1>1, <1>6, CommitFrames
<1>. HIDE DEF g
<1>8. Once(rest) /\ Running(rest) = (Calls \ {f}) \cup {g} /\ rest \in Seq(Frames)
  BY <1>1, <1>5, <1>6, <1>7, PushedCalls, StackPush
<1>. HIDE DEF rest
<1>9. Waiting(t) /\ t \in committed
  BY <1>1, <1>5, <1>6, RunningCalls DEF CommitsRight, Over, Waiting, Inv, Scheduled, Tx, TypeOK
<1>10. \A u \in committed : u # t => o \notin objs[u]
  BY <1>1, <1>6, <1>9 DEF Inv, CommittedExclusive, Intersect
<1>11. Counted(t) /\ o \notin listening[t] /\ conn \subseteq objs[t]
  BY <1>1, <1>5, <1>6, <1>9 DEF Progress, Counted
<1>12. \A x \in objs[t] \ conn : x \in g.todo
  BY <1>5, <1>6, <1>7, <1>11 DEF Counted
<1>13. g.todo \subseteq objs[t] /\ g.todo \cap conn = {}
  BY <1>1, <1>5, <1>6, <1>7, <1>11 DEF Counted
<1>14. \A x \in conn : object'[x] = "committed"
  BY <1>4, <1>6, <1>11 DEF Counted, Inv, TypeOK
<1>15. \A x \in Objects : x # o => object'[x] = object[x]
  BY <1>4 DEF Inv, TypeOK
<1>16. \A fn, u : (\E h \in Running(rest) : h.fn = fn /\ h.tx = u) <=> Calling(fn, u)
  BY <1>1, <1>5, <1>7, <1>8 DEF Calling
<1>17. CASE CommitReadyObject(o)
  <2>1. ready[t] + 1 = Cardinality(conn \ awaited')
    <3>1. conn \ awaited' = (listening[t] \ awaited) \cup {o}
      BY <1>3, <1>17
    <3>2. listening[t] \ awaited \in SUBSET Objects /\ o \in Objects \ (listening[t] \ awaited)
      BY <1>6, <1>11 DEF Inv, TypeOK
    <3>3. Cardinality((listening[t] \ awaited) \cup {o}) = Cardinality(listening[t] \ awaited) + 1
      BY <3>2, CountingObjects
    <3>. QED
      BY <1>11, <3>1, <3>3 DEF Counted
  <2>2. \A h \in Running(rest) : h.fn = "apply" \/ h.tx # t => h \in Calls
    BY <1>7, <1>8
  <2>3. \A h \in Calls : h.tx # t => h \in Running(rest)
    BY <1>8
  <2>4. \A h \in Running(rest) : h.fn = "commit" /\ h.tx = t =>
          h.todo \subseteq objs[t] /\ h.todo \cap conn = {}
    <3>1. \A h \in Running(rest) : h.fn = "commit" /\ h.tx = t => h = g
      BY <1>6, <1>8
    <3>. QED
      BY <1>13, <3>1
  <2>5. \A x \in objs[t] \ conn : \E h \in Running(rest) :
          h.fn = "commit" /\ h.tx = t /\ x \in h.todo
    BY <1>7, <1>8, <1>12
  <2>6. o \in objs[t] /\ o \in conn /\ conn \in SUBSET objs[t]
    BY <1>1, <1>6, <1>11
  <2>. HIDE DEF conn, t, CallInv
  <2>. QED
    BY <1>3, <1>4, <1>6, <1>8, <1>9, <1>14, <1>15, <1>16, <1>17,
       <2>1, <2>2, <2>3, <2>4, <2>5, <2>6, ReadyCalls
<1>18. CASE CommitObject(o)
  <2>1. Once(stack)' /\ Calls' = (Calls \ {f}) \cup {g}
    BY <1>2, <1>8, <1>18 DEF Calls
  <2>2. ASSUME NEW fn, NEW u PROVE Calling(fn, u)' = Calling(fn, u)
    BY <1>2, <1>16, <1>18 DEF Calling, Calls
  <2>3. \A u : Waiting(u)' = Waiting(u) /\ Over(u)' = Over(u)
    BY <1>4, <2>2 DEF Waiting, Over, mgrvars
  <2>4. listening'[t] = conn /\ \A u \in Tx : u # t => listening'[u] = listening[u]
    BY <1>2, <1>6, <1>18 DEF Inv, TypeOK
  <2>5. Places' /\ Untouched'
    BY <1>2, <1>4, <1>9, <1>18, <2>4 DEF Places, Untouched, mgrvars, Inv, Scheduled, TypeOK
  <2>6. CommitsRight'
    BY <1>1, <1>4, <1>5, <1>6, <1>7, <2>1, <2>3 DEF CommitsRight, mgrvars
  <2>7. AppliesRight'
    <3>1. ASSUME NEW h \in Calls, h.fn = "apply" PROVE o \notin h.todo
      BY <1>9, <1>10, <3>1 DEF AppliesRight, Waiting, Calling
    <3>2. \A h \in Calls' : h.fn = "apply" => h \in Calls
      BY <1>7, <2>1
    <3>. QED
      BY <1>2, <1>4, <1>15, <1>18, <3>1, <3>2, RunningCalls DEF AppliesRight, mgrvars
  <2>8. ASSUME NEW u \in Tx, u # t, Waiting(u) PROVE Counted(u)'
    <3>1. o \notin objs[u] /\ Counted(u) /\ objs[u] \subseteq Objects
      BY <1>10, <2>8 DEF Waiting, Progress, Inv, TypeOK
    <3>2. listening'[u] \ awaited' = listening[u] \ awaited
      BY <1>2, <1>18, <2>4, <2>8, <3>1 DEF Counted
    <3>3. \A h : h.tx = u => (h \in Calls' <=> h \in Calls)
      BY <1>7, <2>1, <2>8
    <3>. QED
      BY <1>2, <1>4, <1>15, <1>18, <2>4, <2>8, <3>1, <3>2, <3>3 DEF Counted
  <2>9. Counted(t)'
    <3>1. conn \ awaited' = listening[t] \ awaited
      BY <1>2, <1>11, <1>18
    <3>2. \A h \in Calls' : h.fn = "commit" /\ h.tx = t => h = g
      BY <1>6, <2>1
    <3>3. g \in Calls'
      BY <2>1
    <3>. QED
      BY <1>2, <1>4, <1>7, <1>11, <1>12, <1>13, <1>14, <1>18, <2>4, <3>1, <3>2, <3>3 DEF Counted
  <2>10. ASSUME NEW u \in Tx, Over(u) PROVE Finished(u)'
    BY <1>2, <1>4, <1>9, <1>18, <2>2, <2>4, <2>10 DEF Progress, Finished, Over
  <2>. QED
    BY <2>1, <2>3, <2>5, <2>6, <2>7, <2>8, <2>9, <2>10 DEF Progress
<1>. QED
  BY <1>17, <1>18

(* A client answers.                                                       *)
LEMMA AnswerCalls ==
  ASSUME CallInv, Inv', NEW o \in Objects, ClientReady(o)
  PROVE  CallInv'
<1>. USE DEF CallInv
<1>1. /\ stack = <<>> /\ awaited' = awaited \ {o}
      /\ UNCHANGED <<nextTx, objs, timer, mgrvars, object>>
  BY DEF ClientReady, InEventLoop
<1>2. Calls = {}
  BY <1>1 DEF Calls, Running
<1>3. ASSUME NEW t \in Tx, o \in listening[t], OnObjectReady(t, listening[t], stack)
      PROVE  CallInv'
  <2>1. Waiting(t) /\ Counted(t)
    BY <1>3 DEF Progress, Finished, Over, Untouched, Inv, TypeOK, Tx
  <2>2. objs[t] \subseteq Objects /\ listening[t] \in SUBSET objs[t]
    BY <2>1 DEF Inv, TypeOK, Counted
  <2>3. o \in awaited
    BY DEF ClientReady
  <2>4. ready[t] + 1 = Cardinality(listening[t] \ awaited')
    <3>1. listening[t] \ awaited' = (listening[t] \ awaited) \cup {o}
      BY <1>1, <1>3
    <3>2. listening[t] \ awaited \in SUBSET Objects /\ o \in Objects \ (listening[t] \ awaited)
      BY <2>2, <2>3
    <3>3. Cardinality((listening[t] \ awaited) \cup {o}) = Cardinality(listening[t] \ awaited) + 1
      BY <3>2, CountingObjects
    <3>. QED
      BY <2>1, <3>1, <3>3 DEF Counted
  <2>5. \A fn, u : (\E f \in Running(stack) : f.fn = fn /\ f.tx = u) <=> Calling(fn, u)
    BY DEF Calling, Calls
  <2>6. stack \in Seq(Frames) /\ Once(stack) /\ Running(stack) = {}
    BY <1>2 DEF Inv, TypeOK, Calls
  <2>7. \A x \in listening[t] : object'[x] = "committed"
    BY <1>1, <2>1 DEF Counted
  <2>8. \A x \in objs[t] \ listening[t] : FALSE
    BY <1>2, <2>1 DEF Counted
  <2>9. o \in objs[t]
    BY <1>3, <2>2
  <2>. HIDE DEF CallInv
  <2>. QED
    BY <1>1, <1>2, <1>3, <2>1, <2>2, <2>4, <2>5, <2>6, <2>7, <2>8, <2>9, ReadyCalls
<1>4. CASE /\ \A t \in Tx : o \notin listening[t]
           /\ UNCHANGED <<ready, listening, stack>>
  <2>1. Calls' = Calls /\ Once(stack)'
    BY <1>4 DEF Calls
  <2>2. \A u : Waiting(u)' = Waiting(u) /\ Over(u)' = Over(u)
    BY <1>1, <2>1 DEF Waiting, Over, Calling, mgrvars
  <2>3. \A t \in Tx : listening[t] \ awaited' = listening[t] \ awaited
    BY <1>1, <1>4
  <2>4. Places' /\ Untouched' /\ CommitsRight' /\ AppliesRight'
    BY <1>1, <1>2, <1>4, <2>1 DEF Places, Untouched, CommitsRight, AppliesRight, mgrvars
  <2>5. Progress'
    <3>1. ASSUME NEW t \in Tx, Counted(t) PROVE Counted(t)'
      BY <1>1, <1>4, <2>1, <2>3, <3>1 DEF Counted
    <3>2. ASSUME NEW t \in Tx, Finished(t) PROVE Finished(t)'
      BY <1>1, <1>4, <2>1, <3>2 DEF Finished, Calling
    <3>. QED
      BY <2>2, <3>1, <3>2 DEF Progress
  <2>. QED
    BY <2>1, <2>4, <2>5
<1>. QED
  BY <1>3, <1>4 DEF ClientReady

(* transaction_t::apply() starts because time is up: all objects are       *)
(* committed, and the timer of t is spent.                                 *)
LEMMA TimedOutCalls ==
  ASSUME CallInv, Inv', NEW t \in Tx, Waiting(t),
         NEW below \in Seq(Frames), Once(below),
         stack' = <<Apply(t, objs[t], TRUE)>> \o below,
         listening' = [listening EXCEPT ![t] = {}],
         timer' \subseteq timer, t \notin timer',
         \A u \in Tx : u # t => (u \in timer <=> u \in timer'),
         UNCHANGED <<nextTx, objs, ready, mgrvars, object, awaited>>,
         objs[t] = listening[t],
         Running(below) = {f \in Calls : ~(f.fn = "commit" /\ f.tx = t)}
  PROVE  CallInv'
<1>. USE DEF CallInv
<1>1. PICK a : a = Apply(t, objs[t], TRUE)
  OBVIOUS
<1>2. a \in Frames /\ a.fn = "apply" /\ a.tx = t /\ a.todo = objs[t] /\ a.timedOut = TRUE
  BY <1>1, NewFrames DEF Apply, Inv, TypeOK
<1>3. t \in committed /\ t \in 1 .. nextTx /\ t \notin pending /\ Counted(t)
  BY DEF Waiting, Inv, TypeOK, Scheduled, Places, Progress
<1>4. \A f \in Calls : ~(f.fn = "apply" /\ f.tx = t)
  BY DEF Waiting, Calling
<1>5. Once(stack)' /\ Calls' = {f \in Calls : ~(f.fn = "commit" /\ f.tx = t)} \cup {a}
  <2>1. stack' = <<a>> \o below
    BY <1>1
  <2>2. \A f \in Running(below) : f.fn = a.fn => f.tx # a.tx
    BY <1>2, <1>4
  <2>. QED
    BY <1>2, <2>1, <2>2, PushedCalls DEF Calls
<1>6. \A f \in Calls' : f.tx = t => f = a
  BY <1>2, <1>4, <1>5, RunningCalls
<1>7. \A f : f.tx # t => (f \in Calls' <=> f \in Calls)
  BY <1>2, <1>5
<1>8. \A u \in Tx : u # t => /\ \A fn : Calling(fn, u)' = Calling(fn, u)
                             /\ Waiting(u)' = Waiting(u) /\ Over(u)' = Over(u)
  <2>1. ASSUME NEW u \in Tx, u # t, NEW fn PROVE Calling(fn, u)' = Calling(fn, u)
    BY <1>7, <2>1 DEF Calling
  <2>. QED
    BY <2>1 DEF Waiting, Over, mgrvars
<1>9. Over(t)' /\ ~Waiting(t)' /\ ~Calling("commit", t)'
  BY <1>2, <1>3, <1>5, <1>6 DEF Waiting, Over, Calling, mgrvars
<1>10. Places' /\ Untouched'
  BY <1>3 DEF Places, Untouched, mgrvars, Inv, TypeOK
<1>11. CommitsRight'
  BY <1>2, <1>5, <1>6, <1>7, <1>8, RunningCalls DEF CommitsRight, mgrvars
<1>12. AppliesRight'
  BY <1>2, <1>3, <1>5, <1>6, <1>7 DEF AppliesRight, mgrvars, Counted
<1>13. ASSUME NEW u \in Tx, u # t
       PROVE  (Waiting(u) => Counted(u))' /\ (Over(u) => Finished(u))'
  <2>1. listening'[u] = listening[u]
    BY <1>13 DEF Inv, TypeOK
  <2>2. (Over(u) => Finished(u))'
    BY <1>8, <1>13, <2>1 DEF Progress, Finished
  <2>3. ASSUME Waiting(u) PROVE Counted(u)'
    <3>1. Counted(u)
      BY <2>3 DEF Progress
    <3>. QED
      BY <1>7, <1>13, <2>1, <3>1 DEF Counted
  <2>. QED
    BY <1>8, <1>13, <2>2, <2>3
<1>14. Finished(t)'
  <2>1. objs[t] \in SUBSET Objects /\ ready[t] \in Nat
    BY DEF Inv, TypeOK
  <2>2. Cardinality(objs[t]) \in Nat
    BY <2>1, CountingParts
  <2>. QED
    BY <1>3, <1>9, <2>1, <2>2 DEF Finished, Counted, Inv, TypeOK
<1>. QED
  BY <1>5, <1>9, <1>10, <1>11, <1>12, <1>13, <1>14 DEF Progress

(* transaction_t::commit() returns, with or without its timer.             *)
LEMMA ReturnCalls ==
  ASSUME CallInv, Inv', NEW f \in Calls, f.fn = "commit", f.todo = {},
         Once(stack)', Calls' = Calls \ {f},
         timer' \in {timer, timer \cup {f.tx}},
         UNCHANGED <<nextTx, objs, ready, listening, mgrvars, object, awaited>>
  PROVE  CallInv'
<1>. USE DEF CallInv
<1>. DEFINE t == f.tx
<1>1. /\ t \in Tx /\ t <= nextTx /\ t \notin pending
      /\ \A g \in Calls : g.fn = "commit" /\ g.tx = t => g = f
  BY RunningCalls
<1>2. \A u \in Tx : u # t => \A fn : Calling(fn, u)' = Calling(fn, u)
  <2>1. ASSUME NEW u \in Tx, u # t, NEW fn PROVE Calling(fn, u)' = Calling(fn, u)
    BY <2>1 DEF Calling
  <2>. QED
    BY <2>1
<1>3. \A u : Calling("apply", u)' = Calling("apply", u)
  <2>1. ASSUME NEW u PROVE Calling("apply", u)' = Calling("apply", u)
    BY DEF Calling
  <2>. QED
    BY <2>1
<1>4. \A u : Waiting(u)' = Waiting(u) /\ Over(u)' = Over(u)
  BY <1>3 DEF Waiting, Over, mgrvars
<1>5. Places' /\ Untouched'
  BY <1>1 DEF Places, Untouched, mgrvars, Inv, TypeOK, Tx
<1>6. CommitsRight'
  BY <1>1, <1>4 DEF CommitsRight, mgrvars
<1>7. AppliesRight'
  BY DEF AppliesRight, mgrvars
<1>8. ASSUME NEW u \in Tx, Counted(u) PROVE Counted(u)'
  BY <1>1, <1>8 DEF Counted
<1>9. ASSUME NEW u \in Tx, Over(u) PROVE Finished(u)'
  <2>1. CASE u = t
    BY <1>9, <2>1 DEF Progress, Finished, Calling
  <2>2. CASE u # t
    BY <1>2, <1>9, <2>2 DEF Progress, Finished
  <2>. QED
    BY <2>1, <2>2
<1>. QED
  BY <1>4, <1>5, <1>6, <1>7, <1>8, <1>9 DEF Progress

(* The end of commit() arms the timer, or runs the timeout at once.        *)
LEMMA CommitEndCalls ==
  ASSUME CallInv, Inv', CommitEnd \/ CommitEndZeroTimeout
  PROVE  CallInv'
<1>0. PICK f : f = Top
  OBVIOUS
<1>. DEFINE t == f.tx
            below == Tail(stack)
<1>1. /\ stack # <<>> /\ f = Head(stack) /\ f.fn = "commit" /\ f.todo = {}
      /\ stack \in Seq(Frames) /\ Once(stack)
  BY <1>0 DEF CommitEnd, CommitEndZeroTimeout, AtTop, Top, CallInv, Inv, TypeOK
<1>2. f \in Calls /\ Once(below) /\ below \in Seq(Frames) /\ Running(below) = Calls \ {f}
  BY <1>1, PoppedCalls DEF Calls
<1>3. t \in Tx /\ \A g \in Calls : g.fn = "commit" /\ g.tx = t => g = f
  BY <1>1, <1>2, RunningCalls
<1>4. UNCHANGED <<nextTx, objs, ready, mgrvars, object, awaited>>
  BY DEF CommitEnd, CommitEndZeroTimeout
<1>5. CASE CommitEnd
  <2>1. UNCHANGED listening /\ timer' = timer \cup {t} /\ stack' = below
    BY <1>0, <1>5 DEF CommitEnd, Return
  <2>2. Once(stack)' /\ Calls' = Calls \ {f}
    BY <1>2, <2>1 DEF Calls
  <2>. QED
    BY <1>1, <1>2, <1>4, <2>1, <2>2, ReturnCalls
<1>6. CASE CommitEndZeroTimeout
  <2>1. OnTimeout(t, below) /\ timer' = timer
    BY <1>0, <1>6 DEF CommitEndZeroTimeout
  <2>2. CASE ready[t] < Cardinality(objs[t])
    <3>1. stack' = <<Apply(t, objs[t], TRUE)>> \o below /\ listening' = [listening EXCEPT ![t] = {}]
      BY <2>1, <2>2 DEF OnTimeout
    <3>2. Waiting(t)
      <4>1. Calling("commit", t) /\ t \in (1 .. nextTx) \ pending
        BY <1>1, <1>2, <1>3, RunningCalls DEF Calling, Tx
      <4>2. ready[t] \in Nat /\ objs[t] \in SUBSET Objects
        BY <1>3 DEF CallInv, Inv, TypeOK
      <4>3. Cardinality(objs[t]) \in Nat
        BY <4>2, CountingParts
      <4>. QED
        BY <1>3, <2>2, <4>1, <4>2, <4>3 DEF CallInv, Progress, Over, Finished
    <3>3. t \notin timer
      BY <1>1, <1>2 DEF CallInv, CommitsRight
    <3>4. objs[t] = listening[t]
      <4>1. Counted(t)
        BY <1>3, <3>2 DEF CallInv, Progress
      <4>2. \A x \in objs[t] \ listening[t] : FALSE
        BY <1>1, <1>3, <4>1 DEF Counted
      <4>. QED
        BY <4>1, <4>2 DEF Counted
    <3>5. Running(below) = {g \in Calls : ~(g.fn = "commit" /\ g.tx = t)}
      BY <1>1, <1>2, <1>3
    <3>. QED
      BY <1>2, <1>3, <1>4, <2>1, <3>1, <3>2, <3>3, <3>4, <3>5, TimedOutCalls
  <2>3. CASE ~(ready[t] < Cardinality(objs[t]))
    <3>1. UNCHANGED listening /\ stack' = below
      BY <2>1, <2>3 DEF OnTimeout
    <3>2. Once(stack)' /\ Calls' = Calls \ {f}
      BY <1>2, <3>1 DEF Calls
    <3>. QED
      BY <1>1, <1>2, <1>4, <2>1, <3>1, <3>2, ReturnCalls
  <2>. QED
    BY <2>2, <2>3
<1>. QED
  BY <1>5, <1>6

(* The timer fires while t waits, or has nothing left to do.               *)
LEMMA TimerCalls ==
  ASSUME CallInv, Inv', NEW t \in Tx, TimerFires(t)
  PROVE  CallInv'
<1>1. /\ stack = <<>> /\ t \in timer /\ timer' = timer \ {t}
      /\ OnTimeout(t, stack)
      /\ UNCHANGED <<nextTx, objs, ready, mgrvars, object, awaited>>
  BY DEF TimerFires, InEventLoop
<1>2. Calls = {} /\ Once(stack) /\ stack \in Seq(Frames)
  BY <1>1 DEF Calls, Running, CallInv, Inv, TypeOK
<1>3. CASE ready[t] < Cardinality(objs[t])
  <2>1. stack' = <<Apply(t, objs[t], TRUE)>> \o stack /\ listening' = [listening EXCEPT ![t] = {}]
    BY <1>1, <1>3 DEF OnTimeout
  <2>2. Waiting(t)
    <3>1. t \in (1 .. nextTx) \ pending
      BY <1>1 DEF CallInv, Untouched, Inv, TypeOK, Tx
    <3>2. ready[t] \in Nat /\ objs[t] \in SUBSET Objects
      BY DEF CallInv, Inv, TypeOK
    <3>3. Cardinality(objs[t]) \in Nat
      BY <3>2, CountingParts
    <3>. QED
      BY <1>1, <1>3, <3>1, <3>2, <3>3 DEF CallInv, Progress, Over, Finished
  <2>3. objs[t] = listening[t]
    BY <1>2, <2>2 DEF CallInv, Progress, Counted
  <2>4. Running(stack) = {g \in Calls : ~(g.fn = "commit" /\ g.tx = t)}
    BY <1>2 DEF Calls
  <2>. QED
    BY <1>1, <1>2, <2>1, <2>2, <2>3, <2>4, TimedOutCalls
<1>4. CASE ~(ready[t] < Cardinality(objs[t]))
  <2>1. UNCHANGED <<listening, stack>>
    BY <1>1, <1>4 DEF OnTimeout
  <2>2. Calls' = Calls /\ Once(stack)'
    BY <1>2, <2>1 DEF Calls
  <2>3. \A fn, u : Calling(fn, u)' = Calling(fn, u)
    BY <2>2 DEF Calling
  <2>4. \A u : Waiting(u)' = Waiting(u) /\ Over(u)' = Over(u)
    BY <1>1, <2>3 DEF Waiting, Over, mgrvars
  <2>5. Places' /\ Untouched' /\ CommitsRight' /\ AppliesRight'
    BY <1>1, <1>2, <2>1, <2>2 DEF CallInv, Places, Untouched, CommitsRight, AppliesRight, mgrvars
  <2>6. Progress'
    <3>1. ASSUME NEW u \in Tx, Counted(u) PROVE Counted(u)'
      BY <1>1, <2>1, <2>2, <3>1 DEF Counted
    <3>2. ASSUME NEW u \in Tx, Finished(u) PROVE Finished(u)'
      BY <1>1, <2>1, <2>3, <3>2 DEF Finished
    <3>. QED
      BY <2>4, <3>1, <3>2 DEF Progress, CallInv
  <2>. QED
    BY <2>2, <2>5, <2>6 DEF CallInv
<1>. QED
  BY <1>3, <1>4

-----------------------------------------------------------------------------
(* One iteration of transaction_t::apply(): nobody else has the object.    *)
LEMMA ApplyObjectCalls ==
  ASSUME CallInv, Inv', NEW o \in Objects, ApplyObject(o)
  PROVE  CallInv'
<1>. USE DEF CallInv
<1>0. PICK f : f = Top
  OBVIOUS
<1>. DEFINE t == f.tx
            g == [f EXCEPT !.todo = f.todo \ {o}]
<1>1. /\ stack # <<>> /\ f = Head(stack) /\ f.fn = "apply" /\ o \in f.todo
      /\ stack \in Seq(Frames) /\ Once(stack)
      /\ object' = [object EXCEPT ![o] = "settled"]
      /\ stack' = <<g>> \o Tail(stack)
      /\ UNCHANGED <<txvars, mgrvars, awaited>>
  BY <1>0 DEF ApplyObject, AtTop, Top, Become, Inv, TypeOK
<1>2. f \in Calls /\ Once(Tail(stack)) /\ Tail(stack) \in Seq(Frames)
      /\ Running(Tail(stack)) = Calls \ {f}
  BY <1>1, PoppedCalls DEF Calls
<1>3. /\ t \in Tx /\ f \in Frames /\ f.todo \subseteq Objects /\ f.todo \subseteq objs[t]
      /\ t \in committed
      /\ \A h \in Calls : h.fn = "apply" /\ h.tx = t => h = f
  BY <1>1, <1>2, RunningCalls DEF AppliesRight
<1>4. g \in Frames /\ g.fn = "apply" /\ g.tx = t /\ g.todo = f.todo \ {o}
      /\ g.timedOut = f.timedOut
  BY <1>1, <1>3, ApplyFrames
<1>. HIDE DEF g
<1>5. Once(stack)' /\ Calls' = (Calls \ {f}) \cup {g}
  BY <1>1, <1>2, <1>3, <1>4, PushedCalls DEF Calls
<1>6. \A u \in committed : u # t => o \notin objs[u]
  BY <1>1, <1>3 DEF Inv, CommittedExclusive, Intersect
<1>7. \A x \in Objects : x # o => object'[x] = object[x]
  BY <1>1 DEF Inv, TypeOK
<1>8. ASSUME NEW fn, NEW u PROVE Calling(fn, u)' = Calling(fn, u)
  BY <1>1, <1>2, <1>4, <1>5 DEF Calling
<1>9. \A u : Waiting(u)' = Waiting(u) /\ Over(u)' = Over(u)
  BY <1>1, <1>8 DEF Waiting, Over, mgrvars, txvars
<1>10. Places' /\ Untouched'
  BY <1>1 DEF Places, Untouched, mgrvars, txvars
<1>11. \A h : h.fn = "commit" => (h \in Calls' <=> h \in Calls)
  BY <1>1, <1>4, <1>5
<1>12. CommitsRight'
  BY <1>1, <1>9, <1>11 DEF CommitsRight, mgrvars, txvars
<1>13. AppliesRight'
  <2>1. ASSUME NEW h \in Calls, h.fn = "apply", h # f PROVE o \notin h.todo
    BY <1>3, <1>6, <2>1 DEF AppliesRight
  <2>2. ASSUME NEW h \in Calls, h.fn = "apply", h # f
        PROVE  \A x \in h.todo : object'[x] = "committed"
    BY <1>7, <2>1, <2>2, RunningCalls DEF AppliesRight
  <2>3. \A x \in g.todo : object'[x] = "committed" /\ (x \in awaited => g.timedOut)
    BY <1>1, <1>2, <1>3, <1>4, <1>7 DEF AppliesRight
  <2>. QED
    BY <1>1, <1>3, <1>4, <1>5, <2>2, <2>3 DEF AppliesRight, mgrvars, txvars
<1>14. ASSUME NEW u \in Tx, Waiting(u) PROVE Counted(u)'
  <2>1. u # t /\ u \in committed
    BY <1>1, <1>2, <1>14 DEF Waiting, Calling
  <2>2. Counted(u) /\ o \notin objs[u] /\ objs[u] \subseteq Objects
    BY <1>6, <1>14, <2>1 DEF Progress, Inv, TypeOK
  <2>. QED
    BY <1>1, <1>7, <1>11, <2>2 DEF Counted, txvars
<1>15. ASSUME NEW u \in Tx, Over(u) PROVE Finished(u)'
  BY <1>1, <1>8, <1>15 DEF Progress, Finished, txvars
<1>. QED
  BY <1>5, <1>9, <1>10, <1>12, <1>13, <1>14, <1>15 DEF Progress

(* on_tx_apply() takes the transaction out of committed: no other apply()  *)
(* of it runs.                                                             *)
LEMMA ApplyEndCalls ==
  ASSUME CallInv, Inv', ApplyEnd
  PROVE  CallInv'
<1>. USE DEF CallInv
<1>0. PICK f : f = Top
  OBVIOUS
<1>. DEFINE t == f.tx
            c == Consider(0, 0)
<1>1. /\ stack # <<>> /\ f = Head(stack) /\ f.fn = "apply"
      /\ stack \in Seq(Frames) /\ Once(stack)
      /\ committed' = committed \ {t} /\ done' = done \cup {t}
      /\ stack' = <<c>> \o Tail(stack)
      /\ UNCHANGED <<txvars, pending, object, awaited>>
  BY <1>0 DEF ApplyEnd, AtTop, Top, Become, Inv, TypeOK
<1>2. f \in Calls /\ Once(Tail(stack)) /\ Tail(stack) \in Seq(Frames)
      /\ Running(Tail(stack)) = Calls \ {f}
  BY <1>1, PoppedCalls DEF Calls
<1>3. /\ t \in Tx /\ t <= nextTx /\ t \notin pending /\ t \in committed
      /\ \A h \in Calls : h.fn = "apply" /\ h.tx = t => h = f
  BY <1>1, <1>2, RunningCalls DEF AppliesRight
<1>4. c \in Frames /\ c.fn = "consider"
  BY NewFrames DEF Consider
<1>. HIDE DEF c
<1>5. Once(stack)' /\ Calls' = Calls \ {f}
  BY <1>1, <1>2, <1>4, PushedCalls DEF Calls
<1>6. \A u \in Tx : u # t => \A fn : Calling(fn, u)' = Calling(fn, u)
  <2>1. ASSUME NEW u \in Tx, u # t, NEW fn PROVE Calling(fn, u)' = Calling(fn, u)
    BY <1>5, <2>1 DEF Calling
  <2>. QED
    BY <2>1
<1>7. \A u \in Tx : Waiting(u)' = Waiting(u) /\ Over(u)' = Over(u)
  <2>1. ~Waiting(t) /\ Over(t) /\ ~Waiting(t)' /\ Over(t)'
    BY <1>1, <1>2, <1>3 DEF Waiting, Over, Calling, txvars, Tx
  <2>. QED
    BY <1>1, <1>6, <2>1 DEF Waiting, Over, txvars
<1>8. Places' /\ Untouched'
  BY <1>1, <1>3, ConstantsAssumption DEF Places, Untouched, txvars, Inv, TypeOK, Tx
<1>9. \A h : h.fn = "commit" => (h \in Calls' <=> h \in Calls)
  BY <1>1, <1>5
<1>10. CommitsRight'
  BY <1>1, <1>7, <1>9, RunningCalls DEF CommitsRight, txvars
<1>11. AppliesRight'
  BY <1>1, <1>3, <1>5 DEF AppliesRight, txvars
<1>12. ASSUME NEW u \in Tx, Counted(u) PROVE Counted(u)'
  BY <1>1, <1>9, <1>12 DEF Counted, txvars
<1>13. ASSUME NEW u \in Tx, Finished(u) PROVE Finished(u)'
  <2>1. Calling("commit", u)' = Calling("commit", u)
    BY <1>9 DEF Calling
  <2>. QED
    BY <1>1, <1>13, <2>1 DEF Finished, txvars
<1>. QED
  BY <1>5, <1>7, <1>8, <1>10, <1>11, <1>12, <1>13 DEF Progress

(* Applied transactions are freed from the event loop, where nothing runs. *)
LEMMA ClearCalls ==
  ASSUME CallInv, Inv', IdleClearDone
  PROVE  CallInv'
<1>. USE DEF CallInv
<1>1. /\ stack = <<>> /\ done' = {} /\ timer' = timer \ done
      /\ UNCHANGED <<nextTx, objs, ready, listening, pending, committed, object, awaited, stack>>
  BY DEF IdleClearDone, InEventLoop
<1>2. Calls = {} /\ Calls' = {} /\ Once(stack)'
  BY <1>1 DEF Calls, Running
<1>3. \A u : Waiting(u)' = Waiting(u) /\ Over(u)' = Over(u)
  BY <1>1, <1>2 DEF Waiting, Over, Calling
<1>4. Places' /\ Untouched' /\ CommitsRight' /\ AppliesRight'
  BY <1>1, <1>2 DEF Places, Untouched, CommitsRight, AppliesRight
<1>5. ASSUME NEW u \in Tx, Counted(u) PROVE Counted(u)'
  BY <1>1, <1>2, <1>5 DEF Counted
<1>6. ASSUME NEW u \in Tx, Finished(u) PROVE Finished(u)'
  BY <1>1, <1>2, <1>6 DEF Finished, Calling
<1>. QED
  BY <1>2, <1>3, <1>4, <1>5, <1>6 DEF Progress

-----------------------------------------------------------------------------
(* No call is active at first.                                             *)
LEMMA InitCalls == Init => CallInv
<1>. SUFFICES ASSUME Init PROVE CallInv
  OBVIOUS
<1>1. Inv
  BY InitInv
<1>2. Calls = {} /\ Once(stack)
  BY DEF Init, Calls, Running, Once
<1>3. Places /\ Untouched /\ CommitsRight /\ AppliesRight
  BY <1>2 DEF Init, Places, Untouched, CommitsRight, AppliesRight
<1>4. Progress
  BY DEF Init, Progress, Waiting, Over
<1>. QED
  BY <1>1, <1>2, <1>3, <1>4 DEF CallInv

(* A step of somebody else changes nothing.                                *)
LEMMA StutterCalls ==
  ASSUME CallInv, UNCHANGED vars
  PROVE  CallInv'
<1>1. Inv'
  BY NextPreservesInv DEF CallInv
<1>2. Calls' = Calls /\ Once(stack)'
  BY DEF vars, Calls, CallInv
<1>. QED
  BY <1>1, <1>2, QuietCalls DEF vars, txvars, mgrvars

(* Every step keeps the invariant of the calls.                            *)
LEMMA NextPreservesCalls == CallInv /\ [Next]_vars => CallInv'
<1>. SUFFICES ASSUME CallInv, [Next]_vars PROVE CallInv'
  OBVIOUS
<1>1. Inv'
  BY NextPreservesInv DEF CallInv
<1>. QED
  BY <1>1, StutterCalls, ScheduleCalls, ScanCalls, StartCalls, CommitCalls, AnswerCalls,
     CommitEndCalls, TimerCalls, ApplyObjectCalls, ApplyEndCalls, ClearCalls
  DEF Next, CallStep, Consideration

(* The invariant of the calls holds in every behaviour.                    *)
LEMMA CallsInductive == SafetySpec => []CallInv
  BY InitCalls, NextPreservesCalls, PTL DEF SafetySpec

(* A frame of commit() or apply() is one of the running calls.             *)
LEMMA CallsOfFrames ==
  ASSUME CallInv, NEW i \in DOMAIN stack, stack[i].fn # "consider"
  PROVE  stack[i] \in Calls
  BY DEF Calls, Running, CallInv, Inv, TypeOK

(* Every frame runs in an allocated transaction, and what apply() returns  *)
(* to the manager is in its list: on_tx_apply()'s dassert cannot fire.     *)
THEOREM FramesNeverDangle == SafetySpec => []FramesAlive
<1>1. CallInv => FramesAlive
  BY CallsOfFrames DEF FramesAlive, CallInv, CommitsRight, AppliesRight
<1>. QED
  BY <1>1, CallsInductive, PTL

(* However callbacks nest, transaction_t::apply() finds every object       *)
(* committed and, unless time was up, answered; no object is counted twice.*)
THEOREM NothingAppliedEarly == SafetySpec => []AppliedWhenAllReady
<1>1. ASSUME CallInv, NEW t \in Tx PROVE ready[t] <= Cardinality(objs[t])
  <2>1. ready[t] \in Nat /\ objs[t] \in SUBSET Objects /\ nextTx \in Nat
    BY <1>1 DEF CallInv, Inv, TypeOK
  <2>2. Cardinality(objs[t]) \in Nat
    BY <2>1, CountingParts
  <2>3. CASE t \in pending \/ t > nextTx
    BY <1>1, <2>2, <2>3 DEF CallInv, Untouched
  <2>4. CASE t \notin pending /\ t <= nextTx
    <3>1. Waiting(t) \/ Over(t)
      BY <2>1, <2>4 DEF Over, Tx
    <3>2. Counted(t) \/ Finished(t)
      BY <1>1, <3>1 DEF CallInv, Progress
    <3>. QED
      BY <2>1, <2>2, <3>2 DEF Counted, Finished
  <2>. QED
    BY <2>1, <2>3, <2>4 DEF Tx
<1>2. CallInv => AppliedWhenAllReady
  BY <1>1, CallsOfFrames DEF AppliedWhenAllReady, CallInv, AppliesRight
<1>. QED
  BY <1>2, CallsInductive, PTL

-----------------------------------------------------------------------------
(***************************************************************************)
(* No activation of consider_commit() misses a transaction: what can be    *)
(* committed will be looked at, by the scan that an apply() ends with or by*)
(* a scan whose index is not past it.                                      *)
(***************************************************************************)
Scans(f, t) == f.fn = "apply" \/ (f.fn = "consider" /\ f.idx <= Position(t))
Covered(t)  == \E i \in DOMAIN stack : Scans(stack[i], t)

ScanInv == \A t \in pending : CanCommit(t) => Covered(t)

(* Positions in pending: an index below the size is one, and erasing an    *)
(* element moves what comes after it by one.                               *)
LEMMA Positions ==
  ASSUME TypeOK
  PROVE  /\ \A t \in pending : Position(t) \in Nat /\ Position(t) < Cardinality(pending)
         /\ \A t, u \in pending : t < u => Position(t) < Position(u)
         /\ Cardinality(pending) \in Nat
<1>1. IsFiniteSet(pending) /\ pending \subseteq Int
  <2>1. IsFiniteSet(Tx)
    BY ConstantsAssumption, FS_Interval DEF Tx
  <2>2. pending \in SUBSET Tx
    BY DEF TypeOK
  <2>3. Tx \subseteq Int
    BY DEF Tx
  <2>4. IsFiniteSet(pending)
    BY <2>1, <2>2, FS_Subset
  <2>. QED
    BY <2>2, <2>3, <2>4
<1>. DEFINE before(t) == {u \in pending : u < t}
<1>2. \A t : IsFiniteSet(before(t)) /\ Cardinality(before(t)) \in Nat
  <2>1. ASSUME NEW t PROVE before(t) \in SUBSET pending
    OBVIOUS
  <2>2. ASSUME NEW t PROVE IsFiniteSet(before(t))
    BY <1>1, <2>1, FS_Subset
  <2>. QED
    BY <2>2, FS_CardinalityType
<1>3. ASSUME NEW t \in pending PROVE Position(t) < Cardinality(pending)
  <2>1. before(t) \in SUBSET pending /\ t \notin before(t)
    BY <1>1
  <2>2. /\ Cardinality(before(t)) <= Cardinality(pending)
        /\ Cardinality(pending) = Cardinality(before(t)) => pending = before(t)
    BY <1>1, <2>1, FS_Subset
  <2>3. Cardinality(pending) \in Nat
    BY <1>1, FS_CardinalityType
  <2>. QED
    BY <1>2, <2>1, <2>2, <2>3 DEF Position
<1>4. ASSUME NEW t \in pending, NEW u \in pending, t < u PROVE Position(t) < Position(u)
  <2>1. before(t) \in SUBSET before(u) /\ t \in before(u) /\ t \notin before(t)
    <3>1. t \in Int /\ u \in Int /\ \A v \in pending : v \in Int
      BY <1>1
    <3>2. \A v \in before(t) : v \in before(u)
      BY <1>4, <3>1
    <3>3. t \in before(u) /\ t \notin before(t)
      BY <1>4, <3>1
    <3>. QED
      BY <3>2, <3>3
  <2>2. /\ Cardinality(before(t)) <= Cardinality(before(u))
        /\ Cardinality(before(u)) = Cardinality(before(t)) => before(u) = before(t)
    BY <1>2, <2>1, FS_Subset
  <2>. QED
    BY <1>2, <2>1, <2>2 DEF Position
<1>. QED
  BY <1>1, <1>2, <1>3, <1>4, FS_CardinalityType DEF Position

(* Erasing a transaction moves those after it by one.                      *)
LEMMA PositionErased ==
  ASSUME TypeOK, NEW t \in pending, pending' = pending \ {t}
  PROVE  \A u \in pending' : Position(u)' = IF u < t THEN Position(u) ELSE Position(u) - 1
<1>1. SUFFICES ASSUME NEW u \in pending \ {t}
               PROVE  Position(u)' = IF u < t THEN Position(u) ELSE Position(u) - 1
  OBVIOUS
<1>2. t \in Int /\ u \in Int
  BY DEF TypeOK, Tx
<1>. DEFINE B == {v \in pending : v < u}
<1>3. IsFiniteSet(B)
  <2>1. IsFiniteSet(Tx)
    BY ConstantsAssumption, FS_Interval DEF Tx
  <2>2. B \in SUBSET Tx
    BY DEF TypeOK
  <2>. QED
    BY <2>1, <2>2, FS_Subset
<1>4. Position(u)' = Cardinality(B \ {t}) /\ Position(u) = Cardinality(B)
  <2>1. {v \in pending' : v < u} = B \ {t}
    OBVIOUS
  <2>. QED
    BY <2>1 DEF Position
<1>5. t \in B <=> ~(u < t)
  BY <1>1, <1>2
<1>. QED
  BY <1>3, <1>4, <1>5, FS_RemoveElement

(* A step that neither schedules nor starts a transaction, nor ends one,   *)
(* and that drops no call but a scan that is through.                      *)
LEMMA ScansKept ==
  ASSUME ScanInv, UNCHANGED <<objs, pending, committed>>,
         \A t \in pending : Covered(t) => Covered(t)'
  PROVE  ScanInv'
<1>1. \A t \in pending : CanCommit(t)' = CanCommit(t)
  BY DEF CanCommit, Intersect
<1>. QED
  BY <1>1 DEF ScanInv

(* A call on top keeps what is covered.                                    *)
LEMMA CoveredPushed ==
  ASSUME stack \in Seq(Frames), NEW f \in Frames, stack' = <<f>> \o stack,
         UNCHANGED pending, NEW t
  PROVE  Covered(t) => Covered(t)'
<1>1. \A i \in DOMAIN stack : i + 1 \in DOMAIN stack' /\ stack'[i + 1] = stack[i]
  OBVIOUS
<1>2. Position(t)' = Position(t)
  BY DEF Position
<1>. QED
  BY <1>1, <1>2 DEF Covered, Scans

(* So does a frame that covers what the one it replaces did.               *)
LEMMA CoveredReplaced ==
  ASSUME stack \in Seq(Frames), stack # <<>>, NEW f \in Frames, stack' = <<f>> \o Tail(stack),
         UNCHANGED pending, NEW t, Scans(Head(stack), t) => Scans(f, t)
  PROVE  Covered(t) => Covered(t)'
<1>1. /\ DOMAIN stack' = DOMAIN stack /\ stack'[1] = f /\ Head(stack) = stack[1]
      /\ \A i \in DOMAIN stack : i # 1 => stack'[i] = stack[i]
  OBVIOUS
<1>2. Position(t)' = Position(t)
  BY DEF Position
<1>. QED
  BY <1>1, <1>2 DEF Covered, Scans

(* So does the return of a call that covered nothing.                      *)
LEMMA CoveredPopped ==
  ASSUME stack \in Seq(Frames), stack # <<>>, stack' = Tail(stack),
         UNCHANGED pending, NEW t, ~Scans(Head(stack), t)
  PROVE  Covered(t) => Covered(t)'
<1>1. /\ Head(stack) = stack[1]
      /\ \A i \in DOMAIN stack : i = 1 \/ (i - 1 \in DOMAIN stack' /\ stack'[i - 1] = stack[i])
  OBVIOUS
<1>2. Position(t)' = Position(t)
  BY DEF Position
<1>. QED
  BY <1>1, <1>2 DEF Covered, Scans

(* A call of apply() covers everything, and so does a scan from the start. *)
LEMMA CoveredByAll ==
  ASSUME NEW f \in Frames, stack' \in Seq(Frames), stack' # <<>>, Head(stack') = f,
         f.fn = "apply" \/ (f.fn = "consider" /\ f.idx = 0),
         TypeOK', NEW t
  PROVE  Covered(t)'
<1>1. 1 \in DOMAIN stack' /\ stack'[1] = f
  OBVIOUS
<1>2. Position(t)' \in Nat
  <2>1. IsFiniteSet(Tx)
    BY ConstantsAssumption, FS_Interval DEF Tx
  <2>2. {u \in pending' : u < t} \in SUBSET Tx
    BY DEF TypeOK
  <2>3. IsFiniteSet({u \in pending' : u < t})
    BY <2>1, <2>2, FS_Subset
  <2>. QED
    BY <2>3, FS_CardinalityType DEF Position
<1>3. f.idx = 0 => f.idx <= Position(t)'
  BY <1>2
<1>. QED
  BY <1>1, <1>3 DEF Covered, Scans

(* The scan passes over a transaction that has to wait.                    *)
LEMMA SkipScans ==
  ASSUME TypeOK, ScanInv, ConsiderSkip
  PROVE  ScanInv'
<1>0. PICK f : f = Top
  OBVIOUS
<1>. DEFINE g == [f EXCEPT !.idx = f.idx + 1]
<1>1. /\ stack \in Seq(Frames) /\ stack # <<>> /\ f = Head(stack) /\ f \in Frames
      /\ f.fn = "consider" /\ stack' = <<g>> \o Tail(stack)
      /\ UNCHANGED <<objs, pending, committed>>
  BY <1>0, StackTop DEF TypeOK, ConsiderSkip, AtTop, Top, Become, txvars, mgrvars
<1>2. f.idx \in Nat /\ g \in Frames /\ g.fn = "consider" /\ g.idx = f.idx + 1
  <2>1. f.idx \in Nat /\ f.idx + 1 \in Nat
    BY <1>1, ConsiderFrames
  <2>. QED
    BY <1>1, <2>1, ConsiderFrames
<1>. HIDE DEF g
<1>3. PICK t \in pending : Position(t) = f.idx /\ ~CanCommit(t)
  BY <1>0 DEF ConsiderSkip
<1>4. ASSUME NEW u \in pending, CanCommit(u), Covered(u) PROVE Covered(u)'
  <2>1. u \in Int /\ t \in Int /\ u # t
    BY <1>3, <1>4 DEF TypeOK, Tx
  <2>2. Position(u) # Position(t) /\ Position(u) \in Nat
    BY <2>1, Positions
  <2>3. Scans(f, u) => Scans(g, u)
    BY <1>1, <1>2, <1>3, <2>2 DEF Scans
  <2>. QED
    BY <1>1, <1>2, <1>4, <2>3, CoveredReplaced
<1>5. \A u \in pending : CanCommit(u)' = CanCommit(u)
  BY <1>1 DEF CanCommit, Intersect
<1>. QED
  BY <1>1, <1>4, <1>5 DEF ScanInv

(* The scan commits the transaction it is at: what comes after it moves to *)
(* the index, and the scan stays below the calls it makes.                 *)
LEMMA CommitScans ==
  ASSUME TypeOK, TypeOK', ScanInv, ConsiderCommit
  PROVE  ScanInv'
<1>0. PICK f : f = Top
  OBVIOUS
<1>1. /\ stack \in Seq(Frames) /\ stack # <<>> /\ f = Head(stack) /\ f \in Frames
      /\ f.fn = "consider" /\ f.idx \in Nat /\ UNCHANGED objs
  BY <1>0, StackTop, ConsiderFrames DEF TypeOK, ConsiderCommit, AtTop, Top, txvars
<1>2. PICK t \in pending :
        /\ Position(t) = f.idx
        /\ pending' = pending \ {t}
        /\ committed' = committed \cup {t}
        /\ Call(IF objs[t] = {} THEN Apply(t, {}, FALSE) ELSE Commit(t, objs[t]))
  BY <1>0 DEF ConsiderCommit
<1>3. PICK g \in Frames : stack' = <<g>> \o stack
  <2>1. objs[t] \in SUBSET Objects /\ t \in Tx
    BY <1>2 DEF TypeOK
  <2>. QED
    BY <1>2, <2>1, NewFrames DEF Call
<1>4. \A i \in DOMAIN stack : i + 1 \in DOMAIN stack' /\ stack'[i + 1] = stack[i]
  BY <1>1, <1>3
<1>5. ASSUME NEW u \in pending', CanCommit(u)' PROVE Covered(u)'
  <2>1. u \in pending /\ u # t /\ u \in Int /\ t \in Int
    BY <1>2 DEF TypeOK, Tx
  <2>2. CanCommit(u)
    BY <1>1, <1>2, <1>5 DEF CanCommit, Intersect
  <2>3. PICK i \in DOMAIN stack : Scans(stack[i], u)
    BY <2>1, <2>2 DEF ScanInv, Covered
  <2>4. Position(u)' = IF u < t THEN Position(u) ELSE Position(u) - 1
    BY <1>2, PositionErased
  <2>5. CASE u < t
    BY <1>4, <2>3, <2>4, <2>5 DEF Covered, Scans
  <2>6. CASE ~(u < t)
    <3>1. f.idx < Position(u) /\ Position(u) \in Nat
      BY <1>2, <2>1, <2>6, Positions
    <3>2. f.idx <= Position(u)'
      BY <1>1, <2>4, <2>6, <3>1
    <3>3. 1 \in DOMAIN stack /\ stack[1] = f
      BY <1>1
    <3>4. 2 \in DOMAIN stack' /\ stack'[2] = f
      BY <1>4, <3>3
    <3>. QED
      BY <1>1, <3>2, <3>4 DEF Covered, Scans
  <2>. QED
    BY <2>5, <2>6
<1>. QED
  BY <1>5 DEF ScanInv

(* A scan that has reached the end looks at nothing any more.              *)
LEMMA ReturnScans ==
  ASSUME TypeOK, ScanInv, ConsiderReturn
  PROVE  ScanInv'
<1>0. PICK f : f = Top
  OBVIOUS
<1>1. /\ stack \in Seq(Frames) /\ stack # <<>> /\ f = Head(stack) /\ f \in Frames
      /\ f.fn = "consider" /\ f.idx \in Nat /\ stack' = Tail(stack)
      /\ f.idx >= Cardinality(pending)
      /\ UNCHANGED <<objs, pending, committed>>
  BY <1>0, StackTop, ConsiderFrames
  DEF TypeOK, ConsiderReturn, AtTop, Top, Return, txvars, mgrvars
<1>2. ASSUME NEW u \in pending PROVE ~Scans(f, u)
  BY <1>1, Positions DEF Scans
<1>. QED
  BY <1>1, <1>2, CoveredPopped, ScansKept

(* schedule_transaction() and on_tx_apply() start a scan of their own.     *)
LEMMA StartScans ==
  ASSUME TypeOK, TypeOK', ApplyEnd \/ \E S \in SUBSET Objects : Schedule(S)
  PROVE  ScanInv'
<1>1. PICK b \in Tx \cup {0} :
        \/ stack' = <<Consider(0, b)>> \o stack
        \/ stack # <<>> /\ stack' = <<Consider(0, b)>> \o Tail(stack)
  <2>1. CASE ApplyEnd
    <3>1. stack # <<>> /\ stack' = <<Consider(0, 0)>> \o Tail(stack)
      BY <2>1 DEF ApplyEnd, AtTop, Become
    <3>. QED
      BY <3>1
  <2>2. CASE \E S \in SUBSET Objects : Schedule(S)
    <3>1. PICK S \in SUBSET Objects : Schedule(S)
      BY <2>2
    <3>2. nextTx + 1 \in Tx
      BY <3>1, ConstantsAssumption DEF Schedule, TypeOK, Tx
    <3>3. stack' = <<Consider(0, nextTx + 1)>> \o stack
      BY <3>1 DEF Schedule, Call
    <3>. QED
      BY <3>2, <3>3
  <2>. QED
    BY <2>1, <2>2
<1>2. PICK f \in Frames : f.fn = "consider" /\ f.idx = 0
                          /\ stack' # <<>> /\ Head(stack') = f
  <2>1. Consider(0, b) \in Frames /\ Consider(0, b).fn = "consider" /\ Consider(0, b).idx = 0
    BY NewFrames DEF Consider
  <2>2. stack \in Seq(Frames) /\ (stack # <<>> => Tail(stack) \in Seq(Frames))
    BY DEF TypeOK
  <2>. HIDE DEF Consider
  <2>. QED
    BY <1>1, <2>1, <2>2
<1>. QED
  BY <1>2, CoveredByAll DEF ScanInv, TypeOK

(* What commit(), the clients and the timeouts do starts apply(), or drops *)
(* nothing but a call of commit().                                         *)
LEMMA AnswerScans ==
  ASSUME TypeOK, TypeOK', ScanInv, NEW t \in Tx, NEW below \in Seq(Frames),
         NEW b \in BOOLEAN,
         stack' = <<Apply(t, objs[t], b)>> \o below
  PROVE  ScanInv'
<1>1. Apply(t, objs[t], b) \in Frames /\ Apply(t, objs[t], b).fn = "apply"
  BY NewFrames DEF TypeOK, Apply
<1>. HIDE DEF Apply
<1>. QED
  BY <1>1, CoveredByAll DEF ScanInv, TypeOK

(* The call on top of the stack is one of commit() or apply().             *)
LEMMA DropScans ==
  ASSUME TypeOK, ScanInv, stack # <<>>, Head(stack).fn = "commit",
         UNCHANGED <<objs, pending, committed>>,
         stack' = Tail(stack) \/ \E g \in Frames : stack' = <<g>> \o Tail(stack)
  PROVE  ScanInv'
<1>1. stack \in Seq(Frames) /\ \A t : ~Scans(Head(stack), t)
  BY DEF TypeOK, Scans
<1>2. CASE stack' = Tail(stack)
  BY <1>1, <1>2, CoveredPopped, ScansKept
<1>3. CASE \E g \in Frames : stack' = <<g>> \o Tail(stack)
  BY <1>1, <1>3, CoveredReplaced, ScansKept
<1>. QED
  BY <1>2, <1>3

(* commit() and its end, in all their cases.                               *)
LEMMA CommitCallScans ==
  ASSUME TypeOK, TypeOK', ScanInv,
         \/ \E o \in Objects : CommitObject(o) \/ CommitReadyObject(o)
         \/ CommitEnd \/ CommitEndZeroTimeout
  PROVE  ScanInv'
<1>0. PICK f : f = Top
  OBVIOUS
<1>1. /\ stack # <<>> /\ f = Head(stack) /\ f.fn = "commit" /\ f \in Frames
      /\ Tail(stack) \in Seq(Frames) /\ f.tx \in Tx /\ f.todo \subseteq Objects
      /\ \A D \in SUBSET Objects : [f EXCEPT !.todo = D] \in Frames
      /\ UNCHANGED <<objs, pending, committed>>
  <2>1. /\ stack # <<>> /\ f = Head(stack) /\ f.fn = "commit"
        /\ UNCHANGED <<objs, pending, committed>>
    BY <1>0 DEF CommitObject, CommitReadyObject, CommitEnd, CommitEndZeroTimeout, AtTop, Top, mgrvars
  <2>2. f \in Frames /\ Tail(stack) \in Seq(Frames)
    BY <2>1, StackTop DEF TypeOK
  <2>. QED
    BY <2>1, <2>2, CommitFrames
<1>2. CASE \E o \in Objects : CommitObject(o)
  <2>1. PICK o \in Objects : stack' = <<[f EXCEPT !.todo = f.todo \ {o}]>> \o Tail(stack)
    BY <1>0, <1>2 DEF CommitObject, Become, Top
  <2>2. [f EXCEPT !.todo = f.todo \ {o}] \in Frames
    BY <1>1
  <2>. QED
    BY <1>1, <2>1, <2>2, DropScans
<1>3. CASE \E o \in Objects : CommitReadyObject(o)
  <2>1. PICK o \in Objects :
          OnObjectReady(f.tx, listening[f.tx] \cup {o},
                        <<[f EXCEPT !.todo = f.todo \ {o}]>> \o Tail(stack))
    BY <1>0, <1>3 DEF CommitReadyObject, Top
  <2>. DEFINE g == [f EXCEPT !.todo = f.todo \ {o}]
  <2>2. g \in Frames /\ <<g>> \o Tail(stack) \in Seq(Frames)
    <3>1. f.todo \ {o} \in SUBSET Objects
      BY <1>1
    <3>2. g \in Frames
      BY <1>1, <3>1
    <3>. HIDE DEF g
    <3>3. <<g>> \in Seq(Frames)
      BY <3>2
    <3>4. <<g>> \o Tail(stack) \in Seq(Frames)
      BY <1>1, <3>3
    <3>. QED
      BY <3>2, <3>4
  <2>. HIDE DEF g
  <2>3. \/ stack' = <<Apply(f.tx, objs[f.tx], FALSE)>> \o (<<g>> \o Tail(stack))
        \/ stack' = <<g>> \o Tail(stack)
    BY <2>1 DEF OnObjectReady, g
  <2>. QED
    BY <1>1, <2>2, <2>3, AnswerScans, DropScans
<1>4. CASE CommitEnd
  BY <1>1, <1>4, DropScans DEF CommitEnd, Return
<1>5. CASE CommitEndZeroTimeout
  <2>1. \/ stack' = <<Apply(f.tx, objs[f.tx], TRUE)>> \o Tail(stack)
        \/ stack' = Tail(stack)
    BY <1>0, <1>5 DEF CommitEndZeroTimeout, OnTimeout, Top
  <2>. QED
    BY <1>1, <2>1, AnswerScans, DropScans
<1>. QED
  BY <1>2, <1>3, <1>4, <1>5

(* An apply() that goes on covers everything.                              *)
LEMMA ApplyObjectScans ==
  ASSUME TypeOK, TypeOK', ScanInv, NEW o \in Objects, ApplyObject(o)
  PROVE  ScanInv'
<1>0. PICK f : f = Top
  OBVIOUS
<1>. DEFINE g == [f EXCEPT !.todo = f.todo \ {o}]
<1>1. /\ stack # <<>> /\ f = Head(stack) /\ f.fn = "apply" /\ f \in Frames
      /\ Tail(stack) \in Seq(Frames) /\ stack' = <<g>> \o Tail(stack)
  BY <1>0, StackTop DEF ApplyObject, AtTop, Top, Become, TypeOK
<1>2. g \in Frames /\ g.fn = "apply"
  BY <1>1, ApplyFrames
<1>. HIDE DEF g
<1>. QED
  BY <1>1, <1>2, CoveredByAll DEF ScanInv, TypeOK

(* What comes from the event loop either starts apply() or calls nothing.  *)
LEMMA EventScans ==
  ASSUME TypeOK, TypeOK', ScanInv,
         \/ \E o \in Objects : ClientReady(o)
         \/ \E t \in Tx : TimerFires(t)
         \/ IdleClearDone
         \/ UNCHANGED vars
  PROVE  ScanInv'
<1>1. \/ UNCHANGED stack
      \/ \E t \in Tx : \E b \in BOOLEAN : stack' = <<Apply(t, objs[t], b)>> \o stack
  BY DEF ClientReady, OnObjectReady, TimerFires, OnTimeout, IdleClearDone, vars
<1>2. UNCHANGED <<objs, pending, committed>>
  BY DEF ClientReady, TimerFires, IdleClearDone, vars, mgrvars, txvars
<1>3. CASE UNCHANGED stack
  <2>1. \A t : Covered(t)' = Covered(t)
    BY <1>2, <1>3 DEF Covered, Scans, Position
  <2>. QED
    BY <1>2, <2>1, ScansKept
<1>4. CASE \E t \in Tx : \E b \in BOOLEAN : stack' = <<Apply(t, objs[t], b)>> \o stack
  BY <1>4, AnswerScans DEF TypeOK
<1>. QED
  BY <1>1, <1>3, <1>4

(* Whatever an activation of consider_commit() does to the list under an   *)
(* outer one's index, nothing that could be committed is passed over: back *)
(* in the event loop every pending transaction has to wait.                *)
THEOREM NothingPassedOver == SafetySpec => []NoMissedCommit
<1>1. Init => ScanInv
  BY DEF Init, ScanInv
<1>2. TypeOK /\ TypeOK' /\ ScanInv /\ [Next]_vars => ScanInv'
  <2>. SUFFICES ASSUME TypeOK, TypeOK', ScanInv, [Next]_vars PROVE ScanInv'
    OBVIOUS
  <2>. QED
    BY SkipScans, CommitScans, ReturnScans, StartScans, CommitCallScans, ApplyObjectScans, EventScans
    DEF Next, CallStep, Consideration
<1>3. TypeOK /\ ScanInv => NoMissedCommit
  BY DEF ScanInv, Covered, NoMissedCommit, InEventLoop
<1>. QED
  BY <1>1, <1>2, <1>3, TypeCorrect, PTL DEF SafetySpec

-----------------------------------------------------------------------------
(***************************************************************************)
(* The manager implements ObjectUpdates: the waiting groups are the objects*)
(* of the pending transactions, the running groups those of the committed  *)
(* ones.                                                                   *)
(***************************************************************************)
(* The fixpoint of coalesce_transactions() is reached in one round, because*)
(* pending transactions are disjoint: it is the union of the request and   *)
(* what the request itself overlaps.                                       *)
LEMMA CoalescedOnce ==
  ASSUME Inv, NEW S \in SUBSET Objects
  PROVE  /\ Coalesced(S) = S \cup UNION Updates!Overlapping(S, GroupsOf(pending))
         /\ \A u \in pending : objs[u] \cap Coalesced(S) = {} <=> objs[u] \cap S = {}
<1>. DEFINE C == S \cup UNION Updates!Overlapping(S, GroupsOf(pending))
<1>1. \A u \in pending : objs[u] \subseteq Objects
  BY DEF Inv, TypeOK
<1>2. ASSUME NEW u \in pending, objs[u] \cap C # {}
      PROVE  objs[u] \cap S # {} /\ objs[u] \subseteq C
  <2>1. objs[u] \cap S # {}
    <3>1. SUFFICES ASSUME NEW H \in Updates!Overlapping(S, GroupsOf(pending)), objs[u] \cap H # {}
                   PROVE  objs[u] \cap S # {}
      BY <1>2
    <3>2. PICK v \in pending : H = objs[v] /\ objs[v] \cap S # {}
      BY DEF Updates!Overlapping, GroupsOf
    <3>3. u = v
      BY <3>1, <3>2 DEF Inv, PendingExclusive, Intersect
    <3>. QED
      BY <3>2, <3>3
  <2>2. objs[u] \in Updates!Overlapping(S, GroupsOf(pending))
    BY <2>1 DEF Updates!Overlapping, GroupsOf
  <2>. QED
    BY <2>1, <2>2
<1>3. C \in SUBSET Objects /\ S \subseteq C
  BY <1>1 DEF Updates!Overlapping, GroupsOf
<1>4. Absorbs(C)
  BY <1>2 DEF Absorbs
<1>5. Coalesced(S) \subseteq C
  BY <1>3, <1>4 DEF Coalesced
<1>6. C \subseteq Coalesced(S)
  <2>1. S \subseteq Coalesced(S) /\ Absorbs(Coalesced(S))
    BY CoalescedAbsorbs DEF Inv
  <2>2. ASSUME NEW H \in Updates!Overlapping(S, GroupsOf(pending)) PROVE H \subseteq Coalesced(S)
    <3>1. PICK v \in pending : H = objs[v] /\ objs[v] \cap S # {}
      BY DEF Updates!Overlapping, GroupsOf
    <3>. QED
      BY <2>1, <3>1 DEF Absorbs
  <2>. QED
    BY <2>1, <2>2
<1>7. Coalesced(S) = C
  BY <1>5, <1>6
<1>. QED
  BY <1>2, <1>3, <1>7

(* schedule_transaction() is the request of a group.                       *)
LEMMA ScheduleUpdates ==
  ASSUME CallInv, NEW S \in SUBSET Objects, Schedule(S)
  PROVE  [Updates!Next]_(Updates!vars)
<1>. DEFINE t == nextTx + 1
            W == GroupsOf(pending)
            kept == {u \in pending : objs[u] \cap S = {}}
<1>1. /\ pending \subseteq Tx /\ committed \subseteq Tx /\ t \notin pending /\ t \notin committed
      /\ t \in Tx /\ objs \in [Tx -> SUBSET Objects]
  BY ConstantsAssumption DEF CallInv, Inv, TypeOK, Untouched, Schedule, Tx, Scheduled
<1>2. /\ objs' = [objs EXCEPT ![t] = Coalesced(S)]
      /\ pending' = {u \in pending : objs[u] \cap Coalesced(S) = {}} \cup {t}
      /\ committed' = committed
  BY DEF Schedule
<1>3. /\ Coalesced(S) = S \cup UNION Updates!Overlapping(S, W)
      /\ pending' = kept \cup {t}
  BY <1>2, CoalescedOnce DEF CallInv
<1>4. objs'[t] = Coalesced(S) /\ \A u \in pending \cup committed : objs'[u] = objs[u]
  BY <1>1, <1>2
<1>5. GroupsOf(committed)' = GroupsOf(committed)
  BY <1>2, <1>4 DEF GroupsOf
<1>6. GroupsOf(pending)' = ({objs[u] : u \in kept} \cup {Coalesced(S)}) \ {{}}
  BY <1>3, <1>4 DEF GroupsOf
<1>7. {objs[u] : u \in kept} \ {{}} = W \ Updates!Overlapping(S, W)
  BY DEF GroupsOf, Updates!Overlapping
<1>8. CASE S = {}
  <2>1. Updates!Overlapping(S, W) = {}
    BY <1>8 DEF Updates!Overlapping
  <2>2. Coalesced(S) = {}
    BY <1>3, <1>8, <2>1
  <2>. QED
    BY <1>5, <1>6, <1>7, <2>1, <2>2 DEF Updates!vars
<1>9. CASE S # {}
  <2>1. Coalesced(S) # {} /\ S \in Updates!Groups
    BY <1>3, <1>9 DEF Updates!Groups
  <2>2. GroupsOf(pending)' = (W \ Updates!Overlapping(S, W)) \cup {Coalesced(S)}
    BY <1>6, <1>7, <2>1
  <2>3. Updates!Request(S)
    BY <1>3, <1>5, <2>2 DEF Updates!Request
  <2>. QED
    BY <2>1, <2>3 DEF Updates!Next
<1>. QED
  BY <1>8, <1>9

(* do_commit() is the start of one.                                        *)
LEMMA CommitUpdates ==
  ASSUME CallInv, ConsiderCommit
  PROVE  [Updates!Next]_(Updates!vars)
<1>1. PICK t \in pending :
        /\ CanCommit(t)
        /\ pending' = pending \ {t}
        /\ committed' = committed \cup {t}
  BY DEF ConsiderCommit
<1>2. UNCHANGED objs /\ objs[t] \subseteq Objects
  BY <1>1 DEF ConsiderCommit, txvars, CallInv, Inv, TypeOK
<1>. DEFINE G == objs[t]
<1>3. GroupsOf(committed)' = GroupsOf(committed) \cup ({G} \ {{}})
  BY <1>1, <1>2 DEF GroupsOf
<1>4. GroupsOf(pending)' = GroupsOf(pending) \ {G}
  <2>1. \A u \in pending : u # t => objs[u] # G \/ objs[u] = {}
    BY <1>1 DEF CallInv, Inv, PendingExclusive, Intersect
  <2>. QED
    BY <1>1, <1>2, <2>1 DEF GroupsOf
<1>5. CASE G = {}
  BY <1>3, <1>4, <1>5 DEF Updates!vars, GroupsOf
<1>6. CASE G # {}
  <2>1. G \in Updates!Groups /\ G \in GroupsOf(pending)
    BY <1>1, <1>2, <1>6 DEF Updates!Groups, GroupsOf
  <2>2. Updates!Overlapping(G, GroupsOf(committed)) = {}
    BY <1>1 DEF Updates!Overlapping, GroupsOf, CanCommit, Intersect
  <2>3. Updates!Start(G)
    BY <1>3, <1>4, <1>6, <2>1, <2>2 DEF Updates!Start
  <2>. QED
    BY <2>1, <2>3 DEF Updates!Next
<1>. QED
  BY <1>5, <1>6

(* on_tx_apply() is its end.                                               *)
LEMMA ApplyUpdates ==
  ASSUME CallInv, ApplyEnd
  PROVE  [Updates!Next]_(Updates!vars)
<1>0. PICK t : t = Top.tx
  OBVIOUS
<1>1. t \in committed
  <2>1. stack # <<>> /\ stack \in Seq(Frames) /\ Head(stack).fn = "apply"
    BY DEF ApplyEnd, AtTop, CallInv, Inv, TypeOK
  <2>2. 1 \in DOMAIN stack /\ stack[1] = Head(stack)
    BY <2>1
  <2>3. stack[1] \in Calls
    BY <2>1, <2>2, CallsOfFrames
  <2>. QED
    BY <1>0, <2>1, <2>2, <2>3 DEF CallInv, AppliesRight, Top
<1>2. UNCHANGED <<objs, pending>> /\ committed' = committed \ {t} /\ objs[t] \subseteq Objects
  BY <1>0, <1>1 DEF ApplyEnd, txvars, CallInv, Inv, TypeOK
<1>. DEFINE G == objs[t]
<1>3. GroupsOf(pending)' = GroupsOf(pending)
  BY <1>2 DEF GroupsOf
<1>4. GroupsOf(committed)' = GroupsOf(committed) \ {G}
  <2>1. \A u \in committed : u # t => objs[u] # G \/ objs[u] = {}
    BY <1>1 DEF CallInv, Inv, CommittedExclusive, Intersect
  <2>. QED
    BY <1>1, <1>2, <2>1 DEF GroupsOf
<1>5. CASE G = {}
  BY <1>3, <1>4, <1>5 DEF Updates!vars, GroupsOf
<1>6. CASE G # {}
  <2>1. G \in Updates!Groups /\ G \in GroupsOf(committed)
    BY <1>1, <1>2, <1>6 DEF Updates!Groups, GroupsOf
  <2>2. Updates!Finish(G)
    BY <1>3, <1>4, <2>1 DEF Updates!Finish
  <2>. QED
    BY <2>1, <2>2 DEF Updates!Next
<1>. QED
  BY <1>5, <1>6

(* Every behaviour of the manager, with its re-entrancy and its timeouts,  *)
(* is one of atomic and mutually exclusive group updates.                  *)
THEOREM ManagerUpdatesGroups == SafetySpec => Updates!SafetySpec
<1>1. Init => Updates!Init
  BY DEF Init, Updates!Init, GroupsOf
<1>2. CallInv /\ [Next]_vars => [Updates!Next]_(Updates!vars)
  <2>. SUFFICES ASSUME CallInv, [Next]_vars PROVE [Updates!Next]_(Updates!vars)
    OBVIOUS
  <2>1. CASE UNCHANGED <<objs, pending, committed>>
    BY <2>1 DEF Updates!vars, GroupsOf
  <2>2. \/ UNCHANGED <<objs, pending, committed>>
        \/ \E S \in SUBSET Objects : Schedule(S)
        \/ ConsiderCommit
        \/ ApplyEnd
    BY DEF Next, CallStep, Consideration, ClientReady, TimerFires, IdleClearDone, ConsiderSkip,
           ConsiderReturn, CommitObject, CommitReadyObject, ApplyObject, CommitEnd,
           CommitEndZeroTimeout, vars, mgrvars, txvars
  <2>. QED
    BY <2>1, <2>2, ScheduleUpdates, CommitUpdates, ApplyUpdates
<1>. QED
  BY <1>1, <1>2, CallsInductive, PTL DEF SafetySpec, Updates!SafetySpec
=============================================================================

----------------------------- MODULE TxnManager -----------------------------
(***************************************************************************)
(* transaction_t and transaction_manager_t (src/src/core/txn).             *)
(*                                                                         *)
(* The compositor is single-threaded, so what interleaves is not threads   *)
(* but callbacks: an object may become ready inside its own commit(),      *)
(* apply() may schedule new transactions, and applying one transaction     *)
(* re-enters consider_commit() while an outer activation still holds an    *)
(* index into the same vector.  "stack" is the C++ call stack, top first;  *)
(* an action is what runs between two points where control can pass to     *)
(* another activation.                                                     *)
(*                                                                         *)
(* Transactions are numbered in the order they are scheduled.  pending is  *)
(* only appended to and erased from, so the vector's order is that of the  *)
(* numbers, and the vector is the set of its members.                      *)
(***************************************************************************)
EXTENDS Integers, Sequences, FiniteSets

CONSTANTS
  Objects,      \* the transaction objects
  MaxTx         \* bound: transactions scheduled in one behaviour

ASSUME ConstantsAssumption == IsFiniteSet(Objects) /\ MaxTx \in Nat

Tx == 1 .. MaxTx

VARIABLES
  nextTx,       \* number of transactions scheduled so far
  objs,         \* transaction_t::objects
  ready,        \* transaction_t::count_ready_objects
  listening,    \* objects on which transaction_t::on_object_ready is connected
  timer,        \* transactions whose timeout is armed
  pending,      \* transaction_manager_t::impl::pending
  committed,    \* ... ::committed
  done,         \* ... ::done
  idle,         \* is idle_clear_done connected to the event loop
  object,       \* "committed" between an object's commit() and its apply()
  awaited,      \* objects that have not emitted ready since their last commit()
  stack         \* active calls, innermost first

txvars  == <<nextTx, objs, ready, listening, timer>>
mgrvars == <<pending, committed, done, idle>>
vars    == <<txvars, mgrvars, object, awaited, stack>>

-----------------------------------------------------------------------------
(* The calls that can be interrupted by a callback.                        *)

(* consider_commit(); by is the transaction whose schedule_transaction()   *)
(* called it, 0 when on_tx_apply did.                                      *)
Consider(i, by)     == [fn |-> "consider", idx |-> i, by |-> by]
(* transaction_t::commit() with the objects still to be committed.         *)
Commit(t, todo)     == [fn |-> "commit", tx |-> t, todo |-> todo]
(* transaction_t::apply() with the objects still to be applied.            *)
Apply(t, todo, out) == [fn |-> "apply", tx |-> t, todo |-> todo, timedOut |-> out]

Frames ==
  [fn: {"consider"}, idx: Nat, by: Tx \cup {0}]
    \cup [fn: {"commit"}, tx: Tx, todo: SUBSET Objects]
    \cup [fn: {"apply"}, tx: Tx, todo: SUBSET Objects, timedOut: BOOLEAN]

AtTop(fn) == stack # <<>> /\ Head(stack).fn = fn
Top       == Head(stack)
Call(f)   == stack' = <<f>> \o stack
Become(f) == stack' = <<f>> \o Tail(stack)
Return    == stack' = Tail(stack)

InEventLoop == stack = <<>>

Intersect(t, u) == objs[t] \cap objs[u] # {}

\* Mutant of Coalesced: the merge step is skipped.
CoalescedNot(S) == S

(* The fixpoint of coalesce_transactions(): the least set that contains S  *)
(* and every pending transaction it intersects.                            *)
Absorbs(C) == \A t \in pending : objs[t] \cap C # {} => objs[t] \subseteq C
Coalesced(S) ==
  {o \in Objects : \A C \in SUBSET Objects : S \subseteq C /\ Absorbs(C) => o \in C}

\* Mutants of CanCommit: transactions are compared instead of their objects.
CanCommitDistinct(t) == \A c \in committed : objs[t] # objs[c]
CanCommitNotCovered(t) == \A c \in committed : ~(objs[t] \subseteq objs[c])

CanCommit(t) == \A c \in committed : ~Intersect(t, c)

Position(t) == Cardinality({u \in pending : u < t})

-----------------------------------------------------------------------------
Init ==
  /\ nextTx = 0
  /\ objs = [t \in Tx |-> {}]
  /\ ready = [t \in Tx |-> 0]
  /\ listening = [t \in Tx |-> {}]
  /\ timer = {}
  /\ pending = {} /\ committed = {} /\ done = {}
  /\ idle = FALSE
  /\ object = [o \in Objects |-> "settled"]
  /\ awaited = {}
  /\ stack = <<>>

(* An apply() callback runs after its object has been applied.             *)
InApplyCallback == AtTop("apply") /\ Top.todo # objs[Top.tx]

\* Mutant of Schedule: remove_conflicts() is not called.
ScheduleKeepConflicts(S) ==
  /\ InEventLoop \/ InApplyCallback
  /\ nextTx < MaxTx
  /\ nextTx' = nextTx + 1
  /\ objs' = [objs EXCEPT ![nextTx + 1] = Coalesced(S)]
  /\ pending' = pending \cup {nextTx + 1}
  /\ Call(Consider(0, nextTx + 1))
  /\ idle' = TRUE
  /\ UNCHANGED <<ready, listening, timer, committed, done, object, awaited>>

(* schedule_transaction(): merge with the pending transactions, append,    *)
(* and call consider_commit(), which first arms idle_clear_done.           *)
Schedule(S) ==
  /\ InEventLoop \/ InApplyCallback
  /\ nextTx < MaxTx
  /\ LET t == nextTx + 1
         all == Coalesced(S)
     IN  /\ nextTx' = t
         /\ objs' = [objs EXCEPT ![t] = all]
         /\ pending' = {u \in pending : objs[u] \cap all = {}} \cup {t}
         /\ Call(Consider(0, t))
  /\ idle' = TRUE
  /\ UNCHANGED <<ready, listening, timer, committed, done, object, awaited>>

-----------------------------------------------------------------------------
(* consider_commit(): the loop over pending.                               *)

\* Mutant of ConsiderSkip: the index moves the wrong way.
ConsiderSkipBack ==
  /\ AtTop("consider")
  /\ \E t \in pending : Position(t) = Top.idx /\ ~CanCommit(t)
  /\ Become([Top EXCEPT !.idx = @ - 1])
  /\ UNCHANGED <<txvars, mgrvars, object, awaited>>

ConsiderSkip ==
  /\ AtTop("consider")
  /\ \E t \in pending : Position(t) = Top.idx /\ ~CanCommit(t)
  /\ Become([Top EXCEPT !.idx = @ + 1])
  /\ UNCHANGED <<txvars, mgrvars, object, awaited>>

\* Mutant of ConsiderCommit: the index also advances after an erase.
ConsiderCommitAdvance ==
  /\ AtTop("consider")
  /\ \E t \in pending :
       /\ Position(t) = Top.idx
       /\ CanCommit(t)
       /\ pending' = pending \ {t}
       /\ committed' = committed \cup {t}
       /\ stack' = <<IF objs[t] = {} THEN Apply(t, {}, FALSE) ELSE Commit(t, objs[t]),
                     [Top EXCEPT !.idx = @ + 1]>> \o Tail(stack)
  /\ UNCHANGED <<txvars, done, idle, object, awaited>>

(* do_commit(); an empty transaction is applied at once.                   *)
ConsiderCommit ==
  /\ AtTop("consider")
  /\ \E t \in pending :
       /\ Position(t) = Top.idx
       /\ CanCommit(t)
       /\ pending' = pending \ {t}
       /\ committed' = committed \cup {t}
       /\ Call(IF objs[t] = {} THEN Apply(t, {}, FALSE) ELSE Commit(t, objs[t]))
  /\ UNCHANGED <<txvars, done, idle, object, awaited>>

ConsiderReturn ==
  /\ AtTop("consider")
  /\ Top.idx >= Cardinality(pending)
  /\ Return
  /\ UNCHANGED <<txvars, mgrvars, object, awaited>>

-----------------------------------------------------------------------------
\* Mutant of OnObjectReady: the count is compared with the objects connected so
\* far.
OnObjectReadyEarly(t, conn, below) ==
  /\ ready' = [ready EXCEPT ![t] = @ + 1]
  /\ IF ready[t] + 1 = Cardinality(conn)
     THEN /\ listening' = [listening EXCEPT ![t] = {}]
          /\ stack' = <<Apply(t, objs[t], FALSE)>> \o below
     ELSE /\ listening' = [listening EXCEPT ![t] = conn]
          /\ stack' = below

(* transaction_t::on_object_ready, for a ready signal that reaches         *)
(* transaction t while its connections are conn and the rest of the stack  *)
(* is below: the last awaited object applies the transaction at once,      *)
(* inside the emission.                                                    *)
OnObjectReady(t, conn, below) ==
  /\ ready' = [ready EXCEPT ![t] = @ + 1]
  /\ IF ready[t] + 1 = Cardinality(objs[t])
     THEN /\ listening' = [listening EXCEPT ![t] = {}]
          /\ stack' = <<Apply(t, objs[t], FALSE)>> \o below
     ELSE /\ listening' = [listening EXCEPT ![t] = conn]
          /\ stack' = below

(* One iteration of transaction_t::commit(): connect, then an obj->commit()*)
(* that leaves the client to answer later.                                 *)
CommitObject(o) ==
  /\ AtTop("commit")
  /\ o \in Top.todo
  /\ listening' = [listening EXCEPT ![Top.tx] = @ \cup {o}]
  /\ object' = [object EXCEPT ![o] = "committed"]
  /\ awaited' = awaited \cup {o}
  /\ Become([Top EXCEPT !.todo = @ \ {o}])
  /\ UNCHANGED <<nextTx, objs, ready, timer, mgrvars>>

(* ... one that needs no answer and emits ready before it returns.         *)
CommitReadyObject(o) ==
  /\ AtTop("commit")
  /\ o \in Top.todo
  /\ OnObjectReady(Top.tx, listening[Top.tx] \cup {o},
                   <<[Top EXCEPT !.todo = @ \ {o}]>> \o Tail(stack))
  /\ object' = [object EXCEPT ![o] = "committed"]
  /\ awaited' = awaited \ {o}
  /\ UNCHANGED <<nextTx, objs, timer, mgrvars>>

(* A client answers: the object emits ready from the event loop, whether   *)
(* or not a transaction still listens.                                     *)
ClientReady(o) ==
  /\ InEventLoop
  /\ o \in awaited
  /\ awaited' = awaited \ {o}
  /\ \/ \E t \in Tx : o \in listening[t] /\ OnObjectReady(t, listening[t], stack)
     \/ /\ \A t \in Tx : o \notin listening[t]
        /\ UNCHANGED <<ready, listening, stack>>
  /\ UNCHANGED <<nextTx, objs, timer, mgrvars, object>>

(* The timeout callback of t: apply whatever is there, unless the objects  *)
(* have become ready in the meantime.                                      *)
OnTimeout(t, below) ==
  IF ready[t] < Cardinality(objs[t])
  THEN /\ listening' = [listening EXCEPT ![t] = {}]
       /\ stack' = <<Apply(t, objs[t], TRUE)>> \o below
  ELSE /\ UNCHANGED listening
       /\ stack' = below

(* The end of commit() arms the timer ...                                  *)
CommitEnd ==
  /\ AtTop("commit")
  /\ Top.todo = {}
  /\ timer' = timer \cup {Top.tx}
  /\ Return
  /\ UNCHANGED <<nextTx, objs, ready, listening, mgrvars, object, awaited>>

(* ... or, for a timeout of 0, runs the callback on the spot.              *)
CommitEndZeroTimeout ==
  /\ AtTop("commit")
  /\ Top.todo = {}
  /\ OnTimeout(Top.tx, Tail(stack))
  /\ UNCHANGED <<nextTx, objs, ready, timer, mgrvars, object, awaited>>

TimerFires(t) ==
  /\ InEventLoop
  /\ t \in timer
  /\ timer' = timer \ {t}
  /\ OnTimeout(t, stack)
  /\ UNCHANGED <<nextTx, objs, ready, mgrvars, object, awaited>>

-----------------------------------------------------------------------------
(* transaction_t::apply(): each object in turn.                            *)
ApplyObject(o) ==
  /\ AtTop("apply")
  /\ o \in Top.todo
  /\ object' = [object EXCEPT ![o] = "settled"]
  /\ Become([Top EXCEPT !.todo = @ \ {o}])
  /\ UNCHANGED <<txvars, mgrvars, awaited>>

\* Mutant of ApplyEnd: the transaction is freed at once.
ApplyEndFree ==
  /\ AtTop("apply")
  /\ Top.todo = {}
  /\ committed' = committed \ {Top.tx}
  /\ idle' = TRUE
  /\ Become(Consider(0, 0))
  /\ UNCHANGED <<txvars, pending, done, object, awaited>>

(* The end of apply() emits transaction_applied; on_tx_apply() moves the   *)
(* transaction to done, where it stays allocated while its own frames are  *)
(* still on the stack, and calls consider_commit().                        *)
ApplyEnd ==
  /\ AtTop("apply")
  /\ Top.todo = {}
  /\ committed' = committed \ {Top.tx}
  /\ done' = done \cup {Top.tx}
  /\ idle' = TRUE
  /\ Become(Consider(0, 0))
  /\ UNCHANGED <<txvars, pending, object, awaited>>

(* idle_clear_done frees the applied transactions with their timers.       *)
IdleClearDone ==
  /\ InEventLoop
  /\ idle
  /\ idle' = FALSE
  /\ done' = {}
  /\ timer' = timer \ done
  /\ UNCHANGED <<nextTx, objs, ready, listening, pending, committed, object,
                 awaited, stack>>

-----------------------------------------------------------------------------
Consideration == ConsiderSkip \/ ConsiderCommit \/ ConsiderReturn

CallStep ==
  \/ Consideration
  \/ \E o \in Objects : CommitObject(o) \/ CommitReadyObject(o) \/ ApplyObject(o)
  \/ CommitEnd \/ CommitEndZeroTimeout \/ ApplyEnd

Next ==
  \/ \E S \in SUBSET Objects : Schedule(S)
  \/ \E o \in Objects : ClientReady(o)
  \/ \E t \in Tx : TimerFires(t)
  \/ IdleClearDone
  \/ CallStep

(* Calls return, armed timers fire and idle callbacks run: the event loop  *)
(* guarantees all three.  Neither clients nor callers are assumed to act.  *)
Fairness ==
  /\ WF_vars(CallStep)
  /\ WF_vars(IdleClearDone)
  /\ \A t \in Tx : WF_vars(TimerFires(t))

SafetySpec == Init /\ [][Next]_vars

Spec == SafetySpec /\ Fairness

-----------------------------------------------------------------------------
TypeOK ==
  /\ nextTx \in 0 .. MaxTx
  /\ objs \in [Tx -> SUBSET Objects]
  /\ ready \in [Tx -> Nat]
  /\ listening \in [Tx -> SUBSET Objects]
  /\ timer \subseteq Tx
  /\ pending \subseteq Tx /\ committed \subseteq Tx /\ done \subseteq Tx
  /\ idle \in BOOLEAN
  /\ object \in [Objects -> {"settled", "committed"}]
  /\ awaited \subseteq Objects
  /\ stack \in Seq(Frames)

(* "There is at most one committed transaction for a given object"         *)
(* (transaction-manager.hpp:12), in every state, inside callbacks too.     *)
CommittedExclusive ==
  \A t, u \in committed : t # u => ~Intersect(t, u)

(* The merging strategy "guarantees no conflicts between pending           *)
(* transactions", on which consider_commit() relies                        *)
(* (transaction-manager-impl.hpp:78).                                      *)
PendingExclusive ==
  \A t, u \in pending : t # u => ~Intersect(t, u)

(* No transaction is forgotten by an activation of consider_commit() whose *)
(* index a nested activation has made stale: back in the event loop, what  *)
(* is still pending is blocked by a committed transaction.                 *)
NoMissedCommit ==
  InEventLoop => \A t \in pending : ~CanCommit(t)

(* Every frame runs in a transaction that is still allocated, and the one  *)
(* being applied is in committed: dassert "Transaction not found in        *)
(* committed list" (transaction-manager-impl.hpp:126) cannot fire.         *)
FramesAlive ==
  \A i \in DOMAIN stack :
    /\ stack[i].fn = "commit" => stack[i].tx \in committed \cup done
    /\ stack[i].fn = "apply" => stack[i].tx \in committed

(* dassert "object emitted ready multiple times?" (transaction.cpp:25)     *)
(* holds, and what apply() finds in its loop has been committed and, unless*)
(* the transaction timed out, answered: the count stands for the set.      *)
AppliedWhenAllReady ==
  /\ \A t \in Tx : ready[t] <= Cardinality(objs[t])
  /\ \A i \in DOMAIN stack :
       stack[i].fn = "apply" =>
         \A o \in stack[i].todo :
           object[o] = "committed" /\ (o \in awaited => stack[i].timedOut)

(* Merging loses nothing: an object leaves the pending transactions only   *)
(* when the transaction that holds it is committed.                        *)
NoLostUpdate ==
  [][\A o \in UNION {objs[t] : t \in pending} :
       o \in UNION {objs'[t] : t \in pending' \cup committed'}]_vars

-----------------------------------------------------------------------------
GroupsOf(S) == {objs[t] : t \in S} \ {{}}

Updates == INSTANCE ObjectUpdates WITH
  wanted <- GroupsOf(pending), running <- GroupsOf(committed)

(* The manager implements atomic, mutually exclusive group updates, with   *)
(* the fairness ObjectUpdates asks for.                                    *)
ImplementsUpdates == Updates!Spec
=============================================================================

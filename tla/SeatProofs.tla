----------------------------- MODULE SeatProofs -----------------------------
(***************************************************************************)
(* The invariants of the run of the seat, for every value of its           *)
(* constants: each part of the seat by an inductive invariant of its own,  *)
(* and then all of them for the specification that the run checks.         *)
(*                                                                         *)
(* The pointer and the fingers: the invariants speak of the whole stack of *)
(* active calls, of which call can wait below which, of what the node that *)
(* is being left was told, and of the call that still has to run wherever  *)
(* the focus or the grab is not yet what it should be.                     *)
(***************************************************************************)
EXTENDS MCSeat, SeatFocusProofs, FiniteSetTheorems, SequenceTheorems, WellFoundedInduction, TLAPS

-----------------------------------------------------------------------------
(* The pointer: pointer.cpp.  What PointerFocus promises of its buttons,   *)
(* its focus and its implicit grab holds if no handler changes the scene   *)
(* on a synthetic button release (ReactToForced = {}): with one that does, *)
(* transfer_grab() and update_cursor_focus() go on for a focus that has    *)
(* changed under them.                                                     *)

(* What a stack of calls holds.                                            *)
Members(s) == {s[i] : i \in 1..Len(s)}

(* The calls of a stack are its top and the calls below it.                 *)
LEMMA MembersCons ==
  ASSUME NEW c, NEW T, NEW s, Len(T) \in Nat, Len(s) = Len(T) + 1, s[1] = c,
         \A i \in 1..Len(T) : s[i + 1] = T[i]
  PROVE  Members(s) = {c} \cup Members(T)
<1>1. ASSUME NEW x \in Members(s) PROVE x \in {c} \cup Members(T)
  <2>1. PICK i \in 1..Len(s) : x = s[i]
    BY DEF Members
  <2>2. CASE i = 1
    BY <2>1, <2>2
  <2>3. CASE i # 1
    <3>1. i - 1 \in 1..Len(T) /\ (i - 1) + 1 = i
      BY <2>3
    <3>2. x = T[i - 1]
      BY <2>1, <3>1
    <3> QED
      BY <3>1, <3>2 DEF Members
  <2> QED
    BY <2>2, <2>3
<1>2. c \in Members(s)
  BY DEF Members
<1>3. ASSUME NEW x \in Members(T) PROVE x \in Members(s)
  <2>1. PICK i \in 1..Len(T) : x = T[i]
    BY DEF Members
  <2>2. i + 1 \in 1..Len(s) /\ s[i + 1] = x
    BY <2>1
  <2> QED
    BY <2>2 DEF Members
<1> QED
  BY <1>1, <1>2, <1>3

(* One call more on a stack.                                               *)
LEMMA Pushed ==
  ASSUME NEW S, NEW c \in S, NEW T \in Seq(S), NEW s, s = <<c>> \o T
  PROVE  /\ s \in Seq(S) /\ s # <<>> /\ Head(s) = c /\ Tail(s) = T
         /\ Len(s) = Len(T) + 1 /\ s[1] = c /\ \A i \in 1..Len(T) : s[i + 1] = T[i]
         /\ Members(s) = {c} \cup Members(T)
<1>1. s \in Seq(S) /\ Len(s) = Len(T) + 1 /\ Len(T) \in Nat
  OBVIOUS
<1>2. s[1] = c /\ \A i \in 1..Len(T) : s[i + 1] = T[i]
  OBVIOUS
<1>3. s # <<>> /\ Head(s) = c
  BY <1>1, <1>2
<1>4. Tail(s) = T
  <2>1. Tail(s) \in Seq(S) /\ Len(Tail(s)) = Len(T) /\ \A i \in 1..Len(T) : Tail(s)[i] = s[i + 1]
    BY <1>1, <1>3
  <2> QED
    BY <1>2, <2>1
<1>5. Members(s) = {c} \cup Members(T)
  BY <1>1, <1>2, MembersCons
<1> QED
  BY <1>1, <1>2, <1>3, <1>4, <1>5

(* A stack with a call is that call on the rest.                           *)
LEMMA Uncons ==
  ASSUME NEW S, NEW s \in Seq(S), s # <<>>
  PROVE  Head(s) \in S /\ Tail(s) \in Seq(S) /\ s = <<Head(s)>> \o Tail(s)
<1>1. Len(s) \in Nat /\ Len(s) > 0
  OBVIOUS
<1>2. Head(s) \in S /\ Tail(s) \in Seq(S) /\ Len(Tail(s)) = Len(s) - 1 /\ Head(s) = s[1]
  BY <1>1
<1>3. \A i \in 1..Len(s) - 1 : Tail(s)[i] = s[i + 1]
  BY <1>1
<1> DEFINE t == <<Head(s)>> \o Tail(s)
<1>4. t \in Seq(S) /\ Len(t) = Len(s) /\ t[1] = s[1] /\ \A i \in 1..Len(s) - 1 : t[i + 1] = Tail(s)[i]
  BY <1>1, <1>2, Pushed
<1>5. ASSUME NEW i \in 1..Len(s) PROVE t[i] = s[i]
  <2>1. CASE i = 1
    BY <1>4, <2>1
  <2>2. CASE i # 1
    <3>1. i - 1 \in 1..Len(s) - 1 /\ (i - 1) + 1 = i
      BY <1>1, <2>2
    <3> HIDE DEF t
    <3>2. t[(i - 1) + 1] = Tail(s)[i - 1] /\ Tail(s)[i - 1] = s[(i - 1) + 1]
      BY <1>3, <1>4, <3>1
    <3> QED
      BY <3>1, <3>2
  <2> QED
    BY <2>1, <2>2
<1> HIDE DEF t
<1>6. t = s
  BY <1>4, <1>5
<1> QED
  BY <1>2, <1>6 DEF t

(* Two calls on a stack are one and then the other.                        *)
LEMMA ConsTwo ==
  ASSUME NEW S, NEW c \in S, NEW d \in S, NEW T \in Seq(S)
  PROVE  <<c, d>> \o T = <<c>> \o (<<d>> \o T)
<1>1. <<c>> \in Seq(S) /\ Len(<<c>>) = 1 /\ <<c>>[1] = c /\ <<d>> \in Seq(S) /\ Len(<<d>>) = 1 /\ <<d>>[1] = d
  OBVIOUS
<1>2. <<c, d>> \in Seq(S) /\ Len(<<c, d>>) = 2 /\ <<c, d>>[1] = c /\ <<c, d>>[2] = d
  OBVIOUS
<1>3. PICK u : u = <<c>> \o <<d>>
  OBVIOUS
<1>4. u \in Seq(S) /\ Len(u) = 2 /\ u[1] = c /\ u[2] = d
  BY <1>1, <1>3
<1>5. <<c, d>> = u
  <2>1. PICK v : v = <<c, d>>
    OBVIOUS
  <2>2. v \in Seq(S) /\ Len(v) = 2 /\ v[1] = c /\ v[2] = d
    BY <1>2, <2>1
  <2>3. \A i \in 1..Len(v) : v[i] = u[i]
    BY <1>4, <2>2
  <2> QED
    BY <1>4, <2>1, <2>2, <2>3, SeqEqual
<1> QED
  BY <1>1, <1>3, <1>5, ConcatAssociative

(* An empty stack.                                                         *)
LEMMA NoMembers == Members(<<>>) = {}
  BY DEF Members

-----------------------------------------------------------------------------
PointerCalls ==
  [op: {"update", "position", "end_grab", "focused", "check_grab", "handler", "motion"}]
    \cup [op: {"focus"}, node: Nodes \cup {NoNode}] \cup [op: {"transfer", "transferred"}, node: Grabs]
    \cup [op: {"leave"}, node: Nodes, bag: [Buttons -> Nat]] \cup [op: {"press", "release"}, button: Buttons]

(* Which calls can be waiting below a call.                                *)
Underlies(c, d) ==
  /\ c.op = "check_grab" => FALSE
  /\ d.op \notin {"leave", "transfer", "end_grab"}
  /\ d.op \in {"focused", "transferred"} => c.op = "leave"
  /\ c.op = "focus" => d.op # "focus"

CallsOrdered(s) == \A i, j \in 1..Len(s) : i < j => Underlies(s[i], s[j])

TodoRight(s) == s \in Seq(PointerCalls) /\ CallsOrdered(s)

PointerClients == Nodes \ Grabs
Awaits(ops) == \E c \in Members(todo) : c.op \in ops

PointerTypes ==
  /\ focus \in Nodes \cup {NoNode} /\ grabbed \in Nodes \cup {NoNode}
  /\ sent \in [Buttons -> Nat] /\ enabled \in Int /\ held \in SUBSET Buttons
  /\ alive \in SUBSET Nodes /\ under \in alive \cup {NoNode}
  /\ owed \in [Nodes -> [Buttons -> Int]] /\ inside \in [Nodes -> Int]
  /\ TodoRight(todo)

(* The nodes were told of what "of" is to be told of: the buttons of bag   *)
(* and an enter.                                                           *)
Accounts(of, bag) ==
  /\ \A n \in Nodes \ Raw : owed[n] = IF n = of THEN bag ELSE NoButtons
  /\ \A n \in Nodes : inside[n] = IF n = of THEN 1 ELSE 0

InFlight == {"leave", "focused", "transferred"}

AccountsRight ==
  /\ (todo = <<>> \/ Head(todo).op \notin InFlight) => Accounts(focus, sent)
  /\ AtTop("leave") =>
       /\ Head(todo).node # focus /\ Accounts(Head(todo).node, Head(todo).bag)
       /\ Tail(todo) # <<>> /\ Head(Tail(todo)).op \in {"focused", "transferred"}
  /\ AtTop("focused") \/ AtTop("transferred") => Accounts(NoNode, NoButtons)

(* A grab is transferred to a node of the scene, which gets the focus.     *)
TransfersRight ==
  /\ AtTop("transfer") => Head(todo).node \in alive
  /\ \A c \in Members(todo) : c.op = "transferred" => c.node = focus /\ focus \in alive

(* The focus will be what it should be, or is.                             *)
FocusCovered ==
  enabled > 0 /\ grabbed = NoNode =>
    \/ focus = under \/ (focus \in Grabs /\ focus \in alive)
    \/ (AtTop("focus") /\ Head(todo).node = under) \/ Awaits({"update", "position"})

(* A client's implicit grab has its reasons, or will be ended.             *)
GrabCovered ==
  grabbed \in PointerClients =>
    /\ grabbed = focus \/ Awaits({"transferred"})
    /\ held # {} \/ Awaits({"check_grab"}) \/ AtTop("end_grab")
    /\ grabbed \in alive \/ Awaits({"update"}) \/ AtTop("end_grab")

(* Why update_cursor_focus() is called: for the node under the cursor, or  *)
(* for none when the pointer is disabled.                                  *)
FocusCalls ==
  \A c \in Members(todo) : c.op = "focus" =>
    \/ AtTop("focus") /\ c = Head(todo) /\ grabbed = NoNode /\ c.node = under /\ enabled > 0
    \/ /\ c.node = NoNode /\ ~(enabled > 0) /\ ~Awaits({"check_grab"})
       /\ grabbed \in PointerClients => AtTop("end_grab")

DisabledFocus == ~(enabled > 0) => focus \notin PointerClients \/ Awaits({"focus"})

PluginFocus == grabbed \in Grabs => focus \notin PointerClients

PointerInv ==
  /\ PointerTypes /\ AccountsRight /\ TransfersRight /\ FocusCovered /\ GrabCovered /\ FocusCalls
  /\ DisabledFocus /\ PluginFocus

-----------------------------------------------------------------------------

(* The same, of a call that is pushed on calls of the pointer.              *)
LEMMA PointerMembers ==
  ASSUME NEW c \in PointerCalls, NEW T \in Seq(PointerCalls), NEW s, s = <<c>> \o T
  PROVE  Members(s) = {c} \cup Members(T)
<1>1. Len(T) \in Nat /\ Len(s) = Len(T) + 1 /\ s[1] = c /\ \A i \in 1..Len(T) : s[i + 1] = T[i]
  BY Pushed
<1>2. PICK t : t = s
  OBVIOUS
<1>3. Members(t) = {c} \cup Members(T)
  BY <1>1, <1>2, MembersCons
<1> QED
  BY <1>2, <1>3

(* A push keeps the order if the new call may wait above all the others.    *)
LEMMA CallsOrderedCons ==
  ASSUME NEW c \in PointerCalls, NEW T \in Seq(PointerCalls), NEW s, s = <<c>> \o T
  PROVE  CallsOrdered(s) <=> CallsOrdered(T) /\ \A d \in Members(T) : Underlies(c, d)
<1>1. Len(T) \in Nat /\ Len(s) = Len(T) + 1 /\ s[1] = c /\ \A i \in 1..Len(T) : s[i + 1] = T[i]
  BY Pushed
<1>2. ASSUME CallsOrdered(s) PROVE CallsOrdered(T) /\ \A d \in Members(T) : Underlies(c, d)
  <2>1. ASSUME NEW i \in 1..Len(T), NEW j \in 1..Len(T), i < j PROVE Underlies(T[i], T[j])
    <3>1. i + 1 \in 1..Len(s) /\ j + 1 \in 1..Len(s) /\ i + 1 < j + 1
      BY <1>1, <2>1
    <3> QED
      BY <1>1, <1>2, <3>1 DEF CallsOrdered
  <2>2. ASSUME NEW j \in 1..Len(T) PROVE Underlies(c, T[j])
    <3>1. 1 \in 1..Len(s) /\ j + 1 \in 1..Len(s) /\ 1 < j + 1
      BY <1>1
    <3> QED
      BY <1>1, <1>2, <3>1 DEF CallsOrdered
  <2> QED
    BY <2>1, <2>2 DEF CallsOrdered, Members
<1>3. ASSUME CallsOrdered(T), \A d \in Members(T) : Underlies(c, d) PROVE CallsOrdered(s)
  <2> SUFFICES ASSUME NEW i \in 1..Len(s), NEW j \in 1..Len(s), i < j PROVE Underlies(s[i], s[j])
    BY DEF CallsOrdered
  <2>1. j - 1 \in 1..Len(T) /\ (j - 1) + 1 = j
    BY <1>1
  <2>2. s[j] = T[j - 1]
    BY <1>1, <2>1
  <2>3. CASE i = 1
    BY <1>1, <1>3, <2>1, <2>2, <2>3 DEF Members
  <2>4. CASE i # 1
    <3>1. i - 1 \in 1..Len(T) /\ (i - 1) + 1 = i /\ i - 1 < j - 1
      BY <1>1, <2>4
    <3>2. s[i] = T[i - 1]
      BY <1>1, <3>1
    <3> QED
      BY <1>3, <2>1, <2>2, <3>1, <3>2 DEF CallsOrdered
  <2> QED
    BY <2>3, <2>4
<1> QED
  BY <1>2, <1>3


(* Putting a call on the stack, and taking it from it.                     *)
LEMMA PushPointer ==
  ASSUME NEW c \in PointerCalls, NEW T, TodoRight(T), \A d \in Members(T) : Underlies(c, d), NEW s, s = <<c>> \o T
  PROVE  /\ TodoRight(s) /\ s # <<>> /\ Head(s) = c /\ Tail(s) = T
         /\ Members(s) = {c} \cup Members(T)
<1>1. T \in Seq(PointerCalls) /\ CallsOrdered(T)
  BY DEF TodoRight
<1>2. s \in Seq(PointerCalls) /\ s # <<>> /\ Head(s) = c /\ Tail(s) = T
  BY <1>1, Pushed
<1>3. Members(s) = {c} \cup Members(T)
  BY <1>1, PointerMembers
<1>4. CallsOrdered(s)
  BY <1>1, CallsOrderedCons
<1> QED
  BY <1>2, <1>3, <1>4 DEF TodoRight

(* What is known of a stack and of its top when the top returns.            *)
LEMMA PopPointer ==
  ASSUME NEW s, TodoRight(s), s # <<>>
  PROVE  /\ Head(s) \in PointerCalls /\ TodoRight(Tail(s)) /\ \A d \in Members(Tail(s)) : Underlies(Head(s), d)
         /\ Members(s) = {Head(s)} \cup Members(Tail(s)) /\ s = <<Head(s)>> \o Tail(s)
<1>1. PICK c, T : c = Head(s) /\ T = Tail(s)
  OBVIOUS
<1>2. c \in PointerCalls /\ T \in Seq(PointerCalls) /\ s = <<c>> \o T
  BY <1>1, Uncons DEF TodoRight
<1>3. Members(s) = {c} \cup Members(T)
  BY <1>2, PointerMembers
<1>4. CallsOrdered(s)
  BY DEF TodoRight
<1>5. CallsOrdered(T) /\ \A d \in Members(T) : Underlies(c, d)
  BY <1>2, <1>4, CallsOrderedCons
<1> QED
  BY <1>1, <1>2, <1>3, <1>5 DEF TodoRight

(* What the calls carry.                                                   *)
LEMMA PointerFields ==
  ASSUME NEW c \in PointerCalls
  PROVE  /\ c.op \in {"update", "position", "end_grab", "focused", "check_grab", "handler", "motion", "focus",
                     "transfer", "transferred", "leave", "press", "release"}
         /\ c.op = "focus" => c.node \in Nodes \cup {NoNode}
         /\ c.op \in {"transfer", "transferred"} => c.node \in Grabs
         /\ c.op = "leave" => c.node \in Nodes /\ c.bag \in [Buttons -> Nat]
         /\ c.op \in {"press", "release"} => c.button \in Buttons
  BY DEF PointerCalls

(* The calls that are made.                                                *)
Motioned == [op |-> "motion"]

(* The calls that the handlers make are calls of the pointer.               *)
LEMMA PointerCallsMade ==
  /\ Update \in PointerCalls /\ Update.op = "update" /\ Position \in PointerCalls /\ Position.op = "position"
  /\ EndGrab \in PointerCalls /\ EndGrab.op = "end_grab" /\ Focused \in PointerCalls /\ Focused.op = "focused"
  /\ CheckGrab \in PointerCalls /\ CheckGrab.op = "check_grab" /\ Handler \in PointerCalls /\ Handler.op = "handler"
  /\ Motioned \in PointerCalls /\ Motioned.op = "motion"
  /\ \A n \in Nodes \cup {NoNode} : SetFocus(n) \in PointerCalls /\ SetFocus(n).op = "focus" /\ SetFocus(n).node = n
  /\ \A n \in Grabs : /\ Transfer(n) \in PointerCalls /\ Transfer(n).op = "transfer" /\ Transfer(n).node = n
                      /\ Transferred(n) \in PointerCalls /\ Transferred(n).op = "transferred" /\ Transferred(n).node = n
  /\ \A n \in Nodes, bag \in [Buttons -> Nat] : /\ Leave(n, bag) \in PointerCalls /\ Leave(n, bag).op = "leave"
                                               /\ Leave(n, bag).node = n /\ Leave(n, bag).bag = bag
  /\ \A b \in Buttons : /\ SendPress(b) \in PointerCalls /\ SendPress(b).op = "press" /\ SendPress(b).button = b
                        /\ SendRelease(b) \in PointerCalls /\ SendRelease(b).op = "release" /\ SendRelease(b).button = b
  BY DEF PointerCalls, Update, Position, EndGrab, Focused, CheckGrab, Handler, Motioned, SetFocus, Transfer, Transferred,
         Leave, SendPress, SendRelease

(* What a handler may take for granted of its own call and of those below.  *)
LEMMA PointerTop ==
  ASSUME PointerInv, todo # <<>>, NEW h, NEW T, h = Head(todo), T = Tail(todo)
  PROVE  /\ h \in PointerCalls /\ TodoRight(T) /\ Members(todo) = {h} \cup Members(T)
         /\ \A d \in Members(T) : d \in PointerCalls /\ Underlies(h, d)
         /\ T # <<>> => Head(T) \in Members(T)
<1>1. TodoRight(todo)
  BY DEF PointerInv, PointerTypes
<1>2. h \in PointerCalls /\ TodoRight(T) /\ Members(todo) = {h} \cup Members(T) /\ \A d \in Members(T) : Underlies(h, d)
  BY <1>1, PopPointer
<1>3. \A d \in Members(T) : d \in PointerCalls
  BY <1>2 DEF TodoRight, Members
<1>4. ASSUME T # <<>> PROVE Head(T) \in Members(T)
  <2>1. Members(T) = {Head(T)} \cup Members(Tail(T))
    BY <1>2, <1>4, PopPointer
  <2> QED
    BY <2>1
<1> QED
  BY <1>2, <1>3, <1>4

(* No call is active: an event may be handled.                              *)
LEMMA NothingToDo == TodoRight(<<>>) /\ Members(<<>>) = {}
<1>1. <<>> \in Seq(PointerCalls) /\ Len(<<>>) = 0
  OBVIOUS
<1> QED
  BY <1>1, NoMembers DEF TodoRight, CallsOrdered

(* What an active call leaves to run.                                      *)
LEMMA Runs ==
  ASSUME PointerInv, todo # <<>>, NEW T, T = Tail(todo)
  PROVE  /\ Run(<<>>) => todo' = T
         /\ \A c \in PointerCalls : Run(<<c>>) \/ Run(<<>> \o <<c>>) => todo' = <<c>> \o T
         /\ \A c, d \in PointerCalls : Run(<<c, d>>) \/ Run(<<c>> \o <<d>>) => todo' = <<c>> \o (<<d>> \o T)
<1>1. T \in Seq(PointerCalls)
  BY Uncons DEF PointerInv, PointerTypes, TodoRight
<1>2. <<>> \o T = T
  BY <1>1, ConcatEmptySeq
<1>3. ASSUME NEW c \in PointerCalls, NEW d \in PointerCalls
      PROVE  <<c, d>> \o T = <<c>> \o (<<d>> \o T) /\ (<<c>> \o <<d>>) \o T = <<c>> \o (<<d>> \o T)
  <2>1. <<c>> \in Seq(PointerCalls) /\ <<d>> \in Seq(PointerCalls)
    OBVIOUS
  <2>2. <<c, d>> \o T = <<c>> \o (<<d>> \o T)
    BY <1>1, ConsTwo
  <2> QED
    BY <1>1, <2>1, <2>2, ConcatAssociative
<1>4. ASSUME NEW c \in PointerCalls PROVE <<>> \o <<c>> = <<c>>
  <2>1. <<c>> \in Seq(PointerCalls)
    OBVIOUS
  <2> QED
    BY <2>1, ConcatEmptySeq
<1> QED
  BY <1>2, <1>3, <1>4 DEF Run

(* Stacks of a few calls.                                                  *)
LEMMA PointerOne ==
  ASSUME NEW c \in PointerCalls, NEW s, s = <<c>>
  PROVE  TodoRight(s) /\ s # <<>> /\ Head(s) = c /\ Tail(s) = <<>> /\ Members(s) = {c}
<1>1. <<c>> \in Seq(PointerCalls)
  OBVIOUS
<1>2. PICK T : T = <<>>
  OBVIOUS
<1>3. s = <<c>> \o T /\ TodoRight(T) /\ Members(T) = {}
  BY <1>1, <1>2, ConcatEmptySeq, NothingToDo
<1>4. TodoRight(s) /\ s # <<>> /\ Head(s) = c /\ Tail(s) = T /\ Members(s) = {c} \cup Members(T)
  BY <1>3, PushPointer
<1> QED
  BY <1>2, <1>3, <1>4

(* Two calls that a handler makes one after the other.                      *)
LEMMA PointerTwo ==
  ASSUME NEW c \in PointerCalls, NEW d \in PointerCalls, Underlies(c, d), NEW s, s = <<c, d>>
  PROVE  TodoRight(s) /\ s # <<>> /\ Head(s) = c /\ Members(s) = {c, d}
<1>1. PICK T : T = <<d>>
  OBVIOUS
<1>2. TodoRight(T) /\ Members(T) = {d}
  BY <1>1, PointerOne
<1>3. s = <<c>> \o T
  <2>1. s \in Seq(PointerCalls) /\ Len(s) = 2 /\ s[1] = c /\ s[2] = d
    OBVIOUS
  <2>2. T \in Seq(PointerCalls) /\ Len(T) = 1 /\ T[1] = d
    BY <1>1
  <2>3. PICK t : t = <<c>> \o T
    OBVIOUS
  <2>4. t \in Seq(PointerCalls) /\ Len(t) = Len(T) + 1 /\ t[1] = c /\ \A i \in 1..Len(T) : t[i + 1] = T[i]
    BY <2>2, <2>3, Pushed
  <2>5. Len(t) = 2 /\ t[1 + 1] = d
    BY <2>2, <2>4
  <2>6. \A i \in 1..Len(s) : s[i] = t[i]
    BY <2>1, <2>4, <2>5
  <2>7. s = t
    BY <2>1, <2>4, <2>5, <2>6, SeqEqual
  <2> QED
    BY <2>3, <2>7
<1>4. TodoRight(s) /\ s # <<>> /\ Head(s) = c /\ Members(s) = {c} \cup Members(T)
  BY <1>2, <1>3, PushPointer
<1> QED
  BY <1>2, <1>4

(* Three calls that a handler makes one after the other.                    *)
LEMMA PointerThree ==
  ASSUME NEW c \in PointerCalls, NEW d \in PointerCalls, NEW e \in PointerCalls,
         Underlies(c, d), Underlies(c, e), Underlies(d, e), NEW s, s = <<c, d, e>>
  PROVE  TodoRight(s) /\ s # <<>> /\ Head(s) = c /\ Members(s) = {c, d, e}
<1>1. PICK T : T = <<d, e>>
  OBVIOUS
<1>2. TodoRight(T) /\ Members(T) = {d, e}
  BY <1>1, PointerTwo
<1>3. s = <<c>> \o T
  <2>1. s \in Seq(PointerCalls) /\ Len(s) = 3 /\ s[1] = c /\ s[2] = d /\ s[3] = e
    OBVIOUS
  <2>2. T \in Seq(PointerCalls) /\ Len(T) = 2 /\ T[1] = d /\ T[2] = e
    BY <1>1
  <2>3. PICK t : t = <<c>> \o T
    OBVIOUS
  <2>4. t \in Seq(PointerCalls) /\ Len(t) = Len(T) + 1 /\ t[1] = c /\ \A i \in 1..Len(T) : t[i + 1] = T[i]
    BY <2>2, <2>3, Pushed
  <2>5. Len(t) = 3 /\ t[1 + 1] = d /\ t[2 + 1] = e
    BY <2>2, <2>4
  <2>6. \A i \in 1..Len(s) : s[i] = t[i]
    BY <2>1, <2>4, <2>5
  <2>7. s = t
    BY <2>1, <2>4, <2>5, <2>6, SeqEqual
  <2> QED
    BY <2>3, <2>7
<1>4. TodoRight(s) /\ s # <<>> /\ Head(s) = c /\ Members(s) = {c} \cup Members(T)
  BY <1>2, <1>3, PushPointer
<1> QED
  BY <1>2, <1>4

(* Between events.                                                         *)
LEMMA PointerIdle ==
  ASSUME PointerInv, Idle
  PROVE  /\ Members(todo) = {} /\ Accounts(focus, sent)
         /\ enabled > 0 /\ grabbed = NoNode => focus = under \/ (focus \in Grabs /\ focus \in alive)
         /\ grabbed \in PointerClients => grabbed = focus /\ held # {} /\ grabbed \in alive
         /\ ~(enabled > 0) => focus \notin PointerClients
<1>1. Members(todo) = {} /\ \A op : ~AtTop(op)
  BY NoMembers DEF Idle, AtTop
<1>2. \A ops : ~Awaits(ops)
  BY <1>1 DEF Awaits
<1>3. Accounts(focus, sent)
  BY DEF PointerInv, AccountsRight, Idle
<1> QED
  BY <1>1, <1>2, <1>3 DEF PointerInv, FocusCovered, GrabCovered, DisabledFocus

(* What was told stays told.                                               *)
LEMMA AccountsKept ==
  ASSUME AccountsRight, todo = <<>> \/ Head(todo).op \notin InFlight,
         (todo = <<>> \/ Head(todo).op \notin InFlight)', UNCHANGED <<focus, sent, owed, inside>>
  PROVE  AccountsRight'
<1>1. Accounts(focus, sent)
  BY DEF AccountsRight
<1>2. Accounts(focus, sent)'
  BY <1>1 DEF Accounts, NoButtons
<1>3. ~AtTop("leave")' /\ ~AtTop("focused")' /\ ~AtTop("transferred")'
  BY DEF AtTop, InFlight
<1> QED
  BY <1>2, <1>3 DEF AccountsRight

(* handle_pointer_button(), of a press: bindings first, then the focus is   *)
(* told unless one of them consumed it.                                     *)
LEMMA PointerPressInv ==
  ASSUME PointerInv, NEW b \in Buttons, Press(b)
  PROVE  PointerInv'
<1>1. /\ Idle /\ held' = held \cup {b} /\ todo' \in {<<Handler>>, <<Handler, SendPress(b), CheckGrab>>}
      /\ UNCHANGED <<focus, grabbed, sent, enabled, alive, under, owed, inside>>
  BY DEF Press, Start, scene, history
<1> DEFINE c == Handler
           d == SendPress(b)
           e == CheckGrab
<1>2. c \in PointerCalls /\ c.op = "handler" /\ d \in PointerCalls /\ d.op = "press" /\ e \in PointerCalls /\ e.op = "check_grab"
  BY PointerCallsMade
<1>3. todo' = <<c>> \/ todo' = <<c, d, e>>
  BY <1>1
<1> HIDE DEF c, d, e
<1>4. TodoRight(todo)' /\ (todo # <<>>)' /\ Head(todo)' = c /\ \A x \in Members(todo)' : x \in {c, d, e}
  <2>1. CASE todo' = <<c>>
    BY <1>2, <2>1, PointerOne
  <2>2. CASE todo' = <<c, d, e>>
    BY <1>2, <2>2, PointerThree DEF Underlies
  <2> QED
    BY <1>3, <2>1, <2>2
<1>5. PointerTypes'
  BY <1>1, <1>4 DEF PointerInv, PointerTypes
<1>6. AccountsRight'
  BY <1>1, <1>2, <1>4, AccountsKept DEF PointerInv, Idle, InFlight
<1>7. TransfersRight'
  BY <1>2, <1>4 DEF TransfersRight, AtTop
<1>8. FocusCovered'
  BY <1>1, PointerIdle DEF FocusCovered
<1>9. GrabCovered'
  BY <1>1, PointerIdle DEF GrabCovered
<1>10. FocusCalls' /\ DisabledFocus' /\ PluginFocus'
  BY <1>1, <1>2, <1>4, PointerIdle DEF FocusCalls, DisabledFocus, PluginFocus, PointerInv
<1> QED
  BY <1>5, <1>6, <1>7, <1>8, <1>9, <1>10 DEF PointerInv

(* handle_pointer_button(), of a release: the focus is told before the      *)
(* grab is looked at.                                                       *)
LEMMA PointerReleaseInv ==
  ASSUME PointerInv, NEW b \in Buttons, Release(b)
  PROVE  PointerInv'
<1>1. /\ Idle /\ held' = held \ {b} /\ todo' = <<SendRelease(b), CheckGrab>>
      /\ UNCHANGED <<focus, grabbed, sent, enabled, alive, under, owed, inside>>
  BY DEF Release, Start, scene, history
<1> DEFINE c == SendRelease(b)
           d == CheckGrab
<1>2. c \in PointerCalls /\ c.op = "release" /\ d \in PointerCalls /\ d.op = "check_grab"
  BY PointerCallsMade
<1>3. todo' = <<c, d>>
  BY <1>1
<1> HIDE DEF c, d
<1>4. TodoRight(todo)' /\ (todo # <<>>)' /\ Head(todo)' = c /\ Members(todo)' = {c, d}
  BY <1>2, <1>3, PointerTwo DEF Underlies
<1>5. PointerTypes'
  BY <1>1, <1>4 DEF PointerInv, PointerTypes
<1>6. AccountsRight'
  BY <1>1, <1>2, <1>4, AccountsKept DEF PointerInv, Idle, InFlight
<1>7. TransfersRight'
  BY <1>2, <1>4 DEF TransfersRight, AtTop
<1>8. FocusCovered'
  BY <1>1, PointerIdle DEF FocusCovered
<1>9. GrabCovered'
  BY <1>1, <1>2, <1>4, PointerIdle DEF GrabCovered, Awaits
<1>10. FocusCalls' /\ DisabledFocus' /\ PluginFocus'
  BY <1>1, <1>2, <1>4, PointerIdle DEF FocusCalls, DisabledFocus, PluginFocus, PointerInv
<1> QED
  BY <1>5, <1>6, <1>7, <1>8, <1>9, <1>10 DEF PointerInv

(* handle_pointer_motion(): the focus is looked up before the motion is     *)
(* sent.                                                                    *)
LEMMA MotionInv ==
  ASSUME PointerInv, Motion
  PROVE  PointerInv'
<1>1. /\ Idle /\ todo' = <<Position>> /\ under' \in alive \cup {NoNode}
      /\ UNCHANGED <<focus, grabbed, sent, enabled, held, alive, owed, inside>>
  BY DEF Motion, Start, ptrvars, history
<1> DEFINE c == Position
<1>2. c \in PointerCalls /\ c.op = "position"
  BY PointerCallsMade
<1>3. todo' = <<c>>
  BY <1>1
<1> HIDE DEF c
<1>4. TodoRight(todo)' /\ (todo # <<>>)' /\ Head(todo)' = c /\ Members(todo)' = {c}
  BY <1>2, <1>3, PointerOne
<1>5. PointerTypes'
  BY <1>1, <1>4 DEF PointerInv, PointerTypes
<1>6. AccountsRight'
  BY <1>1, <1>2, <1>4, AccountsKept DEF PointerInv, Idle, InFlight
<1>7. TransfersRight'
  BY <1>2, <1>4 DEF TransfersRight, AtTop
<1>8. FocusCovered'
  BY <1>2, <1>4 DEF FocusCovered, Awaits
<1>9. GrabCovered'
  BY <1>1, PointerIdle DEF GrabCovered
<1>10. FocusCalls' /\ DisabledFocus' /\ PluginFocus'
  BY <1>1, <1>2, <1>4, PointerIdle DEF FocusCalls, DisabledFocus, PluginFocus, PointerInv
<1> QED
  BY <1>5, <1>6, <1>7, <1>8, <1>9, <1>10 DEF PointerInv

(* set_enable_focus(): the focus is dropped, or looked up again.            *)
LEMMA SetEnableFocusInv ==
  ASSUME PointerInv, NEW y \in BOOLEAN, SetEnableFocus(y)
  PROVE  PointerInv'
<1>1. /\ Idle /\ enabled' \in Int
      /\ (enabled' > 0 /\ todo' = <<Position>>) \/ (~(enabled' > 0) /\ todo' = <<EndGrab, SetFocus(NoNode)>>)
      /\ UNCHANGED <<focus, grabbed, sent, held, alive, under, owed, inside>>
  BY BoundsAssumption DEF SetEnableFocus, Start, scene, history
<1> DEFINE c == Position
           d == EndGrab
           e == SetFocus(NoNode)
<1>2. /\ c \in PointerCalls /\ c.op = "position" /\ d \in PointerCalls /\ d.op = "end_grab"
      /\ e \in PointerCalls /\ e.op = "focus" /\ e.node = NoNode
  BY PointerCallsMade
<1>3. (enabled' > 0 /\ todo' = <<c>>) \/ (~(enabled' > 0) /\ todo' = <<d, e>>)
  BY <1>1
<1> HIDE DEF c, d, e
<1>4. /\ TodoRight(todo)' /\ (todo # <<>>)'
      /\ \/ enabled' > 0 /\ Head(todo)' = c /\ Members(todo)' = {c}
         \/ ~(enabled' > 0) /\ Head(todo)' = d /\ Members(todo)' = {d, e}
  <2>1. CASE enabled' > 0 /\ todo' = <<c>>
    BY <1>2, <2>1, PointerOne
  <2>2. CASE ~(enabled' > 0) /\ todo' = <<d, e>>
    BY <1>2, <2>2, PointerTwo DEF Underlies
  <2> QED
    BY <1>3, <2>1, <2>2
<1>5. PointerTypes'
  BY <1>1, <1>4 DEF PointerInv, PointerTypes
<1>6. AccountsRight'
  BY <1>1, <1>2, <1>4, AccountsKept DEF PointerInv, Idle, InFlight
<1>7. TransfersRight'
  BY <1>2, <1>4 DEF TransfersRight, AtTop
<1>8. FocusCovered'
  BY <1>2, <1>4 DEF FocusCovered, Awaits
<1>9. GrabCovered'
  BY <1>1, PointerIdle DEF GrabCovered
<1>10. FocusCalls'
  BY <1>2, <1>4 DEF FocusCalls, AtTop, Awaits
<1>11. DisabledFocus' /\ PluginFocus'
  BY <1>1, <1>2, <1>4 DEF DisabledFocus, PluginFocus, PointerInv, Awaits
<1> QED
  BY <1>5, <1>6, <1>7, <1>8, <1>9, <1>10, <1>11 DEF PointerInv

(* A call that is not a leave has nothing of a change of focus below it.   *)
LEMMA Below ==
  ASSUME PointerInv, todo # <<>>, NEW h, NEW T, h = Head(todo), T = Tail(todo), h.op # "leave"
  PROVE  /\ \A d \in Members(T) : d.op \notin {"leave", "transfer", "end_grab", "focused", "transferred"}
         /\ T = <<>> \/ Head(T).op \notin InFlight \cup {"transfer", "end_grab"}
<1>1. /\ \A d \in Members(T) : Underlies(h, d)
      /\ T # <<>> => Head(T) \in Members(T)
  BY PointerTop
<1>2. \A d \in Members(T) : d.op \notin {"leave", "transfer", "end_grab", "focused", "transferred"}
  BY <1>1 DEF Underlies
<1> QED
  BY <1>1, <1>2 DEF InFlight

(* A handler, or whoever owns the scene between events, changes it.        *)
LEMMA SceneStep ==
  ASSUME PointerInv, NEW T, TodoRight(T), (todo = <<>> /\ T = <<>>) \/ (AtTop("handler") /\ T = Tail(todo)),
         UNCHANGED <<ptrvars, history>>, alive' \in SUBSET Nodes, under' \in alive' \cup {NoNode},
         \/ todo' = <<Update>> \o T
         \/ \E g \in Grabs : todo' = <<Transfer(g)>> \o (<<Update>> \o T) /\ g \in alive'
         \/ \E g \in Grabs : todo' = <<Transfer(g)>> \o T /\ g \in alive /\ UNCHANGED scene
  PROVE  PointerInv'
<1>1. UNCHANGED <<focus, grabbed, sent, enabled, held, owed, inside>>
  BY DEF ptrvars, history
<1>2. /\ \A op : op # "handler" => ~AtTop(op)
      /\ \A d \in Members(T) : d.op \notin {"leave", "transfer", "end_grab", "focused", "transferred"} /\ d \in Members(todo)
      /\ \A d \in Members(todo) : d.op # "handler" => d \in Members(T)
      /\ todo = <<>> \/ Head(todo).op \notin InFlight
  <2>1. CASE todo = <<>> /\ T = <<>>
    BY <2>1, NothingToDo DEF AtTop
  <2>2. CASE AtTop("handler") /\ T = Tail(todo)
    <3>1. PICK h : h = Head(todo)
      OBVIOUS
    <3>2. todo # <<>> /\ h.op = "handler" /\ \A op : op # "handler" => ~AtTop(op)
      BY <2>2, <3>1 DEF AtTop
    <3>3. Members(todo) = {h} \cup Members(T)
      BY <2>2, <3>1, <3>2, PointerTop
    <3>4. \A d \in Members(T) : d.op \notin {"leave", "transfer", "end_grab", "focused", "transferred"}
      BY <2>2, <3>1, <3>2, Below
    <3> QED
      BY <3>1, <3>2, <3>3, <3>4 DEF InFlight
  <2> QED
    BY <2>1, <2>2
<1>3. PICK u : u = Update
  OBVIOUS
<1>4. u \in PointerCalls /\ u.op = "update" /\ \A d \in Members(T) : Underlies(u, d)
  BY <1>2, <1>3, PointerCallsMade DEF Underlies
<1>5. PICK U : U = <<u>> \o T
  OBVIOUS
<1>6. TodoRight(U) /\ U # <<>> /\ Head(U) = u /\ Members(U) = {u} \cup Members(T)
  BY <1>4, <1>5, PushPointer
<1>7. /\ TodoRight(todo)' /\ (todo # <<>>)'
      /\ \/ Head(todo)' = u /\ Members(todo)' = {u} \cup Members(T)
         \/ \E g \in Grabs : /\ Head(todo)' = Transfer(g) /\ Members(todo)' = {Transfer(g), u} \cup Members(T)
                             /\ g \in alive'
         \/ \E g \in Grabs : /\ Head(todo)' = Transfer(g) /\ Members(todo)' = {Transfer(g)} \cup Members(T)
                             /\ g \in alive' /\ UNCHANGED <<alive, under>>
  <2>1. CASE todo' = <<Update>> \o T
    BY <1>3, <1>5, <1>6, <2>1
  <2>2. ASSUME NEW g \in Grabs, todo' = <<Transfer(g)>> \o (<<Update>> \o T), g \in alive'
        PROVE  /\ TodoRight(todo)' /\ (todo # <<>>)'
               /\ Head(todo)' = Transfer(g) /\ Members(todo)' = {Transfer(g), u} \cup Members(T)
    <3>1. PICK c : c = Transfer(g)
      OBVIOUS
    <3>2. c \in PointerCalls /\ c.op = "transfer"
      BY <3>1, PointerCallsMade
    <3>3. \A d \in Members(U) : Underlies(c, d)
      BY <1>2, <1>4, <1>6, <3>2 DEF Underlies
    <3>4. PICK s : s = todo'
      OBVIOUS
    <3>5. s = <<c>> \o U
      BY <1>3, <1>5, <2>2, <3>1, <3>4
    <3>6. TodoRight(s) /\ s # <<>> /\ Head(s) = c /\ Members(s) = {c} \cup Members(U)
      BY <1>6, <3>2, <3>3, <3>5, PushPointer
    <3> QED
      BY <1>6, <3>1, <3>4, <3>6
  <2>3. ASSUME NEW g \in Grabs, todo' = <<Transfer(g)>> \o T, g \in alive, UNCHANGED scene
        PROVE  /\ TodoRight(todo)' /\ (todo # <<>>)' /\ UNCHANGED <<alive, under>>
               /\ Head(todo)' = Transfer(g) /\ Members(todo)' = {Transfer(g)} \cup Members(T)
    <3>1. PICK c : c = Transfer(g)
      OBVIOUS
    <3>2. c \in PointerCalls /\ c.op = "transfer"
      BY <3>1, PointerCallsMade
    <3>3. \A d \in Members(T) : Underlies(c, d)
      BY <1>2, <3>2 DEF Underlies
    <3>4. PICK s : s = todo'
      OBVIOUS
    <3>5. s = <<c>> \o T
      BY <2>3, <3>1, <3>4
    <3>6. TodoRight(s) /\ s # <<>> /\ Head(s) = c /\ Members(s) = {c} \cup Members(T)
      BY <3>2, <3>3, <3>5, PushPointer
    <3> QED
      BY <2>3, <3>1, <3>4, <3>6 DEF scene
  <2> QED
    BY <2>1, <2>2, <2>3 DEF scene
<1>8. PICK c : c = Head(todo)'
  OBVIOUS
<1>9. /\ c.op \in {"update", "transfer"}
      /\ c.op = "transfer" => c.node \in alive'
      /\ \A d \in Members(todo)' : d \in Members(T) \/ d.op \in {"update", "transfer"}
      /\ \A d \in Members(T) : d \in Members(todo)'
      /\ u \in Members(todo)' \/ UNCHANGED <<alive, under>>
      /\ ~AtTop("focus")'
  BY <1>4, <1>7, <1>8, PointerCallsMade DEF AtTop
<1>10. /\ \A ops : Awaits(ops) /\ "handler" \notin ops => Awaits(ops)'
       /\ Awaits({"check_grab"})' => Awaits({"check_grab"})
       /\ Awaits({"update"})' \/ UNCHANGED <<alive, under>>
       /\ Awaits({"update", "position"})' \/ UNCHANGED <<alive, under>>
  BY <1>2, <1>4, <1>9 DEF Awaits
<1>11. PointerTypes'
  BY <1>1, <1>7 DEF PointerInv, PointerTypes
<1>12. AccountsRight'
  BY <1>1, <1>2, <1>7, <1>8, <1>9, AccountsKept DEF PointerInv, InFlight
<1>13. TransfersRight'
  BY <1>2, <1>8, <1>9 DEF TransfersRight, AtTop
<1>14. FocusCovered'
  BY <1>1, <1>2, <1>10 DEF FocusCovered, PointerInv
<1>15. GrabCovered'
  BY <1>1, <1>2, <1>10 DEF GrabCovered, PointerInv
<1>16. FocusCalls'
  BY <1>1, <1>2, <1>9, <1>10 DEF FocusCalls, PointerInv
<1>17. DisabledFocus' /\ PluginFocus'
  BY <1>1, <1>10 DEF DisabledFocus, PluginFocus, PointerInv
<1> QED
  BY <1>11, <1>12, <1>13, <1>14, <1>15, <1>16, <1>17 DEF PointerInv

(* What a change of the scene makes pointer_t run.                         *)
LEMMA ChangeEffect ==
  ASSUME PointerInv, NEW ops, Change(ops)
  PROVE  /\ alive' \in SUBSET Nodes /\ under' \in alive' \cup {NoNode}
         /\ \/ ops = <<Update>>
            \/ \E g \in Grabs : ops = <<Transfer(g), Update>> /\ g \in alive'
            \/ \E g \in Grabs : ops = <<Transfer(g)>> /\ g \in alive /\ UNCHANGED scene
<1>1. alive \in SUBSET Nodes /\ under \in alive \cup {NoNode} /\ Grabs \subseteq Nodes
  BY NodesAssumption DEF PointerInv, PointerTypes
<1>2. ASSUME NEW A \in SUBSET Nodes, SceneChange(A, ops)
      PROVE  alive' \in SUBSET Nodes /\ under' \in alive' \cup {NoNode} /\ ops = <<Update>>
  BY <1>2 DEF SceneChange
<1>3. ASSUME NEW g \in Grabs, GrabInput(g, ops)
      PROVE  /\ alive' \in SUBSET Nodes /\ under' \in alive' \cup {NoNode} /\ g \in alive'
             /\ ops = <<Update>> \/ ops = <<Transfer(g), Update>>
  BY <1>1, <1>3 DEF GrabInput
<1>4. ASSUME NEW g \in Grabs, RegrabInput(g, ops)
      PROVE  /\ alive' \in SUBSET Nodes /\ under' \in alive' \cup {NoNode}
             /\ ops = <<Transfer(g)>> /\ g \in alive /\ UNCHANGED scene
  BY <1>1, <1>4 DEF RegrabInput, scene
<1> QED
  BY <1>2, <1>3, <1>4 DEF Change

(* The scene changes, and grabs take or retake the pointer, between         *)
(* events.                                                                  *)
LEMMA ExternalInv ==
  ASSUME PointerInv, External
  PROVE  PointerInv'
<1>1. PICK ops \in ChangeOps : Change(ops) /\ Start(ops)
  BY DEF External
<1>2. todo = <<>> /\ todo' = ops /\ UNCHANGED <<ptrvars, history>>
  BY <1>1 DEF External, Start, Idle
<1>3. PICK T : T = <<>>
  OBVIOUS
<1>4. T \in Seq(PointerCalls) /\ TodoRight(T)
  BY <1>3, NothingToDo DEF TodoRight
<1>5. Update \in PointerCalls /\ \A g \in Grabs : Transfer(g) \in PointerCalls
  BY PointerCallsMade
<1>6. ASSUME NEW c \in PointerCalls PROVE <<c>> = <<c>> \o T
  <2>1. <<c>> \in Seq(PointerCalls)
    OBVIOUS
  <2> QED
    BY <1>3, <2>1, ConcatEmptySeq
<1>7. ASSUME NEW c \in PointerCalls, NEW d \in PointerCalls PROVE <<c, d>> = <<c>> \o (<<d>> \o T)
  <2>1. <<c, d>> \in Seq(PointerCalls)
    OBVIOUS
  <2>2. <<c, d>> \o T = <<c, d>>
    BY <1>3, <2>1, ConcatEmptySeq
  <2>3. <<c, d>> \o T = <<c>> \o (<<d>> \o T)
    BY <1>4, ConsTwo
  <2> QED
    BY <2>2, <2>3
<1>8. /\ alive' \in SUBSET Nodes /\ under' \in alive' \cup {NoNode}
      /\ \/ ops = <<Update>>
         \/ \E g \in Grabs : ops = <<Transfer(g), Update>> /\ g \in alive'
         \/ \E g \in Grabs : ops = <<Transfer(g)>> /\ g \in alive /\ UNCHANGED scene
  BY <1>1, ChangeEffect
<1>9. \/ todo' = <<Update>> \o T
      \/ \E g \in Grabs : todo' = <<Transfer(g)>> \o (<<Update>> \o T) /\ g \in alive'
      \/ \E g \in Grabs : todo' = <<Transfer(g)>> \o T /\ g \in alive /\ UNCHANGED scene
  BY <1>2, <1>5, <1>6, <1>7, <1>8
<1> QED
  BY <1>2, <1>3, <1>4, <1>8, <1>9, SceneStep

(* The same while an event is being handled, by the code that handles it.   *)
LEMMA ReactInv ==
  ASSUME PointerInv, React
  PROVE  PointerInv'
<1>1. PICK ops \in ChangeOps : Change(ops) /\ Run(ops)
  BY DEF React
<1>2. PICK T : T = Tail(todo)
  OBVIOUS
<1>3. todo # <<>> /\ AtTop("handler") /\ todo' = ops \o T /\ UNCHANGED <<ptrvars, history>>
  BY <1>1, <1>2 DEF React, Run, AtTop
<1>4. TodoRight(T) /\ T \in Seq(PointerCalls)
  BY <1>2, <1>3, PointerTop DEF TodoRight
<1>5. Update \in PointerCalls /\ \A g \in Grabs : Transfer(g) \in PointerCalls
  BY PointerCallsMade
<1>6. ASSUME NEW c \in PointerCalls, NEW d \in PointerCalls PROVE <<c, d>> \o T = <<c>> \o (<<d>> \o T)
  BY <1>4, ConsTwo
<1>7. /\ alive' \in SUBSET Nodes /\ under' \in alive' \cup {NoNode}
      /\ \/ ops = <<Update>>
         \/ \E g \in Grabs : ops = <<Transfer(g), Update>> /\ g \in alive'
         \/ \E g \in Grabs : ops = <<Transfer(g)>> /\ g \in alive /\ UNCHANGED scene
  BY <1>1, ChangeEffect
<1>8. \/ todo' = <<Update>> \o T
      \/ \E g \in Grabs : todo' = <<Transfer(g)>> \o (<<Update>> \o T) /\ g \in alive'
      \/ \E g \in Grabs : todo' = <<Transfer(g)>> \o T /\ g \in alive /\ UNCHANGED scene
  BY <1>3, <1>5, <1>6, <1>7
<1> QED
  BY <1>2, <1>3, <1>4, <1>7, <1>8, SceneStep

(* A node's code is entered, or nothing is, and the rest goes on.          *)
LEMMA HandlerReturnsInv ==
  ASSUME PointerInv, HandlerReturns
  PROVE  PointerInv'
<1>1. PICK h, T : h = Head(todo) /\ T = Tail(todo)
  OBVIOUS
<1>2. todo # <<>> /\ h.op = "handler" /\ todo' = T
      /\ UNCHANGED <<focus, grabbed, sent, enabled, held, alive, under, owed, inside>>
  BY <1>1, Runs DEF HandlerReturns, AtTop, ptrvars, scene, history
<1>3. /\ TodoRight(T) /\ Members(todo) = {h} \cup Members(T)
      /\ \A d \in Members(T) : d.op \notin {"leave", "transfer", "end_grab", "focused", "transferred"}
      /\ T = <<>> \/ Head(T).op \notin InFlight \cup {"transfer", "end_grab"}
      /\ \A op : op # "handler" => ~AtTop(op)
  BY <1>1, <1>2, PointerTop, Below DEF AtTop
<1>4. \A ops : "handler" \notin ops => (Awaits(ops) <=> Awaits(ops)')
  BY <1>2, <1>3 DEF Awaits
<1>5. PointerTypes'
  BY <1>2, <1>3 DEF PointerInv, PointerTypes
<1>6. AccountsRight'
  BY <1>1, <1>2, <1>3, AccountsKept DEF PointerInv, InFlight
<1>7. TransfersRight'
  BY <1>2, <1>3 DEF TransfersRight, AtTop
<1>8. FocusCovered'
  BY <1>2, <1>3, <1>4 DEF FocusCovered, PointerInv
<1>9. GrabCovered'
  BY <1>2, <1>3, <1>4 DEF GrabCovered, PointerInv
<1>10. FocusCalls'
  BY <1>2, <1>3, <1>4 DEF FocusCalls, PointerInv
<1>11. DisabledFocus' /\ PluginFocus'
  BY <1>2, <1>4 DEF DisabledFocus, PluginFocus, PointerInv
<1> QED
  BY <1>5, <1>6, <1>7, <1>8, <1>9, <1>10, <1>11 DEF PointerInv

(* send_motion() runs the handler of the focus.                             *)
LEMMA SendMotionInv ==
  ASSUME PointerInv, SendMotion
  PROVE  PointerInv'
<1>1. PICK h, T : h = Head(todo) /\ T = Tail(todo)
  OBVIOUS
<1>2. PICK c : c = Handler
  OBVIOUS
<1>3. c \in PointerCalls /\ c.op = "handler"
  BY <1>2, PointerCallsMade
<1>4. todo # <<>> /\ h.op = "motion" /\ (todo' = T \/ todo' = <<c>> \o T)
      /\ UNCHANGED <<focus, grabbed, sent, enabled, held, alive, under, owed, inside>>
  BY <1>1, <1>2, <1>3, Runs DEF SendMotion, HandlerOf, AtTop, ptrvars, scene, history
<1>5. /\ TodoRight(T) /\ Members(todo) = {h} \cup Members(T)
      /\ \A d \in Members(T) : d.op \notin {"leave", "transfer", "end_grab", "focused", "transferred"}
      /\ T = <<>> \/ Head(T).op \notin InFlight \cup {"transfer", "end_grab"}
      /\ \A op : op # "motion" => ~AtTop(op)
  BY <1>1, <1>4, PointerTop, Below DEF AtTop
<1>6. /\ TodoRight(todo)'
      /\ Members(todo)' = Members(T) \/ Members(todo)' = {c} \cup Members(T)
      /\ (todo = <<>> \/ Head(todo).op \notin InFlight \cup {"transfer", "end_grab"})'
  <2>1. CASE todo' = T
    BY <1>5, <2>1
  <2>2. CASE todo' = <<c>> \o T
    <3>1. PICK s : s = todo'
      OBVIOUS
    <3>2. \A d \in Members(T) : Underlies(c, d)
      BY <1>3, <1>5 DEF Underlies
    <3>3. TodoRight(s) /\ s # <<>> /\ Head(s) = c /\ Members(s) = {c} \cup Members(T)
      BY <1>3, <1>5, <2>2, <3>1, <3>2, PushPointer
    <3> QED
      BY <1>3, <3>1, <3>3 DEF InFlight
  <2> QED
    BY <1>4, <2>1, <2>2
<1>7. \A ops : {"handler", "motion"} \cap ops = {} => (Awaits(ops) <=> Awaits(ops)')
  BY <1>3, <1>4, <1>5, <1>6 DEF Awaits
<1>8. PointerTypes'
  BY <1>4, <1>6 DEF PointerInv, PointerTypes
<1>9. AccountsRight'
  BY <1>1, <1>4, <1>6, AccountsKept DEF PointerInv, InFlight
<1>10. TransfersRight'
  BY <1>3, <1>4, <1>5, <1>6 DEF TransfersRight, AtTop
<1>11. FocusCovered'
  BY <1>4, <1>5, <1>7 DEF FocusCovered, PointerInv
<1>12. GrabCovered'
  BY <1>4, <1>5, <1>7 DEF GrabCovered, PointerInv
<1>13. FocusCalls'
  BY <1>3, <1>4, <1>5, <1>6, <1>7 DEF FocusCalls, PointerInv
<1>14. DisabledFocus' /\ PluginFocus'
  BY <1>4, <1>7 DEF DisabledFocus, PluginFocus, PointerInv
<1> QED
  BY <1>8, <1>9, <1>10, <1>11, <1>12, <1>13, <1>14 DEF PointerInv

(* on_root_node_updated: an implicit grab of a node that left the scene     *)
(* ends.                                                                    *)
LEMMA OnRootNodeUpdatedInv ==
  ASSUME PointerInv, OnRootNodeUpdated
  PROVE  PointerInv'
<1>1. PICK h, T : h = Head(todo) /\ T = Tail(todo)
  OBVIOUS
<1>2. PICK c, d : c = EndGrab /\ d = Position
  OBVIOUS
<1>3. c \in PointerCalls /\ c.op = "end_grab" /\ d \in PointerCalls /\ d.op = "position"
  BY <1>2, PointerCallsMade
<1>4. /\ todo # <<>> /\ h.op = "update"
      /\ UNCHANGED <<focus, grabbed, sent, enabled, held, alive, under, owed, inside>>
      /\ \/ grabbed # NoNode /\ grabbed \notin alive /\ todo' = <<c>> \o (<<d>> \o T)
         \/ (grabbed = NoNode \/ grabbed \in alive) /\ todo' = <<d>> \o T
  BY <1>1, <1>2, <1>3, Runs DEF OnRootNodeUpdated, AtTop, ptrvars, scene, history
<1>5. /\ TodoRight(T) /\ Members(todo) = {h} \cup Members(T)
      /\ \A x \in Members(T) : x.op \notin {"leave", "transfer", "end_grab", "focused", "transferred"}
      /\ \A op : op # "update" => ~AtTop(op)
  BY <1>1, <1>4, PointerTop, Below DEF AtTop
<1>6. PICK U : U = <<d>> \o T
  OBVIOUS
<1>7. TodoRight(U) /\ U # <<>> /\ Head(U) = d /\ Members(U) = {d} \cup Members(T)
  <2>1. \A x \in Members(T) : Underlies(d, x)
    BY <1>3, <1>5 DEF Underlies
  <2> QED
    BY <1>3, <1>5, <1>6, <2>1, PushPointer
<1>8. /\ TodoRight(todo)' /\ (todo # <<>>)'
      /\ \/ grabbed \notin alive /\ Head(todo)' = c /\ Members(todo)' = {c, d} \cup Members(T)
         \/ (grabbed = NoNode \/ grabbed \in alive) /\ Head(todo)' = d /\ Members(todo)' = {d} \cup Members(T)
  <2>1. CASE grabbed # NoNode /\ grabbed \notin alive /\ todo' = <<c>> \o (<<d>> \o T)
    <3>1. PICK s : s = todo'
      OBVIOUS
    <3>2. \A x \in Members(U) : Underlies(c, x)
      BY <1>3, <1>5, <1>7 DEF Underlies
    <3>3. TodoRight(s) /\ s # <<>> /\ Head(s) = c /\ Members(s) = {c} \cup Members(U)
      BY <1>3, <1>6, <1>7, <2>1, <3>1, <3>2, PushPointer
    <3> QED
      BY <1>7, <2>1, <3>1, <3>3
  <2>2. CASE (grabbed = NoNode \/ grabbed \in alive) /\ todo' = <<d>> \o T
    BY <1>6, <1>7, <2>2
  <2> QED
    BY <1>4, <2>1, <2>2
<1>9. /\ \A ops : "update" \notin ops /\ Awaits(ops) => Awaits(ops)'
      /\ Awaits({"check_grab"})' => Awaits({"check_grab"})
      /\ Awaits({"update", "position"})'
      /\ \A x \in Members(todo)' : x = c \/ x = d \/ x \in Members(T)
      /\ grabbed # NoNode /\ grabbed \notin alive => AtTop("end_grab")'
      /\ (todo = <<>> \/ Head(todo).op \notin InFlight \cup {"transfer"})'
  BY <1>3, <1>4, <1>5, <1>8 DEF Awaits, AtTop, InFlight
<1>10. PointerTypes'
  BY <1>4, <1>8 DEF PointerInv, PointerTypes
<1>11. AccountsRight'
  BY <1>1, <1>4, <1>9, AccountsKept DEF PointerInv, InFlight
<1>12. TransfersRight'
  BY <1>3, <1>4, <1>5, <1>9 DEF TransfersRight, AtTop
<1>13. FocusCovered'
  BY <1>9 DEF FocusCovered
<1>14. GrabCovered'
  BY <1>4, <1>5, <1>9, NodesAssumption DEF GrabCovered, PointerInv, PointerClients
<1>15. FocusCalls'
  BY <1>3, <1>4, <1>5, <1>9 DEF FocusCalls, PointerInv
<1>16. DisabledFocus' /\ PluginFocus'
  BY <1>4, <1>9 DEF DisabledFocus, PluginFocus, PointerInv
<1> QED
  BY <1>10, <1>11, <1>12, <1>13, <1>14, <1>15, <1>16 DEF PointerInv

(* grab_surface(nullptr): the implicit grab ends and the focus is looked    *)
(* up again.                                                                *)
LEMMA GrabSurfaceNullInv ==
  ASSUME PointerInv, GrabSurfaceNull
  PROVE  PointerInv'
<1>1. PICK h, T : h = Head(todo) /\ T = Tail(todo)
  OBVIOUS
<1>2. PICK c : c = Position
  OBVIOUS
<1>3. c \in PointerCalls /\ c.op = "position"
  BY <1>2, PointerCallsMade
<1>4. /\ todo # <<>> /\ h.op = "end_grab" /\ grabbed' = NoNode
      /\ UNCHANGED <<focus, sent, enabled, held, alive, under, owed, inside>>
      /\ (grabbed = NoNode /\ todo' = T) \/ todo' = <<c>> \o T
  BY <1>1, <1>2, <1>3, Runs DEF GrabSurfaceNull, AtTop, scene, history
<1>5. /\ TodoRight(T) /\ Members(todo) = {h} \cup Members(T)
      /\ \A d \in Members(T) : d.op \notin {"leave", "transfer", "end_grab", "focused", "transferred"}
      /\ T = <<>> \/ Head(T).op \notin InFlight \cup {"transfer", "end_grab"}
      /\ \A op : op # "end_grab" => ~AtTop(op)
  BY <1>1, <1>4, PointerTop, Below DEF AtTop
<1>6. /\ TodoRight(todo)'
      /\ (grabbed = NoNode /\ Members(todo)' = Members(T)) \/ Members(todo)' = {c} \cup Members(T)
      /\ (todo = <<>> \/ Head(todo).op \notin InFlight \cup {"transfer", "end_grab"})'
  <2>1. CASE grabbed = NoNode /\ todo' = T
    BY <1>5, <2>1
  <2>2. CASE todo' = <<c>> \o T
    <3>1. PICK s : s = todo'
      OBVIOUS
    <3>2. \A d \in Members(T) : Underlies(c, d)
      BY <1>3, <1>5 DEF Underlies
    <3>3. TodoRight(s) /\ s # <<>> /\ Head(s) = c /\ Members(s) = {c} \cup Members(T)
      BY <1>3, <1>5, <2>2, <3>1, <3>2, PushPointer
    <3> QED
      BY <1>3, <3>1, <3>3 DEF InFlight
  <2> QED
    BY <1>4, <2>1, <2>2
<1>7. /\ \A ops : "end_grab" \notin ops /\ Awaits(ops) => Awaits(ops)'
      /\ Awaits({"check_grab"})' => Awaits({"check_grab"})
      /\ grabbed = NoNode \/ Awaits({"update", "position"})'
  BY <1>3, <1>4, <1>5, <1>6 DEF Awaits
<1>8. NoNode \notin Grabs /\ NoNode \notin PointerClients
  BY NodesAssumption DEF PointerClients
<1>9. PointerTypes'
  BY <1>4, <1>6 DEF PointerInv, PointerTypes
<1>10. AccountsRight'
  BY <1>1, <1>4, <1>6, AccountsKept DEF PointerInv, InFlight
<1>11. TransfersRight'
  BY <1>3, <1>4, <1>5, <1>6 DEF TransfersRight, AtTop
<1>12. FocusCovered'
  BY <1>4, <1>5, <1>7 DEF FocusCovered, PointerInv
<1>13. GrabCovered'
  BY <1>4, <1>8 DEF GrabCovered
<1>14. FocusCalls'
  BY <1>3, <1>4, <1>5, <1>6, <1>7, <1>8 DEF FocusCalls, PointerInv
<1>15. DisabledFocus' /\ PluginFocus'
  BY <1>4, <1>7, <1>8 DEF DisabledFocus, PluginFocus, PointerInv
<1> QED
  BY <1>9, <1>10, <1>11, <1>12, <1>13, <1>14, <1>15 DEF PointerInv

(* update_cursor_position(): the node under the cursor becomes the focus    *)
(* unless a grab holds it.                                                  *)
LEMMA UpdateCursorPositionInv ==
  ASSUME PointerInv, UpdateCursorPosition
  PROVE  PointerInv'
<1>1. PICK h, T : h = Head(todo) /\ T = Tail(todo)
  OBVIOUS
<1>2. PICK c, d : c = SetFocus(under) /\ d = Motioned
  OBVIOUS
<1>3. /\ c \in PointerCalls /\ c.op = "focus" /\ c.node = under /\ d \in PointerCalls /\ d.op = "motion"
      /\ under \in Nodes \cup {NoNode}
  BY <1>2, PointerCallsMade DEF PointerInv, PointerTypes
<1>4. /\ todo # <<>> /\ h.op = "position"
      /\ UNCHANGED <<focus, grabbed, sent, enabled, held, alive, under, owed, inside>>
      /\ \/ grabbed = NoNode /\ enabled > 0 /\ todo' = <<c>> \o (<<d>> \o T)
         \/ ~(grabbed = NoNode /\ enabled > 0) /\ todo' = <<d>> \o T
  BY <1>1, <1>2, <1>3, Runs DEF UpdateCursorPosition, AtTop, ptrvars, scene, history, Motioned, focus_enabled
<1>5. /\ TodoRight(T) /\ Members(todo) = {h} \cup Members(T)
      /\ \A x \in Members(T) : x.op \notin {"leave", "transfer", "end_grab", "focused", "transferred"}
      /\ \A op : op # "position" => ~AtTop(op)
  BY <1>1, <1>4, PointerTop, Below DEF AtTop
<1>6. ASSUME enabled > 0, NEW x \in Members(T) PROVE x.op # "focus"
  BY <1>5, <1>6 DEF PointerInv, FocusCalls
<1>7. PICK U : U = <<d>> \o T
  OBVIOUS
<1>8. TodoRight(U) /\ U # <<>> /\ Head(U) = d /\ Members(U) = {d} \cup Members(T)
  <2>1. \A x \in Members(T) : Underlies(d, x)
    BY <1>3, <1>5 DEF Underlies
  <2> QED
    BY <1>3, <1>5, <1>7, <2>1, PushPointer
<1>9. /\ TodoRight(todo)' /\ (todo # <<>>)'
      /\ \/ grabbed = NoNode /\ enabled > 0 /\ Head(todo)' = c /\ Members(todo)' = {c, d} \cup Members(T)
         \/ ~(grabbed = NoNode /\ enabled > 0) /\ Head(todo)' = d /\ Members(todo)' = {d} \cup Members(T)
  <2>1. CASE grabbed = NoNode /\ enabled > 0 /\ todo' = <<c>> \o (<<d>> \o T)
    <3>1. PICK s : s = todo'
      OBVIOUS
    <3>2. \A x \in Members(U) : Underlies(c, x)
      BY <1>3, <1>5, <1>6, <1>8, <2>1 DEF Underlies
    <3>3. TodoRight(s) /\ s # <<>> /\ Head(s) = c /\ Members(s) = {c} \cup Members(U)
      BY <1>3, <1>7, <1>8, <2>1, <3>1, <3>2, PushPointer
    <3> QED
      BY <1>8, <2>1, <3>1, <3>3
  <2>2. CASE ~(grabbed = NoNode /\ enabled > 0) /\ todo' = <<d>> \o T
    BY <1>7, <1>8, <2>2
  <2> QED
    BY <1>4, <2>1, <2>2
<1>10. /\ \A ops : "position" \notin ops /\ Awaits(ops) => Awaits(ops)'
       /\ Awaits({"check_grab"})' => Awaits({"check_grab"})
       /\ (todo = <<>> \/ Head(todo).op \notin InFlight \cup {"transfer", "end_grab"})'
  BY <1>3, <1>4, <1>5, <1>9 DEF Awaits, InFlight
<1>11. PointerTypes'
  BY <1>4, <1>9 DEF PointerInv, PointerTypes
<1>12. AccountsRight'
  BY <1>1, <1>4, <1>10, AccountsKept DEF PointerInv, InFlight
<1>13. TransfersRight'
  BY <1>3, <1>4, <1>5, <1>9 DEF TransfersRight, AtTop
<1>14. FocusCovered'
  BY <1>3, <1>4, <1>9 DEF FocusCovered, AtTop
<1>15. GrabCovered'
  BY <1>4, <1>5, <1>10 DEF GrabCovered, PointerInv
<1>16. FocusCalls'
  <2>1. CASE grabbed = NoNode /\ enabled > 0
    BY <1>3, <1>4, <1>6, <1>9, <2>1 DEF FocusCalls, AtTop
  <2>2. CASE ~(grabbed = NoNode /\ enabled > 0)
    BY <1>3, <1>4, <1>5, <1>9, <1>10, <2>2 DEF FocusCalls, PointerInv
  <2> QED
    BY <2>1, <2>2
<1>17. DisabledFocus' /\ PluginFocus'
  BY <1>4, <1>10 DEF DisabledFocus, PluginFocus, PointerInv
<1> QED
  BY <1>11, <1>12, <1>13, <1>14, <1>15, <1>16, <1>17 DEF PointerInv

(* The focus is taken from a node: it is released and left, then the rest  *)
(* of the call goes on.                                                    *)
LEMMA FocusTaken ==
  ASSUME PointerInv, todo # <<>>, NEW h, NEW T, h = Head(todo), T = Tail(todo), h.op \in {"focus", "transfer"},
         NEW d \in PointerCalls, d.op \in {"focused", "transferred"}, Run(LeaveOld(focus) \o <<d>>),
         focus' # focus, UNCHANGED <<sent, owed, inside>>
  PROVE  /\ TodoRight(todo)' /\ (todo # <<>>)' /\ AccountsRight' /\ Head(todo)'.op \in {"leave", d.op}
         /\ d \in Members(todo)' /\ \A x \in Members(T) : x \in Members(todo)'
         /\ \A x \in Members(todo)' : x = d \/ x.op = "leave" \/ x \in Members(T)
<1>1. /\ TodoRight(T) /\ Members(todo) = {h} \cup Members(T)
      /\ \A x \in Members(T) : x.op \notin {"leave", "transfer", "end_grab", "focused", "transferred"}
      /\ T = <<>> \/ Head(T).op \notin InFlight \cup {"transfer", "end_grab"}
  BY PointerTop, Below
<1>2. PICK U : U = <<d>> \o T
  OBVIOUS
<1>3. TodoRight(U) /\ U # <<>> /\ Head(U) = d /\ Members(U) = {d} \cup Members(T)
  <2>1. \A x \in Members(T) : Underlies(d, x)
    BY <1>1 DEF Underlies
  <2> QED
    BY <1>1, <1>2, <2>1, PushPointer
<1>4. Accounts(focus, sent) /\ sent \in [Buttons -> Nat] /\ NoButtons \in [Buttons -> Nat] /\ focus \in Nodes \cup {NoNode}
  BY DEF PointerInv, AccountsRight, InFlight, PointerTypes, NoButtons
<1>5. CASE focus = NoNode
  <2>1. todo' = U
    BY <1>2, <1>5, Runs DEF LeaveOld
  <2>2. Head(todo)' = d /\ (todo # <<>>)' /\ Members(todo)' = {d} \cup Members(T) /\ TodoRight(todo)'
    BY <1>3, <2>1
  <2>3. Accounts(NoNode, NoButtons)'
    BY <1>4, <1>5, NodesAssumption DEF Accounts, NoButtons
  <2>4. AccountsRight'
    BY <2>2, <2>3 DEF AccountsRight, AtTop, InFlight
  <2> QED
    BY <2>2, <2>4
<1>6. CASE focus # NoNode
  <2>1. PICK bag : bag = IF focus \in Raw THEN NoButtons ELSE sent
    OBVIOUS
  <2>2. PICK l : l = Leave(focus, bag)
    OBVIOUS
  <2>3. bag \in [Buttons -> Nat] /\ focus \in Nodes
    BY <1>4, <1>6, <2>1
  <2>4. l \in PointerCalls /\ l.op = "leave" /\ l.node = focus /\ l.bag = bag
    BY <2>2, <2>3, PointerCallsMade
  <2>5. todo' = <<l>> \o U
    BY <1>2, <1>6, <2>1, <2>2, <2>4, Runs DEF LeaveOld
  <2>6. PICK s : s = todo'
    OBVIOUS
  <2>7. \A x \in Members(U) : Underlies(l, x)
    BY <1>1, <1>3, <2>4 DEF Underlies
  <2>8. TodoRight(s) /\ s # <<>> /\ Head(s) = l /\ Tail(s) = U /\ Members(s) = {l} \cup Members(U)
    BY <1>3, <2>4, <2>5, <2>6, <2>7, PushPointer
  <2>9. Accounts(focus, bag)
    BY <1>4, <2>1 DEF Accounts
  <2>10. \A n, b : n = focus /\ b = bag => Accounts(n, b)'
    BY <2>9 DEF Accounts, NoButtons
  <2>11. AccountsRight'
    BY <1>3, <2>4, <2>6, <2>8, <2>10 DEF AccountsRight, AtTop, InFlight
  <2> QED
    BY <1>3, <2>4, <2>6, <2>8, <2>11
<1> QED
  BY <1>5, <1>6

(* update_cursor_focus(): the new focus is kept, the old one leaves with    *)
(* what was sent to it.                                                     *)
LEMMA UpdateCursorFocusInv ==
  ASSUME PointerInv, UpdateCursorFocus
  PROVE  PointerInv'
<1>1. PICK h, T, n : h = Head(todo) /\ T = Tail(todo) /\ n = h.node
  OBVIOUS
<1>2. PICK d : d = Focused
  OBVIOUS
<1>3. d \in PointerCalls /\ d.op = "focused"
  BY <1>2, PointerCallsMade
<1>4. /\ todo # <<>> /\ h.op = "focus" /\ focus' = n
      /\ UNCHANGED <<grabbed, sent, enabled, held, alive, under, owed, inside>>
      /\ (focus = n /\ todo' = T) \/ (focus # n /\ Run(LeaveOld(focus) \o <<d>>))
  BY <1>1, <1>2, Runs DEF UpdateCursorFocus, AtTop, scene, history
<1>5. /\ TodoRight(T) /\ Members(todo) = {h} \cup Members(T) /\ h \in PointerCalls /\ h \in Members(todo)
      /\ \A x \in Members(T) : x.op \notin {"leave", "transfer", "end_grab", "focused", "transferred"}
      /\ T = <<>> \/ Head(T).op \notin InFlight \cup {"transfer", "end_grab"}
      /\ \A op : op # "focus" => ~AtTop(op)
  BY <1>1, <1>4, PointerTop, Below DEF AtTop
<1>6. \A x \in Members(T) : x.op # "focus"
  BY <1>1, <1>4, PointerTop DEF Underlies
<1>7. n \in Nodes \cup {NoNode}
  BY <1>1, <1>4, <1>5, PointerFields
<1>8. /\ (enabled > 0 /\ grabbed = NoNode /\ n = under) \/ (n = NoNode /\ ~(enabled > 0))
      /\ grabbed \notin PointerClients
  BY <1>1, <1>4, <1>5, NodesAssumption DEF PointerInv, FocusCalls, PointerClients
<1>9. /\ TodoRight(todo)' /\ AccountsRight'
      /\ ~AtTop("focus")' /\ ~AtTop("transfer")'
      /\ \A x \in Members(todo)' : x = d \/ x.op = "leave" \/ x \in Members(T)
  <2>1. CASE focus = n /\ todo' = T
    <3>1. AccountsRight'
      BY <1>1, <1>4, <1>5, <2>1, AccountsKept DEF PointerInv, InFlight
    <3>2. T # <<>> => Head(T) \in Members(T)
      BY <1>1, <1>4, PointerTop
    <3> QED
      BY <1>5, <1>6, <2>1, <3>1, <3>2 DEF AtTop
  <2>2. CASE focus # n /\ Run(LeaveOld(focus) \o <<d>>)
    BY <1>1, <1>3, <1>4, <2>2, FocusTaken DEF AtTop
  <2> QED
    BY <1>4, <2>1, <2>2
<1>10. PointerTypes'
  BY <1>4, <1>7, <1>9 DEF PointerInv, PointerTypes
<1>11. TransfersRight'
  BY <1>3, <1>5, <1>9 DEF TransfersRight
<1>12. FocusCovered'
  BY <1>4, <1>8 DEF FocusCovered
<1>13. GrabCovered'
  BY <1>4, <1>8 DEF GrabCovered
<1>14. FocusCalls'
  BY <1>3, <1>6, <1>9 DEF FocusCalls
<1>15. DisabledFocus' /\ PluginFocus'
  BY <1>4, <1>8, NodesAssumption DEF DisabledFocus, PluginFocus, PointerClients
<1> QED
  BY <1>9, <1>10, <1>11, <1>12, <1>13, <1>14, <1>15 DEF PointerInv

(* transfer_grab(): the same, for a grab.                                   *)
LEMMA TransferGrabInv ==
  ASSUME PointerInv, TransferGrab
  PROVE  PointerInv'
<1>1. PICK h, T, n : h = Head(todo) /\ T = Tail(todo) /\ n = h.node
  OBVIOUS
<1>2. PICK d : d = Transferred(n)
  OBVIOUS
<1>3. /\ todo # <<>> /\ h.op = "transfer" /\ focus' = n
      /\ UNCHANGED <<grabbed, sent, enabled, held, alive, under, owed, inside>>
      /\ (focus = n /\ todo' = T) \/ (focus # n /\ Run(LeaveOld(focus) \o <<d>>))
  BY <1>1, <1>2, Runs DEF TransferGrab, AtTop, scene, history
<1>4. /\ TodoRight(T) /\ Members(todo) = {h} \cup Members(T) /\ h \in PointerCalls
      /\ \A x \in Members(T) : x.op \notin {"leave", "transfer", "end_grab", "focused", "transferred"}
      /\ T = <<>> \/ Head(T).op \notin InFlight \cup {"transfer", "end_grab"}
      /\ \A op : op # "transfer" => ~AtTop(op)
  BY <1>1, <1>3, PointerTop, Below DEF AtTop
<1>5. n \in Grabs /\ n \in Nodes /\ n \in alive /\ n \notin PointerClients
  BY <1>1, <1>3, <1>4, PointerFields, NodesAssumption DEF PointerInv, TransfersRight, AtTop, PointerClients
<1>6. d \in PointerCalls /\ d.op = "transferred" /\ d.node = n
  BY <1>2, <1>5, PointerCallsMade
<1>7. /\ TodoRight(todo)' /\ AccountsRight' /\ ~AtTop("transfer")'
      /\ \A x \in Members(T) : x \in Members(todo)'
      /\ \A x \in Members(todo)' : x = d \/ x.op = "leave" \/ x \in Members(T)
      /\ d \in Members(todo)' \/ focus = n
  <2>1. CASE focus = n /\ todo' = T
    <3>1. AccountsRight'
      BY <1>1, <1>3, <1>4, <2>1, AccountsKept DEF PointerInv, InFlight
    <3> QED
      BY <1>4, <2>1, <3>1 DEF AtTop
  <2>2. CASE focus # n /\ Run(LeaveOld(focus) \o <<d>>)
    BY <1>1, <1>3, <1>6, <2>2, FocusTaken DEF AtTop
  <2> QED
    BY <1>3, <2>1, <2>2
<1>8. /\ \A ops : "transfer" \notin ops /\ Awaits(ops) => Awaits(ops)'
      /\ Awaits({"check_grab"})' => Awaits({"check_grab"})
      /\ Awaits({"transferred"})' \/ focus = n
  BY <1>3, <1>4, <1>6, <1>7 DEF Awaits
<1>9. PointerTypes'
  BY <1>3, <1>5, <1>7 DEF PointerInv, PointerTypes
<1>10. TransfersRight'
  BY <1>3, <1>4, <1>5, <1>6, <1>7 DEF TransfersRight
<1>11. FocusCovered'
  BY <1>3, <1>5 DEF FocusCovered
<1>12. GrabCovered'
  BY <1>3, <1>4, <1>5, <1>8 DEF GrabCovered, PointerInv
<1>13. FocusCalls'
  BY <1>3, <1>4, <1>6, <1>7, <1>8 DEF FocusCalls, PointerInv
<1>14. DisabledFocus' /\ PluginFocus'
  BY <1>3, <1>5 DEF DisabledFocus, PluginFocus
<1> QED
  BY <1>7, <1>9, <1>10, <1>11, <1>12, <1>13, <1>14 DEF PointerInv

(* The node that has the focus by now is entered.                          *)
LEMMA EnteredRight ==
  ASSUME PointerTypes, Accounts(NoNode, NoButtons), NEW bag \in [Buttons -> Nat],
         inside' = Entered, sent' = bag, UNCHANGED <<focus, owed>>, bag = NoButtons \/ focus \in Raw
  PROVE  Accounts(focus, sent)' /\ inside' \in [Nodes -> Int]
<1>1. /\ \A n \in Nodes \ Raw : owed[n] = NoButtons
      /\ \A n \in Nodes : inside[n] = 0
      /\ focus \in Nodes \cup {NoNode} /\ inside \in [Nodes -> Int]
  BY NodesAssumption DEF Accounts, PointerTypes
<1>2. \A n \in Nodes \ Raw : owed'[n] = IF n = focus' THEN sent' ELSE NoButtons
  BY <1>1
<1>3. inside' \in [Nodes -> Int] /\ \A n \in Nodes : inside'[n] = IF n = focus' THEN 1 ELSE 0
  BY <1>1, NodesAssumption DEF Entered
<1> QED
  BY <1>2, <1>3 DEF Accounts, NoButtons

(* update_cursor_focus() after the old focus has left: whatever is the      *)
(* focus by now is entered.                                                 *)
LEMMA UpdateCursorFocusEndInv ==
  ASSUME PointerInv, UpdateCursorFocusEnd
  PROVE  PointerInv'
<1>1. PICK h, T : h = Head(todo) /\ T = Tail(todo)
  OBVIOUS
<1>2. /\ todo # <<>> /\ h.op = "focused" /\ todo' = T /\ sent' = NoButtons /\ inside' = Entered
      /\ UNCHANGED <<focus, grabbed, enabled, held, alive, under, owed>>
  BY <1>1, Runs DEF UpdateCursorFocusEnd, AtTop, scene
<1>3. /\ TodoRight(T) /\ Members(todo) = {h} \cup Members(T)
      /\ \A d \in Members(T) : d.op \notin {"leave", "transfer", "end_grab", "focused", "transferred"}
      /\ T = <<>> \/ Head(T).op \notin InFlight \cup {"transfer", "end_grab"}
      /\ \A op : op # "focused" => ~AtTop(op)
      /\ AtTop("focused")
  BY <1>1, <1>2, PointerTop, Below DEF AtTop
<1>4. \A ops : "focused" \notin ops => (Awaits(ops) <=> Awaits(ops)')
  BY <1>2, <1>3 DEF Awaits
<1>5. NoButtons \in [Buttons -> Nat]
  BY DEF NoButtons
<1>6. Accounts(focus, sent)' /\ inside' \in [Nodes -> Int]
  BY <1>2, <1>3, <1>5, EnteredRight DEF PointerInv, AccountsRight
<1>7. PointerTypes'
  BY <1>2, <1>3, <1>5, <1>6 DEF PointerInv, PointerTypes
<1>8. AccountsRight'
  BY <1>2, <1>3, <1>6 DEF AccountsRight, AtTop, InFlight
<1>9. TransfersRight'
  BY <1>2, <1>3 DEF TransfersRight, AtTop
<1>10. FocusCovered'
  BY <1>2, <1>3, <1>4 DEF FocusCovered, PointerInv
<1>11. GrabCovered'
  BY <1>2, <1>3, <1>4 DEF GrabCovered, PointerInv
<1>12. FocusCalls'
  BY <1>2, <1>3, <1>4 DEF FocusCalls, PointerInv
<1>13. DisabledFocus' /\ PluginFocus'
  BY <1>2, <1>4 DEF DisabledFocus, PluginFocus, PointerInv
<1> QED
  BY <1>7, <1>8, <1>9, <1>10, <1>11, <1>12, <1>13 DEF PointerInv

(* transfer_grab() after the old focus has left: the grab is entered, with  *)
(* no buttons unless it takes raw input.                                    *)
LEMMA TransferGrabEndInv ==
  ASSUME PointerInv, TransferGrabEnd
  PROVE  PointerInv'
<1>1. PICK h, T, n : h = Head(todo) /\ T = Tail(todo) /\ n = h.node
  OBVIOUS
<1>2. /\ todo # <<>> /\ h.op = "transferred" /\ todo' = T
      /\ sent' = (IF n \in Raw THEN sent ELSE NoButtons) /\ inside' = Entered /\ grabbed' \in {NoNode, n}
      /\ UNCHANGED <<focus, enabled, held, alive, under, owed>>
  BY <1>1, Runs DEF TransferGrabEnd, AtTop, scene
<1>3. /\ TodoRight(T) /\ Members(todo) = {h} \cup Members(T) /\ h \in PointerCalls
      /\ \A d \in Members(T) : d.op \notin {"leave", "transfer", "end_grab", "focused", "transferred"}
      /\ T = <<>> \/ Head(T).op \notin InFlight \cup {"transfer", "end_grab"}
      /\ \A op : op # "transferred" => ~AtTop(op)
      /\ AtTop("transferred")
  BY <1>1, <1>2, PointerTop, Below DEF AtTop
<1>4. /\ n \in Grabs /\ n = focus /\ focus \in alive
      /\ n \in Nodes /\ n \notin PointerClients /\ NoNode \notin PointerClients
  BY <1>1, <1>2, <1>3, PointerFields, NodesAssumption DEF PointerInv, TransfersRight, PointerClients
<1>5. \A ops : "transferred" \notin ops => (Awaits(ops) <=> Awaits(ops)')
  BY <1>2, <1>3 DEF Awaits
<1>6. sent \in [Buttons -> Nat] /\ NoButtons \in [Buttons -> Nat]
  BY DEF NoButtons, PointerInv, PointerTypes
<1>7. sent' \in [Buttons -> Nat] /\ (sent' = NoButtons \/ focus \in Raw)
  BY <1>2, <1>4, <1>6
<1>8. Accounts(focus, sent)' /\ inside' \in [Nodes -> Int]
  BY <1>2, <1>3, <1>7, EnteredRight DEF PointerInv, AccountsRight
<1>9. PointerTypes'
  BY <1>2, <1>3, <1>4, <1>7, <1>8 DEF PointerInv, PointerTypes
<1>10. AccountsRight'
  BY <1>2, <1>3, <1>8 DEF AccountsRight, AtTop, InFlight
<1>11. TransfersRight'
  BY <1>2, <1>3 DEF TransfersRight, AtTop
<1>12. FocusCovered'
  BY <1>2, <1>4 DEF FocusCovered
<1>13. GrabCovered'
  BY <1>2, <1>4 DEF GrabCovered
<1>14. FocusCalls'
  BY <1>2, <1>3, <1>4, <1>5 DEF FocusCalls, PointerInv
<1>15. DisabledFocus' /\ PluginFocus'
  BY <1>2, <1>4 DEF DisabledFocus, PluginFocus
<1> QED
  BY <1>9, <1>10, <1>11, <1>12, <1>13, <1>14, <1>15 DEF PointerInv

(* Before a node is left its buttons are released one after the other;      *)
(* here no handler answers by changing the scene.                           *)
LEMMA ForceReleaseInv ==
  ASSUME PointerInv, ReactToForced = {}, ForceRelease
  PROVE  PointerInv'
<1>1. PICK h, T, n, bag : h = Head(todo) /\ T = Tail(todo) /\ n = h.node /\ bag = h.bag
  OBVIOUS
<1>2. PICK b \in Buttons :
        /\ bag[b] > 0 /\ owed' = Told(n, Erase(owed[n], b))
        /\ Run(ForcedHandlerOf(n) \o <<Leave(n, Erase(bag, b))>>)
  BY <1>1 DEF ForceRelease
<1>3. PICK c : c = Leave(n, Erase(bag, b))
  OBVIOUS
<1>4. /\ todo # <<>> /\ h.op = "leave" /\ AtTop("leave") /\ \A op : op # "leave" => ~AtTop(op)
      /\ UNCHANGED <<focus, grabbed, sent, enabled, held, alive, under, inside>>
  BY <1>1 DEF ForceRelease, AtTop, ptrvars, scene
<1>5. /\ TodoRight(T) /\ Members(todo) = {h} \cup Members(T) /\ h \in PointerCalls
      /\ \A d \in Members(T) : Underlies(h, d)
  BY <1>1, <1>4, PointerTop
<1>6. n \in Nodes /\ bag \in [Buttons -> Nat]
  BY <1>1, <1>4, <1>5, PointerFields
<1>7. PICK less : less = Erase(bag, b)
  OBVIOUS
<1>8. less \in [Buttons -> Nat]
  BY <1>2, <1>6, <1>7 DEF Erase
<1>9. c \in PointerCalls /\ c.op = "leave" /\ c.node = n /\ c.bag = less
  BY <1>3, <1>6, <1>7, <1>8, PointerCallsMade
<1>10. todo' = <<c>> \o T
  BY <1>1, <1>2, <1>3, <1>4, <1>9, Runs DEF ForcedHandlerOf
<1>11. TodoRight(todo)' /\ (todo # <<>>)' /\ Head(todo)' = c /\ Tail(todo)' = T /\ Members(todo)' = {c} \cup Members(T)
  <2>1. PICK s : s = todo'
    OBVIOUS
  <2>2. \A d \in Members(T) : Underlies(c, d)
    BY <1>4, <1>5, <1>9 DEF Underlies
  <2>3. TodoRight(s) /\ s # <<>> /\ Head(s) = c /\ Tail(s) = T /\ Members(s) = {c} \cup Members(T)
    BY <1>5, <1>9, <1>10, <2>1, <2>2, PushPointer
  <2> QED
    BY <2>1, <2>3
<1>12. n # focus /\ Accounts(n, bag) /\ T # <<>> /\ Head(T).op \in {"focused", "transferred"}
  BY <1>1, <1>4 DEF PointerInv, AccountsRight
<1>13. owed \in [Nodes -> [Buttons -> Int]]
  BY DEF PointerInv, PointerTypes
<1>14. owed' \in [Nodes -> [Buttons -> Int]]
  BY <1>2, <1>6, <1>13 DEF Told, Erase
<1>15. Accounts(n, less)'
  <2>1. ASSUME NEW m \in Nodes \ Raw PROVE owed'[m] = IF m = n THEN less ELSE NoButtons
    <3>1. owed[m] = IF m = n THEN bag ELSE NoButtons
      BY <1>12, <2>1 DEF Accounts
    <3>2. CASE m = n
      BY <1>2, <1>6, <1>7, <1>13, <2>1, <3>1, <3>2 DEF Told
    <3>3. CASE m # n
      BY <1>2, <1>6, <1>13, <2>1, <3>1, <3>3 DEF Told
    <3> QED
      BY <3>2, <3>3
  <2>2. \A m \in Nodes : inside'[m] = IF m = n THEN 1 ELSE 0
    BY <1>4, <1>12 DEF Accounts
  <2> QED
    BY <2>1, <2>2 DEF Accounts, NoButtons
<1>16. \A ops : Awaits(ops) <=> Awaits(ops)'
  BY <1>4, <1>5, <1>9, <1>11 DEF Awaits
<1>17. PointerTypes'
  BY <1>4, <1>11, <1>14 DEF PointerInv, PointerTypes
<1>18. AccountsRight'
  BY <1>4, <1>9, <1>11, <1>12, <1>15 DEF AccountsRight, AtTop, InFlight
<1>19. TransfersRight'
  BY <1>4, <1>5, <1>9, <1>11 DEF TransfersRight, AtTop, PointerInv
<1>20. FocusCovered'
  BY <1>4, <1>16 DEF FocusCovered, PointerInv
<1>21. GrabCovered'
  BY <1>4, <1>16 DEF GrabCovered, PointerInv
<1>22. FocusCalls'
  BY <1>4, <1>5, <1>9, <1>11, <1>16 DEF FocusCalls, PointerInv
<1>23. DisabledFocus' /\ PluginFocus'
  BY <1>4, <1>16 DEF DisabledFocus, PluginFocus, PointerInv
<1> QED
  BY <1>17, <1>18, <1>19, <1>20, <1>21, <1>22, <1>23 DEF PointerInv

(* The leave itself: the account of the old focus is closed.                *)
LEMMA SendLeaveInv ==
  ASSUME PointerInv, SendLeave
  PROVE  PointerInv'
<1>1. PICK h, T, n : h = Head(todo) /\ T = Tail(todo) /\ n = h.node
  OBVIOUS
<1>2. /\ todo # <<>> /\ h.op = "leave" /\ h.bag = NoButtons /\ todo' = T /\ inside' = [inside EXCEPT ![n] = @ - 1]
      /\ UNCHANGED <<focus, grabbed, sent, enabled, held, alive, under, owed>>
      /\ AtTop("leave") /\ \A op : op # "leave" => ~AtTop(op)
  BY <1>1, Runs DEF SendLeave, AtTop, ptrvars, scene, IsEmpty
<1>3. /\ TodoRight(T) /\ Members(todo) = {h} \cup Members(T) /\ h \in PointerCalls
      /\ \A d \in Members(T) : d \in PointerCalls /\ Underlies(h, d)
      /\ T # <<>> => Head(T) \in Members(T)
  BY <1>1, <1>2, PointerTop
<1>4. n \in Nodes
  BY <1>1, <1>2, <1>3, PointerFields
<1>5. n # focus /\ Accounts(n, NoButtons) /\ T # <<>> /\ Head(T).op \in {"focused", "transferred"}
  BY <1>1, <1>2 DEF PointerInv, AccountsRight
<1>6. inside \in [Nodes -> Int]
  BY DEF PointerInv, PointerTypes
<1>7. Accounts(NoNode, NoButtons)'
  BY <1>2, <1>4, <1>5, <1>6, NodesAssumption DEF Accounts, NoButtons
<1>8. \A ops : "leave" \notin ops => (Awaits(ops) <=> Awaits(ops)')
  BY <1>2, <1>3 DEF Awaits
<1>9. PointerTypes'
  BY <1>2, <1>3, <1>4, <1>6 DEF PointerInv, PointerTypes
<1>10. AccountsRight'
  BY <1>2, <1>5, <1>7 DEF AccountsRight, AtTop, InFlight
<1>11. TransfersRight'
  BY <1>2, <1>3, <1>5 DEF TransfersRight, AtTop, PointerInv
<1>12. FocusCovered'
  BY <1>2, <1>8 DEF FocusCovered, PointerInv
<1>13. GrabCovered'
  BY <1>2, <1>8 DEF GrabCovered, PointerInv
<1>14. FocusCalls'
  BY <1>2, <1>3, <1>8 DEF FocusCalls, PointerInv
<1>15. DisabledFocus' /\ PluginFocus'
  BY <1>2, <1>8 DEF DisabledFocus, PluginFocus, PointerInv
<1> QED
  BY <1>9, <1>10, <1>11, <1>12, <1>13, <1>14, <1>15 DEF PointerInv

(* A node is told of a button, and its handler may run.                    *)
LEMMA ButtonInv ==
  ASSUME PointerInv, todo # <<>>, NEW h, NEW T, h = Head(todo), T = Tail(todo), h.op \in {"press", "release"},
         Run(<<>>) \/ Run(HandlerOf(focus)),
         UNCHANGED <<focus, grabbed, enabled, held, alive, under, inside>>,
         sent' \in [Buttons -> Nat], owed' \in [Nodes -> [Buttons -> Int]], Accounts(focus, sent)'
  PROVE  PointerInv'
<1>1. PICK c : c = Handler
  OBVIOUS
<1>2. c \in PointerCalls /\ c.op = "handler"
  BY <1>1, PointerCallsMade
<1>3. todo' = T \/ todo' = <<c>> \o T
  BY <1>1, <1>2, Runs DEF HandlerOf
<1>4. /\ TodoRight(T) /\ Members(todo) = {h} \cup Members(T)
      /\ \A d \in Members(T) : d.op \notin {"leave", "transfer", "end_grab", "focused", "transferred"}
      /\ T = <<>> \/ Head(T).op \notin InFlight \cup {"transfer", "end_grab"}
      /\ \A op : op \notin {"press", "release"} => ~AtTop(op)
  BY PointerTop, Below DEF AtTop
<1>5. /\ TodoRight(todo)'
      /\ Members(todo)' = Members(T) \/ Members(todo)' = {c} \cup Members(T)
      /\ (todo = <<>> \/ Head(todo).op \notin InFlight \cup {"transfer", "end_grab"})'
  <2>1. CASE todo' = T
    BY <1>4, <2>1
  <2>2. CASE todo' = <<c>> \o T
    <3>1. PICK s : s = todo'
      OBVIOUS
    <3>2. \A d \in Members(T) : Underlies(c, d)
      BY <1>2, <1>4 DEF Underlies
    <3>3. TodoRight(s) /\ s # <<>> /\ Head(s) = c /\ Members(s) = {c} \cup Members(T)
      BY <1>2, <1>4, <2>2, <3>1, <3>2, PushPointer
    <3> QED
      BY <1>2, <3>1, <3>3 DEF InFlight
  <2> QED
    BY <1>3, <2>1, <2>2
<1>6. \A ops : {"handler", "press", "release"} \cap ops = {} => (Awaits(ops) <=> Awaits(ops)')
  BY <1>2, <1>4, <1>5 DEF Awaits
<1>7. PointerTypes'
  BY <1>5 DEF PointerInv, PointerTypes
<1>8. AccountsRight'
  BY <1>5 DEF AccountsRight, AtTop, InFlight
<1>9. TransfersRight'
  BY <1>2, <1>4, <1>5 DEF TransfersRight, AtTop
<1>10. FocusCovered'
  BY <1>4, <1>6 DEF FocusCovered, PointerInv
<1>11. GrabCovered'
  BY <1>4, <1>6 DEF GrabCovered, PointerInv
<1>12. FocusCalls'
  BY <1>2, <1>4, <1>5, <1>6 DEF FocusCalls, PointerInv
<1>13. DisabledFocus' /\ PluginFocus'
  BY <1>6 DEF DisabledFocus, PluginFocus, PointerInv
<1> QED
  BY <1>7, <1>8, <1>9, <1>10, <1>11, <1>12, <1>13 DEF PointerInv

(* send_button(), of a press: the focus is owed one release more.           *)
LEMMA SendButtonPressInv ==
  ASSUME PointerInv, SendButtonPress
  PROVE  PointerInv'
<1>1. PICK h, T, b : h = Head(todo) /\ T = Tail(todo) /\ b = h.button
  OBVIOUS
<1>2. /\ todo # <<>> /\ h.op = "press"
      /\ UNCHANGED <<focus, grabbed, enabled, held, alive, under, inside>>
      /\ \/ Run(<<>>) /\ UNCHANGED <<sent, owed>>
         \/ /\ focus # NoNode /\ sent' = Insert(sent, b) /\ owed' = Told(focus, Insert(owed[focus], b))
            /\ Run(HandlerOf(focus))
  BY <1>1 DEF SendButtonPress, AtTop, scene
<1>3. b \in Buttons
  BY <1>1, <1>2, PointerTop, PointerFields
<1>4. /\ Accounts(focus, sent) /\ sent \in [Buttons -> Nat] /\ owed \in [Nodes -> [Buttons -> Int]]
      /\ focus \in Nodes \cup {NoNode}
  BY <1>1, <1>2 DEF PointerInv, AccountsRight, InFlight, PointerTypes
<1>5. CASE Run(<<>>) /\ UNCHANGED <<sent, owed>>
  <2>1. Accounts(focus, sent)'
    BY <1>2, <1>4, <1>5 DEF Accounts, NoButtons
  <2> QED
    BY <1>1, <1>2, <1>4, <1>5, <2>1, ButtonInv
<1>6. CASE /\ focus # NoNode /\ sent' = Insert(sent, b) /\ owed' = Told(focus, Insert(owed[focus], b))
           /\ Run(HandlerOf(focus))
  <2>1. focus \in Nodes
    BY <1>4, <1>6
  <2>2. sent' \in [Buttons -> Nat] /\ owed' \in [Nodes -> [Buttons -> Int]]
    BY <1>3, <1>4, <1>6, <2>1 DEF Insert, Told
  <2>3. ASSUME NEW m \in Nodes \ Raw PROVE owed'[m] = IF m = focus' THEN sent' ELSE NoButtons
    <3>1. owed[m] = IF m = focus THEN sent ELSE NoButtons
      BY <1>4, <2>3 DEF Accounts
    <3>2. CASE m = focus
      BY <1>2, <1>4, <1>6, <2>1, <2>3, <3>1, <3>2 DEF Told
    <3>3. CASE m # focus
      BY <1>2, <1>4, <1>6, <2>1, <2>3, <3>1, <3>3 DEF Told
    <3> QED
      BY <3>2, <3>3
  <2>4. Accounts(focus, sent)'
    BY <1>2, <1>4, <2>3 DEF Accounts, NoButtons
  <2> QED
    BY <1>1, <1>2, <1>6, <2>2, <2>4, ButtonInv
<1> QED
  BY <1>2, <1>5, <1>6

(* send_button(), of a release: the focus is told if it knows of the        *)
(* press, or takes raw input.                                               *)
LEMMA SendButtonReleaseInv ==
  ASSUME PointerInv, SendButtonRelease
  PROVE  PointerInv'
<1>1. PICK h, T, b : h = Head(todo) /\ T = Tail(todo) /\ b = h.button
  OBVIOUS
<1>2. /\ todo # <<>> /\ h.op = "release"
      /\ UNCHANGED <<focus, grabbed, enabled, held, alive, under, inside>>
      /\ \/ Run(<<>>) /\ UNCHANGED <<sent, owed>>
         \/ /\ focus # NoNode /\ (sent[b] > 0 \/ focus \in Raw)
            /\ sent' = (IF sent[b] > 0 THEN Erase(sent, b) ELSE sent)
            /\ owed' = Told(focus, Erase(owed[focus], b))
            /\ Run(HandlerOf(focus))
  BY <1>1 DEF SendButtonRelease, AtTop, scene
<1>3. b \in Buttons
  BY <1>1, <1>2, PointerTop, PointerFields
<1>4. /\ Accounts(focus, sent) /\ sent \in [Buttons -> Nat] /\ owed \in [Nodes -> [Buttons -> Int]]
      /\ focus \in Nodes \cup {NoNode}
  BY <1>1, <1>2 DEF PointerInv, AccountsRight, InFlight, PointerTypes
<1>5. CASE Run(<<>>) /\ UNCHANGED <<sent, owed>>
  <2>1. Accounts(focus, sent)'
    BY <1>2, <1>4, <1>5 DEF Accounts, NoButtons
  <2> QED
    BY <1>1, <1>2, <1>4, <1>5, <2>1, ButtonInv
<1>6. CASE /\ focus # NoNode /\ (sent[b] > 0 \/ focus \in Raw)
           /\ sent' = (IF sent[b] > 0 THEN Erase(sent, b) ELSE sent)
           /\ owed' = Told(focus, Erase(owed[focus], b))
           /\ Run(HandlerOf(focus))
  <2>1. focus \in Nodes
    BY <1>4, <1>6
  <2>2. sent' \in [Buttons -> Nat]
    BY <1>3, <1>4, <1>6 DEF Erase
  <2>3. owed' \in [Nodes -> [Buttons -> Int]]
    BY <1>3, <1>4, <1>6, <2>1 DEF Erase, Told
  <2>4. ASSUME NEW m \in Nodes \ Raw PROVE owed'[m] = IF m = focus' THEN sent' ELSE NoButtons
    <3>1. owed[m] = IF m = focus THEN sent ELSE NoButtons
      BY <1>4, <2>4 DEF Accounts
    <3>2. CASE m = focus
      BY <1>2, <1>4, <1>6, <2>1, <2>4, <3>1, <3>2 DEF Told
    <3>3. CASE m # focus
      BY <1>2, <1>4, <1>6, <2>1, <2>4, <3>1, <3>3 DEF Told
    <3> QED
      BY <3>2, <3>3
  <2>5. Accounts(focus, sent)'
    BY <1>2, <1>4, <2>4 DEF Accounts, NoButtons
  <2> QED
    BY <1>1, <1>2, <1>6, <2>2, <2>3, <2>5, ButtonInv
<1> QED
  BY <1>2, <1>5, <1>6

(* The last call of an event: nothing is left to put the focus right, so a *)
(* grab that starts now starts on a focus that is right.                   *)
LEMMA CheckImplicitGrabInv ==
  ASSUME PointerInv, CheckImplicitGrab
  PROVE  PointerInv'
<1>1. PICK h, T : h = Head(todo) /\ T = Tail(todo)
  OBVIOUS
<1>2. PICK c : c = EndGrab
  OBVIOUS
<1>3. c \in PointerCalls /\ c.op = "end_grab"
  BY <1>2, PointerCallsMade
<1>4. /\ todo # <<>> /\ h.op = "check_grab" /\ \A op : op # "check_grab" => ~AtTop(op)
      /\ grabbed' = (IF Cardinality(held) = 1 /\ focus # NoNode THEN focus ELSE grabbed)
      /\ UNCHANGED <<focus, sent, enabled, held, alive, under, owed, inside>>
      /\ (Cardinality(held) # 0 /\ todo' = T) \/ todo' = <<c>> \o T
  BY <1>1, <1>2, <1>3, Runs DEF CheckImplicitGrab, AtTop, scene, history, count_pressed_buttons
<1>5. /\ TodoRight(T) /\ Members(todo) = {h} \cup Members(T) /\ Members(T) = {} /\ T = <<>>
  BY <1>1, <1>4, PointerTop DEF Underlies
<1>6. /\ held \in SUBSET Buttons /\ focus \in Nodes \cup {NoNode} /\ under \in alive \cup {NoNode}
      /\ grabbed \in Nodes \cup {NoNode}
  BY DEF PointerInv, PointerTypes
<1>7. IsFiniteSet(held) /\ (Cardinality(held) = 0 <=> held = {})
  BY <1>6, FS_Subset, FS_EmptySet, NodesAssumption
<1>8. Cardinality(held) = 1 => held # {}
  BY <1>7
<1>9. \A ops : "check_grab" \notin ops => ~Awaits(ops)
  BY <1>4, <1>5 DEF Awaits
<1>10. /\ TodoRight(todo)' /\ (todo = <<>> \/ Head(todo).op = "end_grab")'
       /\ \A x \in Members(todo)' : x.op = "end_grab"
       /\ held = {} => AtTop("end_grab")'
  <2>1. CASE Cardinality(held) # 0 /\ todo' = T
    BY <1>5, <1>7, <2>1
  <2>2. CASE todo' = <<c>> \o T
    <3>1. PICK s : s = todo'
      OBVIOUS
    <3>2. TodoRight(s) /\ s # <<>> /\ Head(s) = c /\ Members(s) = {c} \cup Members(T)
      BY <1>3, <1>5, <2>2, <3>1, PushPointer
    <3> QED
      BY <1>3, <1>5, <3>1, <3>2 DEF AtTop
  <2> QED
    BY <1>4, <2>1, <2>2
<1>11. /\ focus \in PointerClients => enabled > 0 /\ grabbed \notin Grabs
       /\ focus \in PointerClients /\ grabbed = NoNode => focus = under
       /\ grabbed \in PointerClients => grabbed = focus /\ grabbed \in alive
  <2>1. focus \in PointerClients => enabled > 0 /\ grabbed \notin Grabs
    BY <1>9 DEF PointerInv, DisabledFocus, PluginFocus
  <2>2. focus \in PointerClients /\ grabbed = NoNode => focus = under
    BY <1>4, <1>9, <2>1 DEF PointerInv, FocusCovered, PointerClients
  <2>3. grabbed \in PointerClients => grabbed = focus /\ grabbed \in alive
    BY <1>4, <1>9 DEF PointerInv, GrabCovered
  <2> QED
    BY <2>1, <2>2, <2>3
<1>12. grabbed' \in Nodes \cup {NoNode} /\ (grabbed' = grabbed \/ (grabbed' = focus /\ focus # NoNode /\ held # {}))
  BY <1>4, <1>6, <1>8
<1>13. grabbed' \in PointerClients => grabbed' = focus /\ grabbed' \in alive
  <2>1. CASE grabbed' = grabbed
    BY <1>11, <2>1
  <2>2. CASE grabbed' = focus /\ focus # NoNode
    BY <1>6, <1>11, <2>2, NodesAssumption DEF PointerClients
  <2> QED
    BY <1>12, <2>1, <2>2
<1>14. PointerTypes'
  BY <1>4, <1>10, <1>12 DEF PointerInv, PointerTypes
<1>15. AccountsRight'
  BY <1>1, <1>4, <1>10, AccountsKept DEF PointerInv, InFlight
<1>16. TransfersRight'
  BY <1>10 DEF TransfersRight, AtTop
<1>17. FocusCovered'
  BY <1>4, <1>9, <1>12 DEF FocusCovered, PointerInv
<1>18. GrabCovered'
  BY <1>4, <1>10, <1>13 DEF GrabCovered
<1>19. FocusCalls'
  BY <1>10 DEF FocusCalls
<1>20. DisabledFocus'
  BY <1>4, <1>9 DEF DisabledFocus, PointerInv
<1>21. PluginFocus'
  BY <1>4, <1>12 DEF PluginFocus, PointerInv, PointerClients
<1> QED
  BY <1>14, <1>15, <1>16, <1>17, <1>18, <1>19, <1>20, <1>21 DEF PointerInv

-----------------------------------------------------------------------------

(* The invariant holds when the seat starts.                                *)
LEMMA InitPointer == Init => PointerInv
<1> SUFFICES ASSUME Init PROVE PointerInv
  OBVIOUS
<1>1. \A op : ~AtTop(op)
  BY DEF Init, AtTop
<1>2. TodoRight(todo) /\ Members(todo) = {}
  BY NothingToDo DEF Init
<1>3. PointerTypes
  BY <1>2, NodesAssumption DEF Init, PointerTypes, NoButtons
<1>4. Accounts(focus, sent)
  BY NodesAssumption DEF Init, Accounts, NoButtons
<1>5. AccountsRight
  BY <1>1, <1>4 DEF AccountsRight
<1> QED
  BY <1>1, <1>2, <1>3, <1>5, NodesAssumption
  DEF Init, PointerInv, TransfersRight, FocusCovered, GrabCovered, FocusCalls, DisabledFocus, PluginFocus, PointerClients

(* Every step keeps the invariant.                                          *)
LEMMA NextPointer == ReactToForced = {} /\ PointerInv /\ [Next]_vars => PointerInv'
<1> SUFFICES ASSUME ReactToForced = {}, PointerInv, [Next]_vars PROVE PointerInv'
  OBVIOUS
<1>1. ASSUME NEW b \in Buttons, Press(b) \/ Release(b) PROVE PointerInv'
  BY <1>1, PointerPressInv, PointerReleaseInv
<1>2. CASE Motion
  BY <1>2, MotionInv
<1>3. ASSUME NEW e \in BOOLEAN, SetEnableFocus(e) PROVE PointerInv'
  BY <1>3, SetEnableFocusInv
<1>4. CASE External \/ React \/ HandlerReturns
  BY <1>4, ExternalInv, ReactInv, HandlerReturnsInv
<1>5. CASE OnRootNodeUpdated \/ GrabSurfaceNull \/ UpdateCursorPosition \/ SendMotion
  BY <1>5, OnRootNodeUpdatedInv, GrabSurfaceNullInv, UpdateCursorPositionInv, SendMotionInv
<1>6. CASE UpdateCursorFocus \/ ForceRelease \/ SendLeave \/ UpdateCursorFocusEnd \/ TransferGrab \/ TransferGrabEnd
  BY <1>6, UpdateCursorFocusInv, ForceReleaseInv, SendLeaveInv, UpdateCursorFocusEndInv, TransferGrabInv, TransferGrabEndInv
<1>7. CASE SendButtonPress \/ SendButtonRelease \/ CheckImplicitGrab
  BY <1>7, SendButtonPressInv, SendButtonReleaseInv, CheckImplicitGrabInv
<1>8. CASE UNCHANGED vars
  BY <1>8 DEF vars, ptrvars, scene, calls, history, PointerInv, PointerTypes, AccountsRight, TransfersRight, FocusCovered,
              GrabCovered, FocusCalls, DisabledFocus, PluginFocus, AtTop, Awaits, Accounts, NoButtons
<1> QED
  BY <1>1, <1>2, <1>3, <1>4, <1>5, <1>6, <1>7, <1>8 DEF Next

(* Clients get presses and releases, enters and leaves, in pairs; an        *)
(* implicit grab lasts as long as its reason; the focus is what is under    *)
(* the cursor (pointer.cpp).                                                *)
THEOREM PointerRight ==
  ASSUME ReactToForced = {}
  PROVE  Spec => [](EventsPaired /\ GrabHasReason /\ FocusIsCurrent)
<1>1. PointerInv => EventsPaired /\ GrabHasReason /\ FocusIsCurrent
  <2> SUFFICES ASSUME PointerInv PROVE EventsPaired /\ GrabHasReason /\ FocusIsCurrent
    OBVIOUS
  <2>1. Idle => EntersMatchLeaves /\ \A n \in Nodes \ Raw : owed[n] = (IF n = focus THEN sent ELSE NoButtons)
    BY PointerIdle DEF Accounts, EntersMatchLeaves
  <2>2. ASSUME NEW n \in Nodes \ Raw, NEW b \in Buttons PROVE owed[n][b] >= 0
    <3>1. \A of : \A bag \in [Buttons -> Nat] : Accounts(of, bag) => owed[n][b] >= 0
      BY <2>2 DEF Accounts, NoButtons
    <3>2. sent \in [Buttons -> Nat] /\ NoButtons \in [Buttons -> Nat]
      BY DEF PointerInv, PointerTypes, NoButtons
    <3>3. CASE todo = <<>> \/ Head(todo).op \notin InFlight
      BY <3>1, <3>2, <3>3 DEF PointerInv, AccountsRight
    <3>4. CASE AtTop("leave")
      <4>1. Head(todo).bag \in [Buttons -> Nat]
        BY <3>4, PointerTop, PointerFields DEF AtTop
      <4> QED
        BY <3>1, <3>4, <4>1 DEF PointerInv, AccountsRight
    <3>5. CASE AtTop("focused") \/ AtTop("transferred")
      BY <3>1, <3>2, <3>5 DEF PointerInv, AccountsRight
    <3> QED
      BY <3>3, <3>4, <3>5 DEF AtTop, InFlight
  <2>3. EventsPaired
    BY <2>1, <2>2 DEF EventsPaired, MatchedButtons, EntersMatchLeaves
  <2>4. GrabHasReason /\ FocusIsCurrent
    BY PointerIdle DEF GrabHasReason, FocusIsCurrent, PointerClients, focus_enabled
  <2> QED
    BY <2>3, <2>4
<1>2. Init => PointerInv
  BY InitPointer
<1>3. PointerInv /\ [Next]_vars => PointerInv'
  BY NextPointer
<1> QED
  BY <1>1, <1>2, <1>3, PTL DEF Spec

-----------------------------------------------------------------------------
(* Fingers: touch.cpp.                                                     *)

TouchClients == TouchNodes \ TouchGrabs

TouchTargets == TouchNodes \cup {NoTarget}

TouchCallTypes ==
  [op: {"set", "set_end", "transfer_end"}, finger: Fingers, node: TouchTargets]
    \cup [op: {"transfer"}, finger: Nat, node: TouchTargets]
    \cup [op: {"update"}, finger: Nat] \cup [op: {"lift"}, finger: Fingers]
    \cup [op: {"node"}] \cup [op: {"up_node"}, node: TouchGrabs]

(* Which calls can be waiting below a call.  Only an event itself calls    *)
(* the code of nodes, and only that code has fingers transferred.          *)
Nested == {"set_end", "transfer_end", "transfer", "update", "node", "lift"}

CanBeBelow(c, d) ==
  /\ c.op = "lift" => FALSE
  /\ c.op = "node" => d.op \in {"node", "lift"}
  /\ c.op = "transfer" => d.op \in {"update", "node", "lift"}
  /\ c.op = "transfer_end" => d.op \in {"transfer", "update", "node", "lift"}
  /\ c.op \in {"set", "set_end"} /\ c.node # NoTarget => d.op = "node"
  /\ c.op \in {"set", "set_end", "update", "up_node"} => d.op \in Nested
  /\ c.op = "up_node" /\ d.op = "set_end" => d.node # c.node

Ordered(s) == \A i, j \in 1..Len(s) : i < j => CanBeBelow(s[i], s[j])

(* A transfer is followed by an update of the focus of every finger.       *)
Transfers == {"transfer", "transfer_end"}

UpdatesFollow(s) ==
  \A i \in 1..Len(s) : s[i].op \in Transfers => \E j \in 1..Len(s) : i < j /\ s[j] = UpdateFrom(First)

(* A finger is given only to nodes that are there, and transferred only to *)
(* raw grabs.                                                              *)
CallRight(c) ==
  /\ c.op \in {"set", "set_end"} /\ c.node # NoTarget => c.finger \in fingers /\ c.node \in touchScene
  /\ c.op \in {"transfer", "transfer_end"} => c.node \in rawGrabs \cup {NoTarget}

(* The call that a finger leaves its node in.                              *)
LeavesIn(c, f) == c.op \in {"set", "set_end"} /\ c.finger = f /\ c.node = NoTarget
Covers(c, f) == LeavesIn(c, f) \/ (c.op = "update" /\ c.finger <= f)

(* The node was told of the up, and the focus is not yet changed.          *)
UpTold(f) ==
  touchCalls # <<>> /\ Head(touchCalls).op \in {"set_end", "transfer_end"} /\ Head(touchCalls).finger = f

TouchTypes ==
  /\ touchFocus \in [Fingers -> TouchTargets \cup {Untracked}]
  /\ fingers \in SUBSET Fingers /\ onScreen \in SUBSET Fingers
  /\ touchScene \in SUBSET TouchNodes /\ rawGrabs \in SUBSET TouchGrabs
  /\ touches \in [TouchNodes -> [Fingers -> Nat]]

Lifts(c, f) == c.op = "lift" /\ c.finger = f

(* fingers is what is on the screen, and the one that is being lifted.     *)
FingersCounted ==
  /\ \A f \in Fingers : f \in fingers <=> f \in onScreen \/ \E c \in Members(touchCalls) : Lifts(c, f)
  /\ \A f \in Fingers, c \in Members(touchCalls) : Lifts(c, f) => f \notin onScreen

(* A finger that was lifted is on no node but raw grabs.                   *)
LiftedApart ==
  \A f \in Fingers : touchFocus[f] \in TouchNodes /\ f \notin fingers =>
    touchFocus[f] \in rawGrabs \/ \E c \in Members(touchCalls) : LeavesIn(c, f)

(* A finger on a node that is gone will be taken from it.                  *)
DeadCovered ==
  \A f \in Fingers : touchFocus[f] \in TouchNodes \ touchScene => \E c \in Members(touchCalls) : Covers(c, f)

(* What waits for the code of a node concerns a finger on a grab.          *)
WaitsForGrab ==
  touchCalls # <<>> =>
    \A c \in Members(Tail(touchCalls)) :
      c.op \in {"set_end", "transfer_end"} => touchFocus[c.finger] \notin TouchClients

(* A finger that leaves its node for none is not on one that is entered.   *)
LeavesOther ==
  touchCalls # <<>> /\ Head(touchCalls).op = "set" =>
    \A c \in Members(Tail(touchCalls)) :
      c.op = "set_end" /\ c.node # NoTarget => touchFocus[Head(touchCalls).finger] # c.node

FingersTold ==
  \A n \in TouchClients, f \in Fingers : touches[n][f] = IF touchFocus[f] = n /\ ~UpTold(f) THEN 1 ELSE 0

StackRight(s) == s \in Seq(TouchCallTypes) /\ Ordered(s) /\ UpdatesFollow(s)

TouchInv ==
  /\ TouchTypes /\ StackRight(touchCalls) /\ \A c \in Members(touchCalls) : CallRight(c)
  /\ FingersCounted /\ LiftedApart /\ DeadCovered /\ WaitsForGrab /\ LeavesOther /\ FingersTold
  /\ lifted \cap TouchClients = {}

(* The calls of a stack are its top and the calls below it.                 *)
LEMMA ConsMembers ==
  ASSUME NEW c \in TouchCallTypes, NEW T \in Seq(TouchCallTypes), NEW s, s = <<c>> \o T
  PROVE  Members(s) = {c} \cup Members(T)
<1>1. Len(T) \in Nat /\ Len(s) = Len(T) + 1 /\ s[1] = c /\ \A i \in 1..Len(T) : s[i + 1] = T[i]
  BY Pushed
<1>2. PICK t : t = s
  OBVIOUS
<1>3. Members(t) = {c} \cup Members(T)
  BY <1>1, <1>2, MembersCons
<1> QED
  BY <1>2, <1>3

(* A push keeps the order if all the others can be below the new call.      *)
LEMMA OrderedCons ==
  ASSUME NEW c \in TouchCallTypes, NEW T \in Seq(TouchCallTypes), NEW s, s = <<c>> \o T
  PROVE  Ordered(s) <=> Ordered(T) /\ \A d \in Members(T) : CanBeBelow(c, d)
<1>1. Len(T) \in Nat /\ Len(s) = Len(T) + 1 /\ s[1] = c /\ \A i \in 1..Len(T) : s[i + 1] = T[i]
  BY Pushed
<1>2. ASSUME Ordered(s) PROVE Ordered(T) /\ \A d \in Members(T) : CanBeBelow(c, d)
  <2>1. ASSUME NEW i \in 1..Len(T), NEW j \in 1..Len(T), i < j PROVE CanBeBelow(T[i], T[j])
    <3>1. i + 1 \in 1..Len(s) /\ j + 1 \in 1..Len(s) /\ i + 1 < j + 1
      BY <1>1, <2>1
    <3> QED
      BY <1>1, <1>2, <3>1 DEF Ordered
  <2>2. ASSUME NEW j \in 1..Len(T) PROVE CanBeBelow(c, T[j])
    <3>1. 1 \in 1..Len(s) /\ j + 1 \in 1..Len(s) /\ 1 < j + 1
      BY <1>1
    <3> QED
      BY <1>1, <1>2, <3>1 DEF Ordered
  <2> QED
    BY <2>1, <2>2 DEF Ordered, Members
<1>3. ASSUME Ordered(T), \A d \in Members(T) : CanBeBelow(c, d) PROVE Ordered(s)
  <2> SUFFICES ASSUME NEW i \in 1..Len(s), NEW j \in 1..Len(s), i < j PROVE CanBeBelow(s[i], s[j])
    BY DEF Ordered
  <2>1. j - 1 \in 1..Len(T) /\ (j - 1) + 1 = j
    BY <1>1
  <2>2. s[j] = T[j - 1]
    BY <1>1, <2>1
  <2>3. CASE i = 1
    BY <1>1, <1>3, <2>1, <2>2, <2>3 DEF Members
  <2>4. CASE i # 1
    <3>1. i - 1 \in 1..Len(T) /\ (i - 1) + 1 = i /\ i - 1 < j - 1
      BY <1>1, <2>4
    <3>2. s[i] = T[i - 1]
      BY <1>1, <3>1
    <3> QED
      BY <1>3, <2>1, <2>2, <3>1, <3>2 DEF Ordered
  <2> QED
    BY <2>3, <2>4
<1> QED
  BY <1>2, <1>3

(* An update follows the transfers of a longer stack if it does those of   *)
(* the shorter one.                                                        *)
LEMMA UpdatesCons ==
  ASSUME NEW c \in TouchCallTypes, NEW T \in Seq(TouchCallTypes), NEW s, s = <<c>> \o T
  PROVE  UpdatesFollow(s) <=> UpdatesFollow(T) /\ (c.op \in Transfers => UpdateFrom(First) \in Members(T))
<1>1. Len(T) \in Nat /\ Len(s) = Len(T) + 1 /\ s[1] = c /\ \A i \in 1..Len(T) : s[i + 1] = T[i]
  BY Pushed
<1>2. ASSUME NEW j \in 1..Len(s), j # 1 PROVE j - 1 \in 1..Len(T) /\ (j - 1) + 1 = j /\ s[j] = T[j - 1]
  <2>1. j - 1 \in 1..Len(T) /\ (j - 1) + 1 = j
    BY <1>1, <1>2
  <2> QED
    BY <1>1, <2>1
<1> DEFINE u == UpdateFrom(First)
<1> HIDE DEF u
<1>3. ASSUME UpdatesFollow(s) PROVE UpdatesFollow(T)
  <2> SUFFICES ASSUME NEW i \in 1..Len(T), T[i].op \in Transfers
               PROVE  \E j \in 1..Len(T) : i < j /\ T[j] = u
    BY DEF UpdatesFollow, u
  <2>1. i + 1 \in 1..Len(s) /\ s[i + 1].op \in Transfers
    BY <1>1
  <2>2. PICK j \in 1..Len(s) : i + 1 < j /\ s[j] = u
    BY <1>3, <2>1 DEF UpdatesFollow, u
  <2>3. j # 1
    BY <1>1, <2>2
  <2> QED
    BY <1>1, <1>2, <2>2, <2>3
<1>4. ASSUME UpdatesFollow(s), c.op \in Transfers PROVE u \in Members(T)
  <2>1. 1 \in 1..Len(s) /\ s[1].op \in Transfers
    BY <1>1, <1>4
  <2>2. PICK j \in 1..Len(s) : 1 < j /\ s[j] = u
    BY <1>4, <2>1 DEF UpdatesFollow, u
  <2> QED
    BY <1>2, <2>2 DEF Members
<1>5. ASSUME UpdatesFollow(T), c.op \in Transfers => u \in Members(T) PROVE UpdatesFollow(s)
  <2> SUFFICES ASSUME NEW i \in 1..Len(s), s[i].op \in Transfers
               PROVE  \E j \in 1..Len(s) : i < j /\ s[j] = u
    BY DEF UpdatesFollow, u
  <2>1. CASE i = 1
    <3>1. PICK j \in 1..Len(T) : T[j] = u
      BY <1>1, <1>5, <2>1 DEF Members
    <3>2. j + 1 \in 1..Len(s) /\ i < j + 1 /\ s[j + 1] = u
      BY <1>1, <2>1, <3>1
    <3> QED
      BY <3>2
  <2>2. CASE i # 1
    <3>1. i - 1 \in 1..Len(T) /\ T[i - 1].op \in Transfers
      BY <1>2, <2>2
    <3>2. PICK j \in 1..Len(T) : i - 1 < j /\ T[j] = u
      BY <1>5, <3>1 DEF UpdatesFollow, u
    <3>3. j + 1 \in 1..Len(s) /\ i < j + 1 /\ s[j + 1] = u
      BY <1>1, <3>1, <3>2
    <3> QED
      BY <3>3
  <2> QED
    BY <2>1, <2>2
<1> QED
  BY <1>3, <1>4, <1>5 DEF u

(* What the calls carry.                                                   *)
LEMMA CallFields ==
  ASSUME NEW c \in TouchCallTypes
  PROVE  /\ c.op \in {"set", "set_end", "transfer", "transfer_end", "update", "lift", "node", "up_node"}
         /\ c.op \in {"set", "set_end", "transfer_end"} => c.finger \in Fingers /\ c.node \in TouchTargets
         /\ c.op = "transfer" => c.finger \in Nat /\ c.node \in TouchTargets
         /\ c.op = "update" => c.finger \in Nat
         /\ c.op = "lift" => c.finger \in Fingers
         /\ c.op = "up_node" => c.node \in TouchGrabs
  BY DEF TouchCallTypes

(* Taking a call from a stack, and putting one on it.                      *)
Fits(c, T) ==
  (\A d \in Members(T) : CanBeBelow(c, d)) /\ (c.op \in Transfers => UpdateFrom(First) \in Members(T))

(* A handler makes a call.                                                  *)
LEMMA PushCall ==
  ASSUME NEW c \in TouchCallTypes, NEW T, StackRight(T), Fits(c, T), NEW s, s = <<c>> \o T
  PROVE  /\ StackRight(s) /\ s # <<>> /\ Head(s) = c /\ Tail(s) = T
         /\ Members(s) = {c} \cup Members(T)
<1>1. T \in Seq(TouchCallTypes) /\ Ordered(T) /\ UpdatesFollow(T)
  BY DEF StackRight
<1>2. s \in Seq(TouchCallTypes) /\ s # <<>> /\ Head(s) = c /\ Tail(s) = T /\ Members(s) = {c} \cup Members(T)
  <2>1. Members(s) = {c} \cup Members(T)
    BY <1>1, ConsMembers
  <2>2. Head(s) = c
    BY <1>1, Pushed
  <2>3. Tail(s) = T
    BY <1>1, Pushed
  <2>4. s # <<>>
    BY <1>1, Pushed
  <2>5. s \in Seq(TouchCallTypes)
    BY <1>1, Pushed
  <2> QED
    BY <2>1, <2>2, <2>3, <2>4, <2>5
<1>3. Ordered(s) /\ UpdatesFollow(s)
  BY <1>1, OrderedCons, UpdatesCons DEF Fits
<1> QED
  BY <1>2, <1>3 DEF StackRight

(* What is known of a stack and of its top when the top returns.            *)
LEMMA PopCall ==
  ASSUME NEW s, StackRight(s), s # <<>>
  PROVE  /\ Head(s) \in TouchCallTypes /\ StackRight(Tail(s)) /\ Fits(Head(s), Tail(s))
         /\ Members(s) = {Head(s)} \cup Members(Tail(s)) /\ s = <<Head(s)>> \o Tail(s)
<1>1. PICK c, T : c = Head(s) /\ T = Tail(s)
  OBVIOUS
<1>2. c \in TouchCallTypes /\ T \in Seq(TouchCallTypes) /\ s = <<c>> \o T
  BY <1>1, Uncons DEF StackRight
<1>3. Members(s) = {c} \cup Members(T)
  BY <1>2, ConsMembers
<1>4. Ordered(s) /\ UpdatesFollow(s)
  BY DEF StackRight
<1>5. Ordered(T) /\ Fits(c, T) /\ UpdatesFollow(T)
  BY <1>2, <1>4, OrderedCons, UpdatesCons DEF Fits
<1> QED
  BY <1>1, <1>2, <1>3, <1>5 DEF StackRight

(* NextFinger is the least finger from f on that is tracked.               *)
LEMMA NextFingerLeast ==
  ASSUME NEW f \in Nat, ~NoMoreFingers(f)
  PROVE  /\ NextFinger(f) \in Fingers /\ touchFocus[NextFinger(f)] # Untracked /\ NextFinger(f) >= f
         /\ \A h \in Fingers : touchFocus[h] # Untracked /\ h >= f => NextFinger(f) <= h
<1> DEFINE T == {g \in Fingers : touchFocus[g] # Untracked /\ g >= f}
<1>1. T # {} /\ T \subseteq Nat
  BY TouchAssumption DEF NoMoreFingers
<1>2. IsWellFoundedOn(OpToRel(<, Nat), Nat)
  BY NatLessThanWellFounded
<1>3. PICK g \in T : \A h \in T : ~ (<<h, g>> \in OpToRel(<, Nat))
  BY <1>1, <1>2, WFMin
<1>4. ASSUME NEW h \in T PROVE g <= h
  <2>1. g \in Nat /\ h \in Nat
    BY <1>1
  <2>2. ~ (h < g)
    BY <1>3, <2>1 DEF OpToRel
  <2> QED
    BY <2>1, <2>2
<1>5. \E x \in Fingers : touchFocus[x] # Untracked /\ x >= f
                          /\ \A h \in Fingers : touchFocus[h] # Untracked /\ h >= f => x <= h
  BY <1>3, <1>4
<1> QED
  BY <1>5 DEF NextFinger

(* The calls below the active one.                                         *)
LEMMA BelowTop ==
  ASSUME NEW T, StackRight(T)
  PROVE  /\ Members(T) \subseteq TouchCallTypes
         /\ T # <<>> => Head(T) \in Members(T) /\ Members(Tail(T)) \subseteq Members(T)
<1>1. Members(T) \subseteq TouchCallTypes
  BY DEF StackRight, Members
<1> QED
  BY <1>1, PopCall

(* Stacks of a call or two.                                                *)
LEMMA NoCalls == StackRight(<<>>) /\ Members(<<>>) = {}
<1>1. <<>> \in Seq(TouchCallTypes) /\ Len(<<>>) = 0
  OBVIOUS
<1> QED
  BY <1>1, NoMembers DEF StackRight, Ordered, UpdatesFollow

(* An event makes one call.                                                 *)
LEMMA OneCall ==
  ASSUME NEW c \in TouchCallTypes, c.op \notin Transfers
  PROVE  /\ StackRight(<<c>>) /\ <<c>> # <<>> /\ Head(<<c>>) = c /\ Tail(<<c>>) = <<>>
         /\ Members(<<c>>) = {c}
<1>1. <<c>> = <<c>> \o <<>>
  <2>1. <<c>> \in Seq(TouchCallTypes)
    OBVIOUS
  <2> QED
    BY <2>1, ConcatEmptySeq
<1>2. Fits(c, <<>>)
  BY NoCalls DEF Fits
<1>3. PICK s, T : s = <<c>> /\ T = <<>>
  OBVIOUS
<1>4. StackRight(s) /\ s # <<>> /\ Head(s) = c /\ Tail(s) = T /\ Members(s) = {c} \cup Members(T)
  BY <1>1, <1>2, <1>3, NoCalls, PushCall
<1> QED
  BY <1>3, <1>4, NoCalls

(* A handler makes two calls one after the other.                           *)
LEMMA TwoCalls ==
  ASSUME NEW c \in TouchCallTypes, NEW d \in TouchCallTypes, d.op \notin Transfers, CanBeBelow(c, d),
         c.op \in Transfers => d = UpdateFrom(First)
  PROVE  /\ StackRight(<<c, d>>) /\ <<c, d>> # <<>> /\ Head(<<c, d>>) = c /\ Tail(<<c, d>>) = <<d>>
         /\ Members(<<c, d>>) = {c, d}
<1>1. PICK s, T : s = <<c, d>> /\ T = <<d>>
  OBVIOUS
<1>2. StackRight(T) /\ Members(T) = {d}
  BY <1>1, OneCall
<1>3. s = <<c>> \o T
  <2>1. <<c, d>> \in Seq(TouchCallTypes) /\ <<d>> \in Seq(TouchCallTypes) /\ <<>> \in Seq(TouchCallTypes)
    OBVIOUS
  <2>2. <<c, d>> \o <<>> = <<c>> \o (<<d>> \o <<>>)
    BY <2>1, ConsTwo
  <2>3. <<c, d>> \o <<>> = <<c, d>> /\ <<d>> \o <<>> = <<d>>
    BY <2>1, ConcatEmptySeq
  <2> QED
    BY <1>1, <2>2, <2>3
<1>4. Fits(c, T)
  BY <1>2 DEF Fits
<1>5. StackRight(s) /\ s # <<>> /\ Head(s) = c /\ Tail(s) = T /\ Members(s) = {c} \cup Members(T)
  BY <1>2, <1>3, <1>4, PushCall
<1> QED
  BY <1>1, <1>2, <1>5

(* How the stacks that the actions write are put together.                  *)
LEMMA Joined ==
  ASSUME NEW c \in TouchCallTypes, NEW d \in TouchCallTypes
  PROVE  /\ <<c>> \o <<d>> = <<c, d>> /\ <<c>> \o <<>> = <<c>> /\ <<>> \o <<c>> = <<c>>
<1>1. <<c>> \in Seq(TouchCallTypes) /\ <<d>> \in Seq(TouchCallTypes) /\ <<>> \in Seq(TouchCallTypes)
      /\ <<c, d>> \in Seq(TouchCallTypes)
  OBVIOUS
<1>2. <<c, d>> \o <<>> = <<c>> \o (<<d>> \o <<>>)
  BY <1>1, ConsTwo
<1> QED
  BY <1>1, <1>2, ConcatEmptySeq

(* The calls that are made.                                                *)
LEMMA CallsMade ==
  /\ \A f \in Fingers, n \in TouchTargets :
       /\ SetTouchFocus(f, n) \in TouchCallTypes /\ SetTouchFocus(f, n).op = "set"
       /\ SetTouchFocus(f, n).finger = f /\ SetTouchFocus(f, n).node = n
       /\ FingerFocused(f, n) \in TouchCallTypes /\ FingerFocused(f, n).op = "set_end"
       /\ FingerFocused(f, n).finger = f /\ FingerFocused(f, n).node = n
       /\ TransferEnd(f, n) \in TouchCallTypes /\ TransferEnd(f, n).op = "transfer_end"
       /\ TransferEnd(f, n).finger = f /\ TransferEnd(f, n).node = n
  /\ \A f \in Nat, n \in TouchTargets :
       /\ TransferFrom(f, n) \in TouchCallTypes /\ TransferFrom(f, n).op = "transfer"
       /\ TransferFrom(f, n).finger = f /\ TransferFrom(f, n).node = n
  /\ \A f \in Nat : UpdateFrom(f) \in TouchCallTypes /\ UpdateFrom(f).op = "update" /\ UpdateFrom(f).finger = f
  /\ \A f \in Fingers : Lift(f) \in TouchCallTypes /\ Lift(f).op = "lift" /\ Lift(f).finger = f
  /\ NodeCode \in TouchCallTypes /\ NodeCode.op = "node"
  /\ \A n \in TouchGrabs : /\ [op |-> "up_node", node |-> n] \in TouchCallTypes
                            /\ [op |-> "up_node", node |-> n].op = "up_node"
                            /\ [op |-> "up_node", node |-> n].node = n
  BY DEF TouchCallTypes, SetTouchFocus, FingerFocused, TransferEnd, TransferFrom, UpdateFrom, Lift, NodeCode

(* Between events.                                                         *)
LEMMA WhenIdle ==
  ASSUME TouchInv, TouchIdle
  PROVE  /\ Members(touchCalls) = {} /\ fingers = onScreen
         /\ \A f \in Fingers : touchFocus[f] \in TouchNodes => touchFocus[f] \in touchScene
         /\ \A f \in Fingers : touchFocus[f] \in TouchNodes /\ f \notin fingers => touchFocus[f] \in rawGrabs
         /\ \A n \in TouchClients, f \in Fingers : touches[n][f] = IF touchFocus[f] = n THEN 1 ELSE 0
<1>1. Members(touchCalls) = {}
  BY NoCalls DEF TouchIdle
<1>2. fingers = onScreen
  BY <1>1 DEF TouchInv, FingersCounted, TouchTypes
<1>3. \A f \in Fingers : touchFocus[f] \in TouchNodes => touchFocus[f] \in touchScene
  BY <1>1 DEF TouchInv, DeadCovered
<1>4. \A f \in Fingers : touchFocus[f] \in TouchNodes /\ f \notin fingers => touchFocus[f] \in rawGrabs
  BY <1>1 DEF TouchInv, LiftedApart
<1>5. \A f : ~UpTold(f)
  BY DEF UpTold, TouchIdle
<1>6. \A n \in TouchClients, f \in Fingers : touches[n][f] = IF touchFocus[f] = n THEN 1 ELSE 0
  BY <1>5 DEF TouchInv, FingersTold
<1> QED
  BY <1>1, <1>2, <1>3, <1>4, <1>6

(* What a handler may take for granted of its own call and of those below.  *)
LEMMA TouchTop ==
  ASSUME TouchInv, touchCalls # <<>>, NEW h, NEW T, h = Head(touchCalls), T = Tail(touchCalls)
  PROVE  /\ h \in TouchCallTypes /\ StackRight(T) /\ Fits(h, T)
         /\ Members(touchCalls) = {h} \cup Members(T)
         /\ CallRight(h) /\ \A d \in Members(T) : CallRight(d) /\ d \in TouchCallTypes /\ CanBeBelow(h, d)
         /\ T # <<>> => Head(T) \in Members(T) /\ Members(Tail(T)) \subseteq Members(T)
<1>1. StackRight(touchCalls)
  BY DEF TouchInv
<1>2. /\ h \in TouchCallTypes /\ StackRight(T) /\ Fits(h, T)
      /\ Members(touchCalls) = {h} \cup Members(T)
  BY <1>1, PopCall
<1>3. Members(T) \subseteq TouchCallTypes
  BY <1>2, BelowTop
<1>4. \A c \in Members(touchCalls) : CallRight(c)
  BY DEF TouchInv
<1>5. T # <<>> => Head(T) \in Members(T) /\ Members(Tail(T)) \subseteq Members(T)
  BY <1>2, BelowTop
<1> QED
  BY <1>2, <1>3, <1>4, <1>5 DEF Fits

(* No up was told whose focus is still to change.                          *)
LEMMA NothingHalfway ==
  ASSUME StackRight(touchCalls)', \A c \in Members(touchCalls)' : c.op \notin {"set_end", "transfer_end"}
  PROVE  WaitsForGrab' /\ LeavesOther' /\ \A f : ~UpTold(f)'
<1>1. PICK s : s = touchCalls'
  OBVIOUS
<1>2. StackRight(s) /\ \A c \in Members(s) : c.op \notin {"set_end", "transfer_end"}
  BY <1>1
<1>3. s # <<>> => Head(s) \in Members(s) /\ Members(Tail(s)) \subseteq Members(s)
  BY <1>2, PopCall
<1> QED
  BY <1>1, <1>2, <1>3 DEF WaitsForGrab, LeavesOther, UpTold

(* The start of an event with the calls it makes.                          *)
LEMMA EventBegins ==
  ASSUME TouchInv, TouchIdle, TouchTypes', StackRight(touchCalls)',
         \A c \in Members(touchCalls)' :
           c.op \notin {"set_end", "transfer_end"} /\ CallRight(c)' /\ (c.op # "lift" \/ c.finger \notin onScreen'),
         \A f \in Fingers : touchFocus'[f] = touchFocus[f] \/ (touchFocus'[f] \notin TouchNodes /\ touchFocus[f] \notin TouchNodes),
         \A f \in Fingers : f \in fingers' <=> f \in onScreen' \/ \E c \in Members(touchCalls)' : Lifts(c, f),
         fingers \subseteq fingers', touchScene \ touchScene' # {} => UpdateFrom(First) \in Members(touchCalls)',
         rawGrabs \cap touchScene \subseteq rawGrabs', touches' = touches, lifted' = lifted
  PROVE  TouchInv'
<1>1. /\ fingers = onScreen
      /\ \A f \in Fingers : touchFocus[f] \in TouchNodes => touchFocus[f] \in touchScene
      /\ \A f \in Fingers : touchFocus[f] \in TouchNodes /\ f \notin fingers => touchFocus[f] \in rawGrabs
      /\ \A n \in TouchClients, f \in Fingers : touches[n][f] = IF touchFocus[f] = n THEN 1 ELSE 0
  BY WhenIdle
<1>2. WaitsForGrab' /\ LeavesOther' /\ \A f : ~UpTold(f)'
  BY NothingHalfway
<1>3. FingersCounted'
  <2>1. \A f \in Fingers, c \in Members(touchCalls)' : Lifts(c, f) => f \notin onScreen'
    BY DEF Lifts
  <2> QED
    BY <2>1 DEF FingersCounted
<1>4. LiftedApart'
  BY <1>1 DEF LiftedApart
<1>5. DeadCovered'
  <2> SUFFICES ASSUME NEW f \in Fingers, touchFocus'[f] \in TouchNodes \ touchScene'
               PROVE  \E c \in Members(touchCalls)' : Covers(c, f)
    BY DEF DeadCovered
  <2>1. UpdateFrom(First) \in Members(touchCalls)'
    BY <1>1
  <2>2. Covers(UpdateFrom(First), f)
    BY TouchAssumption DEF Covers, UpdateFrom, First
  <2> QED
    BY <2>1, <2>2
<1>6. FingersTold'
  BY <1>1, <1>2 DEF FingersTold, TouchClients
<1>7. (lifted \cap TouchClients = {})'
  BY DEF TouchInv
<1> QED
  BY <1>2, <1>3, <1>4, <1>5, <1>6, <1>7 DEF TouchInv

(* A finger comes down: it is counted before any node is told.              *)
LEMMA TouchDownInv ==
  ASSUME TouchInv, NEW f \in Fingers, NEW mode \in {"FULL", "NO_CLIENT"}, TouchDown(f, mode)
  PROVE  TouchInv'
<1>1. PICK n \in touchScene \cup {NoTarget} :
        Begin((IF mode = "FULL" THEN <<SetTouchFocus(f, n)>> ELSE <<>>) \o <<NodeCode>>)
  BY DEF TouchDown
<1>2. /\ TouchIdle /\ onScreen' = onScreen \cup {f} /\ fingers' = fingers \cup {f}
      /\ UNCHANGED <<touchFocus, touchScene, rawGrabs, touches, lifted>>
  BY <1>1 DEF TouchDown, Begin, touchEnv
<1>3. TouchTypes'
  BY <1>2 DEF TouchInv, TouchTypes
<1>4. n \in TouchTargets /\ (n # NoTarget => n \in touchScene)
  BY DEF TouchInv, TouchTypes, TouchTargets
<1> DEFINE c == SetTouchFocus(f, n)
<1>5. /\ c \in TouchCallTypes /\ c.op = "set" /\ c.finger = f /\ c.node = n
      /\ NodeCode \in TouchCallTypes /\ NodeCode.op = "node"
  BY <1>4, CallsMade
<1> HIDE DEF c
<1>6. touchCalls' = <<c, NodeCode>> \/ touchCalls' = <<NodeCode>>
  <2>1. touchCalls' = (IF mode = "FULL" THEN <<c>> ELSE <<>>) \o <<NodeCode>>
    BY <1>1 DEF Begin, c
  <2>2. <<c>> \o <<NodeCode>> = <<c, NodeCode>> /\ <<>> \o <<NodeCode>> = <<NodeCode>>
    BY <1>5, Joined
  <2> QED
    BY <2>1, <2>2
<1>7. StackRight(touchCalls)' /\ Members(touchCalls)' \subseteq {c, NodeCode}
  <2>1. CASE touchCalls' = <<c, NodeCode>>
    <3>1. CanBeBelow(c, NodeCode) /\ c.op \notin Transfers /\ NodeCode.op \notin Transfers
      BY <1>5 DEF CanBeBelow, Transfers, Nested
    <3>2. StackRight(<<c, NodeCode>>) /\ Members(<<c, NodeCode>>) = {c, NodeCode}
      BY <1>5, <3>1, TwoCalls
    <3> QED
      BY <2>1, <3>2
  <2>2. CASE touchCalls' = <<NodeCode>>
    <3>1. StackRight(<<NodeCode>>) /\ Members(<<NodeCode>>) = {NodeCode}
      BY <1>5, OneCall DEF Transfers
    <3> QED
      BY <2>2, <3>1
  <2> QED
    BY <1>6, <2>1, <2>2
<1>8. CallRight(c)' /\ CallRight(NodeCode)'
  BY <1>2, <1>4, <1>5 DEF CallRight
<1>9. \A d \in Members(touchCalls)' : d.op \notin {"set_end", "transfer_end", "lift"} /\ CallRight(d)'
  BY <1>5, <1>7, <1>8
<1>10. fingers = onScreen
  BY <1>2, WhenIdle
<1>11. /\ \A d \in Members(touchCalls)' :
            d.op \notin {"set_end", "transfer_end"} /\ CallRight(d)' /\ (d.op # "lift" \/ d.finger \notin onScreen')
       /\ \A g \in Fingers : g \in fingers' <=> g \in onScreen' \/ \E d \in Members(touchCalls)' : Lifts(d, g)
  BY <1>2, <1>9, <1>10 DEF Lifts
<1>12. fingers \subseteq fingers' /\ touchScene \ touchScene' = {} /\ rawGrabs \cap touchScene \subseteq rawGrabs'
  BY <1>2
<1>13. \A g \in Fingers : touchFocus'[g] = touchFocus[g] \/ (touchFocus'[g] \notin TouchNodes /\ touchFocus[g] \notin TouchNodes)
  BY <1>2
<1> QED
  BY <1>2, <1>3, <1>7, <1>11, <1>12, <1>13, EventBegins

(* A finger moves.                                                          *)
LEMMA TouchMotionInv ==
  ASSUME TouchInv, NEW f \in Fingers, TouchMotion(f)
  PROVE  TouchInv'
<1>1. /\ TouchIdle /\ touchCalls' = <<NodeCode>> \o CodeOf(Target(f))
      /\ touchFocus' = [touchFocus EXCEPT ![f] = Target(f)]
      /\ UNCHANGED <<fingers, onScreen, touchScene, rawGrabs, touches, lifted>>
  BY DEF TouchMotion, Begin, touchEnv
<1>2. TouchTypes'
  BY <1>1 DEF TouchInv, TouchTypes, Target, TouchTargets
<1>3. \A g \in Fingers : touchFocus'[g] = touchFocus[g] \/ (touchFocus'[g] \notin TouchNodes /\ touchFocus[g] \notin TouchNodes)
  <2> SUFFICES ASSUME NEW g \in Fingers
               PROVE  touchFocus'[g] = touchFocus[g] \/ (touchFocus'[g] \notin TouchNodes /\ touchFocus[g] \notin TouchNodes)
    OBVIOUS
  <2>1. touchFocus'[g] = IF g = f THEN Target(f) ELSE touchFocus[g]
    BY <1>1 DEF TouchInv, TouchTypes
  <2>2. NoTarget \notin TouchNodes /\ Untracked \notin TouchNodes
    BY TouchAssumption
  <2>3. CASE g = f /\ touchFocus[f] = Untracked
    BY <2>1, <2>2, <2>3 DEF Target
  <2>4. CASE ~(g = f /\ touchFocus[f] = Untracked)
    BY <2>1, <2>4 DEF Target
  <2> QED
    BY <2>3, <2>4
<1>4. NodeCode \in TouchCallTypes /\ NodeCode.op = "node"
  BY CallsMade
<1> DEFINE c == NodeCode
<1> HIDE DEF c
<1>5. c \in TouchCallTypes /\ c.op = "node"
  BY <1>4 DEF c
<1>6. touchCalls' = <<c, c>> \/ touchCalls' = <<c>>
  <2>1. touchCalls' = <<c>> \o <<c>> \/ touchCalls' = <<c>> \o <<>>
    BY <1>1 DEF CodeOf, c
  <2> QED
    BY <1>5, <2>1, Joined
<1>7. StackRight(touchCalls)' /\ Members(touchCalls)' = {c}
  <2>1. CanBeBelow(c, c) /\ c.op \notin Transfers
    BY <1>5 DEF CanBeBelow, Transfers, Nested
  <2>2. StackRight(<<c, c>>) /\ Members(<<c, c>>) = {c, c}
    BY <1>5, <2>1, TwoCalls
  <2>3. StackRight(<<c>>) /\ Members(<<c>>) = {c}
    BY <1>5, <2>1, OneCall
  <2> QED
    BY <1>6, <2>2, <2>3
<1>8. CallRight(c)'
  BY <1>5 DEF CallRight
<1>9. \A d \in Members(touchCalls)' : d.op \notin {"set_end", "transfer_end", "lift"} /\ CallRight(d)'
  BY <1>5, <1>7, <1>8
<1>10. fingers = onScreen
  BY <1>1, WhenIdle
<1>11. /\ \A d \in Members(touchCalls)' :
            d.op \notin {"set_end", "transfer_end"} /\ CallRight(d)' /\ (d.op # "lift" \/ d.finger \notin onScreen')
       /\ \A g \in Fingers : g \in fingers' <=> g \in onScreen' \/ \E d \in Members(touchCalls)' : Lifts(d, g)
  BY <1>1, <1>9, <1>10 DEF Lifts
<1>12. fingers \subseteq fingers' /\ touchScene \ touchScene' = {} /\ rawGrabs \cap touchScene \subseteq rawGrabs'
  BY <1>1
<1> QED
  BY <1>1, <1>2, <1>3, <1>7, <1>11, <1>12, EventBegins

(* A finger is lifted, or its touch cancelled.                              *)
LEMMA TouchUpInv ==
  ASSUME TouchInv, NEW f \in Fingers, TouchUp(f)
  PROVE  TouchInv'
<1>1. /\ TouchIdle /\ touchCalls' = <<NodeCode, Lift(f)>> /\ f \in onScreen /\ onScreen' = onScreen \ {f}
      /\ UNCHANGED <<touchFocus, fingers, touchScene, rawGrabs, touches, lifted>>
  BY DEF TouchUp, Begin, touchEnv
<1>2. TouchTypes'
  BY <1>1 DEF TouchInv, TouchTypes
<1> DEFINE c == NodeCode
           d == Lift(f)
<1>3. c \in TouchCallTypes /\ c.op = "node" /\ d \in TouchCallTypes /\ d.op = "lift" /\ d.finger = f
  BY CallsMade
<1>4. touchCalls' = <<c, d>>
  BY <1>1
<1> HIDE DEF c, d
<1>5. CanBeBelow(c, d) /\ c.op \notin Transfers /\ d.op \notin Transfers
  BY <1>3 DEF CanBeBelow, Transfers, Nested
<1>6. StackRight(<<c, d>>) /\ Members(<<c, d>>) = {c, d}
  BY <1>3, <1>5, TwoCalls
<1>7. StackRight(touchCalls)' /\ Members(touchCalls)' = {c, d}
  BY <1>4, <1>6
<1>8. \A e \in Members(touchCalls)' :
        e.op \notin {"set_end", "transfer_end"} /\ CallRight(e)' /\ (e.op # "lift" \/ e.finger \notin onScreen')
  BY <1>1, <1>3, <1>7 DEF CallRight
<1>9. \A g \in Fingers : g \in fingers' <=> g \in onScreen' \/ \E e \in Members(touchCalls)' : Lifts(e, g)
  <2>1. fingers = onScreen
    BY <1>1, WhenIdle
  <2> QED
    BY <1>1, <1>3, <1>7, <2>1 DEF Lifts
<1>10. fingers \subseteq fingers' /\ touchScene \ touchScene' = {} /\ rawGrabs \cap touchScene \subseteq rawGrabs'
  BY <1>1
<1>11. \A g \in Fingers : touchFocus'[g] = touchFocus[g] \/ (touchFocus'[g] \notin TouchNodes /\ touchFocus[g] \notin TouchNodes)
  BY <1>1
<1> QED
  BY <1>1, <1>2, <1>7, <1>8, <1>9, <1>10, <1>11, EventBegins

(* What changes the grabs of plugins makes a call for each of its effects. *)
LEMMA GrabsChanged ==
  ASSUME TouchInv, NEW ops \in SceneOps, GrabsChange(ops)
  PROVE  /\ rawGrabs' \in SUBSET TouchGrabs /\ touchScene' \in SUBSET TouchNodes
         /\ rawGrabs \cap touchScene \subseteq rawGrabs'
         /\ StackRight(ops)
         /\ touchScene \ touchScene' # {} => UpdateFrom(First) \in Members(ops)
         /\ \A c \in Members(ops) : c.op \in {"transfer", "update"} /\ CallRight(c)'
         /\ ops # <<>> => ops = <<UpdateFrom(First)>> \/ \E n \in TouchTargets : ops = <<TransferFrom(First, n), UpdateFrom(First)>>
<1> DEFINE u == UpdateFrom(First)
           t(n) == TransferFrom(First, n)
<1>1. First \in Nat
  BY DEF First
<1>2. u \in TouchCallTypes /\ u.op = "update"
  BY <1>1, CallsMade
<1>3. \A n \in TouchTargets : t(n) \in TouchCallTypes /\ t(n).op = "transfer" /\ t(n).node = n
  BY <1>1, CallsMade
<1>4. \/ ops = <<u>> /\ rawGrabs' = rawGrabs /\ touchScene' \in SUBSET touchScene
      \/ /\ rawGrabs' \in SUBSET TouchGrabs /\ touchScene \subseteq touchScene' /\ touchScene' \in SUBSET TouchNodes
         /\ rawGrabs \cap touchScene \subseteq rawGrabs'
         /\ ops = <<u>> \/ ops = <<>> \/ \E n \in (rawGrabs' \cap TouchGrabs) \cup {NoTarget} : ops = <<t(n), u>>
  <2>1. CASE \E g \in TouchGrabs : UngrabInput(g, ops)
    BY <2>1 DEF UngrabInput
  <2>2. CASE StartGrab(ops)
    <3>1. PICK g \in TouchGrabs \ touchScene, raw \in BOOLEAN :
            /\ touchScene' = touchScene \cup {g}
            /\ rawGrabs' = IF raw THEN rawGrabs \cup {g} ELSE rawGrabs \ {g}
            /\ ops \in {<<t(IF raw THEN g ELSE NoTarget), u>>, <<u>>}
      BY <2>2 DEF StartGrab
    <3>2. raw \/ ~raw
      OBVIOUS
    <3> HIDE DEF t, u
    <3>3. ops = <<u>> \/ \E n \in (rawGrabs' \cap TouchGrabs) \cup {NoTarget} : ops = <<t(n), u>>
      <4>1. CASE raw
        BY <3>1, <4>1
      <4>2. CASE ~raw
        BY <3>1, <4>2
      <4> QED
        BY <3>2, <4>1, <4>2
    <3> QED
      BY <3>1, <3>3, TouchAssumption DEF TouchInv, TouchTypes
  <2>3. CASE BecomeRaw(ops)
    BY <2>3 DEF BecomeRaw, TouchInv, TouchTypes
  <2> QED
    BY <2>1, <2>2, <2>3 DEF GrabsChange
<1> HIDE DEF u, t
<1>5. StackRight(<<u>>) /\ Members(<<u>>) = {u} /\ CallRight(u)'
  <2>1. StackRight(<<u>>) /\ Members(<<u>>) = {u}
    BY <1>2, OneCall DEF Transfers
  <2> QED
    BY <1>2, <2>1 DEF CallRight
<1>6. ASSUME NEW n \in (rawGrabs' \cap TouchGrabs) \cup {NoTarget}
      PROVE  n \in TouchTargets /\ StackRight(<<t(n), u>>) /\ Members(<<t(n), u>>) = {t(n), u} /\ CallRight(t(n))'
  <2>1. n \in TouchTargets
    BY TouchAssumption DEF TouchTargets
  <2>2. t(n) \in TouchCallTypes /\ t(n).op = "transfer" /\ t(n).node = n
    BY <1>3, <2>1
  <2>3. CanBeBelow(t(n), u) /\ u.op \notin Transfers /\ u = UpdateFrom(First)
    BY <1>2, <2>2 DEF CanBeBelow, Transfers, u
  <2>4. StackRight(<<t(n), u>>) /\ Members(<<t(n), u>>) = {t(n), u}
    BY <1>2, <2>2, <2>3, TwoCalls
  <2> QED
    BY <2>1, <2>2, <2>4 DEF CallRight
<1>7. CASE ops = <<u>>
  BY <1>2, <1>4, <1>5, <1>7 DEF u, TouchInv, TouchTypes
<1>8. CASE ops = <<>>
  <2>1. <<>> # <<u>> /\ \A n : <<>> # <<t(n), u>>
    OBVIOUS
  <2> QED
    BY <1>4, <1>8, <2>1, NoCalls DEF TouchInv, TouchTypes
<1>9. CASE \E n \in (rawGrabs' \cap TouchGrabs) \cup {NoTarget} : ops = <<t(n), u>>
  <2>1. PICK n \in (rawGrabs' \cap TouchGrabs) \cup {NoTarget} : ops = <<t(n), u>>
    BY <1>9
  <2>2. n \in TouchTargets /\ StackRight(ops) /\ Members(ops) = {t(n), u} /\ CallRight(t(n))'
    BY <1>6, <2>1
  <2>3. t(n).op = "transfer"
    BY <1>3, <2>2
  <2>4. ops # <<u>>
    BY <2>1
  <2>5. /\ rawGrabs' \in SUBSET TouchGrabs /\ touchScene \subseteq touchScene' /\ touchScene' \in SUBSET TouchNodes
        /\ rawGrabs \cap touchScene \subseteq rawGrabs'
    BY <1>4, <2>4
  <2> QED
    BY <1>2, <1>5, <2>1, <2>2, <2>3, <2>5 DEF u, t
<1> QED
  BY <1>4, <1>7, <1>8, <1>9

(* Grabs begin and end, and ask for raw input, between events.              *)
LEMMA TouchSceneInv ==
  ASSUME TouchInv, TouchSceneChanges
  PROVE  TouchInv'
<1>1. PICK ops \in SceneOps : GrabsChange(ops) /\ Begin(ops)
  BY DEF TouchSceneChanges
<1>2. TouchIdle /\ touchCalls' = ops /\ UNCHANGED <<touchFocus, fingers, onScreen, touches, lifted>>
  BY <1>1 DEF TouchSceneChanges, Begin, touchState
<1>3. /\ rawGrabs' \in SUBSET TouchGrabs /\ touchScene' \in SUBSET TouchNodes
      /\ rawGrabs \cap touchScene \subseteq rawGrabs'
      /\ StackRight(ops)
      /\ touchScene \ touchScene' # {} => UpdateFrom(First) \in Members(ops)
      /\ \A c \in Members(ops) : c.op \in {"transfer", "update"} /\ CallRight(c)'
  BY <1>1, GrabsChanged
<1>4. TouchTypes'
  BY <1>2, <1>3 DEF TouchInv, TouchTypes
<1>5. fingers = onScreen
  BY <1>2, WhenIdle
<1>6. \A c \in Members(ops) : c.op \notin {"set_end", "transfer_end", "lift"}
  BY <1>3
<1>7. /\ \A d \in Members(touchCalls)' :
           d.op \notin {"set_end", "transfer_end"} /\ CallRight(d)' /\ (d.op # "lift" \/ d.finger \notin onScreen')
      /\ \A g \in Fingers : g \in fingers' <=> g \in onScreen' \/ \E d \in Members(touchCalls)' : Lifts(d, g)
  BY <1>2, <1>3, <1>5, <1>6 DEF Lifts
<1>8. StackRight(touchCalls)' /\ (touchScene \ touchScene' # {} => UpdateFrom(First) \in Members(touchCalls)')
  BY <1>2, <1>3
<1>9. \A g \in Fingers : touchFocus'[g] = touchFocus[g] \/ (touchFocus'[g] \notin TouchNodes /\ touchFocus[g] \notin TouchNodes)
  BY <1>2
<1> QED
  BY <1>2, <1>3, <1>4, <1>7, <1>8, <1>9, EventBegins

(* Views come and go: on_root_node_updated looks at every finger.           *)
LEMMA TouchViewsInv ==
  ASSUME TouchInv, TouchViewsChange
  PROVE  TouchInv'
<1>1. /\ TouchIdle /\ touchCalls' = <<UpdateFrom(First)>> /\ touchScene' \in SUBSET TouchNodes
      /\ UNCHANGED <<touchFocus, fingers, onScreen, rawGrabs, touches, lifted>>
  BY DEF TouchViewsChange, Begin, touchState, TouchInv, TouchTypes
<1> DEFINE u == UpdateFrom(First)
<1>2. u \in TouchCallTypes /\ u.op = "update"
  BY CallsMade DEF First
<1>3. touchCalls' = <<u>>
  BY <1>1
<1> HIDE DEF u
<1>4. StackRight(<<u>>) /\ Members(<<u>>) = {u}
  BY <1>2, OneCall DEF Transfers
<1>5. StackRight(touchCalls)' /\ Members(touchCalls)' = {u} /\ CallRight(u)'
  BY <1>2, <1>3, <1>4 DEF CallRight
<1>6. TouchTypes'
  BY <1>1 DEF TouchInv, TouchTypes
<1>7. fingers = onScreen
  BY <1>1, WhenIdle
<1>8. /\ \A d \in Members(touchCalls)' :
           d.op \notin {"set_end", "transfer_end"} /\ CallRight(d)' /\ (d.op # "lift" \/ d.finger \notin onScreen')
      /\ \A g \in Fingers : g \in fingers' <=> g \in onScreen' \/ \E d \in Members(touchCalls)' : Lifts(d, g)
  BY <1>1, <1>2, <1>5, <1>7 DEF Lifts
<1>9. UpdateFrom(First) \in Members(touchCalls)'
  BY <1>5 DEF u
<1>10. \A g \in Fingers : touchFocus'[g] = touchFocus[g] \/ (touchFocus'[g] \notin TouchNodes /\ touchFocus[g] \notin TouchNodes)
  BY <1>1
<1> QED
  BY <1>1, <1>5, <1>6, <1>8, <1>9, <1>10, EventBegins

(* What an active call leaves to run.                                      *)
LEMMA ThenRuns ==
  ASSUME TouchInv, touchCalls # <<>>, NEW T, T = Tail(touchCalls)
  PROVE  /\ Then(<<>>) => touchCalls' = T
         /\ \A c \in TouchCallTypes : Then(<<c>>) => touchCalls' = <<c>> \o T
         /\ \A c, d \in TouchCallTypes : Then(<<c, d>>) => touchCalls' = <<c>> \o (<<d>> \o T)
         /\ \A c, d, e \in TouchCallTypes : Then(<<c>> \o <<d, e>>) => touchCalls' = <<c>> \o (<<d>> \o (<<e>> \o T))
<1>1. T \in Seq(TouchCallTypes)
  BY Uncons DEF TouchInv, StackRight
<1>2. <<>> \o T = T
  BY <1>1, ConcatEmptySeq
<1>3. ASSUME NEW c \in TouchCallTypes, NEW d \in TouchCallTypes PROVE <<c, d>> \o T = <<c>> \o (<<d>> \o T)
  BY <1>1, ConsTwo
<1>4. ASSUME NEW c \in TouchCallTypes, NEW d \in TouchCallTypes, NEW e \in TouchCallTypes
      PROVE  (<<c>> \o <<d, e>>) \o T = <<c>> \o (<<d>> \o (<<e>> \o T))
  <2>1. <<c>> \in Seq(TouchCallTypes) /\ <<d, e>> \in Seq(TouchCallTypes)
    OBVIOUS
  <2>2. (<<c>> \o <<d, e>>) \o T = <<c>> \o (<<d, e>> \o T)
    BY <1>1, <2>1, ConcatAssociative
  <2> QED
    BY <1>3, <2>2
<1> QED
  BY <1>2, <1>3, <1>4 DEF Then

(* A node that is told of an up had one more down, and is told of no       *)
(* other's.                                                                *)
LEMMA UpIs ==
  ASSUME TouchInv, NEW n \in TouchNodes, NEW f \in Fingers, Up(n, f), touchFocus[f] = n, ~UpTold(f)
  PROVE  /\ touches' \in [TouchNodes -> [Fingers -> Nat]] /\ lifted' \cap TouchClients = {}
         /\ \A m \in TouchClients, g \in Fingers : touches'[m][g] = IF m = n /\ g = f THEN 0 ELSE touches[m][g]
<1>1. touches \in [TouchNodes -> [Fingers -> Nat]] /\ n \in TouchNodes /\ touches[n] \in [Fingers -> Nat]
  BY DEF TouchInv, TouchTypes
<1>2. PICK k : k = IF touches[n][f] > 0 THEN touches[n][f] - 1 ELSE 0
  OBVIOUS
<1>3. k \in Nat
  BY <1>1, <1>2
<1>4. touches' = [touches EXCEPT ![n][f] = k]
  BY <1>2 DEF Up
<1>5. \A m \in TouchNodes, g \in Fingers : touches'[m][g] = IF m = n /\ g = f THEN k ELSE touches[m][g]
  BY <1>1, <1>4
<1>6. touches' \in [TouchNodes -> [Fingers -> Nat]]
  BY <1>1, <1>3, <1>4
<1>7. n \in TouchClients => touches[n][f] = 1
  BY DEF TouchInv, FingersTold
<1>8. lifted' \cap TouchClients = {}
  BY <1>7 DEF Up, TouchInv
<1>9. n \in TouchClients => k = 0
  BY <1>2, <1>7
<1>10. TouchClients \subseteq TouchNodes
  BY DEF TouchClients
<1> QED
  BY <1>5, <1>6, <1>8, <1>9, <1>10

(* The lifted finger is forgotten, and then its focus is given up.          *)
LEMMA TouchLiftInv ==
  ASSUME TouchInv, TouchLift
  PROVE  TouchInv'
<1>1. PICK h, T : h = Head(touchCalls) /\ T = Tail(touchCalls)
  OBVIOUS
<1>2. /\ touchCalls # <<>> /\ h.op = "lift" /\ fingers' = fingers \ {h.finger} /\ Then(<<SetTouchFocus(h.finger, NoTarget)>>)
      /\ UNCHANGED <<touchFocus, onScreen, touchScene, rawGrabs, touches, lifted>>
  BY <1>1 DEF TouchLift, Active, touchEnv
<1>3. /\ h \in TouchCallTypes /\ StackRight(T) /\ Fits(h, T)
      /\ Members(touchCalls) = {h} \cup Members(T)
      /\ \A d \in Members(T) : CanBeBelow(h, d)
  BY <1>1, <1>2, TouchTop
<1>4. Members(T) = {} /\ h.finger \in Fingers
  BY <1>2, <1>3, CallFields DEF CanBeBelow
<1> DEFINE c == SetTouchFocus(h.finger, NoTarget)
<1>5. c \in TouchCallTypes /\ c.op = "set" /\ c.finger = h.finger /\ c.node = NoTarget
  BY <1>4, CallsMade DEF TouchTargets
<1>6. Then(<<c>>)
  BY <1>2
<1> HIDE DEF c
<1>7. touchCalls' = <<c>> \o T
  BY <1>1, <1>2, <1>5, <1>6, ThenRuns
<1>8. Fits(c, T)
  BY <1>4, <1>5 DEF Fits, Transfers
<1>9. StackRight(touchCalls)' /\ Head(touchCalls)' = c /\ Tail(touchCalls)' = T /\ Members(touchCalls)' = {c}
  <2>1. PICK s : s = touchCalls'
    OBVIOUS
  <2>2. StackRight(s) /\ Head(s) = c /\ Tail(s) = T /\ Members(s) = {c} \cup Members(T)
    BY <1>3, <1>5, <1>7, <1>8, <2>1, PushCall
  <2> QED
    BY <1>4, <2>1, <2>2
<1>10. CallRight(c)'
  BY <1>5 DEF CallRight
<1>11. TouchTypes'
  BY <1>2 DEF TouchInv, TouchTypes
<1>12. WaitsForGrab' /\ LeavesOther' /\ \A f : ~UpTold(f)'
  BY <1>5, <1>9, NothingHalfway
<1>13. FingersCounted'
  <2>1. \A f \in Fingers : f \in fingers <=> f \in onScreen \/ f = h.finger
    BY <1>2, <1>3, <1>4 DEF TouchInv, FingersCounted, Lifts
  <2>2. h.finger \notin onScreen
    BY <1>2, <1>3, <1>4 DEF TouchInv, FingersCounted, Lifts
  <2> QED
    BY <1>2, <1>5, <1>9, <2>1, <2>2 DEF FingersCounted, Lifts
<1>14. LiftedApart'
  <2> SUFFICES ASSUME NEW f \in Fingers, touchFocus[f] \in TouchNodes, f \notin fingers'
               PROVE  touchFocus[f] \in rawGrabs \/ \E d \in Members(touchCalls)' : LeavesIn(d, f)
    BY <1>2 DEF LiftedApart
  <2>1. CASE f = h.finger
    BY <1>5, <1>9, <2>1 DEF LeavesIn
  <2>2. CASE f # h.finger
    BY <1>2, <1>3, <1>4, <2>2 DEF TouchInv, LiftedApart, LeavesIn
  <2> QED
    BY <2>1, <2>2
<1>15. DeadCovered'
  BY <1>2, <1>3, <1>4 DEF TouchInv, DeadCovered, Covers, LeavesIn
<1>16. FingersTold'
  <2>1. \A f : ~UpTold(f)
    BY <1>1, <1>2 DEF UpTold
  <2> QED
    BY <1>2, <1>12, <2>1 DEF TouchInv, FingersTold
<1> QED
  BY <1>2, <1>9, <1>10, <1>11, <1>12, <1>13, <1>14, <1>15, <1>16 DEF TouchInv

(* A call that is done, and only forgets what was left to run of it.       *)
LEMMA TouchReturnInv ==
  ASSUME TouchInv, TouchReturn
  PROVE  TouchInv'
<1>1. PICK h, T : h = Head(touchCalls) /\ T = Tail(touchCalls)
  OBVIOUS
<1>2. /\ touchCalls # <<>> /\ h.op \in {"node", "up_node"} /\ Then(<<>>)
      /\ UNCHANGED <<touchFocus, fingers, onScreen, touchScene, rawGrabs, touches, lifted>>
  BY <1>1 DEF TouchReturn, Active, touchEnv, touchState
<1>3. /\ StackRight(T) /\ Members(touchCalls) = {h} \cup Members(T)
      /\ \A d \in Members(T) : CallRight(d) /\ CanBeBelow(h, d)
      /\ T # <<>> => Head(T) \in Members(T) /\ Members(Tail(T)) \subseteq Members(T)
  BY <1>1, <1>2, TouchTop
<1>4. touchCalls' = T
  BY <1>1, <1>2, ThenRuns
<1>5. TouchTypes' /\ FingersCounted' /\ LiftedApart' /\ DeadCovered'
  <2>1. TouchTypes'
    BY <1>2 DEF TouchInv, TouchTypes
  <2>2. Members(touchCalls)' = Members(T) /\ \A f : ~Lifts(h, f) /\ ~Covers(h, f) /\ ~LeavesIn(h, f)
    BY <1>2, <1>4 DEF Lifts, Covers, LeavesIn
  <2>3. FingersCounted'
    BY <1>2, <1>3, <2>2 DEF TouchInv, FingersCounted
  <2>4. LiftedApart'
    BY <1>2, <1>3, <2>2 DEF TouchInv, LiftedApart
  <2>5. DeadCovered'
    BY <1>2, <1>3, <2>2 DEF TouchInv, DeadCovered
  <2> QED
    BY <2>1, <2>3, <2>4, <2>5
<1>6. \A d \in Members(T) : d.op \in {"set_end", "transfer_end"} => touchFocus[d.finger] \notin TouchClients
  BY <1>1, <1>2 DEF TouchInv, WaitsForGrab
<1>7. WaitsForGrab'
  BY <1>2, <1>3, <1>4, <1>6 DEF WaitsForGrab
<1>8. LeavesOther'
  BY <1>2, <1>3, <1>4 DEF LeavesOther, CanBeBelow, Nested
<1>9. FingersTold'
  <2>1. \A f : ~UpTold(f)
    BY <1>1, <1>2 DEF UpTold
  <2>2. \A f : UpTold(f)' => touchFocus[f] \notin TouchClients
    BY <1>3, <1>4, <1>6 DEF UpTold
  <2> QED
    BY <1>2, <2>1, <2>2 DEF TouchInv, FingersTold
<1> QED
  BY <1>2, <1>3, <1>4, <1>5, <1>7, <1>8, <1>9 DEF TouchInv, CallRight

(* transfer_grab() after the old node of a finger was told.                 *)
LEMMA TransferEndInv ==
  ASSUME TouchInv, TransferFingerEnd
  PROVE  TouchInv'
<1>1. PICK h, T : h = Head(touchCalls) /\ T = Tail(touchCalls)
  OBVIOUS
<1>2. /\ touchCalls # <<>> /\ h.op = "transfer_end" /\ Then(<<>>)
      /\ touchFocus' = [touchFocus EXCEPT ![h.finger] = h.node]
      /\ UNCHANGED <<fingers, onScreen, touchScene, rawGrabs, touches, lifted>>
  BY <1>1 DEF TransferFingerEnd, Active, touchEnv
<1>3. /\ h \in TouchCallTypes /\ StackRight(T) /\ Fits(h, T) /\ CallRight(h)
      /\ Members(touchCalls) = {h} \cup Members(T)
      /\ \A d \in Members(T) : CallRight(d) /\ CanBeBelow(h, d)
      /\ T # <<>> => Head(T) \in Members(T) /\ Members(Tail(T)) \subseteq Members(T)
  BY <1>1, <1>2, TouchTop
<1>4. touchCalls' = T
  BY <1>1, <1>2, ThenRuns
<1>5. h.finger \in Fingers /\ h.node \in TouchTargets /\ h.node \in rawGrabs \cup {NoTarget}
  BY <1>2, <1>3, CallFields DEF CallRight
<1>6. \A f \in Fingers : touchFocus'[f] = IF f = h.finger THEN h.node ELSE touchFocus[f]
  BY <1>2 DEF TouchInv, TouchTypes
<1>7. TouchTypes'
  BY <1>2, <1>5 DEF TouchInv, TouchTypes
<1>8. Members(touchCalls)' = Members(T) /\ \A f : ~Lifts(h, f) /\ ~Covers(h, f) /\ ~LeavesIn(h, f)
  BY <1>2, <1>4 DEF Lifts, Covers, LeavesIn
<1>9. FingersCounted'
  BY <1>2, <1>3, <1>8 DEF TouchInv, FingersCounted
<1>10. h.node \in TouchNodes => h.node \in rawGrabs
  BY <1>5, TouchAssumption
<1>11. LiftedApart'
  BY <1>2, <1>3, <1>6, <1>8, <1>10 DEF TouchInv, LiftedApart
<1>12. DeadCovered'
  <2> SUFFICES ASSUME NEW f \in Fingers, touchFocus'[f] \in TouchNodes \ touchScene'
               PROVE  \E c \in Members(T) : Covers(c, f)
    BY <1>8 DEF DeadCovered
  <2>1. UpdateFrom(First) \in Members(T)
    BY <1>2, <1>3 DEF Fits, Transfers
  <2>2. Covers(UpdateFrom(First), f)
    BY TouchAssumption DEF Covers, UpdateFrom, First
  <2> QED
    BY <2>1, <2>2
<1>13. WaitsForGrab' /\ LeavesOther' /\ \A f : ~UpTold(f)'
  <2>1. \A d \in Members(touchCalls)' : d.op \notin {"set_end", "transfer_end"}
    BY <1>2, <1>3, <1>8 DEF CanBeBelow
  <2> QED
    BY <1>3, <1>4, <2>1, NothingHalfway
<1>14. FingersTold'
  <2>1. \A f : UpTold(f) <=> f = h.finger
    BY <1>1, <1>2 DEF UpTold
  <2>2. h.node \notin TouchClients
    BY <1>5, TouchAssumption DEF TouchClients, TouchInv, TouchTypes
  <2> QED
    BY <1>2, <1>6, <1>13, <2>1, <2>2 DEF TouchInv, FingersTold
<1> QED
  BY <1>2, <1>3, <1>4, <1>7, <1>9, <1>11, <1>12, <1>13, <1>14 DEF TouchInv, CallRight

(* The code of plugins reacts to an event that it is told of.               *)
LEMMA TouchReactInv ==
  ASSUME TouchInv, TouchReact
  PROVE  TouchInv'
<1>1. PICK h, T : h = Head(touchCalls) /\ T = Tail(touchCalls)
  OBVIOUS
<1>2. PICK ops \in SceneOps : /\ IF Active("node") THEN GrabsChange(ops) ELSE UngrabInput(h.node, ops)
                              /\ Then(ops)
  BY <1>1 DEF TouchReact
<1>3. /\ touchCalls # <<>> /\ h.op \in {"node", "up_node"} /\ (Active("node") <=> h.op = "node")
      /\ UNCHANGED <<touchFocus, fingers, onScreen, touches, lifted>>
  BY <1>1 DEF TouchReact, Active, touchState
<1>4. /\ h \in TouchCallTypes /\ StackRight(T) /\ Members(touchCalls) = {h} \cup Members(T)
      /\ \A d \in Members(T) : CallRight(d) /\ CanBeBelow(h, d)
      /\ T # <<>> => Head(T) \in Members(T) /\ Members(Tail(T)) \subseteq Members(T)
      /\ \A d \in Members(T) : d \in TouchCallTypes
  BY <1>1, <1>3, TouchTop
<1>5. \A f : ~Lifts(h, f) /\ ~Covers(h, f) /\ ~LeavesIn(h, f) /\ ~UpTold(f)
  BY <1>1, <1>3 DEF Lifts, Covers, LeavesIn, UpTold
<1> DEFINE u == UpdateFrom(First)
<1>6. u \in TouchCallTypes /\ u.op = "update" /\ \A f \in Fingers : Covers(u, f)
  <2>1. \A f \in Fingers : First <= f /\ First \in Nat
    BY TouchAssumption DEF First
  <2> QED
    BY <2>1, CallsMade DEF Covers, First
<1>7. CASE h.op = "up_node"
  <2>1. /\ UngrabInput(h.node, ops) /\ h.node \in TouchGrabs
    BY <1>2, <1>3, <1>4, <1>7, CallFields
  <2>2. /\ touchScene' = touchScene \ {h.node} /\ rawGrabs' = rawGrabs /\ ops = <<u>>
    BY <2>1 DEF UngrabInput
  <2>3. touchCalls' = <<u>> \o T
    <3> HIDE DEF u
    <3> QED
      BY <1>1, <1>2, <1>3, <1>6, <2>2, ThenRuns
  <2>4. Fits(u, T)
    BY <1>4, <1>6, <1>7 DEF Fits, CanBeBelow, Transfers
  <2>5. StackRight(touchCalls)' /\ touchCalls' # <<>> /\ Head(touchCalls)' = u /\ Tail(touchCalls)' = T /\ Members(touchCalls)' = {u} \cup Members(T)
    <3> HIDE DEF u
    <3>1. PICK s : s = touchCalls'
      OBVIOUS
    <3>2. StackRight(s) /\ s # <<>> /\ Head(s) = u /\ Tail(s) = T /\ Members(s) = {u} \cup Members(T)
      BY <1>4, <1>6, <2>3, <2>4, <3>1, PushCall
    <3> QED
      BY <3>1, <3>2
  <2> HIDE DEF u
  <2>6. ASSUME NEW c \in Members(touchCalls)' PROVE CallRight(c)'
    <3>1. CASE c = u
      BY <1>6, <3>1 DEF CallRight
    <3>2. CASE c \in Members(T)
      BY <1>3, <1>4, <1>7, <2>2, <3>2 DEF CallRight, CanBeBelow, Nested
    <3> QED
      BY <2>5, <3>1, <3>2
  <2>7. TouchTypes'
    BY <1>3, <2>2 DEF TouchInv, TouchTypes
  <2>8. FingersCounted'
    BY <1>3, <1>4, <1>5, <1>6, <2>5 DEF TouchInv, FingersCounted, Lifts
  <2>9. LiftedApart'
    BY <1>3, <1>4, <1>5, <2>2, <2>5 DEF TouchInv, LiftedApart
  <2>10. DeadCovered'
    BY <1>6, <2>5 DEF DeadCovered
  <2>11. WaitsForGrab'
    BY <1>1, <1>3, <2>5 DEF TouchInv, WaitsForGrab
  <2>12. LeavesOther'
    BY <1>6, <2>5 DEF LeavesOther
  <2>13. FingersTold'
    <3>1. \A f : ~UpTold(f)'
      BY <1>6, <2>5 DEF UpTold
    <3> QED
      BY <1>3, <1>5, <3>1 DEF TouchInv, FingersTold
  <2> QED
    BY <1>3, <2>5, <2>6, <2>7, <2>8, <2>9, <2>10, <2>11, <2>12, <2>13 DEF TouchInv
<1>8. CASE h.op = "node"
  <2>1. GrabsChange(ops)
    BY <1>2, <1>3, <1>8
  <2>2. /\ rawGrabs' \in SUBSET TouchGrabs /\ touchScene' \in SUBSET TouchNodes
        /\ rawGrabs \cap touchScene \subseteq rawGrabs'
        /\ touchScene \ touchScene' # {} => u \in Members(ops)
        /\ \A c \in Members(ops) : c.op \in {"transfer", "update"} /\ CallRight(c)'
        /\ ops # <<>> => ops = <<u>> \/ \E n \in TouchTargets : ops = <<TransferFrom(First, n), u>>
    BY <2>1, GrabsChanged
  <2>3. \A d \in Members(T) : d.op \in {"node", "lift"}
    BY <1>4, <1>8 DEF CanBeBelow
  <2>4. /\ StackRight(touchCalls)' /\ Members(touchCalls)' = Members(ops) \cup Members(T)
    <3> HIDE DEF u
    <3>1. PICK s : s = touchCalls'
      OBVIOUS
    <3>2. Fits(u, T)
      BY <1>6, <2>3 DEF Fits, CanBeBelow, Transfers, Nested
    <3>3. CASE ops = <<>>
      BY <1>1, <1>2, <1>3, <1>4, <3>3, ThenRuns, NoCalls
    <3>4. CASE ops = <<u>>
      <4>1. Members(ops) = {u}
        BY <1>6, <3>4, OneCall DEF Transfers
      <4>2. s = <<u>> \o T
        BY <1>1, <1>2, <1>3, <1>6, <3>1, <3>4, ThenRuns
      <4>3. StackRight(s) /\ Members(s) = {u} \cup Members(T)
        BY <1>4, <1>6, <3>2, <4>2, PushCall
      <4> QED
        BY <3>1, <4>1, <4>3
    <3>5. CASE \E n \in TouchTargets : ops = <<TransferFrom(First, n), u>>
      <4>1. PICK n \in TouchTargets : ops = <<TransferFrom(First, n), u>>
        BY <3>5
      <4> DEFINE c == TransferFrom(First, n)
      <4>2. c \in TouchCallTypes /\ c.op = "transfer"
        BY CallsMade DEF First
      <4>3. ops = <<c, u>>
        BY <4>1
      <4> HIDE DEF c
      <4>4. CanBeBelow(c, u)
        BY <1>6, <4>2 DEF CanBeBelow
      <4>5. Members(ops) = {c, u}
        BY <1>6, <4>2, <4>3, <4>4, TwoCalls DEF Transfers, u
      <4>6. PICK t : t = <<u>> \o T
        OBVIOUS
      <4>7. s = <<c>> \o t
        BY <1>1, <1>2, <1>3, <1>6, <3>1, <4>2, <4>3, <4>6, ThenRuns
      <4>8. StackRight(t) /\ Members(t) = {u} \cup Members(T)
        BY <1>4, <1>6, <3>2, <4>6, PushCall
      <4>9. Fits(c, t)
        BY <1>6, <2>3, <4>2, <4>8 DEF Fits, CanBeBelow, Transfers, u
      <4>10. StackRight(s) /\ Members(s) = {c} \cup Members(t)
        BY <4>2, <4>7, <4>8, <4>9, PushCall
      <4> QED
        BY <3>1, <4>5, <4>8, <4>10
    <3> QED
      BY <2>2, <3>3, <3>4, <3>5
  <2> HIDE DEF u
  <2>5. \A f \in Fingers : touchFocus[f] \in TouchNodes => touchFocus[f] \in touchScene
    BY <1>4, <1>5, <2>3 DEF TouchInv, DeadCovered, Covers, LeavesIn
  <2>6. \A f \in Fingers : touchFocus[f] \in TouchNodes /\ f \notin fingers => touchFocus[f] \in rawGrabs
    BY <1>4, <1>5, <2>3 DEF TouchInv, LiftedApart, LeavesIn
  <2>7. TouchTypes'
    BY <1>3, <2>2 DEF TouchInv, TouchTypes
  <2>8. FingersCounted'
    BY <1>3, <1>4, <1>5, <2>2, <2>4 DEF TouchInv, FingersCounted, Lifts
  <2>9. LiftedApart'
    BY <1>3, <2>2, <2>5, <2>6 DEF LiftedApart
  <2>10. DeadCovered'
    BY <1>3, <1>6, <2>2, <2>4, <2>5 DEF DeadCovered
  <2>11. WaitsForGrab' /\ LeavesOther' /\ \A f : ~UpTold(f)'
    <3>1. \A d \in Members(touchCalls)' : d.op \notin {"set_end", "transfer_end"}
      BY <2>2, <2>3, <2>4
    <3> QED
      BY <2>4, <3>1, NothingHalfway
  <2>12. FingersTold'
    BY <1>3, <1>5, <2>11 DEF TouchInv, FingersTold
  <2>13. \A c \in Members(touchCalls)' : CallRight(c)'
    BY <2>2, <2>3, <2>4 DEF CallRight
  <2> QED
    BY <1>3, <2>4, <2>7, <2>8, <2>9, <2>10, <2>11, <2>12, <2>13 DEF TouchInv
<1> QED
  BY <1>3, <1>7, <1>8

(* A call that returns to those below it.                                  *)
LEMMA BackToCaller ==
  ASSUME TouchInv, touchCalls # <<>>, NEW h, NEW T, h = Head(touchCalls), T = Tail(touchCalls), touchCalls' = T,
         h.op \notin {"set", "node", "transfer_end", "lift"}
  PROVE  /\ StackRight(touchCalls)' /\ LeavesOther'
         /\ \A f : UpTold(f)' => touchFocus[f] \notin TouchClients
         /\ (\A f \in Fingers : touchFocus'[f] \in TouchClients => touchFocus[f] \in TouchClients) => WaitsForGrab'
<1>1. /\ h \in TouchCallTypes /\ StackRight(T) /\ Fits(h, T) /\ CallRight(h)
      /\ Members(touchCalls) = {h} \cup Members(T)
      /\ \A d \in Members(T) : CallRight(d) /\ CanBeBelow(h, d) /\ d \in TouchCallTypes
      /\ T # <<>> => Head(T) \in Members(T) /\ Members(Tail(T)) \subseteq Members(T)
  BY TouchTop
<1>2. \A d \in Members(T) : d.op \in Nested
  BY <1>1, CallFields DEF CanBeBelow, Nested
<1>3. LeavesOther'
  BY <1>1, <1>2 DEF LeavesOther, Nested
<1>4. \A d \in Members(T) : d.op \in {"set_end", "transfer_end"} => d.finger \in Fingers /\ touchFocus[d.finger] \notin TouchClients
  BY <1>1, CallFields DEF TouchInv, WaitsForGrab
<1>5. \A f : UpTold(f)' => touchFocus[f] \notin TouchClients
  BY <1>1, <1>4 DEF UpTold
<1>6. (\A f \in Fingers : touchFocus'[f] \in TouchClients => touchFocus[f] \in TouchClients) => WaitsForGrab'
  BY <1>1, <1>4 DEF WaitsForGrab
<1> QED
  BY <1>1, <1>3, <1>5, <1>6

(* on_root_node_updated drops the focus of a finger if its node is gone.    *)
LEMMA DropDeadInv ==
  ASSUME TouchInv, DropDeadFocus
  PROVE  TouchInv'
<1>1. PICK h, T : h = Head(touchCalls) /\ T = Tail(touchCalls)
  OBVIOUS
<1>2. /\ touchCalls # <<>> /\ h.op = "update"
      /\ UNCHANGED <<touchFocus, fingers, onScreen, touchScene, rawGrabs, touches, lifted>>
      /\ \/ NoMoreFingers(h.finger) /\ Then(<<>>)
         \/ /\ ~NoMoreFingers(h.finger)
            /\ Then((IF touchFocus[NextFinger(h.finger)] \in TouchNodes \ touchScene
                     THEN <<SetTouchFocus(NextFinger(h.finger), NoTarget)>> ELSE <<>>)
                     \o <<UpdateFrom(NextFinger(h.finger) + 1)>>)
  BY <1>1 DEF DropDeadFocus, Active, touchEnv, touchState
<1>3. /\ h \in TouchCallTypes /\ StackRight(T) /\ Fits(h, T) /\ CallRight(h)
      /\ Members(touchCalls) = {h} \cup Members(T)
      /\ \A d \in Members(T) : CallRight(d) /\ CanBeBelow(h, d) /\ d \in TouchCallTypes
      /\ T # <<>> => Head(T) \in Members(T) /\ Members(Tail(T)) \subseteq Members(T)
  BY <1>1, <1>2, TouchTop
<1>4. h.finger \in Nat /\ \A d \in Members(T) : d.op \in Nested
  BY <1>2, <1>3, CallFields DEF CanBeBelow
<1>5. \A f : ~Lifts(h, f) /\ ~LeavesIn(h, f) /\ ~UpTold(f) /\ (Covers(h, f) <=> h.finger <= f)
  BY <1>1, <1>2 DEF Lifts, Covers, LeavesIn, UpTold
<1>6. TouchTypes'
  BY <1>2 DEF TouchInv, TouchTypes
<1>7. CASE NoMoreFingers(h.finger) /\ Then(<<>>)
  <2>1. touchCalls' = T
    BY <1>1, <1>2, <1>7, ThenRuns
  <2>2. Members(touchCalls)' = Members(T)
    BY <2>1
  <2>3. FingersCounted'
    BY <1>2, <1>3, <1>5, <2>2 DEF TouchInv, FingersCounted
  <2>4. LiftedApart'
    BY <1>2, <1>3, <1>5, <2>2 DEF TouchInv, LiftedApart
  <2>5. DeadCovered'
    <3> SUFFICES ASSUME NEW f \in Fingers, touchFocus[f] \in TouchNodes \ touchScene
                 PROVE  \E c \in Members(T) : Covers(c, f)
      BY <1>2, <2>2 DEF DeadCovered
    <3>1. ~(h.finger <= f)
      BY <1>4, <1>7, TouchAssumption DEF NoMoreFingers
    <3> QED
      BY <1>3, <1>5, <3>1 DEF TouchInv, DeadCovered
  <2>6. StackRight(touchCalls)' /\ LeavesOther' /\ WaitsForGrab' /\ \A f : UpTold(f)' => touchFocus[f] \notin TouchClients
    BY <1>1, <1>2, <2>1, BackToCaller
  <2>7. FingersTold'
    BY <1>2, <1>5, <2>6 DEF TouchInv, FingersTold
  <2>8. \A c \in Members(touchCalls)' : CallRight(c)'
    BY <1>2, <1>3, <2>2 DEF CallRight
  <2> QED
    BY <1>2, <1>6, <2>3, <2>4, <2>5, <2>6, <2>7, <2>8 DEF TouchInv
<1>8. CASE ~NoMoreFingers(h.finger)
  <2>1. PICK f : f = NextFinger(h.finger)
    OBVIOUS
  <2>2. /\ f \in Fingers /\ touchFocus[f] # Untracked /\ f >= h.finger
        /\ \A g \in Fingers : touchFocus[g] # Untracked /\ g >= h.finger => f <= g
    BY <1>4, <1>8, <2>1, NextFingerLeast
  <2>3. Then((IF touchFocus[f] \in TouchNodes \ touchScene THEN <<SetTouchFocus(f, NoTarget)>> ELSE <<>>) \o <<UpdateFrom(f + 1)>>)
    BY <1>2, <1>8, <2>1
  <2> DEFINE u == UpdateFrom(f + 1)
             c == SetTouchFocus(f, NoTarget)
  <2>4. /\ u \in TouchCallTypes /\ u.op = "update" /\ u.finger = f + 1
        /\ c \in TouchCallTypes /\ c.op = "set" /\ c.finger = f /\ c.node = NoTarget
        /\ f \in Nat
    <3>1. f \in Nat /\ f + 1 \in Nat
      BY <2>2, TouchAssumption
    <3> QED
      BY <2>2, <3>1, CallsMade DEF TouchTargets
  <2>5. Then((IF touchFocus[f] \in TouchNodes \ touchScene THEN <<c>> ELSE <<>>) \o <<u>>)
    BY <2>3
  <2> HIDE DEF u, c
  <2>6. PICK t : t = <<u>> \o T
    OBVIOUS
  <2>7. Fits(u, T)
    BY <1>4, <2>4 DEF Fits, CanBeBelow, Transfers
  <2>8. StackRight(t) /\ t # <<>> /\ Head(t) = u /\ Tail(t) = T /\ Members(t) = {u} \cup Members(T)
    BY <1>3, <2>4, <2>6, <2>7, PushCall
  <2>9. Fits(c, t)
    BY <1>4, <2>4, <2>8 DEF Fits, CanBeBelow, Transfers, Nested
  <2>10. touchFocus[f] \in TouchNodes \ touchScene => touchCalls' = <<c>> \o t
    BY <1>1, <1>2, <2>4, <2>5, <2>6, Joined, ThenRuns
  <2>11. touchFocus[f] \notin TouchNodes \ touchScene => touchCalls' = t
    BY <1>1, <1>2, <2>4, <2>5, <2>6, Joined, ThenRuns
  <2>12. \/ /\ touchFocus[f] \in TouchNodes \ touchScene /\ StackRight(touchCalls)'
            /\ touchCalls' # <<>> /\ Head(touchCalls)' = c /\ Tail(touchCalls)' = t /\ Members(touchCalls)' = {c, u} \cup Members(T)
         \/ /\ touchFocus[f] \notin TouchNodes \ touchScene /\ StackRight(touchCalls)'
            /\ touchCalls' # <<>> /\ Head(touchCalls)' = u /\ Tail(touchCalls)' = T /\ Members(touchCalls)' = {u} \cup Members(T)
    <3>1. PICK s : s = touchCalls'
      OBVIOUS
    <3>2. CASE touchFocus[f] \in TouchNodes \ touchScene
      <4>1. StackRight(s) /\ s # <<>> /\ Head(s) = c /\ Tail(s) = t /\ Members(s) = {c} \cup Members(t)
        BY <2>4, <2>8, <2>9, <2>10, <3>1, <3>2, PushCall
      <4> QED
        BY <2>8, <3>1, <3>2, <4>1
    <3>3. CASE touchFocus[f] \notin TouchNodes \ touchScene
      BY <2>8, <2>11, <3>3
    <3> QED
      BY <3>2, <3>3
  <2>13. \A d \in Members(touchCalls)' : d \in Members(T) \/ d = u \/ d = c
    BY <2>12
  <2>14. FingersCounted'
    BY <1>2, <1>3, <1>5, <2>4, <2>12 DEF TouchInv, FingersCounted, Lifts
  <2>15. LiftedApart'
    BY <1>2, <1>3, <1>5, <2>12 DEF TouchInv, LiftedApart
  <2>16. DeadCovered'
    <3> SUFFICES ASSUME NEW g \in Fingers, touchFocus[g] \in TouchNodes \ touchScene
                 PROVE  \E d \in Members(touchCalls)' : Covers(d, g)
      BY <1>2 DEF DeadCovered
    <3>1. g \in Nat /\ touchFocus[g] # Untracked
      BY TouchAssumption
    <3>2. CASE h.finger <= g /\ g = f
      BY <2>4, <2>12, <3>2 DEF Covers, LeavesIn
    <3>3. CASE h.finger <= g /\ g # f
      <4>1. f + 1 <= g
        BY <1>4, <2>2, <2>4, <3>1, <3>3
      <4> QED
        BY <2>4, <2>12, <4>1 DEF Covers
    <3>4. CASE ~(h.finger <= g)
      BY <1>3, <1>5, <2>12, <3>4 DEF TouchInv, DeadCovered
    <3> QED
      BY <3>2, <3>3, <3>4
  <2>17. \A d \in Members(T) : d.op \in {"set_end", "transfer_end"} => touchFocus[d.finger] \notin TouchClients
    BY <1>1, <1>2 DEF TouchInv, WaitsForGrab
  <2>18. WaitsForGrab'
    BY <1>2, <2>4, <2>8, <2>12, <2>17 DEF WaitsForGrab
  <2>19. LeavesOther'
    <3>1. \A d \in Members(T) : d.op = "set_end" /\ d.node # NoTarget => d.node \in touchScene
      BY <1>3 DEF CallRight
    <3> QED
      BY <1>2, <2>4, <2>8, <2>12, <3>1 DEF LeavesOther
  <2>20. FingersTold'
    <3>1. \A g : ~UpTold(g)'
      BY <2>4, <2>12 DEF UpTold
    <3> QED
      BY <1>2, <1>5, <3>1 DEF TouchInv, FingersTold
  <2>21. \A d \in Members(touchCalls)' : CallRight(d)'
    BY <1>2, <1>3, <2>4, <2>13 DEF CallRight
  <2> QED
    BY <1>2, <1>6, <2>12, <2>14, <2>15, <2>16, <2>18, <2>19, <2>20, <2>21 DEF TouchInv
<1> QED
  BY <1>2, <1>7, <1>8

(* set_touch_focus() after the old node was told: the new one is.           *)
LEMMA TouchFocusEndInv ==
  ASSUME TouchInv, TouchFocusEnd
  PROVE  TouchInv'
<1>1. PICK h, T : h = Head(touchCalls) /\ T = Tail(touchCalls)
  OBVIOUS
<1>2. /\ touchCalls # <<>> /\ h.op = "set_end" /\ Then(CodeOf(h.node))
      /\ touchFocus' = [touchFocus EXCEPT ![h.finger] = h.node]
      /\ (IF h.node = NoTarget THEN UNCHANGED touches ELSE Down(h.node, h.finger))
      /\ UNCHANGED <<fingers, onScreen, touchScene, rawGrabs, lifted>>
  BY <1>1 DEF TouchFocusEnd, Active, touchEnv
<1>3. /\ h \in TouchCallTypes /\ StackRight(T) /\ Fits(h, T) /\ CallRight(h)
      /\ Members(touchCalls) = {h} \cup Members(T)
      /\ \A d \in Members(T) : CallRight(d) /\ CanBeBelow(h, d) /\ d \in TouchCallTypes
      /\ T # <<>> => Head(T) \in Members(T) /\ Members(Tail(T)) \subseteq Members(T)
  BY <1>1, <1>2, TouchTop
<1>4. /\ h.finger \in Fingers /\ h.node \in TouchTargets
      /\ h.node # NoTarget => h.finger \in fingers /\ h.node \in touchScene /\ \A d \in Members(T) : d.op = "node"
  BY <1>2, <1>3, CallFields DEF CallRight, CanBeBelow
<1>5. \A f \in Fingers : touchFocus'[f] = IF f = h.finger THEN h.node ELSE touchFocus[f]
  BY <1>2 DEF TouchInv, TouchTypes
<1>6. touches' \in [TouchNodes -> [Fingers -> Nat]]
      /\ \A m \in TouchClients, f \in Fingers :
           touches'[m][f] = IF m = h.node /\ f = h.finger THEN touches[m][f] + 1 ELSE touches[m][f]
  <2>1. touches \in [TouchNodes -> [Fingers -> Nat]] /\ NoTarget \notin TouchNodes /\ TouchClients \subseteq TouchNodes
    BY TouchAssumption DEF TouchInv, TouchTypes, TouchClients
  <2>2. CASE h.node = NoTarget
    BY <1>2, <2>1, <2>2
  <2>3. CASE h.node # NoTarget
    <3>1. h.node \in TouchNodes /\ touches[h.node] \in [Fingers -> Nat]
      BY <1>4, <2>1, <2>3 DEF TouchTargets
    <3>2. PICK k : k = IF h.node \in TouchGrabs THEN 1 ELSE touches[h.node][h.finger] + 1
      OBVIOUS
    <3>3. k \in Nat /\ (h.node \in TouchClients => k = touches[h.node][h.finger] + 1)
      BY <1>4, <3>1, <3>2 DEF TouchClients
    <3>4. touches' = [touches EXCEPT ![h.node][h.finger] = k]
      BY <1>2, <2>3, <3>2 DEF Down
    <3>5. touches' \in [TouchNodes -> [Fingers -> Nat]]
      BY <1>4, <2>1, <3>1, <3>3, <3>4
    <3>6. \A m \in TouchNodes, f \in Fingers : touches'[m][f] = IF m = h.node /\ f = h.finger THEN k ELSE touches[m][f]
      BY <1>4, <2>1, <3>1, <3>4
    <3> QED
      BY <2>1, <3>3, <3>5, <3>6
  <2> QED
    BY <2>2, <2>3
<1>7. TouchTypes'
  BY <1>2, <1>4, <1>6 DEF TouchInv, TouchTypes
<1>8. NodeCode \in TouchCallTypes /\ NodeCode.op = "node" /\ NoTarget \notin TouchGrabs
  BY CallsMade, TouchAssumption
<1> DEFINE c == NodeCode
<1>9. Then(IF h.node \in TouchGrabs THEN <<c>> ELSE <<>>)
  BY <1>2 DEF CodeOf
<1>10. c \in TouchCallTypes /\ c.op = "node"
  BY <1>8
<1> HIDE DEF c
<1>11. \/ h.node \notin TouchGrabs /\ touchCalls' = T
       \/ h.node \in TouchGrabs /\ touchCalls' = <<c>> \o T
  BY <1>1, <1>2, <1>9, <1>10, ThenRuns
<1>12. h.node \in TouchGrabs => /\ StackRight(touchCalls)' /\ Members(touchCalls)' = {c} \cup Members(T)
  <2> SUFFICES ASSUME h.node \in TouchGrabs
               PROVE  StackRight(touchCalls)' /\ Members(touchCalls)' = {c} \cup Members(T)
    OBVIOUS
  <2>1. PICK s : s = touchCalls'
    OBVIOUS
  <2>2. Fits(c, T)
    BY <1>4, <1>8, <1>10 DEF Fits, CanBeBelow, Transfers
  <2>3. StackRight(s) /\ Members(s) = {c} \cup Members(T)
    BY <1>3, <1>10, <1>11, <2>1, <2>2, PushCall
  <2> QED
    BY <2>1, <2>3
<1>13. Members(touchCalls)' = Members(T) \/ Members(touchCalls)' = {c} \cup Members(T)
  BY <1>11, <1>12
<1>14. \A f : /\ ~Lifts(h, f) /\ ~Lifts(c, f) /\ (LeavesIn(h, f) => f = h.finger) /\ (Covers(h, f) => f = h.finger)
              /\ (UpTold(f) <=> f = h.finger)
  BY <1>1, <1>2, <1>10 DEF Lifts, LeavesIn, Covers, UpTold
<1>15. FingersCounted'
  BY <1>2, <1>3, <1>13, <1>14 DEF TouchInv, FingersCounted
<1>16. LiftedApart'
  <2> SUFFICES ASSUME NEW f \in Fingers, touchFocus'[f] \in TouchNodes, f \notin fingers
               PROVE  touchFocus'[f] \in rawGrabs \/ \E d \in Members(touchCalls)' : LeavesIn(d, f)
    BY <1>2 DEF LiftedApart
  <2>1. f # h.finger
    BY <1>4, <1>5, TouchAssumption
  <2> QED
    BY <1>3, <1>5, <1>13, <1>14, <2>1 DEF TouchInv, LiftedApart
<1>17. DeadCovered'
  <2> SUFFICES ASSUME NEW f \in Fingers, touchFocus'[f] \in TouchNodes \ touchScene
               PROVE  \E d \in Members(touchCalls)' : Covers(d, f)
    BY <1>2 DEF DeadCovered
  <2>1. f # h.finger
    BY <1>4, <1>5, TouchAssumption
  <2> QED
    BY <1>3, <1>5, <1>13, <1>14, <2>1 DEF TouchInv, DeadCovered
<1>18. StackRight(touchCalls)' /\ LeavesOther' /\ WaitsForGrab' /\ \A f \in Fingers : UpTold(f)' => touchFocus'[f] \notin TouchClients
  <2>1. CASE h.node = NoTarget
    <3>1. touchCalls' = T /\ NoTarget \notin TouchClients
      BY <1>8, <1>11, <2>1, TouchAssumption DEF TouchClients
    <3>2. \A f \in Fingers : touchFocus'[f] \in TouchClients => touchFocus[f] \in TouchClients
      BY <1>5, <2>1, <3>1
    <3> QED
      BY <1>1, <1>2, <3>1, <3>2, BackToCaller
  <2>2. CASE h.node # NoTarget
    <3>1. StackRight(touchCalls)'
      BY <1>3, <1>11, <1>12
    <3>2. \A d \in Members(touchCalls)' : d.op = "node"
      BY <1>4, <1>10, <1>13, <2>2
    <3> QED
      BY <3>1, <3>2, NothingHalfway
  <2> QED
    BY <2>1, <2>2
<1>19. FingersTold'
  <2> SUFFICES ASSUME NEW m \in TouchClients, NEW f \in Fingers
               PROVE  touches'[m][f] = IF touchFocus'[f] = m /\ ~UpTold(f)' THEN 1 ELSE 0
    BY DEF FingersTold
  <2>1. touches[m][f] = IF touchFocus[f] = m /\ f # h.finger THEN 1 ELSE 0
    BY <1>14 DEF TouchInv, FingersTold
  <2>2. UpTold(f)' => touchFocus'[f] # m
    BY <1>18
  <2>3. CASE f = h.finger
    BY <1>5, <1>6, <2>1, <2>2, <2>3
  <2>4. CASE f # h.finger
    BY <1>5, <1>6, <2>1, <2>2, <2>4
  <2> QED
    BY <2>3, <2>4
<1>20. \A d \in Members(touchCalls)' : CallRight(d)'
  BY <1>2, <1>3, <1>10, <1>13 DEF CallRight
<1> QED
  BY <1>2, <1>7, <1>15, <1>16, <1>17, <1>18, <1>19, <1>20 DEF TouchInv

(* The code of a grab that is told of an up runs first.                    *)
LEMMA UpPushed ==
  ASSUME NEW old \in TouchNodes, NEW t, StackRight(t), touchCalls' = (IF old \in TouchGrabs THEN <<[op |-> "up_node", node |-> old]>> \o t ELSE t),
         t # <<>>, \A d \in Members(t) : d.op \in Nested /\ (d.op = "set_end" => d.node # old)
  PROVE  /\ StackRight(touchCalls)'
         /\ old \in TouchGrabs => /\ touchCalls' # <<>> /\ Head(touchCalls)'.op = "up_node" /\ Tail(touchCalls)' = t
                                  /\ Members(touchCalls)' = {[op |-> "up_node", node |-> old]} \cup Members(t)
         /\ old \notin TouchGrabs => touchCalls' = t
<1>1. CASE old \in TouchGrabs
  <2>1. PICK c : c = [op |-> "up_node", node |-> old]
    OBVIOUS
  <2>2. c \in TouchCallTypes /\ c.op = "up_node" /\ c.node = old
    BY <1>1, <2>1, CallsMade
  <2>3. PICK s : s = touchCalls'
    OBVIOUS
  <2>4. Fits(c, t)
    BY <2>2 DEF Fits, CanBeBelow, Transfers
  <2>5. StackRight(s) /\ s # <<>> /\ Head(s) = c /\ Tail(s) = t /\ Members(s) = {c} \cup Members(t)
    BY <1>1, <2>1, <2>2, <2>3, <2>4, PushCall
  <2> QED
    BY <1>1, <2>1, <2>2, <2>3, <2>5
<1> QED
  BY <1>1

(* set_touch_focus(): the old node is told that the finger has left.        *)
LEMMA TouchFocusStartInv ==
  ASSUME TouchInv, TouchFocusStart
  PROVE  TouchInv'
<1>1. PICK h, T : h = Head(touchCalls) /\ T = Tail(touchCalls)
  OBVIOUS
<1>2. PICK f, n, old : f = h.finger /\ n = h.node /\ old = Target(f)
  OBVIOUS
<1>3. /\ touchCalls # <<>> /\ h.op = "set"
      /\ \/ old = n /\ Then(<<>>) /\ UNCHANGED <<touches, lifted>>
         \/ old # n /\ old # NoTarget /\ Up(old, f) /\ Then(UpCodeOf(old) \o <<FingerFocused(f, n)>>)
         \/ old # n /\ old = NoTarget /\ Then(<<FingerFocused(f, n)>>) /\ UNCHANGED <<touches, lifted>>
      /\ touchFocus' = [touchFocus EXCEPT ![f] = old]
      /\ UNCHANGED <<fingers, onScreen, touchScene, rawGrabs>>
  BY <1>1, <1>2 DEF TouchFocusStart, Active, touchEnv
<1>4. /\ h \in TouchCallTypes /\ StackRight(T) /\ Fits(h, T) /\ CallRight(h)
      /\ Members(touchCalls) = {h} \cup Members(T)
      /\ \A d \in Members(T) : CallRight(d) /\ CanBeBelow(h, d) /\ d \in TouchCallTypes
      /\ T # <<>> => Head(T) \in Members(T) /\ Members(Tail(T)) \subseteq Members(T)
  BY <1>1, <1>3, TouchTop
<1>5. /\ f \in Fingers /\ n \in TouchTargets /\ \A d \in Members(T) : d.op \in Nested
      /\ n # NoTarget => f \in fingers /\ n \in touchScene /\ \A d \in Members(T) : d.op = "node"
      /\ \A d \in Members(T) : d.op = "set_end" /\ d.node # NoTarget => touchFocus[f] # d.node
  BY <1>1, <1>2, <1>3, <1>4, CallFields DEF CallRight, CanBeBelow, TouchInv, LeavesOther
<1>6. /\ old \in TouchTargets /\ NoTarget \notin TouchNodes /\ TouchClients \subseteq TouchNodes
      /\ old # NoTarget => touchFocus[f] = old
      /\ old = NoTarget => touchFocus[f] \notin TouchNodes
  BY <1>2, <1>5, TouchAssumption DEF Target, TouchInv, TouchTypes, TouchTargets, TouchClients
<1>7. \A g \in Fingers : touchFocus'[g] = IF g = f THEN old ELSE touchFocus[g]
  BY <1>3, <1>5 DEF TouchInv, TouchTypes
<1>8. \A g \in Fingers : /\ touchFocus'[g] \in TouchNodes <=> touchFocus[g] \in TouchNodes
                         /\ touchFocus'[g] \in TouchNodes => touchFocus'[g] = touchFocus[g]
  BY <1>6, <1>7
<1>9. \A g : ~Lifts(h, g) /\ ~UpTold(g) /\ (LeavesIn(h, g) <=> g = f /\ n = NoTarget) /\ (Covers(h, g) <=> LeavesIn(h, g))
  BY <1>1, <1>2, <1>3 DEF Lifts, LeavesIn, Covers, UpTold
<1>10. \A m \in TouchClients, g \in Fingers : touches[m][g] = IF touchFocus[g] = m THEN 1 ELSE 0
  BY <1>9 DEF TouchInv, FingersTold
<1>11. \A d \in Members(T) : d.op \in {"set_end", "transfer_end"} => d.finger \in Fingers /\ touchFocus[d.finger] \notin TouchClients
  BY <1>1, <1>3, <1>4, CallFields DEF TouchInv, WaitsForGrab
<1>12. CASE old = n
  <2>1. touchCalls' = T /\ UNCHANGED <<touches, lifted>>
    BY <1>1, <1>3, <1>12, ThenRuns
  <2>2. TouchTypes'
    BY <1>3, <1>6, <2>1 DEF TouchInv, TouchTypes
  <2>3. Members(touchCalls)' = Members(T)
    BY <2>1
  <2>4. FingersCounted'
    BY <1>3, <1>4, <1>9, <2>3 DEF TouchInv, FingersCounted
  <2>5. LiftedApart'
    <3> SUFFICES ASSUME NEW g \in Fingers, touchFocus'[g] \in TouchNodes, g \notin fingers
                 PROVE  touchFocus'[g] \in rawGrabs \/ \E d \in Members(T) : LeavesIn(d, g)
      BY <1>3, <2>3 DEF LiftedApart
    <3>1. ~LeavesIn(h, g)
      BY <1>5, <1>6, <1>7, <1>9, <1>12
    <3> QED
      BY <1>4, <1>8, <3>1 DEF TouchInv, LiftedApart
  <2>6. DeadCovered'
    <3> SUFFICES ASSUME NEW g \in Fingers, touchFocus'[g] \in TouchNodes \ touchScene
                 PROVE  \E d \in Members(T) : Covers(d, g)
      BY <1>3, <2>3 DEF DeadCovered
    <3>1. ~Covers(h, g)
      BY <1>5, <1>6, <1>7, <1>9, <1>12
    <3> QED
      BY <1>4, <1>8, <3>1 DEF TouchInv, DeadCovered
  <2>7. WaitsForGrab'
    BY <1>4, <1>6, <1>8, <1>11, <2>1 DEF WaitsForGrab
  <2>8. LeavesOther'
    BY <1>4, <1>5, <2>1 DEF LeavesOther, Nested
  <2>9. FingersTold'
    <3>1. \A g : UpTold(g)' => g \in Fingers /\ touchFocus[g] \notin TouchClients
      BY <1>4, <1>11, <2>1 DEF UpTold
    <3> QED
      BY <1>6, <1>8, <1>10, <2>1, <3>1 DEF FingersTold
  <2>10. \A d \in Members(touchCalls)' : CallRight(d)'
    BY <1>3, <1>4, <2>3 DEF CallRight
  <2> QED
    BY <1>4, <2>1, <2>2, <2>4, <2>5, <2>6, <2>7, <2>8, <2>9, <2>10 DEF TouchInv
<1>13. CASE old # n
  <2> DEFINE e == FingerFocused(f, n)
  <2>1. e \in TouchCallTypes /\ e.op = "set_end" /\ e.finger = f /\ e.node = n
    BY <1>5, CallsMade
  <2>2. \/ old # NoTarget /\ Up(old, f) /\ Then(UpCodeOf(old) \o <<e>>)
        \/ old = NoTarget /\ Then(<<e>>) /\ UNCHANGED <<touches, lifted>>
    BY <1>3, <1>13
  <2> HIDE DEF e
  <2>3. PICK t : t = <<e>> \o T
    OBVIOUS
  <2>4. Fits(e, T)
    BY <1>5, <2>1 DEF Fits, CanBeBelow, Transfers
  <2>5. StackRight(t) /\ t # <<>> /\ Head(t) = e /\ Tail(t) = T /\ Members(t) = {e} \cup Members(T)
    BY <1>4, <2>1, <2>3, <2>4, PushCall
  <2>6. \A g : /\ ~Lifts(e, g) /\ (LeavesIn(e, g) <=> LeavesIn(h, g)) /\ (Covers(e, g) <=> Covers(h, g))
    BY <1>2, <1>3, <2>1 DEF Lifts, LeavesIn, Covers
  <2>7. CallRight(e)'
    BY <1>3, <1>5, <2>1 DEF CallRight
  <2>8. /\ touches' \in [TouchNodes -> [Fingers -> Nat]] /\ lifted' \cap TouchClients = {}
        /\ \A m \in TouchClients, g \in Fingers : touches'[m][g] = IF m = old /\ g = f THEN 0 ELSE touches[m][g]
    <3>1. CASE old # NoTarget
      <4>1. old \in TouchNodes /\ touchFocus[f] = old /\ ~UpTold(f) /\ Up(old, f)
        BY <1>6, <1>9, <2>2, <3>1 DEF TouchTargets
      <4> QED
        BY <1>5, <4>1, UpIs
    <3>2. CASE old = NoTarget
      <4>1. UNCHANGED <<touches, lifted>> /\ old \notin TouchClients
        BY <1>6, <2>2, <3>2
      <4> QED
        BY <4>1 DEF TouchInv, TouchTypes
    <3> QED
      BY <3>1, <3>2
  <2>9. \/ touchCalls' = t /\ old \notin TouchGrabs
        \/ touchCalls' = <<[op |-> "up_node", node |-> old]>> \o t /\ old \in TouchGrabs
    <3>1. CASE old \in TouchGrabs
      <4>1. old # NoTarget
        BY <1>6, <3>1, TouchAssumption
      <4> DEFINE u == [op |-> "up_node", node |-> old]
      <4>2. Then(<<u>> \o <<e>>)
        BY <2>2, <3>1, <4>1 DEF UpCodeOf
      <4>3. u \in TouchCallTypes
        BY <3>1, CallsMade
      <4>4. touchCalls' = <<u>> \o t
        <5> HIDE DEF u
        <5>1. Then(<<u, e>>)
          BY <2>1, <4>2, <4>3, Joined
        <5> QED
          BY <1>1, <1>3, <2>1, <2>3, <4>3, <5>1, ThenRuns
      <4> QED
        BY <3>1, <4>4
    <3>2. CASE old \notin TouchGrabs
      <4>1. Then(<<e>>) \/ Then(<<>> \o <<e>>)
        BY <2>2, <3>2 DEF UpCodeOf
      <4> QED
        BY <1>1, <1>3, <2>1, <2>3, <3>2, <4>1, Joined, ThenRuns
    <3> QED
      BY <3>1, <3>2
  <2>10. \A d \in Members(t) : d.op \in Nested /\ (d.op = "set_end" => d.node # old \/ old = NoTarget)
    BY <1>5, <1>6, <1>13, <2>1, <2>5 DEF Nested
  <2>11. StackRight(touchCalls)'
         /\ \/ touchCalls' = t /\ old \notin TouchGrabs
            \/ /\ touchCalls' # <<>> /\ Head(touchCalls)'.op = "up_node" /\ Tail(touchCalls)' = t /\ old \in TouchGrabs
               /\ Members(touchCalls)' = {[op |-> "up_node", node |-> old]} \cup Members(t)
    <3>1. CASE old \in TouchGrabs
      <4>1. old \in TouchNodes /\ old # NoTarget
        BY <1>6, <3>1, TouchAssumption
      <4>2. touchCalls' = (IF old \in TouchGrabs THEN <<[op |-> "up_node", node |-> old]>> \o t ELSE t)
        BY <2>9, <3>1
      <4> QED
        BY <2>5, <2>10, <3>1, <4>1, <4>2, UpPushed
    <3>2. CASE old \notin TouchGrabs
      BY <2>5, <2>9, <3>2
    <3> QED
      BY <3>1, <3>2
  <2>12. \A d \in Members(t) : d \in Members(touchCalls)'
    BY <2>11
  <2>13. \A d \in Members(touchCalls)' : d \in Members(t) \/ d.op = "up_node"
    BY <2>11
  <2>14. TouchTypes'
    BY <1>3, <1>6, <2>8 DEF TouchInv, TouchTypes
  <2>15. FingersCounted'
    <3>1. \A g \in Fingers : (\E d \in Members(touchCalls)' : Lifts(d, g)) <=> (\E d \in Members(touchCalls) : Lifts(d, g))
      BY <1>4, <1>9, <2>5, <2>6, <2>12, <2>13 DEF Lifts
    <3> QED
      BY <1>3, <3>1 DEF TouchInv, FingersCounted
  <2>16. LiftedApart'
    BY <1>3, <1>4, <1>8, <2>5, <2>6, <2>12 DEF TouchInv, LiftedApart
  <2>17. DeadCovered'
    BY <1>3, <1>4, <1>8, <2>5, <2>6, <2>12 DEF TouchInv, DeadCovered
  <2>18. WaitsForGrab'
    <3>1. \A d \in Members(T) : d.op \in {"set_end", "transfer_end"} => touchFocus'[d.finger] \notin TouchClients
      BY <1>6, <1>8, <1>11
    <3>2. old \in TouchGrabs => touchFocus'[f] \notin TouchClients
      BY <1>5, <1>7 DEF TouchClients
    <3> QED
      BY <2>1, <2>5, <2>11, <3>1, <3>2 DEF WaitsForGrab
  <2>19. LeavesOther'
    BY <2>1, <2>5, <2>11 DEF LeavesOther
  <2>20. FingersTold'
    <3> SUFFICES ASSUME NEW m \in TouchClients, NEW g \in Fingers
                 PROVE  touches'[m][g] = IF touchFocus'[g] = m /\ ~UpTold(g)' THEN 1 ELSE 0
      BY DEF FingersTold
    <3>1. m \in TouchNodes /\ m # NoTarget /\ m \notin TouchGrabs
      BY <1>6 DEF TouchClients
    <3>2. UpTold(g)' <=> old \notin TouchGrabs /\ g = f
      BY <2>1, <2>5, <2>11 DEF UpTold
    <3>3. touches[m][g] = IF touchFocus[g] = m THEN 1 ELSE 0
      BY <1>10
    <3>4. CASE g = f
      BY <1>6, <1>7, <2>8, <3>1, <3>2, <3>3, <3>4
    <3>5. CASE g # f
      BY <1>7, <2>8, <3>2, <3>3, <3>5
    <3> QED
      BY <3>4, <3>5
  <2>21. \A d \in Members(touchCalls)' : CallRight(d)'
    BY <1>3, <1>4, <2>5, <2>7, <2>13 DEF CallRight
  <2> QED
    BY <2>8, <2>11, <2>14, <2>15, <2>16, <2>17, <2>18, <2>19, <2>20, <2>21 DEF TouchInv
<1> QED
  BY <1>12, <1>13

(* transfer_grab() for one finger, and for those after it.                  *)
LEMMA TransferFingerInv ==
  ASSUME TouchInv, TransferFinger
  PROVE  TouchInv'
<1>1. PICK h, T : h = Head(touchCalls) /\ T = Tail(touchCalls)
  OBVIOUS
<1>2. PICK from, n, f, old : from = h.finger /\ n = h.node /\ f = NextFinger(from) /\ old = touchFocus[f]
  OBVIOUS
<1>3. /\ touchCalls # <<>> /\ h.op = "transfer"
      /\ \/ NoMoreFingers(from) /\ Then(<<>>) /\ UNCHANGED <<fingers, touches, lifted>>
         \/ /\ ~NoMoreFingers(from) /\ old \in {NoTarget, n} \cup rawGrabs
            /\ fingers' = LookedUp(f, FALSE) /\ Then(<<TransferEnd(f, n), TransferFrom(f + 1, n)>>)
            /\ UNCHANGED <<touches, lifted>>
         \/ /\ ~NoMoreFingers(from) /\ old \notin {NoTarget, n} \cup rawGrabs
            /\ fingers' = LookedUp(f, TRUE) /\ Up(old, f)
            /\ Then(UpCodeOf(old) \o <<TransferEnd(f, n), TransferFrom(f + 1, n)>>)
      /\ UNCHANGED <<touchFocus, onScreen, touchScene, rawGrabs>>
  BY <1>1, <1>2 DEF TransferFinger, Active, touchEnv
<1>4. /\ h \in TouchCallTypes /\ StackRight(T) /\ Fits(h, T) /\ CallRight(h)
      /\ Members(touchCalls) = {h} \cup Members(T)
      /\ \A d \in Members(T) : CallRight(d) /\ CanBeBelow(h, d) /\ d \in TouchCallTypes
      /\ T # <<>> => Head(T) \in Members(T) /\ Members(Tail(T)) \subseteq Members(T)
  BY <1>1, <1>3, TouchTop
<1>5. /\ from \in Nat /\ n \in TouchTargets /\ n \in rawGrabs \cup {NoTarget}
      /\ \A d \in Members(T) : d.op \in {"update", "node", "lift"}
      /\ UpdateFrom(First) \in Members(T)
  BY <1>2, <1>3, <1>4, CallFields DEF CallRight, CanBeBelow, Fits, Transfers
<1>6. \A g : ~Lifts(h, g) /\ ~UpTold(g) /\ ~LeavesIn(h, g) /\ ~Covers(h, g)
  BY <1>1, <1>3 DEF Lifts, LeavesIn, Covers, UpTold
<1>7. \A m \in TouchClients, g \in Fingers : touches[m][g] = IF touchFocus[g] = m THEN 1 ELSE 0
  BY <1>6 DEF TouchInv, FingersTold
<1>8. CASE NoMoreFingers(from)
  <2>1. touchCalls' = T /\ UNCHANGED <<fingers, touches, lifted>>
    BY <1>1, <1>3, <1>8, ThenRuns
  <2>2. Members(touchCalls)' = Members(T)
    BY <2>1
  <2>3. TouchTypes'
    BY <1>3, <2>1 DEF TouchInv, TouchTypes
  <2>4. FingersCounted'
    BY <1>3, <1>4, <1>6, <2>1, <2>2 DEF TouchInv, FingersCounted
  <2>5. LiftedApart'
    BY <1>3, <1>4, <1>6, <2>1, <2>2 DEF TouchInv, LiftedApart
  <2>6. DeadCovered'
    BY <1>3, <1>4, <1>6, <2>1, <2>2 DEF TouchInv, DeadCovered
  <2>7. WaitsForGrab' /\ LeavesOther' /\ \A g : ~UpTold(g)'
    <3>1. \A d \in Members(touchCalls)' : d.op \notin {"set_end", "transfer_end"}
      BY <1>5, <2>2
    <3> QED
      BY <1>4, <2>1, <3>1, NothingHalfway
  <2>8. FingersTold'
    BY <1>3, <1>7, <2>1, <2>7 DEF FingersTold
  <2>9. \A d \in Members(touchCalls)' : CallRight(d)'
    BY <1>3, <1>4, <2>1, <2>2 DEF CallRight
  <2> QED
    BY <1>4, <2>1, <2>3, <2>4, <2>5, <2>6, <2>7, <2>8, <2>9 DEF TouchInv
<1>9. CASE ~NoMoreFingers(from)
  <2>1. f \in Fingers /\ touchFocus[f] # Untracked /\ f \in Nat /\ f + 1 \in Nat
    <3>1. f \in Fingers /\ touchFocus[f] # Untracked
      BY <1>2, <1>5, <1>9, NextFingerLeast
    <3> QED
      BY <3>1, TouchAssumption
  <2> DEFINE e == TransferEnd(f, n)
             r == TransferFrom(f + 1, n)
  <2>2. /\ e \in TouchCallTypes /\ e.op = "transfer_end" /\ e.finger = f /\ e.node = n
        /\ r \in TouchCallTypes /\ r.op = "transfer" /\ r.node = n
    BY <1>5, <2>1, CallsMade
  <2>3. \/ /\ old \in {NoTarget, n} \cup rawGrabs /\ fingers' = LookedUp(f, FALSE) /\ Then(<<e, r>>)
           /\ UNCHANGED <<touches, lifted>>
        \/ /\ old \notin {NoTarget, n} \cup rawGrabs /\ fingers' = LookedUp(f, TRUE) /\ Up(old, f)
           /\ Then(UpCodeOf(old) \o <<e, r>>)
    BY <1>3, <1>9
  <2> HIDE DEF e, r
  <2>4. PICK u1, t : u1 = <<r>> \o T /\ t = <<e>> \o u1
    OBVIOUS
  <2>5. Fits(r, T)
    BY <1>5, <2>2 DEF Fits, CanBeBelow, Transfers
  <2>6. StackRight(u1) /\ Members(u1) = {r} \cup Members(T)
    BY <1>4, <2>2, <2>4, <2>5, PushCall
  <2>7. Fits(e, u1)
    BY <1>5, <2>2, <2>6 DEF Fits, CanBeBelow, Transfers
  <2>8. StackRight(t) /\ t # <<>> /\ Head(t) = e /\ Tail(t) = u1 /\ Members(t) = {e, r} \cup Members(T)
    <3>1. StackRight(t) /\ t # <<>> /\ Head(t) = e /\ Tail(t) = u1 /\ Members(t) = {e} \cup Members(u1)
      BY <2>2, <2>4, <2>6, <2>7, PushCall
    <3> QED
      BY <2>6, <3>1
  <2>9. f \notin fingers => old \notin TouchNodes \/ old \in rawGrabs
    BY <1>2, <1>4, <1>5, <1>6, <2>1 DEF TouchInv, LiftedApart, LeavesIn
  <2>10. old \in TouchTargets /\ TouchClients \subseteq TouchNodes /\ NoTarget \notin TouchNodes /\ rawGrabs \subseteq TouchGrabs
         /\ touchFocus[f] = old /\ TouchGrabs \subseteq TouchNodes
    BY <1>2, <2>1, TouchAssumption DEF TouchInv, TouchTypes, TouchTargets, TouchClients
  <2>11. fingers' = fingers
    BY <2>3, <2>9, <2>10 DEF LookedUp, TouchTargets
  <2>12. /\ touches' \in [TouchNodes -> [Fingers -> Nat]] /\ lifted' \cap TouchClients = {}
         /\ \A m \in TouchClients, g \in Fingers : touches'[m][g] = IF m = old /\ g = f THEN 0 ELSE touches[m][g]
    <3>1. CASE old \in {NoTarget, n} \cup rawGrabs
      <4>1. UNCHANGED <<touches, lifted>> /\ old \notin TouchClients
        BY <1>5, <2>3, <2>10, <3>1 DEF TouchClients
      <4> QED
        BY <4>1 DEF TouchInv, TouchTypes
    <3>2. CASE old \notin {NoTarget, n} \cup rawGrabs
      <4>1. old \in TouchNodes /\ touchFocus[f] = old /\ ~UpTold(f) /\ Up(old, f)
        BY <1>6, <2>3, <2>10, <3>2 DEF TouchTargets
      <4> QED
        BY <2>1, <4>1, UpIs
    <3> QED
      BY <3>1, <3>2
  <2>13. \/ touchCalls' = t /\ (old \notin TouchGrabs \/ old \in {n} \cup rawGrabs)
         \/ touchCalls' = <<[op |-> "up_node", node |-> old]>> \o t /\ old \in TouchGrabs
    <3>1. CASE old \in {NoTarget, n} \cup rawGrabs
      <4>1. touchCalls' = t
        BY <1>1, <1>3, <2>2, <2>3, <2>4, <3>1, ThenRuns
      <4> QED
        BY <2>10, <3>1, <4>1
    <3>2. CASE old \notin {NoTarget, n} \cup rawGrabs /\ old \notin TouchGrabs
      <4>1. Then(<<>> \o <<e, r>>)
        BY <2>3, <3>2 DEF UpCodeOf
      <4>2. <<e, r>> \in Seq(TouchCallTypes)
        BY <2>2
      <4>3. Then(<<e, r>>)
        BY <4>1, <4>2, ConcatEmptySeq
      <4>4. touchCalls' = t
        BY <1>1, <1>3, <2>2, <2>4, <4>3, ThenRuns
      <4> QED
        BY <3>2, <4>4
    <3>3. CASE old \notin {NoTarget, n} \cup rawGrabs /\ old \in TouchGrabs
      <4> DEFINE u == [op |-> "up_node", node |-> old]
      <4>1. Then(<<u>> \o <<e, r>>)
        BY <2>3, <3>3 DEF UpCodeOf
      <4>2. u \in TouchCallTypes
        BY <3>3, CallsMade
      <4>3. touchCalls' = <<u>> \o t
        <5> HIDE DEF u
        <5> QED
          BY <1>1, <1>3, <2>2, <2>4, <4>1, <4>2, ThenRuns
      <4> QED
        BY <3>3, <4>3
    <3> QED
      BY <3>1, <3>2, <3>3
  <2>14. \A d \in Members(t) : d.op \in Nested /\ d.op # "set_end"
    BY <1>5, <2>2, <2>8 DEF Nested
  <2>15. StackRight(touchCalls)'
         /\ \/ touchCalls' = t /\ (old \notin TouchGrabs \/ old \in {n} \cup rawGrabs)
            \/ /\ touchCalls' # <<>> /\ Head(touchCalls)'.op = "up_node" /\ Tail(touchCalls)' = t /\ old \in TouchGrabs
               /\ Members(touchCalls)' = {[op |-> "up_node", node |-> old]} \cup Members(t)
    <3>1. CASE touchCalls' = t /\ (old \notin TouchGrabs \/ old \in {n} \cup rawGrabs)
      BY <2>8, <3>1
    <3>2. CASE touchCalls' = <<[op |-> "up_node", node |-> old]>> \o t /\ old \in TouchGrabs
      <4>1. old \in TouchNodes /\ touchCalls' = (IF old \in TouchGrabs THEN <<[op |-> "up_node", node |-> old]>> \o t ELSE t)
        BY <2>10, <3>2
      <4> QED
        BY <2>8, <2>14, <3>2, <4>1, UpPushed
    <3> QED
      BY <2>13, <3>1, <3>2
  <2>16. \A d \in Members(T) : d \in Members(touchCalls)'
    BY <2>8, <2>15
  <2>17. \A d \in Members(touchCalls)' : d \in Members(T) \/ d = e \/ d = r \/ d.op = "up_node"
    BY <2>8, <2>15
  <2>18. TouchTypes'
    BY <1>3, <2>11, <2>12 DEF TouchInv, TouchTypes
  <2>19. FingersCounted'
    <3>1. \A g \in Fingers : (\E d \in Members(touchCalls)' : Lifts(d, g)) <=> (\E d \in Members(touchCalls) : Lifts(d, g))
      BY <1>4, <1>6, <2>2, <2>16, <2>17 DEF Lifts
    <3>2. \A d \in Members(touchCalls)', g \in Fingers : Lifts(d, g) => d \in Members(touchCalls)
      BY <1>4, <2>2, <2>17 DEF Lifts
    <3> QED
      BY <1>3, <2>11, <3>1, <3>2 DEF TouchInv, FingersCounted
  <2>20. LiftedApart'
    BY <1>3, <1>4, <1>6, <2>11, <2>16 DEF TouchInv, LiftedApart
  <2>21. DeadCovered'
    BY <1>3, <1>4, <1>6, <2>16 DEF TouchInv, DeadCovered
  <2>22. WaitsForGrab'
    <3>1. old \in TouchGrabs => touchFocus'[f] \notin TouchClients
      BY <1>3, <2>10 DEF TouchClients
    <3> QED
      BY <1>5, <2>2, <2>6, <2>8, <2>15, <3>1 DEF WaitsForGrab
  <2>23. LeavesOther'
    BY <2>2, <2>8, <2>15 DEF LeavesOther
  <2>24. FingersTold'
    <3> SUFFICES ASSUME NEW m \in TouchClients, NEW g \in Fingers
                 PROVE  touches'[m][g] = IF touchFocus[g] = m /\ ~UpTold(g)' THEN 1 ELSE 0
      BY <1>3 DEF FingersTold
    <3>1. m \in TouchNodes /\ m # NoTarget /\ m \notin TouchGrabs
      BY <2>10 DEF TouchClients
    <3>2. touches[m][g] = IF touchFocus[g] = m THEN 1 ELSE 0
      BY <1>7
    <3>3. UpTold(g)' => g = f
      BY <2>2, <2>8, <2>15 DEF UpTold
    <3>4. old = m /\ g = f => UpTold(g)'
      BY <2>2, <2>8, <2>15, <3>1 DEF UpTold
    <3>5. CASE g = f
      BY <2>10, <2>12, <3>2, <3>3, <3>4, <3>5
    <3>6. CASE g # f
      BY <2>12, <3>2, <3>3, <3>6
    <3> QED
      BY <3>5, <3>6
  <2>25. \A d \in Members(touchCalls)' : CallRight(d)'
    BY <1>3, <1>4, <1>5, <2>2, <2>11, <2>17 DEF CallRight
  <2> QED
    BY <2>12, <2>15, <2>18, <2>19, <2>20, <2>21, <2>22, <2>23, <2>24, <2>25 DEF TouchInv
<1> QED
  BY <1>8, <1>9

(* The invariant holds before the first touch.                              *)
LEMMA TouchInitInv ==
  ASSUME TouchInit
  PROVE  TouchInv
<1>1. touchCalls = <<>> /\ StackRight(touchCalls) /\ Members(touchCalls) = {}
  BY NoCalls DEF TouchInit
<1>2. TouchTypes
  BY TouchAssumption DEF TouchInit, TouchTypes, TouchTargets
<1>3. \A f \in Fingers : touchFocus[f] = Untracked /\ Untracked \notin TouchNodes
  BY TouchAssumption DEF TouchInit
<1>4. FingersCounted /\ LiftedApart /\ DeadCovered
  BY <1>1, <1>3 DEF TouchInit, FingersCounted, LiftedApart, DeadCovered
<1>5. WaitsForGrab /\ LeavesOther
  BY <1>1 DEF WaitsForGrab, LeavesOther
<1>6. FingersTold
  BY <1>3 DEF TouchInit, FingersTold, TouchClients
<1> QED
  BY <1>1, <1>2, <1>4, <1>5, <1>6 DEF TouchInv, TouchInit

(* Every step keeps the invariant.                                          *)
LEMMA TouchInductive ==
  ASSUME TouchInv, [TouchNext]_touchVars
  PROVE  TouchInv'
<1>1. CASE \E f \in Fingers, mode \in {"FULL", "NO_CLIENT"} : TouchDown(f, mode)
  BY <1>1, TouchDownInv
<1>2. CASE \E f \in Fingers : TouchMotion(f)
  BY <1>2, TouchMotionInv
<1>3. CASE \E f \in Fingers : TouchUp(f)
  BY <1>3, TouchUpInv
<1>4. CASE UNCHANGED touchVars
  <2>1. /\ UNCHANGED touchFocus /\ UNCHANGED fingers /\ UNCHANGED onScreen /\ UNCHANGED touchScene
        /\ UNCHANGED rawGrabs /\ UNCHANGED touchCalls /\ UNCHANGED touches /\ UNCHANGED lifted
    BY <1>4 DEF touchVars, touchState, touchEnv
  <2>2. TouchTypes'
    BY <2>1 DEF TouchInv, TouchTypes
  <2>3. FingersCounted' /\ LiftedApart' /\ DeadCovered'
    BY <2>1 DEF TouchInv, FingersCounted, LiftedApart, DeadCovered
  <2>4. WaitsForGrab' /\ LeavesOther'
    BY <2>1 DEF TouchInv, WaitsForGrab, LeavesOther
  <2>5. FingersTold'
    <3>1. \A f : UpTold(f)' <=> UpTold(f)
      BY <2>1 DEF UpTold
    <3> QED
      BY <2>1, <3>1 DEF TouchInv, FingersTold
  <2>6. \A c \in Members(touchCalls)' : CallRight(c)'
    BY <2>1 DEF TouchInv, CallRight
  <2>7. StackRight(touchCalls)'
    BY <2>1 DEF TouchInv
  <2> QED
    BY <2>1, <2>2, <2>3, <2>4, <2>5, <2>6, <2>7 DEF TouchInv
<1> QED
  BY <1>1, <1>2, <1>3, <1>4, TouchLiftInv, TouchFocusStartInv, TouchFocusEndInv, TransferFingerInv,
     TransferEndInv, DropDeadInv, TouchSceneInv, TouchViewsInv, TouchReactInv, TouchReturnInv DEF TouchNext

(* What the invariant says between events and of every node.                *)
LEMMA TouchInvImplies ==
  ASSUME TouchInv
  PROVE  FingersKnown /\ TouchFocusAlive /\ TouchPaired
<1>1. FingersKnown
  BY WhenIdle DEF FingersKnown
<1>2. TouchFocusAlive
  BY WhenIdle DEF TouchFocusAlive, TouchInv, TouchTypes, TouchTargets
<1>3. ASSUME NEW n \in TouchNodes \ TouchGrabs, NEW f \in Fingers
      PROVE  /\ n \notin lifted /\ touches[n][f] \in {0, 1}
             /\ TouchIdle => (touches[n][f] = 1 <=> touchFocus[f] = n)
  BY <1>3, WhenIdle DEF TouchInv, FingersTold, TouchClients
<1> QED
  BY <1>1, <1>2, <1>3 DEF TouchPaired

(* The fingers that are counted are those on the screen, none is focused    *)
(* on a node that is gone, and a node is told of downs and ups in pairs     *)
(* (touch.cpp).                                                             *)
THEOREM TouchRight == TouchSpec => [](FingersKnown /\ TouchFocusAlive /\ TouchPaired)
<1>1. TouchInit => TouchInv
  BY TouchInitInv
<1>2. TouchInv /\ [TouchNext]_touchVars => TouchInv'
  BY TouchInductive
<1>3. TouchInv => FingersKnown /\ TouchFocusAlive /\ TouchPaired
  BY TouchInvImplies
<1> QED
  BY <1>1, <1>2, <1>3, PTL DEF TouchSpec

-----------------------------------------------------------------------------
(* The cursor: cursor.cpp and tablet.cpp.                                  *)

(* How a cursor_t relates to the number n of cubes that hide it.           *)
Pictures == {"default", "crosshair", "resize", "client"}

CursorTypes ==
  [hide_ref_counter: Nat, touchscreen_mode_active: BOOLEAN, last_cursor_name: Pictures \cup {NoShape},
   idle_set_cursor: Pictures \cup {NoShape}, shown: Pictures \cup {NoShape}]

HiddenBy(c, n) ==
  /\ c \in CursorTypes /\ n \in Nat
  /\ c.hide_ref_counter = n + (IF c.touchscreen_mode_active THEN 1 ELSE 0)
  /\ c.hide_ref_counter > 0 =>
       c.shown = NoShape /\ c.idle_set_cursor = NoShape /\ c.last_cursor_name = NoShape
  /\ c.hide_ref_counter = 0 => c.shown # NoShape \/ c.idle_set_cursor # NoShape

(* The reference count is that of the cubes, plus one for a touchscreen.   *)
CursorInv ==
  /\ cubesActive \in SUBSET Cubes /\ IsFiniteSet(cubesActive)
  /\ HiddenBy(cursor, Cardinality(cubesActive))

(* A picture that is set counts for nothing while the cursor is hidden.    *)
LEMMA SetCursorHidden ==
  ASSUME NEW c, NEW n, HiddenBy(c, n), NEW name \in Pictures
  PROVE  HiddenBy(SetCursor(c, name), n)
  BY CursorAssumption DEF HiddenBy, SetCursor, CursorTypes, Pictures

(* What hide_cursor() does to the fields of a cursor.                      *)
LEMMA HideFields ==
  ASSUME NEW c \in CursorTypes
  PROVE  /\ HideCursor(c) \in CursorTypes
         /\ HideCursor(c).hide_ref_counter = c.hide_ref_counter + 1
         /\ HideCursor(c).touchscreen_mode_active = c.touchscreen_mode_active
         /\ HideCursor(c).shown = NoShape /\ HideCursor(c).idle_set_cursor = NoShape
         /\ HideCursor(c).last_cursor_name = NoShape
<1>1. c.hide_ref_counter \in Nat /\ NoShape \in Pictures \cup {NoShape}
  BY DEF CursorTypes
<1>2. HideCursor(c).hide_ref_counter = c.hide_ref_counter + 1
  BY DEF HideCursor, CursorTypes
<1>3. c.hide_ref_counter + 1 \in Nat
  BY <1>1
<1>4. HideCursor(c) \in CursorTypes
  BY <1>1, <1>3, Zenon DEF HideCursor, CursorTypes
<1>5. HideCursor(c).touchscreen_mode_active = c.touchscreen_mode_active
  BY Zenon DEF HideCursor, CursorTypes
<1>6. /\ HideCursor(c).shown = NoShape /\ HideCursor(c).idle_set_cursor = NoShape
      /\ HideCursor(c).last_cursor_name = NoShape
  BY DEF HideCursor, CursorTypes
<1> QED
  BY <1>2, <1>4, <1>5, <1>6

(* hide_cursor() is one more to hide it.                                   *)
LEMMA HideCursorHidden ==
  ASSUME NEW c, NEW n, HiddenBy(c, n)
  PROVE  HiddenBy(HideCursor(c), n + 1)
<1> DEFINE d == HideCursor(c)
           t == IF c.touchscreen_mode_active THEN 1 ELSE 0
<1>1. c \in CursorTypes /\ n \in Nat /\ c.hide_ref_counter = n + t
  BY DEF HiddenBy
<1>2. /\ d \in CursorTypes /\ d.hide_ref_counter = c.hide_ref_counter + 1
      /\ d.touchscreen_mode_active = c.touchscreen_mode_active
      /\ d.shown = NoShape /\ d.idle_set_cursor = NoShape /\ d.last_cursor_name = NoShape
  BY <1>1, HideFields
<1> HIDE DEF d
<1>3. d.hide_ref_counter = (n + 1) + t /\ d.hide_ref_counter # 0
  BY <1>1, <1>2
<1>4. HiddenBy(d, n + 1)
  BY <1>1, <1>2, <1>3 DEF HiddenBy
<1> QED
  BY <1>4 DEF d

(* unhide_cursor() is one fewer, and the last one brings a picture back.   *)
LEMMA UnhideCursorHidden ==
  ASSUME NEW c, NEW n, HiddenBy(c, n), n > 0
  PROVE  HiddenBy(UnhideCursor(c), n - 1)
<1> DEFINE d == [c EXCEPT !.hide_ref_counter = c.hide_ref_counter - 1]
           t == IF c.touchscreen_mode_active THEN 1 ELSE 0
<1>1. c \in CursorTypes /\ n \in Nat /\ c.hide_ref_counter = n + t /\ c.hide_ref_counter \in Nat
  BY DEF HiddenBy, CursorTypes
<1>2. c.hide_ref_counter > 0
  BY <1>1
<1>3. c.shown = NoShape /\ c.idle_set_cursor = NoShape /\ c.last_cursor_name = NoShape
  BY <1>2 DEF HiddenBy
<1>4. d \in CursorTypes /\ d.hide_ref_counter = n - 1 + t
  BY <1>1, <1>2 DEF CursorTypes
<1>5. d.touchscreen_mode_active = c.touchscreen_mode_active
  BY <1>1, Zenon DEF CursorTypes
<1>6. d.shown = NoShape /\ d.idle_set_cursor = NoShape /\ d.last_cursor_name = NoShape
  BY <1>1, <1>3 DEF CursorTypes
<1>7. UnhideCursor(c) = IF d.hide_ref_counter > 0 THEN d ELSE SetCursor(d, "default")
  BY <1>1, <1>2, <1>4 DEF UnhideCursor
<1> HIDE DEF d
<1>8. CASE d.hide_ref_counter > 0
  <2>1. HiddenBy(d, n - 1)
    BY <1>1, <1>4, <1>5, <1>6, <1>8 DEF HiddenBy
  <2> QED
    BY <1>7, <1>8, <2>1
<1>9. CASE ~(d.hide_ref_counter > 0)
  <2>1. d.hide_ref_counter = 0 /\ n = 1 /\ t = 0
    BY <1>1, <1>4, <1>9
  <2>2. ~c.touchscreen_mode_active
    BY <2>1
  <2>3. UnhideCursor(c) = [d EXCEPT !.last_cursor_name = "default", !.idle_set_cursor = "default"]
    BY <1>5, <1>6, <1>7, <2>1, <2>2, CursorAssumption DEF SetCursor
  <2> DEFINE u == [d EXCEPT !.last_cursor_name = "default", !.idle_set_cursor = "default"]
  <2>4. u \in CursorTypes /\ u.hide_ref_counter = 0 /\ u.idle_set_cursor = "default"
    BY <1>4, <2>1 DEF CursorTypes, Pictures
  <2>5. ~u.touchscreen_mode_active
    BY <1>4, <1>5, <2>2, Zenon DEF CursorTypes
  <2> HIDE DEF u
  <2>6. HiddenBy(u, 0)
    BY <2>4, <2>5, CursorAssumption DEF HiddenBy
  <2> QED
    BY <2>1, <2>3, <2>6 DEF u
<1> QED
  BY <1>8, <1>9

(* The touchscreen mode hides the cursor once, and unhides it once.        *)
LEMMA TouchscreenModeHidden ==
  ASSUME NEW c, NEW n, HiddenBy(c, n), NEW e \in BOOLEAN
  PROVE  HiddenBy(SetTouchscreenMode(c, e), n)
<1>1. c \in CursorTypes /\ n \in Nat /\ c.touchscreen_mode_active \in BOOLEAN
  BY DEF HiddenBy, CursorTypes
<1>2. CASE c.touchscreen_mode_active = e
  BY <1>2 DEF SetTouchscreenMode
<1>3. CASE c.touchscreen_mode_active # e /\ e = TRUE
  <2> DEFINE d == [c EXCEPT !.touchscreen_mode_active = TRUE]
             u == HideCursor(d)
  <2>1. ~c.touchscreen_mode_active
    BY <1>1, <1>3, Zenon
  <2>2. SetTouchscreenMode(c, e) = u
    BY <1>3, Zenon DEF SetTouchscreenMode
  <2>3. c.hide_ref_counter = n
    BY <1>1, <2>1 DEF HiddenBy
  <2>4. d \in CursorTypes /\ d.hide_ref_counter = n /\ d.touchscreen_mode_active
    <3>1. d \in CursorTypes /\ d.hide_ref_counter = n
      BY <1>1, <2>3 DEF CursorTypes
    <3>2. d.touchscreen_mode_active
      BY <1>1, Zenon DEF CursorTypes
    <3> QED
      BY <3>1, <3>2
  <2> HIDE DEF d
  <2>5. /\ u \in CursorTypes /\ u.hide_ref_counter = n + 1 /\ u.touchscreen_mode_active
        /\ u.shown = NoShape /\ u.idle_set_cursor = NoShape /\ u.last_cursor_name = NoShape
    BY <2>4, HideFields, Zenon
  <2> HIDE DEF u
  <2>6. HiddenBy(u, n)
    BY <1>1, <2>5 DEF HiddenBy
  <2> QED
    BY <2>2, <2>6
<1>4. CASE c.touchscreen_mode_active # e /\ e = FALSE
  <2> DEFINE d == [c EXCEPT !.touchscreen_mode_active = FALSE]
  <2>1. c.touchscreen_mode_active
    BY <1>1, <1>4, Zenon
  <2>2. SetTouchscreenMode(c, e) = UnhideCursor(d)
    BY <1>4, Zenon DEF SetTouchscreenMode
  <2>3. c.hide_ref_counter = n + 1
    BY <1>1, <2>1 DEF HiddenBy
  <2>4. d \in CursorTypes /\ d.hide_ref_counter = n + 1
        /\ d.shown = NoShape /\ d.idle_set_cursor = NoShape /\ d.last_cursor_name = NoShape
    <3>1. c.shown = NoShape /\ c.idle_set_cursor = NoShape /\ c.last_cursor_name = NoShape
      BY <1>1, <2>3 DEF HiddenBy
    <3>2. d \in CursorTypes
      BY <1>1, Zenon DEF CursorTypes
    <3> QED
      BY <1>1, <2>3, <3>1, <3>2 DEF CursorTypes
  <2>5. ~d.touchscreen_mode_active
    BY <1>1, Zenon DEF CursorTypes
  <2> HIDE DEF d
  <2>6. HiddenBy(d, n + 1) /\ n + 1 > 0 /\ (n + 1) - 1 = n
    BY <1>1, <2>4, <2>5 DEF HiddenBy
  <2> QED
    BY <2>2, <2>6, UnhideCursorHidden
<1> QED
  BY <1>2, <1>3, <1>4

(* A client's picture is not shown while the cursor is hidden.             *)
LEMMA ClientCursorHidden ==
  ASSUME NEW c, NEW n, HiddenBy(c, n)
  PROVE  HiddenBy(ClientCursor(c), n)
  BY CursorAssumption DEF HiddenBy, ClientCursor, CursorTypes, Pictures

(* What was set is shown later.                                            *)
LEMMA IdleHidden ==
  ASSUME NEW c, NEW n, HiddenBy(c, n), c.idle_set_cursor # NoShape
  PROVE  HiddenBy([c EXCEPT !.shown = c.idle_set_cursor, !.idle_set_cursor = NoShape], n)
  BY CursorAssumption DEF HiddenBy, CursorTypes, Pictures

(* What a tool does to the cursor leaves the count as it is.               *)
LEMMA ToolCursorHidden ==
  ASSUME NEW c, NEW n, HiddenBy(c, n), NEW node
  PROVE  HiddenBy(FocusCursor(c, node), n)
  BY SetCursorHidden DEF FocusCursor, Pictures

(* Any event of cursor_t keeps the count.                                  *)
LEMMA CursorNextInv ==
  ASSUME CursorInv, CursorNext
  PROVE  CursorInv'
<1> DEFINE n == Cardinality(cubesActive)
<1>1. n \in Nat /\ HiddenBy(cursor, n) /\ IsFiniteSet(cubesActive)
  BY DEF CursorInv, HiddenBy
<1>2. ASSUME HiddenBy(cursor', n), UNCHANGED cubesActive PROVE CursorInv'
  BY <1>2 DEF CursorInv
<1>3. CASE CursorIdle
  BY <1>1, <1>2, <1>3, IdleHidden DEF CursorIdle
<1>4. CASE PointerUsed
  BY <1>1, <1>2, <1>4, TouchscreenModeHidden DEF PointerUsed
<1>5. CASE TouchUsed
  BY <1>1, <1>2, <1>5, TouchscreenModeHidden DEF TouchUsed
<1>6. CASE PluginSetsCursor
  BY <1>1, <1>2, <1>6, SetCursorHidden DEF PluginSetsCursor, Pictures
<1>7. CASE ClientSetsCursor
  BY <1>1, <1>2, <1>7, ClientCursorHidden DEF ClientSetsCursor
<1>8. CASE ConfigReloaded
  BY <1>1, <1>2, <1>8, SetCursorHidden DEF ConfigReloaded, Pictures
<1>9. CASE CubeStarts
  <2>1. PICK x \in Cubes \ cubesActive : cubesActive' = cubesActive \cup {x}
    BY <1>9 DEF CubeStarts
  <2>2. IsFiniteSet(cubesActive \cup {x}) /\ Cardinality(cubesActive \cup {x}) = n + 1
    BY <1>1, <2>1, FS_AddElement
  <2>3. HiddenBy(HideCursor(cursor), n + 1)
    BY <1>1, HideCursorHidden
  <2> QED
    BY <1>9, <2>1, <2>2, <2>3 DEF CubeStarts, CursorInv
<1>10. CASE CubeEnds
  <2>1. PICK x \in cubesActive : cubesActive' = cubesActive \ {x}
    BY <1>10 DEF CubeEnds
  <2>2. IsFiniteSet(cubesActive \ {x}) /\ Cardinality(cubesActive \ {x}) = n - 1
    BY <1>1, <2>1, FS_RemoveElement
  <2>3. n > 0
    <3>1. cubesActive # {}
      BY <2>1
    <3> QED
      BY <1>1, <3>1, FS_EmptySet
  <2>4. HiddenBy(UnhideCursor(cursor), n - 1)
    BY <1>1, <2>3, UnhideCursorHidden
  <2> QED
    BY <1>10, <2>1, <2>2, <2>4 DEF CubeEnds, CursorInv
<1> QED
  BY <1>3, <1>4, <1>5, <1>6, <1>7, <1>8, <1>9, <1>10 DEF CursorNext

(* Nothing hides the cursor at first, and a picture is on its way.         *)
LEMMA CursorInitInv == CursorInit => CursorInv
  BY FS_EmptySet, CursorAssumption DEF CursorInit, CursorInv, HiddenBy, CursorTypes, Pictures

(* CursorShown is what the count says.                                     *)
LEMMA InvShown == CursorInv => CursorShown
<1> SUFFICES ASSUME CursorInv PROVE CursorShown
  OBVIOUS
<1> DEFINE n == Cardinality(cubesActive)
<1>1. n \in Nat /\ HiddenBy(cursor, n) /\ IsFiniteSet(cubesActive)
  BY DEF CursorInv, HiddenBy
<1>2. n = 0 <=> cubesActive = {}
  BY <1>1, FS_EmptySet
<1> HIDE DEF n
<1> QED
  BY <1>1, <1>2 DEF HiddenBy, CursorShown, CursorTypes

(* Every event of a tool counts as one of a pointer.                       *)
LEMMA ToolEventInv ==
  ASSUME CursorInv, ToolNext
  PROVE  CursorInv'
<1> DEFINE n == Cardinality(cubesActive)
<1>1. n \in Nat /\ HiddenBy(cursor, n)
  BY DEF CursorInv, HiddenBy
<1>2. ASSUME HiddenBy(cursor', n), UNCHANGED cubesActive PROVE CursorInv'
  BY <1>2 DEF CursorInv
<1>3. HiddenBy(TabletEvent, n)
  BY <1>1, TouchscreenModeHidden DEF TabletEvent
<1>4. \A name \in Pictures : HiddenBy(SetCursor(TabletEvent, name), n) /\ HiddenBy(SetCursor(cursor, name), n)
  BY <1>1, <1>3, SetCursorHidden
<1>5. \A node : HiddenBy(FocusCursor(TabletEvent, node), n)
  BY <1>3, ToolCursorHidden
<1>6. \A node : HiddenBy(SetCursor(FocusCursor(TabletEvent, node), "crosshair"), n)
  BY <1>5, SetCursorHidden DEF Pictures
<1>7. ASSUME NEW t \in Tools, ProximityIn(t) PROVE CursorInv'
  BY <1>2, <1>6, <1>7 DEF ProximityIn
<1>8. ASSUME NEW t \in Tools, ProximityOut(t) PROVE CursorInv'
  BY <1>2, <1>4, <1>8 DEF ProximityOut, Pictures
<1>9. ASSUME NEW t \in Tools, ToolMoves(t) PROVE CursorInv'
  BY <1>2, <1>5, <1>9 DEF ToolMoves
<1>10. ASSUME NEW t \in Tools, TipUp(t) PROVE CursorInv'
  BY <1>2, <1>3, <1>5, <1>10 DEF TipUp
<1>11. ASSUME NEW t \in Tools, NEW bnd \in BOOLEAN, TipDown(t, bnd) PROVE CursorInv'
  BY <1>2, <1>3, <1>11 DEF TipDown
<1>12. ASSUME NEW grabs, NEW scn, NEW node, UpdateTools(grabs, scn, node) PROVE CursorInv'
  BY <1>1, <1>2, <1>4, <1>12 DEF UpdateTools, Pictures
<1>13. CASE ToolSceneChanges
  BY <1>12, <1>13 DEF ToolSceneChanges
<1>14. CASE ToolGrabsTransferred
  BY <1>12, <1>14 DEF ToolGrabsTransferred
<1>15. CASE CursorNext
  BY <1>15, CursorNextInv
<1> QED
  BY <1>7, <1>8, <1>9, <1>10, <1>11, <1>13, <1>14, <1>15 DEF ToolNext

(* The cursor is hidden exactly while a cube or a finger wants it so,       *)
(* whatever tools, clients and plugins ask for (cursor.cpp, tablet.cpp).    *)
THEOREM CursorHiddenByNeed == ToolSpec => []CursorShown
<1>1. ToolInit => CursorInv
  BY CursorInitInv DEF ToolInit
<1>2. CursorInv /\ [ToolNext]_toolVars => CursorInv'
  <2>1. CASE UNCHANGED toolVars
    BY <2>1 DEF toolVars, CursorInv, HiddenBy
  <2> QED
    BY <2>1, ToolEventInv
<1> QED
  BY <1>1, <1>2, InvShown, PTL DEF ToolSpec

-----------------------------------------------------------------------------
(* Tools of tablets: tablet.cpp.                                           *)

(* Tools that are near are those with a proximity in, and their tips hold  *)
(* only nodes of clients that listen to tablets.                           *)
ToolInv ==
  /\ toolScene \in SUBSET ToolNodes /\ underTools \in toolScene \cup {NoToolNode}
  /\ proximity_surface \in [Tools -> TabletNodes \cup {NoToolNode}]
  /\ grabbed_node \in [Tools -> TabletNodes \cup {NoToolNode}]
  /\ near \in SUBSET Tools /\ is_active = near /\ tipDown \in SUBSET near
  /\ ToolFocusAlive

(* What changes one tool's focus and leaves the scene keeps the invariant. *)
LEMMA ToolFocusInv ==
  ASSUME ToolInv, NEW t \in Tools, NEW node \in toolScene \cup {NoToolNode},
         t \in near', near' \in SUBSET Tools, near \subseteq near', near' \subseteq near \cup {t},
         is_active' = near', UNCHANGED <<grabbed_node, tipDown, toolScene>>, underTools' \in toolScene \cup {NoToolNode},
         proximity_surface' = [proximity_surface EXCEPT ![t] = NewFocus(WantedNode(grabbed_node[t], node))]
  PROVE  ToolInv'
<1>1. NewFocus(WantedNode(grabbed_node[t], node)) \in (TabletNodes \cap toolScene) \cup {NoToolNode}
  BY DEF ToolInv, ToolFocusAlive, NewFocus, WantedNode
<1>2. grabbed_node[t] # NoToolNode => NewFocus(WantedNode(grabbed_node[t], node)) = grabbed_node[t]
  BY DEF ToolInv, NewFocus, WantedNode
<1> QED
  BY <1>1, <1>2 DEF ToolInv, ToolFocusAlive

(* A change of the scene takes every tool to what is left.                 *)
LEMMA UpdateToolsInv ==
  ASSUME ToolInv, NEW grabs \in [Tools -> TabletNodes \cup {NoToolNode}],
         \A t \in Tools : grabs[t] \in {grabbed_node[t], NoToolNode},
         NEW scn \in SUBSET ToolNodes, NEW node \in scn \cup {NoToolNode}, UpdateTools(grabs, scn, node)
  PROVE  ToolInv'
<1> DEFINE grabsLeft == [t \in Tools |-> AliveGrab(grabs[t], scn)]
           wanted == [t \in Tools |-> WantedNode(grabsLeft[t], node)]
<1>1. \A t \in Tools : grabsLeft[t] \in (TabletNodes \cap scn) \cup {NoToolNode}
  BY DEF AliveGrab
<1>2. \A t \in Tools : grabsLeft[t] # NoToolNode => grabsLeft[t] = grabbed_node[t]
  BY DEF AliveGrab
<1>3. \A t \in Tools : NewFocus(wanted[t]) \in (TabletNodes \cap scn) \cup {NoToolNode}
  BY <1>1 DEF NewFocus, WantedNode
<1>4. \A t \in Tools : grabsLeft[t] # NoToolNode => NewFocus(wanted[t]) = grabsLeft[t]
  BY <1>1 DEF NewFocus, WantedNode
<1>5. /\ toolScene' = scn /\ underTools' = node /\ grabbed_node' = grabsLeft
      /\ proximity_surface' = [t \in Tools |-> IF t \in is_active THEN NewFocus(wanted[t])
                                               ELSE proximity_surface[t]]
      /\ UNCHANGED <<is_active, near, tipDown>>
  BY DEF UpdateTools
<1>6. grabbed_node' \in [Tools -> TabletNodes \cup {NoToolNode}]
  BY <1>1, <1>5
<1> HIDE DEF grabsLeft, wanted
<1>7. proximity_surface' \in [Tools -> TabletNodes \cup {NoToolNode}]
  BY <1>3, <1>5 DEF ToolInv
<1>8. ASSUME NEW t \in Tools PROVE
        /\ proximity_surface'[t] \in scn \cup {NoToolNode}
        /\ grabsLeft[t] # NoToolNode => t \in tipDown /\ proximity_surface'[t] = grabsLeft[t]
        /\ t \notin near => proximity_surface'[t] = NoToolNode
  BY <1>2, <1>3, <1>4, <1>5, <1>8 DEF ToolInv, ToolFocusAlive
<1> QED
  BY <1>5, <1>6, <1>7, <1>8 DEF ToolInv, ToolFocusAlive

(* Every event of a tool or of the scene keeps the invariant.              *)
LEMMA ToolNextInv ==
  ASSUME ToolInv, ToolNext
  PROVE  ToolInv'
<1>1. ASSUME NEW t \in Tools, ProximityIn(t) PROVE ToolInv'
  <2>1. PICK n \in toolScene \cup {NoToolNode} :
          /\ underTools' = n
          /\ proximity_surface' = [proximity_surface EXCEPT ![t] = NewFocus(WantedNode(grabbed_node[t], n))]
    BY <1>1 DEF ProximityIn
  <2> QED
    BY <1>1, <2>1, ToolFocusInv DEF ProximityIn, ToolInv
<1>2. ASSUME NEW t \in Tools, ProximityOut(t) PROVE ToolInv'
  BY <1>2 DEF ProximityOut, ToolInv, ToolFocusAlive
<1>3. ASSUME NEW t \in Tools, ToolMoves(t) PROVE ToolInv'
  <2>1. PICK n \in toolScene \cup {NoToolNode} :
          /\ underTools' = n
          /\ proximity_surface' = [proximity_surface EXCEPT ![t] = NewFocus(WantedNode(grabbed_node[t], n))]
    BY <1>3 DEF ToolMoves
  <2> QED
    BY <1>3, <2>1, ToolFocusInv DEF ToolMoves, ToolInv
<1>4. ASSUME NEW t \in Tools, TipUp(t) PROVE ToolInv'
  <2>1. CASE proximity_surface[t] = NoToolNode
    BY <1>4, <2>1 DEF TipUp, ToolInv, ToolFocusAlive
  <2>2. CASE proximity_surface[t] # NoToolNode
    <3>1. NewFocus(underTools) \in (TabletNodes \cap toolScene) \cup {NoToolNode}
      BY DEF NewFocus, ToolInv
    <3> QED
      BY <1>4, <2>2, <3>1 DEF TipUp, ToolInv, ToolFocusAlive
  <2> QED
    BY <2>1, <2>2
<1>5. ASSUME NEW t \in Tools, NEW bnd \in BOOLEAN, TipDown(t, bnd) PROVE ToolInv'
  BY <1>5 DEF TipDown, ToolInv, ToolFocusAlive
<1>6. CASE ToolSceneChanges
  <2>1. PICK scn \in SUBSET ToolNodes : \E node \in scn \cup {NoToolNode} : UpdateTools(grabbed_node, scn, node)
    BY <1>6 DEF ToolSceneChanges, ToolInv
  <2> QED
    BY <2>1, UpdateToolsInv DEF ToolInv
<1>7. CASE ToolGrabsTransferred
  <2>1. PICK n \in ToolNodes : \E node \in toolScene \cup {n} :
          UpdateTools([t \in Tools |-> NoToolNode], toolScene \cup {n}, node)
    BY <1>7 DEF ToolGrabsTransferred
  <2>2. /\ toolScene \cup {n} \in SUBSET ToolNodes
        /\ \A node \in toolScene \cup {n} : node \in (toolScene \cup {n}) \cup {NoToolNode}
        /\ [t \in Tools |-> NoToolNode] \in [Tools -> TabletNodes \cup {NoToolNode}]
        /\ \A t \in Tools : [s \in Tools |-> NoToolNode][t] \in {grabbed_node[t], NoToolNode}
    BY <2>1 DEF ToolInv
  <2> QED
    BY <2>1, <2>2, UpdateToolsInv
<1>8. CASE UNCHANGED <<proximity_surface, grabbed_node, is_active, near, tipDown, focus_enabled_count,
                       toolScene, underTools>>
  BY <1>8 DEF ToolInv, ToolFocusAlive
<1> QED
  BY <1>1, <1>2, <1>3, <1>4, <1>5, <1>6, <1>7, <1>8 DEF ToolNext

(* No tool stays on a node that left the scene (tablet.cpp).                *)
THEOREM ToolsInScene == ToolSpec => []ToolFocusAlive
<1>1. ToolInit => ToolInv
  BY TabletAssumption DEF ToolInit, ToolInv, ToolFocusAlive
<1>2. ToolInv /\ [ToolNext]_toolVars => ToolInv'
  <2>1. CASE UNCHANGED toolVars
    BY <2>1 DEF toolVars, ToolInv, ToolFocusAlive
  <2> QED
    BY <2>1, ToolNextInv
<1>3. ToolInv => ToolFocusAlive
  BY DEF ToolInv
<1> QED
  BY <1>1, <1>2, <1>3, PTL DEF ToolSpec

-----------------------------------------------------------------------------
(* Keys: keyboard.cpp and seat.cpp.                                        *)

KeyCounts == [Keys -> Nat]
SeatKeyTypes == [pressed: KeyCounts, focus: FocusNodes, known: KeyCounts]

(* What the focused client knows, of any value of seatKeys.                *)
KnowsKeys(s) ==
  s \in SeatKeyTypes /\ s.known = IF s.focus \in ClientNodes THEN s.pressed ELSE AllUp

(* A client that is entered knows what is pressed.                         *)
LEMMA FocusOnKnows ==
  ASSUME NEW s, KnowsKeys(s), NEW n \in FocusNodes
  PROVE  KnowsKeys(FocusOn(s, n))
<1>1. AllUp \in KeyCounts
  BY DEF AllUp, KeyCounts
<1> QED
  BY <1>1 DEF KnowsKeys, FocusOn, SeatKeyTypes

(* A key reaches the focused client exactly when it changes pressed_keys.  *)
LEMMA DeliverKnows ==
  ASSUME NEW s, KnowsKeys(s), NEW k \in Keys, NEW down \in BOOLEAN
  PROVE  KnowsKeys(Deliver(s, k, down))
<1>1. s \in SeatKeyTypes /\ s.pressed \in KeyCounts /\ s.known \in KeyCounts /\ s.pressed[k] \in Nat
  BY DEF KnowsKeys, SeatKeyTypes, KeyCounts
<1>2. ASSUME NEW m \in Nat,
             NEW u, u = [s EXCEPT !.pressed[k] = m, !.known[k] = IF s.focus \in ClientNodes THEN m ELSE 0]
      PROVE  KnowsKeys(u)
  <2>1. u.pressed = [s.pressed EXCEPT ![k] = m] /\ u.focus = s.focus
    BY <1>1, <1>2 DEF SeatKeyTypes
  <2>2. u.known = [s.known EXCEPT ![k] = IF s.focus \in ClientNodes THEN m ELSE 0]
    BY <1>1, <1>2 DEF SeatKeyTypes
  <2>3. [s.pressed EXCEPT ![k] = m] \in KeyCounts
        /\ [s.known EXCEPT ![k] = IF s.focus \in ClientNodes THEN m ELSE 0] \in KeyCounts
    BY <1>1 DEF KeyCounts
  <2>4. u \in SeatKeyTypes
    BY <1>1, <1>2, <2>3 DEF SeatKeyTypes
  <2>5. u.known = IF u.focus \in ClientNodes THEN u.pressed ELSE AllUp
    <3>1. CASE s.focus \in ClientNodes
      BY <2>1, <2>2, <3>1 DEF KnowsKeys
    <3>2. CASE s.focus \notin ClientNodes
      <4>1. s.known = AllUp
        BY <3>2 DEF KnowsKeys
      <4>2. [AllUp EXCEPT ![k] = 0] = AllUp
        BY DEF AllUp
      <4> QED
        BY <2>1, <2>2, <3>2, <4>1, <4>2
    <3> QED
      BY <3>1, <3>2
  <2> QED
    BY <2>4, <2>5 DEF KnowsKeys
<1>3. s.focus \in ClientNodes => s.known[k] = s.pressed[k]
  BY DEF KnowsKeys
<1>4. CASE down
  <2>1. Deliver(s, k, down) = [s EXCEPT !.pressed[k] = s.pressed[k] + 1,
                                        !.known[k] = IF s.focus \in ClientNodes THEN s.pressed[k] + 1 ELSE 0]
    BY <1>1, <1>3, <1>4 DEF Deliver, SeatKeyTypes
  <2>2. s.pressed[k] + 1 \in Nat
    BY <1>1
  <2> QED
    BY <1>2, <2>1, <2>2
<1>5. CASE ~down /\ s.pressed[k] > 0
  <2>1. Deliver(s, k, down) = [s EXCEPT !.pressed[k] = s.pressed[k] - 1,
                                        !.known[k] = IF s.focus \in ClientNodes THEN s.pressed[k] - 1 ELSE 0]
    BY <1>1, <1>3, <1>5 DEF Deliver, SeatKeyTypes
  <2>2. s.pressed[k] - 1 \in Nat
    BY <1>1, <1>5
  <2> QED
    BY <1>2, <2>1, <2>2
<1>6. CASE ~down /\ ~(s.pressed[k] > 0)
  BY <1>6 DEF Deliver
<1> QED
  BY <1>4, <1>5, <1>6

(* A keyboard remembers a modifier only while nothing else came in.        *)
KbdInv ==
  /\ KnowsKeys(seatKeys)
  /\ mod_binding_key \in [Keyboards -> Keys \cup {NoKey}]
  /\ meddled \in [Keyboards -> BOOLEAN]
  /\ \A kb \in Keyboards : mod_binding_key[kb] # NoKey => ~meddled[kb]
  /\ ~strayBinding

(* A key of the user.                                                      *)
LEMMA KeyPressedInv ==
  ASSUME KbdInv, NEW kb \in Keyboards, NEW k \in Keys, NEW full \in BOOLEAN, NEW n \in FocusNodes,
         KeyPressed(kb, k, full, n)
  PROVE  KbdInv'
<1>1. KnowsKeys(seatKeys')
  <2>1. KnowsKeys(FocusOn(seatKeys, n))
    BY FocusOnKnows DEF KbdInv
  <2>2. KnowsKeys(Deliver(FocusOn(seatKeys, n), k, TRUE))
    BY <2>1, DeliverKnows
  <2> QED
    BY <2>1, <2>2, Zenon DEF KeyPressed
<1> DEFINE alone == k \in ModKeys /\ ModifiersOnly(keysHeld'[kb])
           other == buttonsDown \/ fingersDown \/ keysHeld'[kb] \ ModKeys # {}
<1>2. mod_binding_key' = [mod_binding_key EXCEPT ![kb] = IF alone THEN k ELSE NoKey]
  BY DEF KeyPressed
<1>3. meddled' = [meddled EXCEPT ![kb] = other] /\ strayBinding' = strayBinding
  BY DEF KeyPressed
<1>4. alone => ~other
  BY DEF ModifiersOnly
<1>5. other \in BOOLEAN
  OBVIOUS
<1> HIDE DEF alone, other
<1>6. meddled' \in [Keyboards -> BOOLEAN] /\ mod_binding_key' \in [Keyboards -> Keys \cup {NoKey}]
  BY <1>2, <1>3, <1>5 DEF KbdInv
<1>7. \A x \in Keyboards : mod_binding_key'[x] # NoKey => ~meddled'[x]
  <2>1. ASSUME NEW x \in Keyboards, x # kb PROVE mod_binding_key'[x] # NoKey => ~meddled'[x]
    BY <1>2, <1>3, <2>1, Zenon DEF KbdInv
  <2>2. mod_binding_key'[kb] # NoKey => ~meddled'[kb]
    <3>1. mod_binding_key'[kb] = IF alone THEN k ELSE NoKey
      BY <1>2 DEF KbdInv
    <3>2. meddled'[kb] = other
      BY <1>3, Zenon DEF KbdInv
    <3> QED
      BY <1>4, <3>1, <3>2, Zenon
  <2> QED
    BY <2>1, <2>2
<1>8. ~strayBinding'
  BY <1>3, Zenon DEF KbdInv
<1> QED
  BY <1>1, <1>6, <1>7, <1>8 DEF KbdInv

(* Its release, with the modifier binding that may run.                    *)
LEMMA KeyReleasedInv ==
  ASSUME KbdInv, NEW kb \in Keyboards, NEW k \in Keys, NEW full \in BOOLEAN, NEW late \in BOOLEAN,
         NEW n \in FocusNodes, KeyReleased(kb, k, full, late, n)
  PROVE  KbdInv'
<1>1. KnowsKeys(seatKeys')
  <2>1. KnowsKeys(FocusOn(seatKeys, n)) /\ KnowsKeys(seatKeys)
    BY FocusOnKnows DEF KbdInv
  <2>2. KnowsKeys(Deliver(FocusOn(seatKeys, n), k, FALSE)) /\ KnowsKeys(Deliver(seatKeys, k, FALSE))
    BY <2>1, DeliverKnows
  <2> QED
    BY <2>1, <2>2, Zenon DEF KeyReleased
<1>2. mod_binding_key' = [mod_binding_key EXCEPT ![kb] = NoKey] /\ meddled' = meddled
  BY DEF KeyReleased
<1>3. strayBinding' = (strayBinding \/ (mod_binding_key[kb] # NoKey /\ ~late /\ meddled[kb]))
  BY Zenon DEF KeyReleased
<1>4. ~strayBinding'
  BY <1>3, Zenon DEF KbdInv
<1>5. mod_binding_key' \in [Keyboards -> Keys \cup {NoKey}]
  BY <1>2 DEF KbdInv
<1>6. \A x \in Keyboards : mod_binding_key'[x] # NoKey => ~meddled'[x]
  BY <1>2, Zenon DEF KbdInv
<1> QED
  BY <1>1, <1>2, <1>4, <1>5, <1>6 DEF KbdInv

(* Everything else that happens to keyboards.                              *)
LEMMA KbdNextInv ==
  ASSUME KbdInv, KbdNext
  PROVE  KbdInv'
<1>1. ASSUME NEW kb \in Keyboards, NEW k \in Keys, NEW full \in BOOLEAN, ImKey(kb, k, full)
      PROVE  KbdInv'
  <2>1. KnowsKeys(seatKeys')
    <3>1. KnowsKeys(seatKeys) /\ (k \notin keysHeld[kb]) \in BOOLEAN
      BY DEF KbdInv
    <3>2. KnowsKeys(Deliver(seatKeys, k, k \notin keysHeld[kb]))
      BY <3>1, DeliverKnows
    <3> QED
      BY <1>1, <3>1, <3>2, Zenon DEF ImKey
  <2> QED
    BY <1>1, <2>1, Zenon DEF ImKey, KbdInv
<1>2. CASE KeyboardFocusChanges
  <2>1. KnowsKeys(seatKeys')
    BY <1>2, FocusOnKnows DEF KeyboardFocusChanges, KbdInv
  <2> QED
    BY <1>2, <2>1, Zenon DEF KeyboardFocusChanges, KbdInv
<1>3. CASE ImGrabChanges
  BY <1>3, Zenon DEF ImGrabChanges, KbdInv
<1>4. CASE OtherInput
  <2>1. mod_binding_key' = [x \in Keyboards |-> NoKey] /\ meddled' = [x \in Keyboards |-> TRUE]
    BY <1>4 DEF OtherInput, BreakModBindings
  <2>2. seatKeys' = seatKeys /\ strayBinding' = strayBinding
    BY <1>4 DEF OtherInput
  <2>3. mod_binding_key' \in [Keyboards -> Keys \cup {NoKey}] /\ meddled' \in [Keyboards -> BOOLEAN]
    BY <2>1
  <2>4. \A x \in Keyboards : mod_binding_key'[x] = NoKey
    BY <2>1
  <2> QED
    BY <2>2, <2>3, <2>4, Zenon DEF KbdInv
<1>5. CASE FingersLifted
  BY <1>5, Zenon DEF FingersLifted, KbdInv
<1>6. ASSUME NEW kb \in Keyboards, NewKeyboard(kb) PROVE KbdInv'
  <2>1. mod_binding_key' = [mod_binding_key EXCEPT ![kb] = NoKey] /\ meddled' = [meddled EXCEPT ![kb] = FALSE]
        /\ seatKeys' = seatKeys /\ strayBinding' = strayBinding
    BY <1>6 DEF NewKeyboard
  <2>2. mod_binding_key' \in [Keyboards -> Keys \cup {NoKey}] /\ meddled' \in [Keyboards -> BOOLEAN]
    BY <2>1 DEF KbdInv
  <2>3. \A x \in Keyboards : mod_binding_key'[x] # NoKey => ~meddled'[x]
    BY <2>1, Zenon DEF KbdInv
  <2> QED
    BY <2>1, <2>2, <2>3, Zenon DEF KbdInv
<1>7. ASSUME NEW kb \in Keyboards, RemoveKeyboard(kb) PROVE KbdInv'
  BY <1>7, Zenon DEF RemoveKeyboard, KbdInv
<1> QED
  BY <1>1, <1>2, <1>3, <1>4, <1>5, <1>6, <1>7, KeyPressedInv, KeyReleasedInv DEF KbdNext

(* The invariant of the keyboards, and what follows from it.               *)
LEMMA KbdInductive == KbdSpec => []KbdInv
<1>1. KbdInit => KbdInv
  <2> SUFFICES ASSUME KbdInit PROVE KbdInv
    OBVIOUS
  <2>1. AllUp \in KeyCounts /\ NoFocus \in FocusNodes /\ NoFocus \notin ClientNodes
    BY KeyboardAssumption DEF AllUp, KeyCounts, FocusNodes
  <2>2. KnowsKeys(seatKeys)
    BY <2>1 DEF KbdInit, KnowsKeys, SeatKeyTypes
  <2>3. mod_binding_key \in [Keyboards -> Keys \cup {NoKey}] /\ meddled \in [Keyboards -> BOOLEAN]
    BY DEF KbdInit
  <2>4. \A kb \in Keyboards : mod_binding_key[kb] = NoKey
    BY DEF KbdInit
  <2> QED
    BY <2>2, <2>3, <2>4, Zenon DEF KbdInit, KbdInv
<1>2. KbdInv /\ [KbdNext]_kbdVars => KbdInv'
  <2>1. ASSUME KbdInv, UNCHANGED kbdVars PROVE KbdInv'
    BY <2>1, Zenon DEF kbdVars, KbdInv
  <2> QED
    BY <2>1, KbdNextInv
<1> QED
  BY <1>1, <1>2, PTL DEF KbdSpec

(* A client takes those keys to be pressed that are, and a modifier         *)
(* binding runs only for a modifier that was pressed alone (seat.cpp,       *)
(* keyboard.cpp).                                                           *)
THEOREM KeysMatch == KbdSpec => [](ClientKeysMatch /\ ModifierAlone)
<1>1. KbdInv => ClientKeysMatch /\ ModifierAlone
  BY DEF KbdInv, KnowsKeys, ClientKeysMatch, ModifierAlone
<1> QED
  BY <1>1, KbdInductive, PTL

-----------------------------------------------------------------------------
(* Text inputs with input-method-v1.                                       *)

V1Types ==
  /\ inputs \in SUBSET Inputs /\ current_enabled \in SUBSET inputs
  /\ current_focus \in [Inputs -> V1Surfaces \cup {NoTarget1}]
  /\ current_im \in BOOLEAN /\ active_grab \in BOOLEAN
  /\ last_focus_surface \in V1Surfaces \cup {NoTarget1}
  /\ im_context \in Inputs \cup {NoText}

V1Inv ==
  /\ V1Types /\ ContextCurrent
  /\ \A ti \in Inputs \ inputs : current_focus[ti] = NoTarget1

(* The invariant holds before the first text input.                         *)
LEMMA InitV1 == V1Init => V1Inv
  BY InputMethodV1Assumption DEF V1Init, V1Inv, V1Types, ContextCurrent, Inputs

(* on_keyboard_focus_changed: the context ends, and every text input is     *)
(* told of the new focus.                                                   *)
LEMMA FocusChangesV1 ==
  ASSUME V1Inv, TextFocusChanges
  PROVE  V1Inv'
<1>1. PICK surface \in V1Surfaces \cup {NoTarget1} :
        /\ last_focus_surface' = surface /\ ResetContext(IF surface = NoTarget1 THEN {} ELSE keysDown, FALSE)
        /\ current_focus' = [ti \in Inputs |-> IF ti \in inputs THEN FocusOfInput(ti, surface) ELSE NoTarget1]
        /\ UNCHANGED <<inputs, current_enabled, current_im, keysDown>>
  BY DEF TextFocusChanges
<1>2. im_context' = NoText /\ active_grab' = FALSE /\ unanswered' = <<>>
  BY <1>1 DEF ResetContext, NoGrab
<1>3. \A ti \in Inputs : FocusOfInput(ti, surface) \in {NoTarget1, surface}
  BY DEF FocusOfInput
<1>4. V1Types'
  BY <1>1, <1>2, <1>3 DEF V1Inv, V1Types
<1>5. ContextCurrent'
  <2>1. \A ti \in inputs' : current_focus'[ti] \in {NoTarget1, last_focus_surface'}
    BY <1>1, <1>3 DEF V1Inv, V1Types
  <2>2. ~active_grab'
    BY <1>2, Zenon
  <2> QED
    BY <1>2, <2>1, <2>2 DEF ContextCurrent
<1>6. \A ti \in Inputs \ inputs' : current_focus'[ti] = NoTarget1
  BY <1>1
<1> QED
  BY <1>4, <1>5, <1>6 DEF V1Inv

(* What a text input that is enabled gets.                                 *)
LEMMA EnabledRight ==
  ASSUME V1Inv, NEW ti \in inputs, NEW there \in BOOLEAN, NEW context, NEW r, r = EnableText(ti, there, context)
  PROVE  \/ r = context
         \/ r = ti /\ there /\ context = NoText /\ last_focus_surface # NoTarget1 /\ current_focus[ti] = last_focus_surface
  BY DEF EnableText

(* A text input is disabled, and its context ends if it has one.           *)
LEMMA DisabledRight ==
  ASSUME V1Inv, NEW ti \in Inputs, DisableText(ti)
  PROVE  /\ im_context' \in {NoText, im_context} /\ im_context' # ti
         /\ active_grab' \in BOOLEAN
         /\ (active_grab \/ unanswered # <<>>)' => im_context' # NoText
  BY InputMethodV1Assumption DEF V1Inv, V1Types, ContextCurrent, DisableText, ResetContext, NoGrab, v1Grab

(* A text input is created.                                                 *)
LEMMA CreateInputV1 ==
  ASSUME V1Inv, NEW ti \in Inputs, CreateInput(ti)
  PROVE  V1Inv'
<1>1. FocusOfInput(ti, last_focus_surface) \in {NoTarget1, last_focus_surface}
  BY DEF FocusOfInput
<1> QED
  BY <1>1, InputMethodV1Assumption DEF V1Inv, V1Types, ContextCurrent, CreateInput, v1Grab

(* A text input is destroyed, and its context ends if it has one.           *)
LEMMA DestroyInputV1 ==
  ASSUME V1Inv, NEW ti \in Inputs, DestroyInput(ti)
  PROVE  V1Inv'
<1>1. /\ im_context' \in {NoText, im_context} /\ im_context' # ti
      /\ active_grab' \in BOOLEAN
      /\ (active_grab \/ unanswered # <<>>)' => im_context' # NoText
  BY DisabledRight DEF DestroyInput
<1>2. V1Types'
  BY <1>1 DEF V1Inv, V1Types, DestroyInput
<1>3. ContextCurrent'
  BY <1>1 DEF V1Inv, V1Types, ContextCurrent, DestroyInput
<1>4. \A x \in Inputs \ inputs' : current_focus'[x] = NoTarget1
  BY DEF V1Inv, V1Types, DestroyInput
<1> QED
  BY <1>2, <1>3, <1>4 DEF V1Inv

(* A text input of version 1 is activated: the context of any other ends.   *)
LEMMA ActivateInputV1 ==
  ASSUME V1Inv, NEW ti \in Inputs, ActivateV1(ti)
  PROVE  V1Inv'
  BY InputMethodV1Assumption DEF V1Inv, V1Types, ContextCurrent, ActivateV1, EnableText, NoGrab, v1Inputs

(* A text input of version 3 is enabled.                                    *)
LEMMA EnableInputV3 ==
  ASSUME V1Inv, NEW ti \in Inputs, EnableV3(ti)
  PROVE  V1Inv'
  BY InputMethodV1Assumption DEF V1Inv, V1Types, ContextCurrent, EnableV3, EnableText, v1Grab

(* A text input is disabled, and its context ends if it has one.            *)
LEMMA DisableInputV1 ==
  ASSUME V1Inv, NEW ti \in Inputs, DisableInput(ti)
  PROVE  V1Inv'
<1>1. /\ im_context' \in {NoText, im_context}
      /\ active_grab' \in BOOLEAN
      /\ (active_grab \/ unanswered # <<>>)' => im_context' # NoText
  BY DisabledRight DEF DisableInput
<1>2. V1Types'
  BY <1>1 DEF V1Inv, V1Types, DisableInput
<1>3. ContextCurrent'
  BY <1>1 DEF V1Inv, V1Types, ContextCurrent, DisableInput
<1> QED
  BY <1>2, <1>3 DEF V1Inv, DisableInput

(* An input method is bound: an enabled text input that is focused gets a   *)
(* context.                                                                 *)
LEMMA BindV1 ==
  ASSUME V1Inv, BindInputMethod
  PROVE  V1Inv'
<1>1. im_context = NoText /\ current_im' = TRUE
      /\ UNCHANGED <<inputs, current_focus, current_enabled, active_grab, unanswered, last_focus_surface>>
  BY DEF V1Inv, V1Types, ContextCurrent, BindInputMethod, v1Inputs, v1Grab
<1>2. im_context' = NoText \/ (im_context' \in current_enabled /\ EnableText(im_context', TRUE, NoText) = im_context')
  BY DEF BindInputMethod
<1>3. im_context' # NoText =>
        /\ im_context' \in inputs /\ last_focus_surface # NoTarget1
        /\ current_focus[im_context'] = last_focus_surface
  <2>1. SUFFICES ASSUME im_context' # NoText
                 PROVE  /\ im_context' \in inputs /\ last_focus_surface # NoTarget1
                        /\ current_focus[im_context'] = last_focus_surface
    OBVIOUS
  <2>2. im_context' \in inputs
    BY <1>2, <2>1 DEF V1Inv, V1Types
  <2> QED
    BY <1>2, <2>1, <2>2 DEF EnableText
<1> QED
  BY <1>1, <1>3 DEF V1Inv, V1Types, ContextCurrent

(* The input method dies, grabs the keyboard and answers; keys are          *)
(* pressed.                                                                 *)
LEMMA OthersV1 ==
  ASSUME V1Inv,
         \/ InputMethodDies \/ GrabKeyboard \/ ImAnswers \/ UNCHANGED v1Vars
         \/ \E k \in V1Keys : KeyOfKeyboard(k)
  PROVE  V1Inv'
<1>1. CASE InputMethodDies
  BY <1>1, InputMethodV1Assumption DEF V1Inv, V1Types, ContextCurrent, InputMethodDies, ResetContext, NoGrab, v1Inputs
<1>2. CASE GrabKeyboard
  BY <1>2 DEF V1Inv, V1Types, ContextCurrent, GrabKeyboard, v1Inputs
<1>3. CASE ImAnswers
  BY <1>3 DEF V1Inv, V1Types, ContextCurrent, ImAnswers, v1Inputs
<1>4. ASSUME NEW k \in V1Keys, KeyOfKeyboard(k) PROVE V1Inv'
  BY <1>4 DEF V1Inv, V1Types, ContextCurrent, KeyOfKeyboard, v1Inputs
<1>5. CASE UNCHANGED v1Vars
  BY <1>5 DEF V1Inv, V1Types, ContextCurrent, v1Vars
<1> QED
  BY <1>1, <1>2, <1>3, <1>4, <1>5

(* Every step keeps the invariant.                                          *)
LEMMA NextV1 == V1Inv /\ [V1Next]_v1Vars => V1Inv'
<1> SUFFICES ASSUME V1Inv, [V1Next]_v1Vars PROVE V1Inv'
  OBVIOUS
<1> QED
  BY FocusChangesV1, BindV1, CreateInputV1, DestroyInputV1, ActivateInputV1, EnableInputV3, DisableInputV1, OthersV1
  DEF V1Next

(* The context is that of a text input that exists and is focused where     *)
(* the keyboard focus is (input-method-v1.cpp).                             *)
THEOREM ContextIsCurrent == V1Spec => []ContextCurrent
<1>1. V1Inv => ContextCurrent
  BY DEF V1Inv
<1> QED
  BY <1>1, InitV1, NextV1, PTL DEF V1Spec

-----------------------------------------------------------------------------
(* Text inputs with input-method-v2.                                       *)

Surfaces == InputSurfaces \cup {NoSurface}
Walked == [focus: [TextInputs -> Surfaces], pending: [TextInputs -> Surfaces], dones: Seq(TextInputs \cup {NoInput})]

(* What is known of a text input: the surface that it is sent events for,  *)
(* and the surface that it waits with.                                     *)
Apart(f, p, surface) == (f = NoSurface \/ p = NoSurface) /\ {f, p} \subseteq {NoSurface, surface}

ImInv ==
  /\ text_inputs \in Seq(TextInputs) /\ focusSurface \in Surfaces /\ input_method \in BOOLEAN
  /\ focused_surface \in [TextInputs -> Surfaces] /\ pending_focused_surface \in [TextInputs -> Surfaces]
  /\ activeFor \in Seq(TextInputs \cup {NoInput})
  /\ \A ti \in TextInputs : Apart(focused_surface[ti], pending_focused_surface[ti], focusSurface)
  /\ \A ti \in TextInputs \ Existing : focused_surface[ti] = NoSurface /\ pending_focused_surface[ti] = NoSurface

(* After set_focus() of the text inputs of a set.                          *)
Settled(s, done, surface) ==
  /\ s \in Walked
  /\ \A ti \in TextInputs \ done : Apart(s.focus[ti], s.pending[ti], focusSurface)
  /\ \A ti \in TextInputs \ Existing : s.focus[ti] = NoSurface /\ s.pending[ti] = NoSurface
  /\ \A ti \in done : Apart(s.focus[ti], s.pending[ti], surface) /\ (input_method => s.pending[ti] = NoSurface)

(* One round of the loop of set_focus(): its text input becomes as the new  *)
(* focus wants it, and those before it stay so.                             *)
LEMMA FocusOneRight ==
  ASSUME ImInv, NEW s, NEW done \in SUBSET TextInputs, NEW ti \in Existing, NEW surface \in Surfaces,
         surface # focusSurface, Settled(s, done, surface), NEW r, r = FocusOne(s, ti, surface)
  PROVE  Settled(r, done \cup {ti}, surface)
<1>1. ti \in TextInputs
  BY DEF ImInv, Existing
<1>2. /\ s \in Walked /\ s.focus[ti] \in Surfaces /\ s.pending[ti] \in Surfaces /\ NoSurface \in Surfaces
      /\ s.focus \in [TextInputs -> Surfaces] /\ s.pending \in [TextInputs -> Surfaces]
      /\ s.dones \in Seq(TextInputs \cup {NoInput})
  BY <1>1 DEF Settled, Walked, Surfaces
<1> DEFINE mine == surface # NoSurface /\ ClientOf[ti] = ClientOf[surface]
           away == s.focus[ti] \notin {NoSurface, surface}
           left == IF away THEN [s EXCEPT !.dones = Disabled(s.dones, s.focus, ti), !.focus[ti] = NoSurface] ELSE s
           rest == IF left.pending[ti] # surface THEN [left EXCEPT !.pending[ti] = NoSurface] ELSE left
<1>3. Disabled(s.dones, s.focus, ti) \in Seq(TextInputs \cup {NoInput})
  BY <1>2 DEF Disabled, DoneFor
<1>4. PICK f0, p0 : f0 = s.focus[ti] /\ p0 = s.pending[ti]
  OBVIOUS
<1>5. PICK q : q = Disabled(s.dones, s.focus, ti)
  OBVIOUS
<1>6. /\ left \in Walked /\ left.pending = s.pending
      /\ left.focus = [s.focus EXCEPT ![ti] = IF away THEN NoSurface ELSE f0]
  <2>1. CASE away
    <3>1. left = [s EXCEPT !.dones = q, !.focus[ti] = NoSurface]
      BY <1>5, <2>1
    <3> HIDE DEF left
    <3> QED
      BY <1>1, <1>2, <1>3, <1>5, <2>1, <3>1 DEF Walked
  <2>2. CASE ~away
    <3>1. left = s
      BY <2>2
    <3> HIDE DEF left
    <3> QED
      BY <1>1, <1>2, <1>4, <2>2, <3>1
  <2> QED
    BY <2>1, <2>2
<1> HIDE DEF left
<1>7. /\ rest \in Walked /\ rest.focus = left.focus
      /\ rest.pending = [s.pending EXCEPT ![ti] = IF p0 # surface THEN NoSurface ELSE surface]
  <2>1. CASE p0 # surface
    <3>1. rest = [left EXCEPT !.pending[ti] = NoSurface]
      BY <1>4, <1>6, <2>1
    <3> HIDE DEF rest
    <3> QED
      BY <1>1, <1>2, <1>6, <2>1, <3>1 DEF Walked
  <2>2. CASE p0 = surface
    <3>1. rest = left
      BY <1>4, <1>6, <2>2
    <3> HIDE DEF rest
    <3> QED
      BY <1>1, <1>2, <1>4, <1>6, <2>2, <3>1
  <2> QED
    BY <2>1, <2>2
<1>8. \/ r = s /\ p0 = NoSurface /\ f0 # NoSurface /\ ~away
      \/ ~(p0 = NoSurface /\ f0 # NoSurface /\ ~away) /\ mine /\ input_method /\ r = [rest EXCEPT !.focus[ti] = surface]
      \/ ~(p0 = NoSurface /\ f0 # NoSurface /\ ~away) /\ mine /\ ~input_method /\ r = [rest EXCEPT !.pending[ti] = surface]
      \/ ~(p0 = NoSurface /\ f0 # NoSurface /\ ~away) /\ ~mine /\ r = rest
  <2>1. input_method \in BOOLEAN
    BY DEF ImInv
  <2>2. r = IF s.pending[ti] = NoSurface /\ s.focus[ti] # NoSurface /\ ~away THEN s
            ELSE CASE mine /\ input_method -> [rest EXCEPT !.focus[ti] = surface]
                   [] mine /\ ~input_method -> [rest EXCEPT !.pending[ti] = surface]
                   [] OTHER -> rest
    BY DEF FocusOne, left
  <2> HIDE DEF rest, mine, away
  <2>3. CASE p0 = NoSurface /\ f0 # NoSurface /\ ~away
    BY <1>4, <2>1, <2>2, <2>3
  <2>4. CASE ~(p0 = NoSurface /\ f0 # NoSurface /\ ~away) /\ mine
    BY <1>4, <2>1, <2>2, <2>4
  <2>5. CASE ~(p0 = NoSurface /\ f0 # NoSurface /\ ~away) /\ ~mine
    BY <1>4, <2>1, <2>2, <2>5
  <2> QED
    BY <2>3, <2>4, <2>5
<1> HIDE DEF rest
<1>9. PICK f1, p1 : /\ r \in Walked
                    /\ r.focus = [s.focus EXCEPT ![ti] = f1] /\ r.pending = [s.pending EXCEPT ![ti] = p1]
                    /\ Apart(f1, p1, surface) /\ (input_method => p1 = NoSurface)
  <2>1. /\ ti \in done => Apart(f0, p0, surface) /\ (input_method => p0 = NoSurface)
        /\ ti \notin done => Apart(f0, p0, focusSurface)
    BY <1>1, <1>4 DEF Settled
  <2>2. CASE r = s /\ p0 = NoSurface /\ f0 # NoSurface /\ ~away
    <3>1. Apart(f0, p0, surface)
      BY <1>4, <2>2 DEF Apart
    <3>2. r.focus = [s.focus EXCEPT ![ti] = f0] /\ r.pending = [s.pending EXCEPT ![ti] = p0]
      BY <1>1, <1>2, <1>4, <2>2
    <3> QED
      BY <1>2, <2>2, <3>1, <3>2
  <2>3. CASE ~(p0 = NoSurface /\ f0 # NoSurface /\ ~away) /\ mine /\ input_method /\ r = [rest EXCEPT !.focus[ti] = surface]
    <3>1. p0 # surface
      BY <2>1, <2>3 DEF Apart
    <3>2. /\ r \in Walked /\ r.focus = [s.focus EXCEPT ![ti] = surface]
          /\ r.pending = [s.pending EXCEPT ![ti] = NoSurface]
      <4>1. PICK kf : kf = rest.focus
        OBVIOUS
      <4>2. kf \in [TextInputs -> Surfaces] /\ \A x \in TextInputs \ {ti} : kf[x] = s.focus[x]
        <5>1. kf = left.focus /\ left.focus \in [TextInputs -> Surfaces]
          BY <1>6, <1>7, <4>1 DEF Walked
        <5>2. kf = [s.focus EXCEPT ![ti] = IF away THEN NoSurface ELSE f0]
          BY <1>6, <5>1
        <5> HIDE DEF away
        <5> QED
          BY <1>1, <1>2, <5>1, <5>2
      <4>3. r.focus = [kf EXCEPT ![ti] = surface] /\ r.pending = rest.pending /\ r \in Walked
        <5>1. r = [rest EXCEPT !.focus[ti] = surface] /\ rest \in Walked
          BY <1>7, <2>3
        <5> QED
          BY <1>1, <4>1, <5>1 DEF Walked
      <4>4. r.focus = [s.focus EXCEPT ![ti] = surface]
        BY <1>1, <1>2, <4>2, <4>3
      <4> QED
        BY <1>7, <3>1, <4>3, <4>4
    <3>3. Apart(surface, NoSurface, surface)
      BY DEF Apart
    <3> QED
      BY <3>2, <3>3
  <2>4. CASE ~(p0 = NoSurface /\ f0 # NoSurface /\ ~away) /\ mine /\ ~input_method /\ r = [rest EXCEPT !.pending[ti] = surface]
    <3>1. (IF away THEN NoSurface ELSE f0) = NoSurface
      BY <1>4, <2>1, <2>4 DEF Apart
    <3>2. /\ r \in Walked /\ r.focus = [s.focus EXCEPT ![ti] = NoSurface]
          /\ r.pending = [s.pending EXCEPT ![ti] = surface]
      <4>1. PICK kp : kp = rest.pending
        OBVIOUS
      <4>2. kp \in [TextInputs -> Surfaces] /\ \A x \in TextInputs \ {ti} : kp[x] = s.pending[x]
        BY <1>1, <1>2, <1>7, <4>1 DEF Walked
      <4>3. r.pending = [kp EXCEPT ![ti] = surface] /\ r.focus = rest.focus /\ r \in Walked
        BY <1>1, <1>7, <2>4, <4>1 DEF Walked
      <4>4. r.pending = [s.pending EXCEPT ![ti] = surface]
        BY <1>1, <1>2, <4>2, <4>3
      <4>5. r.focus = [s.focus EXCEPT ![ti] = NoSurface]
        BY <1>6, <1>7, <3>1, <4>3
      <4> QED
        BY <4>3, <4>4, <4>5
    <3>3. Apart(NoSurface, surface, surface)
      BY DEF Apart
    <3> QED
      BY <2>4, <3>2, <3>3
  <2>5. CASE ~(p0 = NoSurface /\ f0 # NoSurface /\ ~away) /\ ~mine /\ r = rest
    <3> DEFINE f == IF away THEN NoSurface ELSE f0
               p == IF p0 # surface THEN NoSurface ELSE surface
    <3>1. r \in Walked /\ r.focus = [s.focus EXCEPT ![ti] = f] /\ r.pending = [s.pending EXCEPT ![ti] = p]
      BY <1>6, <1>7, <2>5
    <3>2. Apart(f, p, surface) /\ (input_method => p = NoSurface)
      BY <1>4, <2>1, <2>5 DEF Apart
    <3> QED
      BY <3>1, <3>2
  <2> QED
    BY <1>8, <2>2, <2>3, <2>4, <2>5
<1>10. r.focus[ti] = f1 /\ r.pending[ti] = p1 /\ \A x \in TextInputs \ {ti} : r.focus[x] = s.focus[x] /\ r.pending[x] = s.pending[x]
  BY <1>1, <1>2, <1>9
<1> QED
  BY <1>9, <1>10 DEF Settled

(* The walk of set_focus() over the text inputs.                           *)
WalkOf(g, n, surface) ==
  g = [i \in 0..n |-> IF i = 0
                      THEN [focus |-> focused_surface, pending |-> pending_focused_surface, dones |-> activeFor]
                      ELSE FocusOne(g[i - 1], text_inputs[i], surface)]

(* The loop over the first n text inputs is a function on 0..n, by          *)
(* induction on n.                                                          *)
LEMMA WalkExists ==
  ASSUME NEW n \in Nat, NEW surface
  PROVE  \E g : WalkOf(g, n, surface)
<1> DEFINE S == {m \in Nat : \E g : WalkOf(g, m, surface)}
           Begins == [focus |-> focused_surface, pending |-> pending_focused_surface, dones |-> activeFor]
<1>1. 0 \in S
  <2>1. PICK g : g = [i \in 0..0 |-> Begins]
    OBVIOUS
  <2>2. 0..0 = {0}
    OBVIOUS
  <2>3. WalkOf(g, 0, surface)
    BY <2>1, <2>2 DEF WalkOf
  <2> QED
    BY <2>3
<1>2. ASSUME NEW m \in S PROVE m + 1 \in S
  <2>1. PICK g : WalkOf(g, m, surface)
    BY <1>2
  <2>2. m \in Nat /\ m + 1 \in Nat
    BY <1>2
  <2>3. PICK h : h = [i \in 0..(m + 1) |-> IF i \in 0..m THEN g[i] ELSE FocusOne(g[m], text_inputs[m + 1], surface)]
    OBVIOUS
  <2>4. PICK k : k = [i \in 0..(m + 1) |-> IF i = 0 THEN Begins ELSE FocusOne(h[i - 1], text_inputs[i], surface)]
    OBVIOUS
  <2>5. ASSUME NEW i \in 0..(m + 1) PROVE h[i] = k[i]
    <3>1. CASE i = 0
      <4>1. 0 \in 0..m
        BY <2>2
      <4>2. g[0] = Begins
        BY <2>1, <4>1 DEF WalkOf
      <4> QED
        BY <2>3, <2>4, <3>1, <4>1, <4>2
    <3>2. CASE i # 0 /\ i \in 0..m
      <4>1. i - 1 \in 0..m /\ i - 1 \in 0..(m + 1)
        BY <2>2, <3>2
      <4>2. g[i] = FocusOne(g[i - 1], text_inputs[i], surface)
        BY <2>1, <3>2 DEF WalkOf
      <4>3. h[i] = g[i] /\ h[i - 1] = g[i - 1]
        BY <2>3, <2>5, <3>2, <4>1
      <4>4. k[i] = FocusOne(h[i - 1], text_inputs[i], surface)
        BY <2>4, <2>5, <3>2
      <4> QED
        BY <4>2, <4>3, <4>4
    <3>3. CASE i = m + 1
      <4>1. i - 1 = m /\ m \in 0..m /\ m \in 0..(m + 1) /\ i \notin 0..m /\ i # 0
        BY <2>2, <3>3
      <4>2. h[i] = FocusOne(g[m], text_inputs[m + 1], surface) /\ h[m] = g[m]
        BY <2>3, <2>5, <4>1
      <4>3. k[i] = FocusOne(h[m], text_inputs[i], surface)
        BY <2>4, <2>5, <4>1
      <4> QED
        BY <3>3, <4>2, <4>3
    <3> QED
      BY <2>2, <2>5, <3>1, <3>2, <3>3
  <2>6. h = k
    BY <2>3, <2>4, <2>5
  <2>7. WalkOf(h, m + 1, surface)
    BY <2>4, <2>6 DEF WalkOf
  <2> QED
    BY <2>2, <2>7
<1>3. S = Nat
  <2> HIDE DEF S
  <2>1. S \in SUBSET Nat
    BY DEF S
  <2> QED
    BY <1>1, <1>2, <2>1, SetInduction
<1> QED
  BY <1>3

(* The recursive function of the model is the loop.                         *)
LEMMA SetTextFocusWalk ==
  ASSUME ImInv, NEW surface
  PROVE  \E g : WalkOf(g, Len(text_inputs), surface) /\ SetTextFocus(surface) = g[Len(text_inputs)]
<1> DEFINE g == CHOOSE g : WalkOf(g, Len(text_inputs), surface)
<1>1. Len(text_inputs) \in Nat
  BY DEF ImInv
<1>2. WalkOf(g, Len(text_inputs), surface)
  BY <1>1, WalkExists
<1>3. SetTextFocus(surface) = g[Len(text_inputs)]
  BY Zenon DEF SetTextFocus, WalkOf
<1> QED
  BY <1>2, <1>3

(* After the loop every text input is as the new focus wants it.            *)
LEMMA SetTextFocusRight ==
  ASSUME ImInv, NEW surface \in Surfaces, surface # focusSurface
  PROVE  Settled(SetTextFocus(surface), Existing, surface)
<1>1. PICK g : WalkOf(g, Len(text_inputs), surface) /\ SetTextFocus(surface) = g[Len(text_inputs)]
  BY SetTextFocusWalk
<1> DEFINE n == Len(text_inputs)
           Done(m) == {text_inputs[i] : i \in 1..m}
           S == {m \in Nat : m \in 0..n => Settled(g[m], Done(m), surface)}
<1>2. text_inputs \in Seq(TextInputs) /\ n \in Nat /\ DOMAIN text_inputs = 1..n
  BY DEF ImInv
<1>3. 0 \in S
  <2>1. g[0] = [focus |-> focused_surface, pending |-> pending_focused_surface, dones |-> activeFor]
    BY <1>1, <1>2 DEF WalkOf
  <2>2. g[0] \in Walked /\ g[0].focus = focused_surface /\ g[0].pending = pending_focused_surface
    BY <2>1 DEF ImInv, Walked
  <2>3. Done(0) = {}
    OBVIOUS
  <2>4. Settled(g[0], {}, surface)
    BY <2>2 DEF Settled, ImInv
  <2> QED
    BY <2>3, <2>4
<1>4. ASSUME NEW m \in S PROVE m + 1 \in S
  <2>1. m \in Nat /\ m + 1 \in Nat
    BY <1>4
  <2>2. SUFFICES ASSUME m + 1 \in 0..n PROVE Settled(g[m + 1], Done(m + 1), surface)
    BY <2>1
  <2>3. m \in 0..n /\ m + 1 \in 1..n /\ m + 1 # 0 /\ (m + 1) - 1 = m
    BY <1>2, <2>1, <2>2
  <2>4. Settled(g[m], Done(m), surface)
    BY <1>4, <2>3
  <2>5. PICK r, ti : r = g[m + 1] /\ ti = text_inputs[m + 1]
    OBVIOUS
  <2>6. r = FocusOne(g[m], ti, surface)
    BY <1>1, <2>2, <2>3, <2>5 DEF WalkOf
  <2>7. ti \in Existing /\ Done(m) \in SUBSET TextInputs
    BY <1>2, <2>3, <2>5 DEF Existing
  <2>8. Settled(r, Done(m) \cup {ti}, surface)
    <3>1. PICK s, D : s = g[m] /\ D = Done(m)
      OBVIOUS
    <3> QED
      BY <2>4, <2>6, <2>7, <3>1, FocusOneRight
  <2>9. Done(m + 1) = Done(m) \cup {ti}
    <3>1. 1..(m + 1) = (1..m) \cup {m + 1}
      BY <2>1
    <3> QED
      BY <2>5, <3>1
  <2> QED
    BY <2>5, <2>8, <2>9
<1>5. S = Nat
  <2> HIDE DEF S
  <2>1. S \in SUBSET Nat
    BY DEF S
  <2> QED
    BY <1>3, <1>4, <2>1, SetInduction
<1>6. Settled(g[n], Done(n), surface)
  <2>1. n \in S /\ n \in 0..n
    <3> HIDE DEF S
    <3> QED
      BY <1>2, <1>5
  <2> QED
    BY <2>1
<1>7. Done(n) = Existing
  BY <1>2 DEF Existing
<1> QED
  BY <1>1, <1>6, <1>7

(* The keyboard focus changes.                                              *)
LEMMA InputFocusChangesInv ==
  ASSUME ImInv, InputFocusChanges
  PROVE  ImInv'
<1>1. PICK surface \in Surfaces \ {focusSurface} :
        /\ focusSurface' = surface /\ focused_surface' = SetTextFocus(surface).focus
        /\ pending_focused_surface' = SetTextFocus(surface).pending /\ Dones(SetTextFocus(surface).dones)
        /\ UNCHANGED <<text_inputs, inputEnabled, input_method, acknowledged, staleCommit>>
  BY DEF InputFocusChanges, Surfaces
<1>2. PICK s : s = SetTextFocus(surface)
  OBVIOUS
<1>3. Settled(s, Existing, surface)
  BY <1>2, SetTextFocusRight
<1>4. activeFor' = s.dones /\ focused_surface' = s.focus /\ pending_focused_surface' = s.pending /\ Existing' = Existing
  BY <1>1, <1>2 DEF Dones, Existing
<1>5. /\ s.focus \in [TextInputs -> Surfaces] /\ s.pending \in [TextInputs -> Surfaces]
      /\ s.dones \in Seq(TextInputs \cup {NoInput})
  BY <1>3 DEF Settled, Walked
<1>6. ASSUME NEW ti \in TextInputs PROVE Apart(s.focus[ti], s.pending[ti], surface)
  BY <1>3, <1>6 DEF Settled, Apart
<1> QED
  BY <1>1, <1>3, <1>4, <1>5, <1>6 DEF ImInv, Settled

-----------------------------------------------------------------------------
(* Done events.                                                            *)
LEMMA DonesKeep ==
  ASSUME ImInv, NEW focusOf, NEW ti, NEW x \in TextInputs \cup {NoInput}
  PROVE  /\ DoneFor(activeFor, x) \in Seq(TextInputs \cup {NoInput})
         /\ Disabled(activeFor, focusOf, ti) \in Seq(TextInputs \cup {NoInput})
         /\ <<>> \in Seq(TextInputs \cup {NoInput})
  BY DEF ImInv, DoneFor, Disabled

(* A text input is created: it gets the focus if its client has it.         *)
LEMMA TextInputNewInv ==
  ASSUME ImInv, NEW ti \in TextInputs, TextInputNew(ti)
  PROVE  ImInv'
<1>1. PICK f : f = IF focusSurface # NoSurface /\ ClientOf[focusSurface] = ClientOf[ti] THEN focusSurface ELSE NoSurface
  OBVIOUS
<1>2. /\ ti \notin Existing /\ text_inputs' = Append(text_inputs, ti)
      /\ focused_surface' = [focused_surface EXCEPT ![ti] = f]
      /\ UNCHANGED <<pending_focused_surface, input_method, focusSurface, activeFor>>
  BY <1>1 DEF TextInputNew
<1>3. f \in {NoSurface, focusSurface} /\ f \in Surfaces
  BY <1>1 DEF ImInv, Surfaces
<1>4. text_inputs' \in Seq(TextInputs) /\ Existing \cup {ti} \subseteq Existing'
  <2>1. PICK new : new = Append(text_inputs, ti)
    OBVIOUS
  <2>2. /\ new \in Seq(TextInputs) /\ Len(new) = Len(text_inputs) + 1 /\ new[Len(new)] = ti
        /\ \A i \in 1..Len(text_inputs) : new[i] = text_inputs[i] /\ i \in 1..Len(new)
        /\ DOMAIN new = 1..Len(new) /\ DOMAIN text_inputs = 1..Len(text_inputs) /\ Len(new) \in 1..Len(new)
    BY <2>1 DEF ImInv
  <2> QED
    BY <1>2, <2>1, <2>2 DEF Existing
<1>5. pending_focused_surface[ti] = NoSurface
  BY <1>2 DEF ImInv
<1>6. \A x \in TextInputs : Apart(focused_surface[x], pending_focused_surface[x], focusSurface)'
  BY <1>2, <1>3, <1>5 DEF ImInv, Apart
<1> QED
  BY <1>2, <1>3, <1>4, <1>6 DEF ImInv

(* A text input is destroyed and taken out of the list.                     *)
LEMMA TextInputDestroyInv ==
  ASSUME ImInv, NEW ti \in TextInputs, TextInputDestroy(ti)
  PROVE  ImInv'
<1>1. PICK i \in DOMAIN text_inputs :
        /\ text_inputs[i] = ti
        /\ text_inputs' = SubSeq(text_inputs, 1, i - 1) \o SubSeq(text_inputs, i + 1, Len(text_inputs))
  BY DEF TextInputDestroy
<1>2. /\ focused_surface' = [focused_surface EXCEPT ![ti] = NoSurface]
      /\ pending_focused_surface' = [pending_focused_surface EXCEPT ![ti] = NoSurface]
      /\ UNCHANGED <<input_method, focusSurface>>
  BY DEF TextInputDestroy, Pending
<1>3. activeFor' \in Seq(TextInputs \cup {NoInput})
  BY DonesKeep DEF TextInputDestroy, Dones, ImInv
<1>4. /\ text_inputs \in Seq(TextInputs) /\ Len(text_inputs) \in Nat /\ DOMAIN text_inputs = 1..Len(text_inputs)
      /\ i \in 1..Len(text_inputs)
  BY DEF ImInv
<1>5. text_inputs' \in Seq(TextInputs) /\ \A x \in Existing \ {ti} : x \in Existing'
  <2>1. PICK a, b, n : a = SubSeq(text_inputs, 1, i - 1) /\ b = SubSeq(text_inputs, i + 1, Len(text_inputs)) /\ n = Len(text_inputs)
    OBVIOUS
  <2>2. a \in Seq(TextInputs) /\ Len(a) = i - 1 /\ \A j \in 1..(i - 1) : a[j] = text_inputs[j]
    BY <1>4, <2>1
  <2>3. b \in Seq(TextInputs) /\ Len(b) = n - i /\ \A j \in 1..(n - i) : b[j] = text_inputs[i + j]
    BY <1>4, <2>1
  <2>4. PICK new : new = a \o b
    OBVIOUS
  <2>5. /\ new \in Seq(TextInputs) /\ Len(new) = n - 1 /\ DOMAIN new = 1..(n - 1)
        /\ \A j \in 1..(i - 1) : new[j] = a[j]
        /\ \A j \in 1..(n - i) : new[(i - 1) + j] = b[j]
    <3>1. n \in Nat /\ i \in 1..n
      BY <1>4, <2>1
    <3>2. new \in Seq(TextInputs) /\ Len(new) = (i - 1) + (n - i) /\ DOMAIN new = 1..Len(new)
      <4>1. new \in Seq(TextInputs) /\ Len(new) = Len(a) + Len(b)
        BY <2>2, <2>3, <2>4, ConcatProperties
      <4> QED
        BY <2>2, <2>3, <4>1
    <3>3. (i - 1) + (n - i) = n - 1
      BY <3>1
    <3>4. \A j \in 1..(i - 1) : new[j] = a[j]
      BY <2>2, <2>3, <2>4, <3>1
    <3>5. \A j \in 1..(n - i) : new[(i - 1) + j] = b[j]
      BY <2>2, <2>3, <2>4, <3>1
    <3> QED
      BY <3>2, <3>3, <3>4, <3>5
  <2>6. ASSUME NEW x \in Existing \ {ti} PROVE \E j \in 1..(n - 1) : new[j] = x
    <3>1. PICK k \in 1..n : text_inputs[k] = x
      BY <1>4, <2>1, <2>6 DEF Existing
    <3>2. k # i
      BY <1>1, <2>6, <3>1
    <3>3. CASE k < i
      <4>1. k \in 1..(i - 1) /\ k \in 1..(n - 1)
        BY <1>4, <2>1, <3>3
      <4>2. new[k] = x
        BY <2>2, <2>5, <3>1, <4>1
      <4> QED
        BY <4>1, <4>2
    <3>4. CASE k > i
      <4>1. k - i \in 1..(n - i) /\ (i - 1) + (k - i) = k - 1 /\ i + (k - i) = k /\ k - 1 \in 1..(n - 1)
        <5>1. n \in Nat /\ i \in 1..n /\ k \in 1..n
          BY <1>4, <2>1, <3>1
        <5> QED
          BY <3>4, <5>1
      <4>2. new[k - 1] = b[k - i]
        <5>1. new[(i - 1) + (k - i)] = b[k - i]
          BY <2>5, <4>1
        <5> QED
          BY <4>1, <5>1
      <4>3. b[k - i] = text_inputs[k]
        BY <2>3, <4>1
      <4> QED
        BY <3>1, <4>1, <4>2, <4>3
    <3> QED
      BY <1>4, <2>1, <3>2, <3>3, <3>4
  <2>7. text_inputs' = new
    BY <1>1, <2>1, <2>4
  <2> QED
    BY <2>5, <2>6, <2>7 DEF Existing
<1>6. \A x \in TextInputs : Apart(focused_surface[x], pending_focused_surface[x], focusSurface)'
  BY <1>2 DEF ImInv, Apart
<1>7. \A x \in TextInputs \ Existing' : focused_surface'[x] = NoSurface /\ pending_focused_surface'[x] = NoSurface
  BY <1>2, <1>5 DEF ImInv
<1>8. /\ focused_surface' \in [TextInputs -> Surfaces] /\ pending_focused_surface' \in [TextInputs -> Surfaces]
  BY <1>2 DEF ImInv, Surfaces
<1> QED
  BY <1>2, <1>3, <1>5, <1>6, <1>7, <1>8 DEF ImInv

(* An input method comes: the first text input that waits is entered.       *)
LEMMA InputMethodNewInv ==
  ASSUME ImInv, InputMethodNew
  PROVE  ImInv'
<1>1. PICK ti : ti = FocusableInput
  OBVIOUS
<1>2. /\ input_method' = TRUE /\ activeFor' = <<>> /\ UNCHANGED <<text_inputs, focusSurface>>
      /\ \/ UNCHANGED <<focused_surface, pending_focused_surface>>
         \/ /\ focused_surface' = [focused_surface EXCEPT ![ti] = pending_focused_surface[ti]]
            /\ pending_focused_surface' = [pending_focused_surface EXCEPT ![ti] = NoSurface]
  BY <1>1 DEF InputMethodNew, Pending, Dones
<1>3. activeFor' \in Seq(TextInputs \cup {NoInput}) /\ Existing' = Existing
  BY <1>2 DEF Existing
<1>4. \A x \in TextInputs : Apart(focused_surface[x], pending_focused_surface[x], focusSurface)'
  BY <1>2 DEF ImInv, Apart
<1>5. \A x \in TextInputs \ Existing' : focused_surface'[x] = NoSurface /\ pending_focused_surface'[x] = NoSurface
  BY <1>2, <1>3 DEF ImInv
<1>6. /\ focused_surface' \in [TextInputs -> Surfaces] /\ pending_focused_surface' \in [TextInputs -> Surfaces]
  BY <1>2 DEF ImInv, Surfaces
<1> QED
  BY <1>2, <1>3, <1>4, <1>5, <1>6 DEF ImInv

(* The input method goes: the text input that is focused waits again.       *)
LEMMA InputMethodDestroyInv ==
  ASSUME ImInv, InputMethodDestroy
  PROVE  ImInv'
<1>1. PICK ti : ti = FocusedInput(focused_surface)
  OBVIOUS
<1>2. /\ input_method' = FALSE /\ activeFor' = <<>> /\ UNCHANGED <<text_inputs, focusSurface>>
      /\ \/ UNCHANGED <<focused_surface, pending_focused_surface>>
         \/ /\ pending_focused_surface' = [pending_focused_surface EXCEPT ![ti] = focused_surface[ti]]
            /\ focused_surface' = [focused_surface EXCEPT ![ti] = NoSurface]
  BY <1>1 DEF InputMethodDestroy, Pending
<1>3. activeFor' \in Seq(TextInputs \cup {NoInput}) /\ Existing' = Existing
  BY <1>2 DEF Existing
<1>4. \A x \in TextInputs : Apart(focused_surface[x], pending_focused_surface[x], focusSurface)'
  BY <1>2 DEF ImInv, Apart
<1>5. \A x \in TextInputs \ Existing' : focused_surface'[x] = NoSurface /\ pending_focused_surface'[x] = NoSurface
  BY <1>2, <1>3 DEF ImInv
<1>6. /\ focused_surface' \in [TextInputs -> Surfaces] /\ pending_focused_surface' \in [TextInputs -> Surfaces]
  BY <1>2 DEF ImInv, Surfaces
<1> QED
  BY <1>2, <1>3, <1>4, <1>5, <1>6 DEF ImInv

(* Whatever only sends done events, or answers them.                       *)
LEMMA DoneEventsInv ==
  ASSUME ImInv,
         \/ InputMethodCommit \/ UNCHANGED imVars
         \/ \E ti \in TextInputs : TextInputEnable(ti) \/ TextInputCommit(ti) \/ TextInputDisable(ti)
  PROVE  ImInv'
<1>1. /\ UNCHANGED <<text_inputs, focused_surface, pending_focused_surface, input_method, focusSurface>>
      /\ activeFor' \in Seq(TextInputs \cup {NoInput})
  <2>1. CASE InputMethodCommit
    BY <2>1 DEF InputMethodCommit, ImInv
  <2>2. CASE UNCHANGED imVars
    BY <2>2 DEF imVars, ImInv
  <2>3. ASSUME NEW ti \in TextInputs, TextInputEnable(ti)
        PROVE  /\ UNCHANGED <<text_inputs, focused_surface, pending_focused_surface, input_method, focusSurface>>
               /\ activeFor' \in Seq(TextInputs \cup {NoInput})
    BY <2>3, DonesKeep DEF TextInputEnable, Dones, ImInv
  <2>4. ASSUME NEW ti \in TextInputs, TextInputCommit(ti)
        PROVE  /\ UNCHANGED <<text_inputs, focused_surface, pending_focused_surface, input_method, focusSurface>>
               /\ activeFor' \in Seq(TextInputs \cup {NoInput})
    <3>1. PICK x : x = IF activeFor = <<>> THEN NoInput ELSE activeFor[Len(activeFor)]
      OBVIOUS
    <3>2. x \in TextInputs \cup {NoInput}
      BY <3>1 DEF ImInv
    <3> QED
      BY <2>4, <3>1, <3>2, DonesKeep DEF TextInputCommit, Dones
  <2>5. ASSUME NEW ti \in TextInputs, TextInputDisable(ti)
        PROVE  /\ UNCHANGED <<text_inputs, focused_surface, pending_focused_surface, input_method, focusSurface>>
               /\ activeFor' \in Seq(TextInputs \cup {NoInput})
    BY <2>5, DonesKeep DEF TextInputDisable, Dones, ImInv
  <2> QED
    BY <2>1, <2>2, <2>3, <2>4, <2>5
<1>2. Existing' = Existing
  BY <1>1 DEF Existing
<1>3. \A x \in TextInputs : Apart(focused_surface[x], pending_focused_surface[x], focusSurface)'
  BY <1>1 DEF ImInv, Apart
<1>4. input_method' \in BOOLEAN
  BY <1>1, Zenon DEF ImInv
<1>5. \A x \in TextInputs \ Existing' : focused_surface'[x] = NoSurface /\ pending_focused_surface'[x] = NoSurface
  BY <1>1, <1>2 DEF ImInv
<1>6. /\ text_inputs' \in Seq(TextInputs) /\ focusSurface' \in Surfaces
      /\ focused_surface' \in [TextInputs -> Surfaces] /\ pending_focused_surface' \in [TextInputs -> Surfaces]
      /\ activeFor' \in Seq(TextInputs \cup {NoInput})
  BY <1>1 DEF ImInv
<1> QED
  BY <1>3, <1>4, <1>5, <1>6, Zenon DEF ImInv

-----------------------------------------------------------------------------

(* The invariant holds before the first text input.                         *)
LEMMA InitIm == ImInit => ImInv
<1> SUFFICES ASSUME ImInit PROVE ImInv
  OBVIOUS
<1>1. text_inputs \in Seq(TextInputs) /\ activeFor \in Seq(TextInputs \cup {NoInput})
  BY EmptySeq DEF ImInit
<1>2. /\ focused_surface \in [TextInputs -> Surfaces] /\ pending_focused_surface \in [TextInputs -> Surfaces]
      /\ \A ti \in TextInputs : focused_surface[ti] = NoSurface /\ pending_focused_surface[ti] = NoSurface
  BY DEF ImInit, Surfaces
<1>3. input_method \in BOOLEAN /\ focusSurface \in Surfaces
  BY DEF ImInit, Surfaces
<1> QED
  BY <1>1, <1>2, <1>3 DEF ImInv, Apart

(* Every step keeps the invariant.                                          *)
LEMMA NextIm == ImInv /\ [ImNext]_imVars => ImInv'
<1> SUFFICES ASSUME ImInv, [ImNext]_imVars PROVE ImInv'
  OBVIOUS
<1> QED
  BY InputFocusChangesInv, TextInputNewInv, TextInputDestroyInv, InputMethodNewInv, InputMethodDestroyInv, DoneEventsInv
  DEF ImNext

(* A text input that waits for an input method is not focused, and neither  *)
(* surface is stale (input-method-relay.cpp).                               *)
THEOREM WaitingApart == ImSpec => []PendingApart
<1>1. ImInv => PendingApart
  BY DEF ImInv, PendingApart, Apart
<1> QED
  BY <1>1, InitIm, NextIm, PTL DEF ImSpec

-----------------------------------------------------------------------------
(* Bindings: the command plugin and hotspots.                              *)

(* What command_t can be at while "down" is held: nothing, a binding that  *)
(* waits for the release of a key or a button, or one that repeats.        *)
WaitsFor(r, down) ==
  /\ r.timer = "none"
  /\ \/ r.key \in down \cap InputKeys /\ r.button = None /\ r.hears = {"on_key_event_release"}
     \/ r.button \in down \cap InputButtons /\ r.key = None /\ r.hears = {"on_button_event_release"}
Repeats(r, down) ==
  /\ r.timer \in {"delay", "repeat"} /\ r.hears = RepeatListeners
  /\ \/ r.key \in down \cap InputKeys /\ r.button = None
     \/ r.button \in down \cap InputButtons /\ r.key = None

RepeatRecord(r) == r = [key |-> r.key, button |-> r.button, timer |-> r.timer, hears |-> r.hears]

RepeatRight(r, down) == RepeatRecord(r) /\ (r = Unarmed \/ WaitsFor(r, down) \/ Repeats(r, down))

RepeatInv ==
  /\ inputDown \in SUBSET (InputKeys \cup InputButtons) /\ endless \in BOOLEAN
  /\ ~endless => RepeatRight(repeat, inputDown)

(* Of what is at rest or waits for a held key, RepeatsWhileHeld follows.   *)
LEMMA InvRepeats == RepeatInv => RepeatsWhileHeld
<1> SUFFICES ASSUME RepeatInv, ~endless
             PROVE  /\ {repeat.key, repeat.button} \ {None} \subseteq inputDown
                    /\ repeat.key = None /\ repeat.button = None => repeat.timer = "none" /\ repeat.hears = {}
  BY DEF RepeatsWhileHeld
<1>1. RepeatRight(repeat, inputDown)
  BY Zenon DEF RepeatInv
<1>2. None \notin InputKeys /\ None \notin InputButtons
  BY BindingsAssumption
<1>3. CASE repeat = Unarmed
  BY <1>3 DEF Unarmed
<1>4. CASE WaitsFor(repeat, inputDown)
  BY <1>2, <1>4 DEF WaitsFor
<1>5. CASE Repeats(repeat, inputDown)
  BY <1>2, <1>5 DEF Repeats
<1> QED
  BY <1>1, <1>3, <1>4, <1>5 DEF RepeatRight

(* reset_repeat() brings a repeating binding to rest.                      *)
LEMMA ResetAtRest ==
  ASSUME NEW r, RepeatRecord(r), r.hears = RepeatListeners
  PROVE  ResetRepeat(r) = Unarmed
<1>1. RepeatListeners \ RepeatListeners = {}
  OBVIOUS
<1>2. PICK k, bt, tm : r = [key |-> k, button |-> bt, timer |-> tm, hears |-> RepeatListeners]
  BY DEF RepeatRecord
<1> DEFINE L == RepeatListeners
           T == [key: {k, None}, button: {bt, None}, timer: {tm, "none"}, hears: {L, L \ L}]
<1>3. r \in T /\ r.hears = L
  BY <1>2
<1>4. /\ ResetRepeat(r).key = None /\ ResetRepeat(r).button = None /\ ResetRepeat(r).timer = "none"
      /\ ResetRepeat(r).hears = L \ L
  <2> HIDE DEF L
  <2> QED
    BY <1>3 DEF ResetRepeat, L
<1>5. ResetRepeat(r) \in T
  BY <1>3, Zenon DEF ResetRepeat
<1> HIDE DEF L
<1>6. ResetRepeat(r) = [key |-> None, button |-> None, timer |-> "none", hears |-> L \ L]
  BY <1>4, <1>5
<1> QED
  BY <1>1, <1>6 DEF Unarmed, L

(* A binding begun by a press waits for the key that was pressed.          *)
LEMMA BegunHeld ==
  ASSUME NEW down \in SUBSET (InputKeys \cup InputButtons), NEW code \in down,
         NEW b \in AllBindings, Descr[b].code = code,
         NEW source, IF code \in InputButtons THEN source = "button" ELSE source \in {"key", "modifier"},
         source = "modifier" => Descr[b].mode # "repeat"
  PROVE  RepeatRight(Begun(Unarmed, b, source), down)
<1>1. Descr[b].mode \in {"normal", "repeat", "release"} /\ InputKeys \cap InputButtons = {}
  BY BindingsAssumption
<1>2. CASE Descr[b].mode = "normal"
  BY <1>2 DEF Begun, RepeatRight, RepeatRecord, Unarmed
<1>3. CASE Descr[b].mode = "release" /\ code \in InputButtons
  <2>1. Begun(Unarmed, b, source) =
          [key |-> None, button |-> code, timer |-> "none", hears |-> {} \cup {"on_button_event_release"}]
    BY <1>3 DEF Begun, Unarmed
  <2>2. {} \cup {"on_button_event_release"} = {"on_button_event_release"}
    OBVIOUS
  <2> QED
    BY <1>3, <2>1, <2>2 DEF RepeatRight, RepeatRecord, WaitsFor
<1>4. CASE Descr[b].mode = "release" /\ code \notin InputButtons
  <2>1. Begun(Unarmed, b, source) =
          [key |-> code, button |-> None, timer |-> "none", hears |-> {} \cup {"on_key_event_release"}]
    BY <1>4 DEF Begun, Unarmed
  <2>2. {} \cup {"on_key_event_release"} = {"on_key_event_release"}
    OBVIOUS
  <2> QED
    BY <1>4, <2>1, <2>2 DEF RepeatRight, RepeatRecord, WaitsFor
<1>5. CASE Descr[b].mode = "repeat" /\ code \in InputButtons
  <2>1. Begun(Unarmed, b, source) =
          [key |-> None, button |-> code, timer |-> "delay", hears |-> {} \cup RepeatListeners]
    BY <1>5 DEF Begun, Unarmed
  <2>2. {} \cup RepeatListeners = RepeatListeners
    OBVIOUS
  <2> QED
    BY <1>5, <2>1, <2>2 DEF RepeatRight, RepeatRecord, Repeats
<1>6. CASE Descr[b].mode = "repeat" /\ code \notin InputButtons
  <2>1. Begun(Unarmed, b, source) =
          [key |-> code, button |-> None, timer |-> "delay", hears |-> {} \cup RepeatListeners]
    BY <1>6 DEF Begun, Unarmed
  <2>2. {} \cup RepeatListeners = RepeatListeners
    OBVIOUS
  <2> QED
    BY <1>6, <2>1, <2>2 DEF RepeatRight, RepeatRecord, Repeats
<1> QED
  BY <1>1, <1>2, <1>3, <1>4, <1>5, <1>6

(* on_binding() begins nothing while something waits.                      *)
LEMMA OnBindingAtRest ==
  ASSUME NEW r, NEW down \in SUBSET (InputKeys \cup InputButtons), RepeatRight(r, down),
         NEW b, NEW source, OnBinding(r, b, source) # r
  PROVE  r = Unarmed /\ OnBinding(r, b, source) = Begun(Unarmed, b, source)
<1>1. r.key = None /\ r.button = None /\ OnBinding(r, b, source) = Begun(r, b, source)
  BY DEF OnBinding
<1>2. None \notin InputKeys /\ None \notin InputButtons
  BY BindingsAssumption
<1>3. r = Unarmed
  BY <1>1, <1>2 DEF RepeatRight, WaitsFor, Repeats
<1> QED
  BY <1>1, <1>3

(* Whatever an event may begin, and that ends, waits for what is held.     *)
BegunRight(r, all, source, down) ==
  \A b \in all : ~Endless(r, b, source) /\ OnBinding(r, b, source) # r
                   => RepeatRight(Begun(Unarmed, b, source), down)

(* The callbacks of an event, in a state that was right until then.        *)
LEMMA HandleRight ==
  ASSUME NEW down \in SUBSET (InputKeys \cup InputButtons), NEW r, endless \in BOOLEAN,
         ~endless => RepeatRight(r, down),
         NEW all \in SUBSET AllBindings, NEW source,
         \/ repeat' = r /\ endless' = endless
         \/ \E b \in all : /\ OnBinding(r, b, source) # r /\ repeat' = OnBinding(r, b, source)
                          /\ endless' = (endless \/ Endless(r, b, source)),
         BegunRight(r, all, source, down)
  PROVE  endless' \in BOOLEAN /\ (~endless' => RepeatRight(repeat', down))
<1>1. CASE repeat' = r /\ endless' = endless
  BY <1>1, Zenon
<1>2. CASE \E b \in all : /\ OnBinding(r, b, source) # r /\ repeat' = OnBinding(r, b, source)
                          /\ endless' = (endless \/ Endless(r, b, source))
  <2>1. PICK b \in all : /\ OnBinding(r, b, source) # r
                         /\ repeat' = OnBinding(r, b, source)
                         /\ endless' = (endless \/ Endless(r, b, source))
    BY <1>2
  <2>2. endless' \in BOOLEAN
    BY <2>1, Zenon
  <2>3. ASSUME ~endless' PROVE ~endless /\ ~Endless(r, b, source)
    BY <2>1, <2>3, Zenon
  <2>4. ASSUME ~endless' PROVE RepeatRight(repeat', down)
    <3>1. ~endless /\ ~Endless(r, b, source)
      BY <2>3, <2>4
    <3>2. RepeatRight(r, down)
      BY <3>1
    <3>3. OnBinding(r, b, source) = Begun(Unarmed, b, source)
      BY <2>1, <3>2, OnBindingAtRest
    <3>4. RepeatRight(Begun(Unarmed, b, source), down)
      BY <2>1, <3>1 DEF BegunRight
    <3> QED
      BY <2>1, <3>3, <3>4
  <2> QED
    BY <2>2, <2>4
<1> QED
  BY <1>1, <1>2

(* The release that is heard ends what waited for it.                      *)
LEMMA ReleaseHeardRight ==
  ASSUME inputDown \in SUBSET (InputKeys \cup InputButtons), RepeatRight(repeat, inputDown),
         NEW code \in InputKeys \cup InputButtons
  PROVE  RepeatRight(ReleaseHeard(code), inputDown \ {code})
<1> DEFINE down == inputDown \ {code}
<1>1. None \notin InputKeys /\ None \notin InputButtons /\ InputKeys \cap InputButtons = {}
  BY BindingsAssumption
<1>2. RepeatRight(Unarmed, down)
  BY DEF RepeatRight, RepeatRecord, Unarmed
<1>3. CASE repeat = Unarmed
  <2>1. ReleaseHeard(code) = Unarmed
    BY <1>1, <1>3 DEF ReleaseHeard, Released, Unarmed
  <2> QED
    BY <1>2, <2>1
<1>4. CASE WaitsFor(repeat, inputDown) /\ code \notin {repeat.key, repeat.button}
  <2>1. ReleaseHeard(code) = repeat
    BY <1>4 DEF ReleaseHeard, Released
  <2> QED
    BY <1>4, <2>1 DEF RepeatRight, WaitsFor
<1>5. CASE Repeats(repeat, inputDown) /\ code \notin {repeat.key, repeat.button}
  <2>1. ReleaseHeard(code) = repeat
    BY <1>5 DEF ReleaseHeard, Released
  <2> QED
    BY <1>5, <2>1 DEF RepeatRight, Repeats
<1>6. CASE WaitsFor(repeat, inputDown) /\ code = repeat.key
  <2>1. code \in InputKeys /\ repeat.button = None /\ repeat.hears = {"on_key_event_release"} /\ repeat.timer = "none"
    BY <1>1, <1>6 DEF WaitsFor
  <2>2. ReleaseHeard(code) = [repeat EXCEPT !.key = None, !.button = None, !.hears = @ \ {"on_key_event_release"}]
    BY <1>6, <2>1 DEF ReleaseHeard, Released
  <2>3. {"on_key_event_release"} \ {"on_key_event_release"} = {}
    OBVIOUS
  <2>4. ReleaseHeard(code) = Unarmed
    BY <2>1, <2>2, <2>3 DEF RepeatRight, RepeatRecord, Unarmed
  <2> QED
    BY <1>2, <2>4
<1>7. CASE WaitsFor(repeat, inputDown) /\ code = repeat.button
  <2>1. code \notin InputKeys /\ repeat.key = None /\ repeat.hears = {"on_button_event_release"} /\ repeat.timer = "none"
    BY <1>1, <1>7 DEF WaitsFor
  <2>2. ReleaseHeard(code) = [repeat EXCEPT !.key = None, !.button = None, !.hears = @ \ {"on_button_event_release"}]
    BY <1>7, <2>1 DEF ReleaseHeard, Released
  <2>3. {"on_button_event_release"} \ {"on_button_event_release"} = {}
    OBVIOUS
  <2>4. ReleaseHeard(code) = Unarmed
    BY <2>1, <2>2, <2>3 DEF RepeatRight, RepeatRecord, Unarmed
  <2> QED
    BY <1>2, <2>4
<1>8. CASE Repeats(repeat, inputDown) /\ code \in {repeat.key, repeat.button}
  <2>1. ReleaseHeard(code) = ResetRepeat(repeat)
    <3>1. IF code \in InputKeys THEN repeat.key = code ELSE repeat.button = code
      BY <1>1, <1>8 DEF Repeats
    <3>2. "on_key_event_release" \notin repeat.hears /\ "on_key_event" \in repeat.hears
          /\ "on_button_event_release" \notin repeat.hears /\ "on_button_event" \in repeat.hears
      BY <1>8 DEF Repeats, RepeatListeners
    <3> QED
      BY <3>1, <3>2 DEF ReleaseHeard, Released
  <2>2. ResetRepeat(repeat) = Unarmed
    BY <1>8, ResetAtRest DEF Repeats, RepeatRight
  <2> QED
    BY <1>2, <2>1, <2>2
<1> QED
  BY <1>3, <1>4, <1>5, <1>6, <1>7, <1>8 DEF RepeatRight

(* A press: a lone modifier begins no repeat that can end by itself.       *)
LEMMA InputPressedRight ==
  ASSUME RepeatInv, bound \in SUBSET AllBindings, NEW code \in InputKeys \cup InputButtons, InputPressed(code)
  PROVE  RepeatInv'
<1> DEFINE source == CASE code \in InputButtons -> "button"
                     [] code \in LoneModifiers /\ inputDown = {} -> "modifier"
                     [] OTHER -> "key"
           all == Matching({"key", "button"}, code)
<1>1. inputDown' \in SUBSET (InputKeys \cup InputButtons) /\ code \in inputDown' /\ inputDown \subseteq inputDown'
  BY DEF InputPressed, RepeatInv
<1>2. Handle(repeat, all, source)
  BY DEF InputPressed
<1>3. all \in SUBSET AllBindings /\ \A b \in all : b \in AllBindings /\ Descr[b].code = code
  BY DEF Matching
<1>4. IF code \in InputButtons THEN source = "button" ELSE source \in {"key", "modifier"}
  BY BindingsAssumption
<1> HIDE DEF source, all
<1>5. ~endless => RepeatRight(repeat, inputDown')
  BY <1>1 DEF RepeatInv, RepeatRight, WaitsFor, Repeats
<1>6. ASSUME NEW b \in all, ~Endless(repeat, b, source), OnBinding(repeat, b, source) # repeat
      PROVE  RepeatRight(Begun(Unarmed, b, source), inputDown')
  <2>1. source = "modifier" => Descr[b].mode # "repeat"
    BY <1>6 DEF Endless
  <2> QED
    BY <1>1, <1>3, <1>4, <2>1, BegunHeld
<1>7. endless \in BOOLEAN /\ inputDown' \in SUBSET (InputKeys \cup InputButtons) /\ all \in SUBSET AllBindings
  BY <1>1, <1>3 DEF RepeatInv
<1>8. BegunRight(repeat, all, source, inputDown')
  BY <1>6, Zenon DEF BegunRight
<1> PICK r : r = repeat
  OBVIOUS
<1> PICK down : down = inputDown'
  OBVIOUS
<1>9. \/ repeat' = r /\ endless' = endless
      \/ \E b \in all : /\ OnBinding(r, b, source) # r /\ repeat' = OnBinding(r, b, source)
                       /\ endless' = (endless \/ Endless(r, b, source))
  BY <1>2, Zenon DEF Handle
<1>10. /\ BegunRight(r, all, source, down) /\ (~endless => RepeatRight(r, down))
       /\ down \in SUBSET (InputKeys \cup InputButtons)
  BY <1>5, <1>7, <1>8, Zenon
<1>11. endless' \in BOOLEAN /\ (~endless' => RepeatRight(repeat', down))
  BY <1>7, <1>9, <1>10, HandleRight
<1> QED
  BY <1>1, <1>11, Zenon DEF RepeatInv

(* A release, and the modifier bindings it runs.                           *)
LEMMA InputReleasedRight ==
  ASSUME RepeatInv, bound \in SUBSET AllBindings, NEW code \in InputKeys \cup InputButtons, NEW alone \in BOOLEAN,
         InputReleased(code, alone)
  PROVE  RepeatInv'
<1> DEFINE all == IF alone THEN Matching({"modifier"}, code) ELSE {}
           r == ReleaseHeard(code)
<1>1. inputDown' = inputDown \ {code} /\ inputDown' \in SUBSET (InputKeys \cup InputButtons)
  BY DEF InputReleased, RepeatInv
<1>2. /\ endless \in BOOLEAN
      /\ \/ repeat' = r /\ endless' = endless
         \/ \E b \in all : /\ OnBinding(r, b, "modifier") # r /\ repeat' = OnBinding(r, b, "modifier")
                          /\ endless' = (endless \/ Endless(r, b, "modifier"))
  BY Zenon DEF InputReleased, RepeatInv, Handle
<1>3. all \in SUBSET AllBindings /\ \A b \in all : Descr[b].source = "modifier"
  BY DEF Matching
<1>4. ~endless => RepeatRight(r, inputDown')
  BY <1>1, ReleaseHeardRight DEF RepeatInv
<1> HIDE DEF all, r
<1>5. BegunRight(r, all, "modifier", inputDown')
  BY <1>3 DEF BegunRight, Endless
<1> PICK down : down = inputDown'
  OBVIOUS
<1>6. /\ BegunRight(r, all, "modifier", down) /\ (~endless => RepeatRight(r, down))
      /\ down \in SUBSET (InputKeys \cup InputButtons)
  BY <1>1, <1>4, <1>5, Zenon
<1>7. endless' \in BOOLEAN /\ (~endless' => RepeatRight(repeat', down))
  BY <1>2, <1>3, <1>6, HandleRight
<1> QED
  BY <1>1, <1>7, Zenon DEF RepeatInv

(* What the timer, a gesture and a hotspot do.                             *)
LEMMA RepeatTimerRight ==
  ASSUME RepeatInv, NEW rateOk \in BOOLEAN, RepeatTimer(rateOk)
  PROVE  RepeatInv'
<1>1. inputDown' = inputDown /\ endless' = endless /\ repeat.timer # "none"
  BY DEF RepeatTimer
<1>2. ASSUME ~endless PROVE RepeatRight(repeat', inputDown)
  <2>1. RepeatRecord(repeat) /\ Repeats(repeat, inputDown)
    BY <1>1, <1>2 DEF RepeatInv, RepeatRight, WaitsFor, Unarmed
  <2>2. CASE rateOk
    <3>1. repeat' = [repeat EXCEPT !.timer = "repeat"]
      BY <2>2 DEF RepeatTimer
    <3>2. repeat' = [key |-> repeat.key, button |-> repeat.button, timer |-> "repeat", hears |-> repeat.hears]
      BY <2>1, <3>1 DEF RepeatRecord
    <3> QED
      BY <2>1, <3>2 DEF RepeatRight, RepeatRecord, Repeats
  <2>3. CASE ~rateOk
    <3>1. repeat' = Unarmed
      BY <2>1, <2>3, ResetAtRest DEF RepeatTimer, Repeats
    <3> QED
      BY <3>1 DEF RepeatRight, RepeatRecord, Unarmed
  <2> QED
    BY <2>2, <2>3
<1> QED
  BY <1>1, <1>2 DEF RepeatInv

(* A gesture runs its binding once.                                         *)
LEMMA GestureRight ==
  ASSUME RepeatInv, NEW b \in AllBindings, Gesture(b)
  PROVE  RepeatInv'
<1> DEFINE all == {b}
<1>1. inputDown' = inputDown /\ all \in SUBSET AllBindings /\ endless \in BOOLEAN
      /\ inputDown \in SUBSET (InputKeys \cup InputButtons) /\ (~endless => RepeatRight(repeat, inputDown))
  BY DEF RepeatInv, Gesture
<1>2. BegunRight(repeat, all, "gesture", inputDown)
  BY DEF BegunRight, Endless
<1> PICK r : r = repeat
  OBVIOUS
<1> PICK down : down = inputDown
  OBVIOUS
<1>3. \/ repeat' = r /\ endless' = endless
      \/ \E x \in all : /\ OnBinding(r, x, "gesture") # r /\ repeat' = OnBinding(r, x, "gesture")
                       /\ endless' = (endless \/ Endless(r, x, "gesture"))
  BY Zenon DEF Gesture, Handle
<1> HIDE DEF all
<1>4. endless' \in BOOLEAN /\ (~endless' => RepeatRight(repeat', down))
  BY <1>1, <1>2, <1>3, HandleRight
<1> QED
  BY <1>1, <1>4, Zenon DEF RepeatInv

(* The timer of a hotspot runs its binding.                                 *)
LEMMA HotspotFiresRight ==
  ASSUME RepeatInv, NEW b \in Spots, HotspotFires(b)
  PROVE  RepeatInv'
<1>1. repeat' = OnBinding(repeat, b, "hotspot") /\ inputDown' = inputDown
  BY DEF HotspotFires
<1>2. endless' = (endless \/ Endless(repeat, b, "hotspot"))
  BY DEF HotspotFires
<1>3. endless' \in BOOLEAN
  BY <1>2, Zenon
<1>4. ASSUME ~endless' PROVE RepeatRight(repeat', inputDown)
  <2>1. ~endless /\ ~Endless(repeat, b, "hotspot")
    BY <1>2, <1>4, Zenon
  <2>2. OnBinding(repeat, b, "hotspot") = repeat
    BY <2>1 DEF Endless
  <2> QED
    BY <1>1, <2>1, <2>2 DEF RepeatInv
<1> QED
  BY <1>1, <1>3, <1>4 DEF RepeatInv

(* A spot: what it is armed for and what it has fired in this visit.       *)
SpotTypes == [exists: BOOLEAN, armed: BOOLEAN, timer: BOOLEAN]

SpotInv ==
  /\ bound \in SUBSET AllBindings /\ repoEnabled \in BOOLEAN /\ recreate \in BOOLEAN
  /\ spots \in [Spots -> SpotTypes] /\ visits \in [Spots -> Nat]
  /\ pointerAt = None => \A b \in Spots : visits[b] = 0 /\ ~spots[b].timer
  /\ \A b \in Spots : /\ visits[b] <= 1
                      /\ visits[b] = 1 => ~spots[b].armed /\ ~spots[b].timer
                      /\ spots[b].timer => spots[b].exists /\ ~spots[b].armed
  /\ ~recreate => \A b \in Spots : spots[b].exists <=> (b \in bound /\ repoEnabled)

(* process_input_motion() of one spot, field by field.                     *)
LEMMA MovedFields ==
  ASSUME NEW s \in SpotTypes, NEW to
  PROVE  /\ Moved(s, to) \in SpotTypes
         /\ Moved(s, to).exists = s.exists
         /\ to = None => ~Moved(s, to).timer
         /\ to # None /\ to # pointerAt => ~Moved(s, to).armed /\ Moved(s, to).timer
         /\ to # None /\ to = pointerAt =>
              \/ Moved(s, to) = s
              \/ s.armed /\ ~s.timer /\ ~Moved(s, to).armed /\ Moved(s, to).timer
<1> DEFINE away == [s EXCEPT !.armed = TRUE, !.timer = FALSE]
           fired(u) == [u EXCEPT !.armed = FALSE, !.timer = TRUE]
<1>1. away \in SpotTypes /\ away.exists = s.exists
  BY Zenon DEF SpotTypes
<1>2. away.armed /\ ~away.timer
  BY Zenon DEF SpotTypes
<1>3. ASSUME NEW u \in SpotTypes PROVE fired(u) \in SpotTypes /\ fired(u).exists = u.exists
  BY Zenon DEF SpotTypes
<1>4. ASSUME NEW u \in SpotTypes PROVE ~fired(u).armed /\ fired(u).timer
  BY Zenon DEF SpotTypes
<1> HIDE DEF away, fired
<1>5. CASE to = None
  <2>1. Moved(s, to) = away
    BY <1>5, Zenon DEF Moved, away
  <2> QED
    BY <1>1, <1>2, <1>5, <2>1, Zenon
<1>6. CASE to # None /\ to # pointerAt
  <2>1. Moved(s, to) = fired(away)
    BY <1>2, <1>6, Zenon DEF Moved, away, fired
  <2> QED
    BY <1>1, <1>3, <1>4, <1>6, <2>1, Zenon
<1>7. CASE to # None /\ to = pointerAt /\ ~s.timer /\ s.armed
  <2>1. Moved(s, to) = fired(s)
    BY <1>7, Zenon DEF Moved, fired
  <2> QED
    BY <1>3, <1>4, <1>7, <2>1, Zenon
<1>8. CASE to # None /\ to = pointerAt /\ ~(~s.timer /\ s.armed)
  <2>1. Moved(s, to) = s
    BY <1>8, Zenon DEF Moved
  <2> QED
    BY <1>8, <2>1, Zenon
<1> QED
  BY <1>5, <1>6, <1>7, <1>8

(* The pointer or a finger moves.                                          *)
LEMMA InputMovesSpots ==
  ASSUME SpotInv, NEW to, InputMoves(to)
  PROVE  SpotInv'
<1>1. /\ pointerAt' = to /\ bound' = bound /\ repoEnabled' = repoEnabled /\ recreate' = recreate
      /\ spots' = [b \in Spots |-> IF spots[b].exists THEN Moved(spots[b], to) ELSE NoSpot]
      /\ visits' = IF to = pointerAt THEN visits ELSE [b \in Spots |-> 0]
  BY DEF InputMoves
<1>2. NoSpot \in SpotTypes
  BY DEF NoSpot, SpotTypes
<1>3. ~NoSpot.exists /\ ~NoSpot.armed /\ ~NoSpot.timer
  BY DEF NoSpot
<1>4. ASSUME NEW b \in Spots
      PROVE  /\ spots'[b] \in SpotTypes /\ visits'[b] \in Nat
             /\ spots'[b].exists <=> spots[b].exists
             /\ to = None => visits'[b] = 0 /\ ~spots'[b].timer
             /\ visits'[b] <= 1
             /\ visits'[b] = 1 => ~spots'[b].armed /\ ~spots'[b].timer
             /\ spots'[b].timer => spots'[b].exists /\ ~spots'[b].armed
  <2>1. spots[b] \in SpotTypes /\ visits[b] \in Nat
    BY <1>4 DEF SpotInv
  <2>2. visits'[b] = IF to = pointerAt THEN visits[b] ELSE 0
    BY <1>1, <1>4 DEF SpotInv
  <2>3. spots'[b] = IF spots[b].exists THEN Moved(spots[b], to) ELSE NoSpot
    BY <1>1, <1>4
  <2>4. /\ pointerAt = None => visits[b] = 0 /\ ~spots[b].timer
        /\ visits[b] <= 1
        /\ visits[b] = 1 => ~spots[b].armed /\ ~spots[b].timer
        /\ spots[b].timer => spots[b].exists /\ ~spots[b].armed
    BY <1>4, Zenon DEF SpotInv
  <2>5. visits'[b] \in Nat /\ visits'[b] <= 1 /\ (to # pointerAt => visits'[b] = 0)
        /\ (to = pointerAt => visits'[b] = visits[b]) /\ (to = None => visits'[b] = 0)
    BY <2>1, <2>2, <2>4
  <2>6. CASE ~spots[b].exists
    BY <1>2, <1>3, <2>3, <2>5, <2>6, Zenon
  <2>7. CASE spots[b].exists
    <3> DEFINE m == Moved(spots[b], to)
    <3>1. /\ m \in SpotTypes /\ m.exists = spots[b].exists
          /\ to = None => ~m.timer
          /\ to # None /\ to # pointerAt => ~m.armed /\ m.timer
          /\ to # None /\ to = pointerAt =>
               m = spots[b] \/ (spots[b].armed /\ ~spots[b].timer /\ ~m.armed /\ m.timer)
      BY <2>1, MovedFields
    <3>2. spots'[b] = m
      BY <2>3, <2>7
    <3> HIDE DEF m
    <3>3. visits'[b] = 1 => to = pointerAt /\ to # None /\ visits[b] = 1
      BY <2>5
    <3>4. visits'[b] = 1 => m = spots[b]
      BY <2>4, <3>1, <3>3, Zenon
    <3>5. visits'[b] = 1 => ~m.armed /\ ~m.timer
      BY <2>4, <3>3, <3>4, Zenon
    <3>6. m.timer => m.exists /\ ~m.armed
      BY <2>4, <2>7, <3>1, Zenon
    <3>7. m.exists
      BY <2>7, <3>1, Zenon
    <3> QED
      BY <2>5, <2>7, <3>1, <3>2, <3>5, <3>6, <3>7, Zenon
  <2> QED
    BY <2>6, <2>7
<1>5. spots' \in [Spots -> SpotTypes] /\ visits' \in [Spots -> Nat]
  <2>1. spots' = [b \in Spots |-> spots'[b]] /\ visits' = [b \in Spots |-> visits'[b]]
    BY <1>1 DEF SpotInv
  <2> QED
    BY <1>4, <2>1
<1>6. ~recreate' => \A b \in Spots : spots'[b].exists <=> (b \in bound' /\ repoEnabled')
  BY <1>1, <1>4, Zenon DEF SpotInv
<1>7. pointerAt' = None => \A b \in Spots : visits'[b] = 0 /\ ~spots'[b].timer
  BY <1>1, <1>4
<1> QED
  BY <1>1, <1>4, <1>5, <1>6, <1>7, Zenon DEF SpotInv

(* The timer of a hotspot, which ran in this visit for the first time.     *)
LEMMA HotspotFiresSpots ==
  ASSUME SpotInv, NEW b \in Spots, HotspotFires(b)
  PROVE  SpotInv'
<1>1. /\ spots[b].timer /\ ~recreate
      /\ spots' = [spots EXCEPT ![b].timer = FALSE]
      /\ visits' = [visits EXCEPT ![b] = @ + 1]
      /\ bound' = bound /\ repoEnabled' = repoEnabled /\ recreate' = recreate /\ pointerAt' = pointerAt
  BY DEF HotspotFires
<1>2. visits[b] \in Nat /\ visits[b] <= 1 /\ visits[b] # 1 /\ spots[b] \in SpotTypes
  <2>1. visits[b] = 1 => ~spots[b].timer
    BY Zenon DEF SpotInv
  <2>2. visits[b] \in Nat /\ visits[b] <= 1 /\ spots[b] \in SpotTypes
    BY DEF SpotInv
  <2> QED
    BY <1>1, <2>1, <2>2
<1>3. visits'[b] = 1
  BY <1>1, <1>2 DEF SpotInv
<1>4. spots'[b] = [spots[b] EXCEPT !.timer = FALSE]
  BY <1>1 DEF SpotInv
<1>5. spots'[b] \in SpotTypes /\ spots'[b].exists = spots[b].exists /\ spots'[b].armed = spots[b].armed
  BY <1>2, <1>4, Zenon DEF SpotTypes
<1>6. ~spots'[b].timer
  BY <1>2, <1>4, Zenon DEF SpotTypes
<1>7. ~spots[b].armed /\ pointerAt # None
  BY <1>1, Zenon DEF SpotInv
<1>8. \A x \in Spots : x # b => spots'[x] = spots[x] /\ visits'[x] = visits[x]
  BY <1>1 DEF SpotInv
<1>9. spots' \in [Spots -> SpotTypes] /\ visits' \in [Spots -> Nat]
  <2>1. visits' \in [Spots -> Nat]
    BY <1>1, <1>2 DEF SpotInv
  <2>2. spots' = [x \in Spots |-> spots'[x]]
    BY <1>1 DEF SpotInv
  <2>3. \A x \in Spots : spots'[x] \in SpotTypes
    BY <1>5, <1>8 DEF SpotInv
  <2> QED
    BY <2>1, <2>2, <2>3
<1>10. 1 <= 1
  OBVIOUS
<1>11. \A x \in Spots : /\ visits'[x] <= 1
                        /\ visits'[x] = 1 => ~spots'[x].armed /\ ~spots'[x].timer
                        /\ spots'[x].timer => spots'[x].exists /\ ~spots'[x].armed
                        /\ spots'[x].exists <=> spots[x].exists
  <2>1. /\ visits'[b] <= 1
        /\ visits'[b] = 1 => ~spots'[b].armed /\ ~spots'[b].timer
        /\ spots'[b].timer => spots'[b].exists /\ ~spots'[b].armed
        /\ spots'[b].exists <=> spots[b].exists
    BY <1>3, <1>5, <1>6, <1>7, <1>10, Zenon
  <2> QED
    BY <1>8, <2>1, Zenon DEF SpotInv
<1> QED
  BY <1>1, <1>7, <1>9, <1>11, Zenon DEF SpotInv

(* Hotspots are made anew.                                                 *)
LEMMA RecreateSpots ==
  ASSUME SpotInv, RecreateHotspots
  PROVE  SpotInv'
<1>1. /\ recreate' = FALSE /\ bound' = bound /\ repoEnabled' = repoEnabled /\ pointerAt' = pointerAt
      /\ spots' = [b \in Spots |-> IF b \in bound /\ repoEnabled THEN NewSpot ELSE NoSpot]
      /\ visits' = [b \in Spots |-> 0]
  BY DEF RecreateHotspots
<1>2. NoSpot \in SpotTypes /\ NewSpot \in SpotTypes
  BY DEF NoSpot, NewSpot, SpotTypes
<1>3. ~NoSpot.exists /\ ~NoSpot.timer /\ NewSpot.exists /\ ~NewSpot.timer
  BY DEF NoSpot, NewSpot
<1>4. spots' \in [Spots -> SpotTypes] /\ visits' \in [Spots -> Nat]
  BY <1>1, <1>2
<1>5. \A b \in Spots : visits'[b] = 0 /\ visits'[b] <= 1 /\ visits'[b] # 1
  BY <1>1
<1>6. \A b \in Spots : ~spots'[b].timer /\ (spots'[b].exists <=> (b \in bound /\ repoEnabled))
  <2> SUFFICES ASSUME NEW b \in Spots
               PROVE  ~spots'[b].timer /\ (spots'[b].exists <=> (b \in bound /\ repoEnabled))
    OBVIOUS
  <2>1. spots'[b] = IF b \in bound /\ repoEnabled THEN NewSpot ELSE NoSpot
    BY <1>1
  <2> QED
    BY <1>3, <2>1, Zenon
<1> QED
  BY <1>1, <1>4, <1>5, <1>6, Zenon DEF SpotInv

(* What changes the bindings has the hotspots made anew, if there are any. *)
LEMMA BoundSpots ==
  ASSUME SpotInv, bound' \in SUBSET AllBindings, repoEnabled' \in BOOLEAN, recreate' \in BOOLEAN,
         UNCHANGED <<spots, visits, pointerAt>>, recreate => recreate',
         ~recreate' => \A b \in Spots : (b \in bound' /\ repoEnabled') <=> (b \in bound /\ repoEnabled)
  PROVE  SpotInv'
  BY Zenon DEF SpotInv

(* Any step keeps both invariants.                                         *)
LEMMA BindNextInv ==
  ASSUME RepeatInv, SpotInv, BindNext
  PROVE  RepeatInv' /\ SpotInv'
<1>1. bound \in SUBSET AllBindings /\ repoEnabled \in BOOLEAN /\ recreate \in BOOLEAN
  BY DEF SpotInv
<1>2. ASSUME UNCHANGED <<repeat, inputDown, endless>> PROVE RepeatInv'
  BY <1>2, Zenon DEF RepeatInv
<1>3. ASSUME UNCHANGED <<bound, repoEnabled, spots, recreate, pointerAt, visits>> PROVE SpotInv'
  BY <1>3, Zenon DEF SpotInv
<1>4. ASSUME NEW code \in InputKeys \cup InputButtons, InputPressed(code) PROVE RepeatInv' /\ SpotInv'
  BY <1>1, <1>3, <1>4, InputPressedRight DEF InputPressed
<1>5. ASSUME NEW code \in InputKeys \cup InputButtons, NEW alone \in BOOLEAN, InputReleased(code, alone)
      PROVE  RepeatInv' /\ SpotInv'
  BY <1>1, <1>3, <1>5, InputReleasedRight DEF InputReleased
<1>6. ASSUME NEW b \in AllBindings, Gesture(b) PROVE RepeatInv' /\ SpotInv'
  BY <1>3, <1>6, GestureRight DEF Gesture
<1>7. ASSUME NEW b \in Spots, HotspotFires(b) PROVE RepeatInv' /\ SpotInv'
  BY <1>7, HotspotFiresRight, HotspotFiresSpots
<1>8. ASSUME NEW rateOk \in BOOLEAN, RepeatTimer(rateOk) PROVE RepeatInv' /\ SpotInv'
  BY <1>3, <1>8, RepeatTimerRight DEF RepeatTimer
<1>9. ASSUME NEW to, InputMoves(to) PROVE RepeatInv' /\ SpotInv'
  BY <1>2, <1>9, InputMovesSpots DEF InputMoves
<1>10. CASE RecreateHotspots
  BY <1>2, <1>10, RecreateSpots DEF RecreateHotspots
<1>11. CASE CanActivateChanges
  BY <1>2, <1>3, <1>11 DEF CanActivateChanges
<1>12. CASE SetEnabled
  <2>1. recreate' = TRUE /\ repoEnabled' = ~repoEnabled /\ UNCHANGED <<bound, spots, visits, pointerAt>>
        /\ UNCHANGED <<repeat, inputDown, endless>>
    BY <1>12 DEF SetEnabled
  <2>2. repoEnabled' \in BOOLEAN /\ recreate' \in BOOLEAN /\ recreate'
    BY <2>1, Zenon
  <2> QED
    BY <1>1, <1>2, <2>1, <2>2, BoundSpots
<1>13. ASSUME NEW set \in {{}, Owned(Config)}, ReloadConfig(set) PROVE RepeatInv' /\ SpotInv'
  <2>1. recreate' = TRUE /\ bound' = (bound \ Owned(Config)) \cup set
        /\ UNCHANGED <<repoEnabled, spots, visits, pointerAt, repeat, inputDown, endless>>
    BY <1>13 DEF ReloadConfig
  <2>2. bound' \in SUBSET AllBindings /\ repoEnabled' \in BOOLEAN
    BY <1>1, <2>1 DEF Owned
  <2>3. recreate' \in BOOLEAN /\ recreate'
    BY <2>1, Zenon
  <2> QED
    BY <1>2, <2>1, <2>2, <2>3, BoundSpots
<1>14. ASSUME NEW b \in AllBindings, RegisterBinding(b) PROVE RepeatInv' /\ SpotInv'
  <2>1. bound' = bound \cup {b} /\ UNCHANGED <<repoEnabled, spots, visits, pointerAt, repeat, inputDown, endless>>
    BY <1>14 DEF RegisterBinding
  <2>2. recreate' = (recreate \/ IsSpot(b))
    BY <1>14 DEF RegisterBinding
  <2>3. recreate' \in BOOLEAN /\ (recreate => recreate') /\ (IsSpot(b) => recreate')
    BY <1>1, <2>2, Zenon DEF IsSpot
  <2>4. bound' \in SUBSET AllBindings /\ repoEnabled' \in BOOLEAN
    BY <1>1, <2>1
  <2>5. ~recreate' => \A x \in Spots : x \in bound' <=> x \in bound
    <3>1. ~IsSpot(b) => \A x \in Spots : x # b
      BY DEF Spots
    <3> QED
      BY <2>1, <2>3, <3>1
  <2> QED
    BY <1>2, <2>1, <2>3, <2>4, <2>5, BoundSpots, Zenon
<1>15. ASSUME NEW gone, UnregisterBindings(gone) PROVE RepeatInv' /\ SpotInv'
  <2>1. bound' = bound \ gone /\ UNCHANGED <<repoEnabled, spots, visits, pointerAt, repeat, inputDown, endless>>
    BY <1>15 DEF UnregisterBindings, Unbound
  <2> DEFINE some == \E x \in bound : IsSpot(x)
  <2>2. recreate' = (recreate \/ some) /\ some \in BOOLEAN
    BY <1>15, Zenon DEF UnregisterBindings, Unbound
  <2>3. ~some => \A x \in Spots : x \notin bound
    BY DEF Spots
  <2> HIDE DEF some
  <2>4. recreate' \in BOOLEAN /\ (recreate => recreate') /\ (some => recreate')
    BY <1>1, <2>2, Zenon
  <2>5. bound' \in SUBSET AllBindings /\ repoEnabled' \in BOOLEAN
    BY <1>1, <2>1
  <2>6. ~recreate' => \A x \in Spots : x \notin bound /\ x \notin bound'
    BY <2>1, <2>3, <2>4
  <2> QED
    BY <1>2, <2>1, <2>4, <2>5, <2>6, BoundSpots, Zenon
<1> QED
  BY <1>4, <1>5, <1>6, <1>7, <1>8, <1>9, <1>10, <1>11, <1>12, <1>13, <1>14, <1>15, Zenon DEF BindNext

(* Both invariants hold before the first binding.                           *)
LEMMA BindInitInv == BindInit => RepeatInv /\ SpotInv
<1> SUFFICES ASSUME BindInit PROVE RepeatInv /\ SpotInv
  OBVIOUS
<1>1. RepeatRight(Unarmed, {})
  BY DEF RepeatRight, RepeatRecord, Unarmed
<1>2. RepeatInv
  BY <1>1, Zenon DEF BindInit, RepeatInv
<1>3. NoSpot \in SpotTypes
  BY DEF NoSpot, SpotTypes
<1>4. ~NoSpot.exists /\ ~NoSpot.armed /\ ~NoSpot.timer
  BY DEF NoSpot
<1>5. bound \in SUBSET AllBindings /\ repoEnabled \in BOOLEAN /\ recreate \in BOOLEAN
  BY DEF BindInit
<1>6. spots \in [Spots -> SpotTypes] /\ visits \in [Spots -> Nat]
  BY <1>3 DEF BindInit
<1>7. \A b \in Spots : spots[b] = NoSpot /\ visits[b] = 0 /\ visits[b] <= 1 /\ visits[b] # 1 /\ b \notin bound
  BY DEF BindInit
<1> QED
  BY <1>2, <1>4, <1>5, <1>6, <1>7, Zenon DEF SpotInv

(* What the invariant of hotspots says of them.                             *)
LEMMA InvHotspots == SpotInv => HotspotsRight
<1> SUFFICES ASSUME SpotInv, NEW b \in Spots, ~recreate
             PROVE  spots[b].exists = (b \in bound /\ repoEnabled)
  BY DEF HotspotsRight, SpotInv
<1>1. spots[b].exists <=> (b \in bound /\ repoEnabled)
  BY Zenon DEF SpotInv
<1>2. spots[b].exists \in BOOLEAN
  BY DEF SpotInv, SpotTypes
<1> QED
  BY <1>1, <1>2, Zenon

(* A repeated command goes on only while its binding is held, and hotspots  *)
(* are those of the bindings (command.cpp, hotspot-manager.cpp).            *)
THEOREM BindingsEnd == BindSpec => [](RepeatsWhileHeld /\ HotspotsRight)
<1>1. RepeatInv /\ SpotInv /\ [BindNext]_bindVars => RepeatInv' /\ SpotInv'
  <2>1. ASSUME RepeatInv, SpotInv, UNCHANGED bindVars PROVE RepeatInv' /\ SpotInv'
    BY <2>1, Zenon DEF bindVars, RepeatInv, SpotInv
  <2> QED
    BY <2>1, BindNextInv
<1> QED
  BY <1>1, BindInitInv, InvRepeats, InvHotspots, PTL DEF BindSpec

-----------------------------------------------------------------------------
(* Shortcuts inhibitors.                                                   *)

InhibitTypes ==
  [inhibitors: SUBSET Inhibitable, byDefault: SUBSET ByDefault, active: SUBSET Inhibitable,
   last_focus: Inhibitable \cup {NoView}, enabled: Int]

(* While last_focus is known, at most its inhibitor is active, and counted.*)
Balanced(p) ==
  /\ p.active = {p.last_focus} \ {NoView}
  /\ p.last_focus \notin Ignored
  /\ p.enabled = IF p.active = {} THEN 1 ELSE 0

InhibitInv ==
  /\ inhibit \in InhibitTypes /\ asking \in SUBSET inhibit.inhibitors
  /\ shownViews \in SUBSET Inhibitable /\ keyFocus \in shownViews \cup {NoView}
  /\ broken \in BOOLEAN /\ forgotten \in BOOLEAN
  /\ ~forgotten => /\ Balanced(inhibit) /\ inhibit.active \subseteq {keyFocus}
                   /\ ~broken => inhibit.active = {keyFocus} \cap (inhibit.inhibitors \ Ignored)

(* What the two helpers do to the fields.                                  *)
LEMMA DeactivatedFields ==
  ASSUME NEW p \in InhibitTypes, NEW s \in Inhibitable
  PROVE  /\ Deactivated(p, s) \in InhibitTypes
         /\ Deactivated(p, s).inhibitors = p.inhibitors
         /\ Deactivated(p, s).active = p.active \ {s}
         /\ Deactivated(p, s).last_focus = NoView
         /\ Deactivated(p, s).enabled = IF s \in p.active THEN p.enabled + 1 ELSE p.enabled
<1>1. s # NoView
  BY InhibitAssumption
<1>2. p.enabled \in Int /\ p.enabled + 1 \in Int
  BY DEF InhibitTypes
<1> DEFINE d == Deactivated(p, s)
<1>3. /\ d.inhibitors = p.inhibitors /\ d.active = p.active \ {s} /\ d.last_focus = NoView
      /\ d.enabled = IF s \in p.active THEN p.enabled + 1 ELSE p.enabled
  BY <1>1 DEF Deactivated, InhibitTypes
<1>4. d \in InhibitTypes
  BY <1>1, <1>2 DEF Deactivated, InhibitTypes
<1> QED
  BY <1>3, <1>4

(* What activate() changes.                                                 *)
LEMMA ActivatedFields ==
  ASSUME NEW p \in InhibitTypes, NEW s \in Inhibitable
  PROVE  /\ Activated(p, s) \in InhibitTypes
         /\ Activated(p, s).inhibitors = p.inhibitors
         /\ Activated(p, s).active = p.active \cup {s}
         /\ Activated(p, s).last_focus = s
         /\ Activated(p, s).enabled = IF s \in p.active THEN p.enabled ELSE p.enabled - 1
<1>1. s # NoView
  BY InhibitAssumption
<1>2. p.enabled \in Int /\ p.enabled - 1 \in Int
  BY DEF InhibitTypes
<1> DEFINE d == Activated(p, s)
<1>3. /\ d.inhibitors = p.inhibitors /\ d.active = p.active \cup {s} /\ d.last_focus = s
      /\ d.enabled = IF s \in p.active THEN p.enabled ELSE p.enabled - 1
  BY <1>1 DEF Activated, InhibitTypes
<1>4. d \in InhibitTypes
  BY <1>1, <1>2 DEF Activated, InhibitTypes
<1> QED
  BY <1>3, <1>4

(* The inhibitor that last had the focus is given up.                      *)
LEMMA LastDeactivated ==
  ASSUME NEW p \in InhibitTypes, Balanced(p)
  PROVE  /\ Deactivated(p, p.last_focus) \in InhibitTypes /\ Balanced(Deactivated(p, p.last_focus))
         /\ Deactivated(p, p.last_focus).inhibitors = p.inhibitors
         /\ Deactivated(p, p.last_focus).active = {}
         /\ Deactivated(p, p.last_focus).last_focus = NoView
<1> DEFINE s == p.last_focus
           d == Deactivated(p, s)
<1>1. s \in Inhibitable \cup {NoView} /\ NoView \notin Ignored
  BY InhibitAssumption DEF InhibitTypes
<1>2. CASE s = NoView
  <2>1. d = p /\ p.active = {}
    BY <1>2 DEF Deactivated, Balanced
  <2> QED
    BY <1>2, <2>1
<1>3. CASE s # NoView
  <2>1. /\ d \in InhibitTypes /\ d.inhibitors = p.inhibitors /\ d.active = p.active \ {s}
        /\ d.last_focus = NoView /\ d.enabled = IF s \in p.active THEN p.enabled + 1 ELSE p.enabled
    BY <1>1, <1>3, DeactivatedFields
  <2>2. p.active = {s} /\ p.enabled = 0
    BY <1>3 DEF Balanced
  <2> HIDE DEF s, d
  <2>3. d.active = {} /\ d.enabled = 1
    BY <2>1, <2>2
  <2>4. Balanced(d)
    BY <1>1, <2>1, <2>3 DEF Balanced
  <2> QED
    BY <2>1, <2>3, <2>4 DEF d, s
<1> QED
  BY <1>2, <1>3

(* check_inhibit(): exactly the focused surface is inhibited afterwards.   *)
LEMMA CheckedRight ==
  ASSUME NEW p \in InhibitTypes, NEW f \in Inhibitable \cup {NoView}
  PROVE  /\ Checked(p, f) \in InhibitTypes /\ Checked(p, f).inhibitors = p.inhibitors
         /\ Balanced(p) => /\ Balanced(Checked(p, f))
                           /\ Checked(p, f).active = {f} \cap (p.inhibitors \ Ignored)
<1> DEFINE new == IF f \in p.inhibitors THEN f ELSE NoView
           old == Deactivated(p, p.last_focus)
<1>1. p.inhibitors \subseteq Inhibitable /\ p.last_focus \in Inhibitable \cup {NoView} /\ NoView \notin Inhibitable
      /\ Ignored \subseteq Inhibitable
  BY InhibitAssumption DEF InhibitTypes
<1>2. new \in Inhibitable \cup {NoView}
  BY <1>1
<1>3. old \in InhibitTypes /\ old.inhibitors = p.inhibitors
  <2>1. CASE p.last_focus = NoView
    BY <2>1 DEF Deactivated
  <2>2. CASE p.last_focus \in Inhibitable
    BY <2>2, DeactivatedFields
  <2> QED
    BY <1>1, <2>1, <2>2
<1>4. Balanced(p) => Balanced(old) /\ old.active = {} /\ old.last_focus = NoView
  BY LastDeactivated
<1>5. CASE new = p.last_focus
  <2>1. Checked(p, f) = p
    BY <1>5 DEF Checked
  <2>2. Balanced(p) => p.active = {f} \cap (p.inhibitors \ Ignored)
    BY <1>1, <1>5 DEF Balanced
  <2> QED
    BY <2>1, <2>2
<1>6. CASE new # p.last_focus /\ f \in Ignored
  <2>1. Checked(p, f) = old
    BY <1>6 DEF Checked
  <2>2. {f} \cap (p.inhibitors \ Ignored) = {}
    BY <1>6
  <2> HIDE DEF old
  <2> QED
    BY <1>3, <1>4, <2>1, <2>2
<1>7. CASE new # p.last_focus /\ f \notin Ignored /\ new = NoView
  <2>1. Checked(p, f) = old
    BY <1>7 DEF Checked, Activated
  <2>2. {f} \cap (p.inhibitors \ Ignored) = {}
    BY <1>1, <1>7
  <2> HIDE DEF old
  <2> QED
    BY <1>3, <1>4, <2>1, <2>2
<1>8. CASE new # p.last_focus /\ f \notin Ignored /\ new # NoView
  <2>1. Checked(p, f) = Activated(old, new)
    BY <1>8 DEF Checked
  <2>2. new = f /\ f \in p.inhibitors /\ f \in Inhibitable /\ f # NoView
    BY <1>1, <1>8
  <2> HIDE DEF old, new
  <2> DEFINE a == Activated(old, f)
  <2>3. /\ a \in InhibitTypes /\ a.inhibitors = p.inhibitors /\ a.active = old.active \cup {f} /\ a.last_focus = f
        /\ a.enabled = IF f \in old.active THEN old.enabled ELSE old.enabled - 1
    BY <1>3, <2>2, ActivatedFields
  <2> HIDE DEF a
  <2>4. ASSUME Balanced(p) PROVE Balanced(a) /\ a.active = {f} \cap (p.inhibitors \ Ignored)
    <3>1. old.active = {} /\ old.enabled = 1
      BY <1>4, <2>4 DEF Balanced
    <3>2. a.active = {f} /\ a.enabled = 0
      BY <2>3, <3>1
    <3> QED
      BY <1>8, <2>2, <2>3, <3>2 DEF Balanced
  <2>5. Checked(p, f) = a
    BY <2>1, <2>2 DEF a
  <2> QED
    BY <2>3, <2>4, <2>5
<1> QED
  BY <1>5, <1>6, <1>7, <1>8

(* on_destroy of the inhibitor of s, if no other one was active.           *)
LEMMA ErasedRight ==
  ASSUME NEW p \in InhibitTypes, NEW s \in Inhibitable
  PROVE  /\ Erased(p, s) \in InhibitTypes /\ Erased(p, s).inhibitors = p.inhibitors \ {s}
         /\ Balanced(p) /\ p.active \subseteq {s} => Balanced(Erased(p, s)) /\ Erased(p, s).active = {}
<1> DEFINE d == Deactivated(p, s)
           e == [d EXCEPT !.inhibitors = @ \ {s}]
<1>1. Erased(p, s) = e
  BY DEF Erased
<1>2. /\ d \in InhibitTypes /\ d.inhibitors = p.inhibitors /\ d.active = p.active \ {s}
      /\ d.last_focus = NoView /\ d.enabled = IF s \in p.active THEN p.enabled + 1 ELSE p.enabled
  BY DeactivatedFields
<1> HIDE DEF d
<1>3. /\ e \in InhibitTypes /\ e.inhibitors = p.inhibitors \ {s} /\ e.active = d.active
      /\ e.last_focus = d.last_focus /\ e.enabled = d.enabled
  BY <1>2 DEF InhibitTypes
<1> HIDE DEF e
<1>4. ASSUME Balanced(p), p.active \subseteq {s} PROVE Balanced(e) /\ e.active = {}
  <2>1. e.active = {}
    BY <1>2, <1>3, <1>4
  <2>2. e.enabled = 1
    <3>1. CASE s \in p.active
      BY <1>2, <1>3, <1>4, <3>1 DEF Balanced
    <3>2. CASE s \notin p.active
      <4>1. p.active = {}
        BY <1>4, <3>2
      <4> QED
        BY <1>2, <1>3, <1>4, <3>2, <4>1 DEF Balanced
    <3> QED
      BY <3>1, <3>2
  <2> QED
    BY <1>2, <1>3, <2>1, <2>2, InhibitAssumption DEF Balanced
<1> QED
  BY <1>1, <1>3, <1>4

(* A change that ends with check_inhibit().                                *)
LEMMA CheckInv ==
  ASSUME InhibitInv, NEW p \in InhibitTypes, ~forgotten => Balanced(p),
         inhibit' = Checked(p, keyFocus'), forgotten' = forgotten, broken' \in BOOLEAN,
         shownViews' \in SUBSET Inhibitable, keyFocus' \in shownViews' \cup {NoView},
         asking' \subseteq p.inhibitors
  PROVE  InhibitInv'
<1> PICK f \in Inhibitable \cup {NoView} : f = keyFocus'
  OBVIOUS
<1>1. /\ Checked(p, f) \in InhibitTypes /\ Checked(p, f).inhibitors = p.inhibitors
      /\ Balanced(p) => /\ Balanced(Checked(p, f))
                        /\ Checked(p, f).active = {f} \cap (p.inhibitors \ Ignored)
  BY CheckedRight
<1>2. inhibit' = Checked(p, f)
  OBVIOUS
<1>3. forgotten' \in BOOLEAN /\ (~forgotten' => Balanced(p))
  BY DEF InhibitInv
<1>4. ASSUME ~forgotten' PROVE Balanced(inhibit') /\ inhibit'.active = {keyFocus'} \cap (inhibit'.inhibitors \ Ignored)
  BY <1>1, <1>2, <1>3, <1>4
<1> QED
  BY <1>1, <1>2, <1>3, <1>4 DEF InhibitInv, Balanced

(* The destruction of an inhibitor.                                        *)
LEMMA EraseInv ==
  ASSUME InhibitInv, NEW s \in inhibit.inhibitors, forgotten' = Forgets(s),
         inhibit' \in InhibitTypes,
         inhibit'.inhibitors = inhibit.inhibitors \ {s},
         inhibit'.active = Erased(inhibit, s).active, inhibit'.last_focus = Erased(inhibit, s).last_focus,
         inhibit'.enabled = Erased(inhibit, s).enabled,
         asking' = asking \ {s}, UNCHANGED <<shownViews, keyFocus, broken>>
  PROVE  InhibitInv'
<1>1. forgotten \in BOOLEAN /\ s \in Inhibitable /\ inhibit \in InhibitTypes
  BY DEF InhibitInv, InhibitTypes
<1>2. forgotten' \in BOOLEAN
  BY <1>1, Zenon DEF Forgets
<1>3. ASSUME ~forgotten'
      PROVE  /\ Balanced(inhibit') /\ inhibit'.active \subseteq {keyFocus}
             /\ ~broken => inhibit'.active = {keyFocus} \cap (inhibit'.inhibitors \ Ignored)
  <2>1. ~forgotten
    BY <1>3, Zenon DEF Forgets
  <2>2. inhibit.active \subseteq {s}
    <3>1. ~(inhibit.active \ {s} # {} /\ s \in inhibit.inhibitors)
      BY <1>3, Zenon DEF Forgets
    <3> QED
      BY <3>1
  <2>3. Balanced(inhibit) /\ (~broken => inhibit.active = {keyFocus} \cap (inhibit.inhibitors \ Ignored))
    BY <2>1 DEF InhibitInv
  <2>4. Balanced(Erased(inhibit, s)) /\ Erased(inhibit, s).active = {}
    BY <1>1, <2>2, <2>3, ErasedRight
  <2>5. Balanced(inhibit') /\ inhibit'.active = {}
    BY <2>4 DEF Balanced
  <2> QED
    BY <2>2, <2>3, <2>5
<1>4. asking' \in SUBSET inhibit'.inhibitors
  BY DEF InhibitInv
<1> QED
  BY <1>2, <1>3, <1>4 DEF InhibitInv

(* Every step keeps the invariant.                                          *)
LEMMA InhibitNextInv ==
  ASSUME InhibitInv, InhibitNext
  PROVE  InhibitInv'
<1>1. inhibit \in InhibitTypes /\ (~forgotten => Balanced(inhibit)) /\ broken \in BOOLEAN
      /\ inhibit.inhibitors \subseteq Inhibitable
  BY DEF InhibitInv, InhibitTypes
<1>2. ASSUME NEW s \in Inhibitable, NewInhibitor(s) PROVE InhibitInv'
  <2>1. CASE s \in inhibit.inhibitors
    BY <1>2, <2>1 DEF NewInhibitor, InhibitInv
  <2>2. CASE s \notin inhibit.inhibitors
    <3> DEFINE p == [inhibit EXCEPT !.inhibitors = @ \cup {s}]
    <3>1. /\ p \in InhibitTypes /\ p.inhibitors = inhibit.inhibitors \cup {s} /\ p.active = inhibit.active
          /\ p.last_focus = inhibit.last_focus /\ p.enabled = inhibit.enabled
      BY <1>1 DEF InhibitTypes
    <3>2. inhibit' = Checked(p, keyFocus') /\ asking' = asking \cup {s}
          /\ UNCHANGED <<forgotten, broken, shownViews, keyFocus>>
      BY <1>2, <2>2 DEF NewInhibitor
    <3> HIDE DEF p
    <3>3. ~forgotten => Balanced(p)
      BY <1>1, <3>1 DEF Balanced
    <3>4. asking' \subseteq p.inhibitors /\ shownViews' \in SUBSET Inhibitable /\ keyFocus' \in shownViews' \cup {NoView}
      BY <3>1, <3>2 DEF InhibitInv
    <3> QED
      BY <1>1, <3>1, <3>2, <3>3, <3>4, CheckInv
  <2> QED
    BY <2>1, <2>2
<1>3. ASSUME NEW s \in Inhibitable, DestroyInhibitor(s) PROVE InhibitInv'
  <2>1. CASE s \in ByDefault /\ s \in inhibit.byDefault
    BY <1>3, <2>1 DEF DestroyInhibitor, InhibitInv
  <2>2. CASE ~(s \in ByDefault /\ s \in inhibit.byDefault)
    <3>1. inhibit' = Erased(inhibit, s) /\ forgotten' = Forgets(s) /\ asking' = asking \ {s} /\ s \in asking
          /\ UNCHANGED <<shownViews, keyFocus, broken>>
      BY <1>3, <2>2 DEF DestroyInhibitor
    <3>2. s \in inhibit.inhibitors
      BY <3>1 DEF InhibitInv
    <3>3. inhibit' \in InhibitTypes /\ inhibit'.inhibitors = inhibit.inhibitors \ {s}
      BY <1>1, <3>1, ErasedRight
    <3> QED
      BY <3>1, <3>2, <3>3, EraseInv
  <2> QED
    BY <2>1, <2>2
<1>4. ASSUME NEW s \in Inhibitable, SurfaceDestroyed(s) PROVE InhibitInv'
  <2> DEFINE e == Erased(inhibit, s)
  <2>1. /\ inhibit' = [e EXCEPT !.byDefault = @ \ {s}] /\ s \in inhibit.inhibitors
        /\ asking' = asking \ {s} /\ UNCHANGED <<shownViews, keyFocus, broken>>
    BY <1>4 DEF SurfaceDestroyed
  <2>2. forgotten' = Forgets(s)
    BY <1>4 DEF SurfaceDestroyed
  <2>3. e \in InhibitTypes /\ e.inhibitors = inhibit.inhibitors \ {s}
    BY <1>1, ErasedRight
  <2> HIDE DEF e
  <2>4. /\ inhibit' \in InhibitTypes /\ inhibit'.inhibitors = e.inhibitors /\ inhibit'.active = e.active
        /\ inhibit'.last_focus = e.last_focus /\ inhibit'.enabled = e.enabled
    BY <2>1, <2>3 DEF InhibitTypes
  <2> QED
    BY <2>1, <2>2, <2>3, <2>4, EraseInv DEF e
<1>5. ASSUME NEW s \in Inhibitable, InhibitableMapped(s) PROVE InhibitInv'
  <2>1. shownViews' \in SUBSET Inhibitable /\ keyFocus' = keyFocus /\ keyFocus' \in shownViews' \cup {NoView}
        /\ UNCHANGED <<asking, broken, forgotten>> /\ keyFocus # s
    BY <1>5, InhibitAssumption DEF InhibitableMapped, InhibitInv
  <2>2. CASE s \notin ByDefault
    BY <1>5, <2>1, <2>2 DEF InhibitableMapped, InhibitInv
  <2>3. CASE s \in ByDefault
    <3> DEFINE p == [inhibit EXCEPT !.inhibitors = @ \cup {s}, !.active = @ \ {s}, !.byDefault = @ \cup {s}]
    <3>1. inhibit' = Checked(p, keyFocus')
      BY <1>5, <2>1, <2>3 DEF InhibitableMapped
    <3>2. /\ p \in InhibitTypes /\ p.inhibitors = inhibit.inhibitors \cup {s} /\ p.active = inhibit.active \ {s}
          /\ p.last_focus = inhibit.last_focus /\ p.enabled = inhibit.enabled
      BY <1>1, <2>3 DEF InhibitTypes
    <3> HIDE DEF p
    <3>3. ~forgotten => Balanced(p)
      <4> SUFFICES ASSUME ~forgotten PROVE Balanced(p)
        OBVIOUS
      <4>1. inhibit.active \subseteq {keyFocus} /\ Balanced(inhibit)
        BY DEF InhibitInv
      <4>2. p.active = inhibit.active
        BY <2>1, <3>2, <4>1
      <4> QED
        BY <3>2, <4>1, <4>2 DEF Balanced
    <3>4. asking' \subseteq p.inhibitors /\ broken' \in BOOLEAN
      BY <1>1, <2>1, <3>2 DEF InhibitInv
    <3> QED
      BY <2>1, <3>1, <3>2, <3>3, <3>4, CheckInv
  <2> QED
    BY <2>2, <2>3
<1>6. ASSUME NEW f, FocusMoves(f), forgotten' = forgotten, asking' = asking,
             shownViews' \in SUBSET Inhibitable, f \in shownViews' \cup {NoView}
      PROVE  InhibitInv'
  <2>1. inhibit' = Checked(inhibit, keyFocus') /\ keyFocus' = f /\ broken' \in BOOLEAN
    BY <1>6 DEF FocusMoves
  <2>2. asking' \subseteq inhibit.inhibitors
    BY <1>6 DEF InhibitInv
  <2> QED
    BY <1>1, <1>6, <2>1, <2>2, CheckInv
<1>7. ASSUME NEW f \in shownViews \cup {NoView}, KeyboardFocus(f) PROVE InhibitInv'
  BY <1>6, <1>7 DEF KeyboardFocus, InhibitInv
<1>8. ASSUME NEW s \in Inhibitable, NEW f \in shownViews \cup {NoView}, InhibitableUnmapped(s, f) PROVE InhibitInv'
  <2>1. shownViews' \in SUBSET Inhibitable /\ shownViews' = shownViews \ {s} /\ f \in shownViews' \cup {NoView}
        /\ UNCHANGED <<asking, forgotten>>
    BY <1>8 DEF InhibitableUnmapped, InhibitInv
  <2>2. CASE keyFocus = s
    BY <1>6, <1>8, <2>1, <2>2 DEF InhibitableUnmapped
  <2>3. CASE keyFocus # s
    BY <1>8, <2>1, <2>3 DEF InhibitableUnmapped, InhibitInv
  <2> QED
    BY <2>2, <2>3
<1>9. CASE BreakGrab
  <2>1. /\ inhibit' = Deactivated(inhibit, inhibit.last_focus) /\ broken' = (keyFocus # NoView)
        /\ UNCHANGED <<asking, shownViews, keyFocus, forgotten>>
    BY <1>9 DEF BreakGrab
  <2>2. inhibit' \in InhibitTypes /\ inhibit'.inhibitors = inhibit.inhibitors
    <3>1. CASE inhibit.last_focus = NoView
      BY <1>1, <2>1, <3>1 DEF Deactivated
    <3>2. CASE inhibit.last_focus \in Inhibitable
      BY <1>1, <2>1, <3>2, DeactivatedFields
    <3> QED
      BY <1>1, <3>1, <3>2 DEF InhibitTypes
  <2>3. broken' \in BOOLEAN /\ (~broken' => keyFocus = NoView)
    BY <2>1, Zenon
  <2>4. ASSUME ~forgotten PROVE Balanced(inhibit') /\ inhibit'.active = {}
    BY <1>1, <2>1, <2>4, LastDeactivated
  <2>5. ~broken' => {keyFocus'} \cap (inhibit'.inhibitors \ Ignored) = {}
    BY <1>1, <2>1, <2>2, <2>3, InhibitAssumption
  <2> QED
    BY <2>1, <2>2, <2>3, <2>4, <2>5 DEF InhibitInv
<1> QED
  BY <1>2, <1>3, <1>4, <1>5, <1>7, <1>8, <1>9 DEF InhibitNext

(* Bindings are given up exactly while the view that has the focus          *)
(* inhibits them (shortcuts-inhibit.cpp).                                   *)
THEOREM InhibitionFollows == InhibitSpec => []InhibitFollowsFocus
<1>1. InhibitInit => InhibitInv
  <2> SUFFICES ASSUME InhibitInit PROVE InhibitInv
    OBVIOUS
  <2>1. inhibit \in InhibitTypes /\ inhibit.active = {} /\ inhibit.last_focus = NoView
        /\ inhibit.enabled = 1 /\ inhibit.inhibitors = {}
    BY DEF InhibitInit, InhibitTypes
  <2> QED
    BY <2>1, InhibitAssumption DEF InhibitInit, InhibitInv, Balanced
<1>2. InhibitInv /\ [InhibitNext]_inhibitVars => InhibitInv'
  <2>1. ASSUME InhibitInv, UNCHANGED inhibitVars PROVE InhibitInv'
    BY <2>1 DEF inhibitVars, InhibitInv
  <2> QED
    BY <2>1, InhibitNextInv
<1>3. InhibitInv => InhibitFollowsFocus
  <2> SUFFICES ASSUME InhibitInv, ~forgotten PROVE inhibit.enabled = 1 - Cardinality(inhibit.active)
    BY DEF InhibitInv, InhibitFollowsFocus
  <2>1. Balanced(inhibit)
    BY DEF InhibitInv
  <2>2. CASE inhibit.last_focus = NoView
    BY <2>1, <2>2, FS_EmptySet DEF Balanced
  <2>3. CASE inhibit.last_focus # NoView
    <3>1. inhibit.active = {inhibit.last_focus} /\ inhibit.enabled = 0
      BY <2>1, <2>3 DEF Balanced
    <3>2. Cardinality({inhibit.last_focus}) = 1
      BY FS_Singleton
    <3> QED
      BY <3>1, <3>2
  <2> QED
    BY <2>2, <2>3
<1> QED
  BY <1>1, <1>2, <1>3, PTL DEF InhibitSpec

-----------------------------------------------------------------------------
(* All parts of the seat.                                                  *)

(* A seat starts with each part where the part starts.                     *)
LEMMA SeatStarts ==
  SeatInit => /\ Init /\ TouchInit /\ ToolInit /\ KbdInit /\ V1Init /\ ImInit
              /\ BindInit /\ InhibitInit /\ SeatFocusInit
BY DEF SeatInit

(* A step of the seat is a step of each part, or leaves the part alone.    *)
LEMMA SeatMoves ==
  [SeatNext]_seatVars => /\ [Next]_vars /\ [TouchNext]_touchVars /\ [ToolNext]_toolVars
                         /\ [KbdNext]_kbdVars /\ [V1Next]_v1Vars /\ [ImNext]_imVars
                         /\ [BindNext]_bindVars /\ [InhibitNext]_inhibitVars
                         /\ [SeatFocusNext]_seat
<1> SUFFICES ASSUME [SeatNext]_seatVars
             PROVE  /\ [Next]_vars /\ [TouchNext]_touchVars /\ [ToolNext]_toolVars
                    /\ [KbdNext]_kbdVars /\ [V1Next]_v1Vars /\ [ImNext]_imVars
                    /\ [BindNext]_bindVars /\ [InhibitNext]_inhibitVars
                    /\ [SeatFocusNext]_seat
  OBVIOUS
<1>1. CASE UNCHANGED seatVars
  BY <1>1 DEF seatVars, inputVars, keyVars
<1>2. CASE SeatNext
  <2>1. CASE part = "pointer"
    BY <1>2, <2>1 DEF SeatNext, keyVars
  <2>2. CASE part = "touch"
    BY <1>2, <2>2 DEF SeatNext, keyVars
  <2>3. CASE part = "tablet"
    BY <1>2, <2>3 DEF SeatNext, keyVars
  <2>4. CASE part = "keyboards"
    BY <1>2, <2>4 DEF SeatNext, keyVars
  <2>5. CASE part = "input method v1"
    BY <1>2, <2>5 DEF SeatNext, keyVars
  <2>6. CASE part = "input method v2"
    BY <1>2, <2>6 DEF SeatNext, keyVars
  <2>7. CASE part \in {"commands", "hotspots"}
    BY <1>2, <2>7 DEF SeatNext, inputVars
  <2>8. CASE part = "inhibitors"
    BY <1>2, <2>8 DEF SeatNext, inputVars
  <2>9. CASE part \in {"focus of views", "focus of layers"}
    BY <1>2, <2>9 DEF SeatNext, inputVars
  <2> QED
    BY <1>2, <2>1, <2>2, <2>3, <2>4, <2>5, <2>6, <2>7, <2>8, <2>9 DEF SeatNext
<1> QED
  BY <1>1, <1>2

(* What the run of the seat does is what each of its parts does.           *)
LEMMA SeatIsItsParts ==
  SeatSpec => /\ Spec /\ TouchSpec /\ ToolSpec /\ KbdSpec /\ V1Spec /\ ImSpec
              /\ BindSpec /\ InhibitSpec /\ SeatFocusSpec
BY SeatStarts, SeatMoves, PTL
   DEF SeatSpec, Spec, TouchSpec, ToolSpec, KbdSpec, V1Spec, ImSpec, BindSpec, InhibitSpec,
       SeatFocusSpec

(* The cursor is hidden exactly while somebody wants it so (cursor.cpp,    *)
(* touch.cpp, cube.cpp).                                                   *)
THEOREM SeatShowsCursor == SeatSpec => []CursorShown
BY SeatIsItsParts, CursorHiddenByNeed, PTL

(* Between events the fingers that gestures and bindings count are those   *)
(* on the screen (touch.cpp).                                              *)
THEOREM SeatKnowsFingers == SeatSpec => []FingersKnown
BY SeatIsItsParts, TouchRight, PTL

(* The keyboard focus is the lock screen while the focused output is       *)
(* locked, is never on what is not shown there or has ended, is what a     *)
(* refocus would choose unless something was changed since the last one,   *)
(* and one toplevel looks activated (seat.cpp, window-manager.cpp).        *)
THEOREM SeatGivesFocus == SeatSpec => []FocusGiven
BY SeatIsItsParts, SeatFocusRight, PTL

(* Bindings run as often as they should and no longer, and are given up    *)
(* only for the surface that has the focus (keyboard.cpp, command.cpp,     *)
(* hotspot-manager.cpp, shortcuts-inhibit.cpp).                            *)
THEOREM SeatEndsBindings == SeatSpec => []BindingsRight
<1>1. ModifierAlone /\ RepeatsWhileHeld /\ HotspotsRight /\ InhibitFollowsFocus => BindingsRight
  BY DEF BindingsRight
<1> QED
  BY <1>1, SeatIsItsParts, KeysMatch, BindingsEnd, InhibitionFollows, PTL

(* An implicit grab of a client is on the focused node, which is in the    *)
(* scene, and some button is held (pointer.cpp).                           *)
THEOREM SeatGrabHasReason ==
  ASSUME ReactToForced = {}
  PROVE  SeatSpec => []GrabHasReason
BY SeatIsItsParts, PointerRight, PTL

(* Clients are told of presses and releases, of enters and leaves, in      *)
(* pairs, by the pointer, the fingers and the keyboards (pointer.cpp,      *)
(* touch.cpp, keyboard.cpp).                                               *)
THEOREM SeatPairsPresses ==
  ASSUME ReactToForced = {}
  PROVE  SeatSpec => []PressesPaired
<1>1. EventsPaired /\ TouchPaired /\ ClientKeysMatch => PressesPaired
  BY DEF PressesPaired
<1> QED
  BY <1>1, SeatIsItsParts, PointerRight, TouchRight, KeysMatch, PTL

(* No pointer, finger, tool or text input stays on a node or a surface     *)
(* that is gone (pointer.cpp, touch.cpp, tablet.cpp, input-method-v1.cpp,  *)
(* input-method-relay.cpp).                                                *)
THEOREM SeatFocusesRight ==
  ASSUME ReactToForced = {}
  PROVE  SeatSpec => []FocusRight
<1>1. FocusIsCurrent /\ TouchFocusAlive /\ ToolFocusAlive /\ ContextCurrent /\ PendingApart => FocusRight
  BY DEF FocusRight
<1> QED
  BY <1>1, SeatIsItsParts, PointerRight, TouchRight, ToolsInScene, ContextIsCurrent, WaitingApart, PTL
=============================================================================

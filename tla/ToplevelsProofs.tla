-------------------------- MODULE ToplevelsProofs --------------------------
(***************************************************************************)
(* What is proved of the two kinds of toplevels, for every client, every   *)
(* request of a plugin and every place of an output.                       *)
(*                                                                         *)
(* Both have three states (pending, committed, current) and a transaction  *)
(* that carries one into the next, while the client draws what it likes.   *)
(* The invariants say for each state what it holds of the client at that   *)
(* point of the transaction: whether the surface is mapped, which edge was *)
(* placed, and which size is drawn.                                        *)
(***************************************************************************)
EXTENDS MCToplevels, FiniteSetTheorems, TLAPS

-----------------------------------------------------------------------------
(* Wayland: xdg-toplevel.cpp.                                              *)

(* The serials a client can still ack are newer than the one it acked last. *)
Serials ==
  /\ surf.serial <= conf.last
  /\ conf.scheduled <= conf.last
  /\ conf.scheduled # 0 => conf.scheduled > surf.serial
  /\ \A n \in conf.sent :
       n > surf.serial /\ n <= conf.last /\ (conf.scheduled # 0 => n < conf.scheduled)

(* The numbers of configures do not wrap around in one behaviour.          *)
NoWrap == MaxSerial < Modulus

(* An object that waits has not been ready, for the answer it waits for.   *)
Answers ==
  running => /\ signalled <= 1
             /\ armed => signalled = 0 /\ target = Wire(asked)
             /\ NoWrap /\ alive /\ signalled = 1 => surf.serial >= asked

(* What lives and is mapped, in each of the three states.                  *)
Mapped ==
  /\ controller = alive
  /\ viewMapped = current.mapped
  /\ pending.mapped <=> surf.w # 0
  /\ ~alive \/ handler = "destroy" => surf.w = 0
  /\ handler # "none" => alive
  /\ applying => running /\ current = committed
  /\ running /\ ~IsPending => committed.mapped = pending.mapped
  /\ (~running \/ applying) /\ ~IsPending => pending = current
  /\ ((committed.mapped /\ running) \/ viewMapped) /\ ~pending.mapped => selfRef

Edges ==
  alive => /\ Edge(pending) = anchor
           /\ running /\ ~IsPending => Edge(committed) = anchor

Settled == alive /\ handler = "none" /\ ~ignored /\ ~late /\ surf.w # 0

Sizes ==
  Settled =>
    /\ ~running /\ current.mapped
         => surf.w = Shrunk(current) \/ (Due /\ surf.w = Shrunk(pending))
    /\ running /\ ~applying /\ signalled = 1 /\ committed.mapped => Shrunk(committed) = surf.w
    /\ applying /\ current.mapped => Shrunk(current) = surf.w
    /\ (Quiet \/ applying) /\ current.mapped => shown = surf.w

XdgInv == TypeOK /\ Serials /\ Answers /\ Mapped /\ Edges /\ Sizes

-----------------------------------------------------------------------------
Confs == [last: 0 .. MaxSerial, scheduled: 0 .. MaxSerial, sent: SUBSET (1 .. MaxSerial),
          initialized: BOOLEAN]

(* The types, apart for what is Boolean.                                   *)
XdgData ==
  /\ pending \in States /\ committed \in States /\ current \in States
  /\ target \in 0 .. Modulus - 1 /\ shown \in Widths \cup {0}
  /\ surf \in [w: Widths \cup {0}, serial: 0 .. MaxSerial]
  /\ conf \in Confs
  /\ queued \in {"no", "own", "shared"} /\ signalled \in Nat
  /\ handler \in {"none", "mapping", "commit", "destroy"}
  /\ asked \in 0 .. MaxSerial /\ anchor \in Int

XdgFlags ==
  /\ armed \in BOOLEAN /\ alive \in BOOLEAN /\ running \in BOOLEAN /\ applying \in BOOLEAN
  /\ controller \in BOOLEAN /\ selfRef \in BOOLEAN /\ viewMapped \in BOOLEAN
  /\ ignored \in BOOLEAN /\ late \in BOOLEAN

(* The type invariant, in two halves: numbers and records, and flags.      *)
LEMMA XdgTypes == TypeOK <=> XdgData /\ XdgFlags
BY DEF TypeOK, XdgData, XdgFlags, Confs

(* The numbers that the requests and the widths are made of.               *)
LEMMA XdgInts ==
  ASSUME XdgData
  PROVE  /\ surf.w \in Nat /\ surf.serial \in Nat
         /\ pending.w \in Int /\ pending.margin \in Nat
         /\ committed.w \in Int /\ committed.margin \in Nat
         /\ current.w \in Int /\ current.margin \in Nat
<1>1. surf.w \in Widths \cup {0} /\ surf.serial \in 0 .. MaxSerial
  BY DEF XdgData
<1>2. surf.w \in Nat
  <2>1. \A n \in Widths \cup {0} : n \in Nat
    BY WidthsAssumption
  <2>. QED
    BY <1>1, <2>1
<1>3. surf.serial \in Nat
  BY <1>1, SerialsAssumption
<1>. QED
  BY <1>2, <1>3 DEF XdgData, States

(* Without a wraparound, a serial is what is compared.                     *)
LEMMA WireIs ==
  ASSUME NoWrap, NEW n \in 0 .. MaxSerial
  PROVE  Wire(n) = n
BY SerialsAssumption DEF NoWrap, Wire

(* A serial on the wire is a number.                                       *)
LEMMA WireTyped ==
  ASSUME NEW n \in Nat
  PROVE  Wire(n) \in 0 .. Modulus - 1
BY SerialsAssumption DEF Wire

(* Changes of a state leave a state.                                       *)
LEMMA StatesWith ==
  ASSUME NEW s \in States
  PROVE  /\ \A x \in Int, w \in Int : [s EXCEPT !.x = x, !.w = w] \in States
         /\ \A m \in BOOLEAN : [s EXCEPT !.mapped = m] \in States
         /\ \A m \in BOOLEAN, w \in Int : [s EXCEPT !.w = w, !.mapped = m] \in States
         /\ \A m \in BOOLEAN, x \in Int, w \in Int :
              [s EXCEPT !.mapped = m, !.x = x, !.w = w] \in States
<1>1. ASSUME NEW x \in Int, NEW w \in Int PROVE [s EXCEPT !.x = x, !.w = w] \in States
  BY DEF States
<1>2. ASSUME NEW m \in BOOLEAN PROVE [s EXCEPT !.mapped = m] \in States
  BY DEF States
<1>3. ASSUME NEW m \in BOOLEAN, NEW w \in Int
      PROVE  [s EXCEPT !.w = w, !.mapped = m] \in States
  BY DEF States
<1>4. ASSUME NEW m \in BOOLEAN, NEW x \in Int, NEW w \in Int
      PROVE  [s EXCEPT !.mapped = m, !.x = x, !.w = w] \in States
  BY DEF States
<1>. QED
  BY <1>1, <1>2, <1>3, <1>4

(* A client that resizes itself moves no edge but the free one.            *)
LEMMA Gravity ==
  ASSUME NEW s \in States, NEW w \in Int
  PROVE  /\ AdjustForGravity(s, w) \in States
         /\ AdjustForGravity(s, w).w = w
         /\ AdjustForGravity(s, w).mapped = s.mapped
         /\ AdjustForGravity(s, w).margin = s.margin
         /\ Edge(AdjustForGravity(s, w)) = Edge(s)
<1>1. s.x + s.w - w \in Int /\ s.x \in Int
  BY DEF States
<1>2. PICK x \in Int : x = IF s.gravity = "right" THEN s.x + s.w - w ELSE s.x
  BY <1>1
<1>3. PICK r : r = [s EXCEPT !.x = x, !.w = w]
  OBVIOUS
<1>4. AdjustForGravity(s, w) = r
  BY <1>2, <1>3 DEF AdjustForGravity
<1>5. r \in States /\ r.w = w /\ r.mapped = s.mapped /\ r.margin = s.margin
      /\ r.x = x /\ r.gravity = s.gravity
  BY <1>3 DEF States
<1>6. Edge(r) = Edge(s)
  BY <1>2, <1>5 DEF Edge, States
<1>. QED
  BY <1>4, <1>5, <1>6

(* The anchored edge of a state is a number.                               *)
LEMMA EdgeTyped == \A s \in States : Edge(s) \in Int
BY DEF Edge, States

(* What a configure makes of the account of the configures.                *)
LEMMA ConfsWith ==
  ASSUME NEW c \in Confs, NEW sent \in SUBSET (1 .. MaxSerial), NEW n \in 0 .. MaxSerial
  PROVE  /\ [c EXCEPT !.sent = sent] \in Confs
         /\ [c EXCEPT !.last = n, !.scheduled = n] \in Confs
         /\ [c EXCEPT !.sent = sent, !.scheduled = n] \in Confs
         /\ \A b \in BOOLEAN :
              [c EXCEPT !.sent = sent, !.scheduled = n, !.initialized = b] \in Confs
<1>1. [c EXCEPT !.sent = sent] \in Confs
  BY DEF Confs
<1>2. [c EXCEPT !.sent = sent, !.scheduled = n] \in Confs
  BY DEF Confs
<1>3. ASSUME NEW b \in BOOLEAN
      PROVE  [c EXCEPT !.sent = sent, !.scheduled = n, !.initialized = b] \in Confs
  BY DEF Confs
<1>4. [c EXCEPT !.last = n, !.scheduled = n] \in Confs
  BY DEF Confs
<1>. QED
  BY <1>1, <1>2, <1>3, <1>4

(* A configure is scheduled with a number that is not yet given out, unless *)
(* one is scheduled already.                                               *)
LEMMA ScheduledTyped ==
  ASSUME XdgData, Scheduled.last <= MaxSerial
  PROVE  /\ Scheduled \in Confs
         /\ Scheduled.scheduled \in 1 .. MaxSerial
         /\ Scheduled.sent = conf.sent
         /\ IF conf.scheduled # 0 THEN Scheduled = conf
            ELSE Scheduled.last = conf.last + 1 /\ Scheduled.scheduled = conf.last + 1
<1>1. conf \in Confs
  BY DEF XdgData
<1>2. CASE conf.scheduled # 0
  BY <1>1, <1>2 DEF Scheduled, Confs
<1>3. CASE conf.scheduled = 0
  <2>1. PICK n : n = conf.last + 1
    OBVIOUS
  <2>2. Scheduled = [conf EXCEPT !.last = n, !.scheduled = n]
    BY <1>3, <2>1 DEF Scheduled
  <2>3. Scheduled.last = n
    BY <1>1, <2>2 DEF Confs
  <2>4. n \in 1 .. MaxSerial
    BY <1>1, <2>1, <2>3, SerialsAssumption DEF Confs
  <2>5. Scheduled \in Confs
    <3>1. n \in 0 .. MaxSerial
      BY <2>4, SerialsAssumption
    <3>. QED
      BY <1>1, <2>2, <3>1, ConfsWith
  <2>6. Scheduled.scheduled = n /\ Scheduled.sent = conf.sent
    BY <1>1, <2>2 DEF Confs
  <2>. QED
    BY <1>3, <2>1, <2>3, <2>4, <2>5, <2>6
<1>. QED
  BY <1>2, <1>3

(* Every step keeps the types of the flags.                                *)
LEMMA XdgFlagsTyped ==
  ASSUME XdgData, XdgFlags, [Next]_vars
  PROVE  XdgFlags'
<1>1. CASE SendConfigure
  BY <1>1 DEF SendConfigure, XdgFlags, tlvars, txvars, view, history
<1>2. ASSUME NEW r \in Requests, NEW group \in {"own", "shared"}, PluginRequest(r, group)
      PROVE  XdgFlags'
  BY <1>2 DEF PluginRequest, XdgFlags, view
<1>3. CASE Commit
  <2>1. armed' \in BOOLEAN
    BY <1>3, Zenon DEF Commit, Asked
  <2>. QED
    BY <1>3, <2>1 DEF Commit, XdgFlags, view
<1>4. ASSUME NEW t \in BOOLEAN, ApplyState(t)
      PROVE  XdgFlags'
  <2>1. current.mapped \in BOOLEAN /\ Applied.mapped \in BOOLEAN
    BY DEF XdgData, States, Applied
  <2>2. viewMapped' \in BOOLEAN
    BY <1>4, <2>1 DEF ApplyState, XdgFlags
  <2>3. late' \in BOOLEAN
    BY <1>4, Zenon DEF ApplyState
  <2>. QED
    BY <1>4, <2>2, <2>3 DEF ApplyState, XdgFlags, txvars
<1>5. CASE ApplyEnd
  BY <1>5 DEF ApplyEnd, XdgFlags, tlvars, history
<1>6. CASE InitialCommit
  BY <1>6 DEF InitialCommit, XdgFlags, tlvars, txvars, view, history
<1>7. ASSUME NEW w \in Widths \cup {0}, NEW s \in 1 .. MaxSerial, ClientCommit(w, s)
      PROVE  XdgFlags'
  <2>1. selfRef' = selfRef \/ selfRef' = TRUE
    BY <1>7 DEF ClientCommit, StartMap, StartUnmap
  <2>. QED
    BY <1>7, <2>1 DEF ClientCommit, XdgFlags
<1>8. CASE Destroy
  <2>1. selfRef' = selfRef \/ selfRef' = TRUE
    BY <1>8 DEF Destroy, StartUnmap
  <2>. QED
    BY <1>8, <2>1 DEF Destroy, XdgFlags
<1>9. CASE HandleSurfaceCommit
  <2>1. armed' = armed \/ armed' = FALSE
    BY <1>9 DEF HandleSurfaceCommit, HandleCommitted, HandlePending, HandleQuiet, EmitReady
  <2>2. ignored' \in BOOLEAN
    <3>1. CASE HandleCommitted
      BY <3>1 DEF HandleCommitted
    <3>2. CASE HandlePending
      BY <3>2 DEF HandlePending
    <3>3. CASE HandleQuiet
      BY <3>3 DEF HandleQuiet
    <3>. QED
      BY <1>9, <3>1, <3>2, <3>3 DEF HandleSurfaceCommit
  <2>3. late' \in BOOLEAN
    BY <1>9, Zenon DEF HandleSurfaceCommit
  <2>. QED
    BY <1>9, <2>1, <2>2, <2>3 DEF HandleSurfaceCommit, XdgFlags, view
<1>10. CASE DestroyEnd
  BY <1>10 DEF DestroyEnd, EmitReady, XdgFlags, history
<1>11. CASE UNCHANGED vars
  BY <1>11 DEF XdgFlags, vars, tlvars, txvars, view, history
<1>. QED
  BY <1>1, <1>2, <1>3, <1>4, <1>5, <1>6, <1>7, <1>8, <1>9, <1>10, <1>11
  DEF Next, Transaction, Client

(* Every step keeps the types of the numbers and records.                  *)
LEMMA XdgDataTyped ==
  ASSUME XdgData, [Next]_vars
  PROVE  XdgData'
<1>. USE WidthsAssumption, SerialsAssumption
<1>0. conf \in Confs /\ 0 \in 0 .. MaxSerial
  BY DEF XdgData
<1>1. CASE SendConfigure
  <2>1. PICK sent : sent = conf.sent \cup {conf.scheduled}
    OBVIOUS
  <2>2. sent \in SUBSET (1 .. MaxSerial)
    BY <1>1, <2>1 DEF SendConfigure, XdgData, Confs
  <2>3. conf' = [conf EXCEPT !.sent = sent, !.scheduled = 0]
    BY <1>1, <2>1 DEF SendConfigure
  <2>4. conf' \in Confs
    BY <1>0, <2>2, <2>3, ConfsWith
  <2>. QED
    BY <1>1, <2>4 DEF SendConfigure, XdgData, tlvars, txvars, view, history
<1>2. ASSUME NEW r \in Requests, NEW group \in {"own", "shared"}, PluginRequest(r, group)
      PROVE  XdgData'
  <2>1. pending' \in States
    BY <1>2, RequestsAssumption DEF PluginRequest, XdgData, States
  <2>2. anchor' \in Int
    <3>1. PICK p \in States : p = pending'
      BY <2>1
    <3>2. anchor' = Edge(p)
      BY <1>2, <3>1 DEF PluginRequest, Edge
    <3>. QED
      BY <3>2, EdgeTyped
  <2>. QED
    BY <1>2, <2>1, <2>2 DEF PluginRequest, XdgData, view
<1>3. CASE Commit
  <2>1. PICK resize, restate : Asked(resize, restate)
    BY <1>3 DEF Commit
  <2>2. /\ conf' \in Confs /\ target' \in 0 .. Modulus - 1 /\ asked' \in 0 .. MaxSerial
        /\ signalled' \in Nat
    <3>1. CASE resize \/ restate
      <4>1. conf' = Scheduled /\ target' = Wire(conf'.scheduled) /\ asked' = conf'.scheduled
            /\ signalled' = 0
        BY <2>1, <3>1 DEF Asked
      <4>2. Scheduled \in Confs /\ Scheduled.scheduled \in 1 .. MaxSerial
        BY <1>3, <4>1, ScheduledTyped DEF Commit
      <4>3. PICK n \in 0 .. MaxSerial : n = Scheduled.scheduled
        BY <4>2
      <4>4. Wire(n) \in 0 .. Modulus - 1
        BY WireTyped, SerialsAssumption
      <4>. QED
        BY <4>1, <4>2, <4>3, <4>4
    <3>2. CASE ~(resize \/ restate)
      <4>1. conf' = conf /\ target' = target /\ asked' = 0 /\ signalled' = 1
        BY <2>1, <3>2 DEF Asked
      <4>. QED
        BY <1>0, <4>1 DEF XdgData
    <3>. QED
      BY <3>1, <3>2
  <2>. QED
    BY <1>3, <2>2 DEF Commit, XdgData, view
<1>4. ASSUME NEW t \in BOOLEAN, ApplyState(t)
      PROVE  XdgData'
  <2>1. Applied \in States
    <3>1. CASE alive
      BY <3>1 DEF Applied, XdgData
    <3>2. CASE ~alive
      <4>1. PICK w \in Int : w = current.w
        BY DEF XdgData, States
      <4>2. PICK m \in BOOLEAN : m = (committed.mapped /\ current.mapped)
        OBVIOUS
      <4>3. Applied = [committed EXCEPT !.w = w, !.mapped = m]
        BY <3>2, <4>1, <4>2 DEF Applied
      <4>. QED
        BY <4>3, StatesWith DEF XdgData
    <3>. QED
      BY <3>1, <3>2
  <2>2. shown' \in Widths \cup {0}
    BY <1>4 DEF ApplyState, ShownAfter, XdgData
  <2>. QED
    BY <1>4, <2>1, <2>2 DEF ApplyState, PendingAfter, XdgData, txvars
<1>5. CASE ApplyEnd
  BY <1>5 DEF ApplyEnd, XdgData, tlvars, history
<1>6. CASE InitialCommit
  <2>1. Scheduled.last <= MaxSerial
    BY <1>6 DEF InitialCommit, Scheduled, XdgData, Confs
  <2>2. PICK c \in Confs : c = Scheduled
    BY <2>1, ScheduledTyped
  <2>3. conf' \in Confs
    BY <1>6, <2>2 DEF InitialCommit, Confs
  <2>. QED
    BY <1>6, <2>3 DEF InitialCommit, XdgData, tlvars, txvars, view, history
<1>7. ASSUME NEW w \in Widths \cup {0}, NEW s \in 1 .. MaxSerial, ClientCommit(w, s)
      PROVE  XdgData'
  <2>1. pending' \in States /\ anchor' \in Int /\ queued' \in {"no", "own", "shared"}
    <3>1. CASE StartMap(w)
      <4>1. PICK x \in Int : x = IF pending.full THEN 0 ELSE pending.x
        BY DEF XdgData, States
      <4>2. w + pending.margin \in Int /\ OutputWidth \in Int
        BY DEF XdgData, States
      <4>3. PICK n \in Int : n = IF pending.full \/ w + pending.margin > OutputWidth
                                 THEN OutputWidth ELSE w + pending.margin
        BY <4>2
      <4>4. pending' = [pending EXCEPT !.mapped = TRUE, !.x = x, !.w = n]
        BY <3>1, <4>1, <4>3 DEF StartMap
      <4>5. PICK p \in States : p = pending'
        BY <4>4, StatesWith DEF XdgData
      <4>6. anchor' = Edge(p)
        BY <3>1, <4>5 DEF StartMap, Edge
      <4>. QED
        BY <3>1, <4>5, <4>6, EdgeTyped DEF StartMap, Enqueue, XdgData
    <3>2. CASE StartUnmap
      <4>1. pending' \in States
        BY <3>2, StatesWith DEF StartUnmap, XdgData
      <4>. QED
        BY <3>2, <4>1 DEF StartUnmap, Enqueue, XdgData
    <3>3. CASE UNCHANGED <<pending, queued, selfRef, anchor>>
      BY <3>3 DEF XdgData
    <3>. QED
      BY <1>7, <3>1, <3>2, <3>3 DEF ClientCommit
  <2>2. conf' \in Confs
    <3>1. PICK sent : sent = {n \in conf.sent : n > s}
      OBVIOUS
    <3>2. sent \in SUBSET (1 .. MaxSerial)
      BY <1>0, <3>1 DEF Confs
    <3>3. [conf EXCEPT !.sent = {}, !.scheduled = 0, !.initialized = FALSE] \in Confs
      BY <1>0, ConfsWith
    <3>4. [conf EXCEPT !.sent = sent] \in Confs
      BY <1>0, <3>2, ConfsWith
    <3>5. \/ conf' = [conf EXCEPT !.sent = sent]
          \/ conf' = [conf EXCEPT !.sent = {}, !.scheduled = 0, !.initialized = FALSE]
      BY <1>7, <3>1 DEF ClientCommit
    <3>. QED
      BY <3>3, <3>4, <3>5
  <2>3. handler' \in {"mapping", "commit"}
    BY <1>7 DEF ClientCommit
  <2>4. surf' \in [w: Widths \cup {0}, serial: 0 .. MaxSerial]
    BY <1>7 DEF ClientCommit
  <2>. QED
    BY <1>7, <2>1, <2>2, <2>3, <2>4 DEF ClientCommit, XdgData
<1>8. CASE Destroy
  <2>1. pending' \in States
    BY <1>8, StatesWith DEF Destroy, StartUnmap, XdgData
  <2>2. anchor' \in Int /\ queued' \in {"no", "own", "shared"}
    BY <1>8 DEF Destroy, StartUnmap, Enqueue, XdgData
  <2>. QED
    BY <1>8, <2>1, <2>2 DEF Destroy, XdgData
<1>9. CASE HandleSurfaceCommit
  <2>1. surf.w + committed.margin \in Int /\ surf.w + current.margin \in Int
    BY XdgInts
  <2>2. /\ pending' \in States /\ committed' \in States
        /\ queued' \in {"no", "own", "shared"} /\ shown' \in Widths \cup {0}
        /\ signalled' \in Nat
    <3>1. CASE HandleCommitted
      <4>1. Accepted \in States
        BY <2>1, Gravity DEF Accepted, XdgData
      <4>2. committed' \in States
        BY <3>1, <4>1 DEF HandleCommitted, XdgData
      <4>3. signalled' \in Nat
        BY <3>1 DEF HandleCommitted, EmitReady, XdgData
      <4>. QED
        BY <3>1, <4>2, <4>3 DEF HandleCommitted, XdgData
    <3>2. CASE HandlePending
      BY <3>2 DEF HandlePending, XdgData
    <3>3. CASE HandleQuiet
      <4>1. PICK p \in States : p = AdjustForGravity(pending, surf.w + current.margin)
        BY <2>1, Gravity DEF XdgData
      <4>. QED
        BY <3>3, <4>1 DEF HandleQuiet, Enqueue, XdgData
    <3>. QED
      BY <1>9, <3>1, <3>2, <3>3 DEF HandleSurfaceCommit
  <2>. QED
    BY <1>9, <2>2 DEF HandleSurfaceCommit, XdgData, view
<1>10. CASE DestroyEnd
  <2>1. conf' \in Confs
    <3>1. {} \in SUBSET (1 .. MaxSerial)
      OBVIOUS
    <3>. QED
      BY <1>0, <1>10, <3>1, ConfsWith DEF DestroyEnd
  <2>2. signalled' \in Nat
    BY <1>10 DEF DestroyEnd, EmitReady, XdgData
  <2>. QED
    BY <1>10, <2>1, <2>2 DEF DestroyEnd, XdgData, history
<1>11. CASE UNCHANGED vars
  BY <1>11 DEF XdgData, vars, tlvars, txvars, view, history
<1>. QED
  BY <1>1, <1>2, <1>3, <1>4, <1>5, <1>6, <1>7, <1>8, <1>9, <1>10, <1>11
  DEF Next, Transaction, Client

(* A commit() that asks for nothing is ready at once.                      *)
LEMMA CommitAsks ==
  ASSUME XdgData, Serials, Commit
  PROVE  /\ \/ conf' = conf /\ asked' = 0 /\ armed' = FALSE /\ signalled' = 1
            \/ /\ conf' = Scheduled /\ asked' = Scheduled.scheduled /\ armed' = TRUE
               /\ target' = Wire(asked') /\ signalled' = 0
         /\ conf'.sent = conf.sent
<1>1. PICK resize, restate : Asked(resize, restate)
  BY DEF Commit
<1>2. CASE resize \/ restate
  <2>1. conf' = Scheduled /\ target' = Wire(conf'.scheduled) /\ asked' = conf'.scheduled
        /\ armed' = TRUE /\ signalled' = 0
    BY <1>1, <1>2 DEF Asked
  <2>2. Scheduled.sent = conf.sent
    BY <2>1, ScheduledTyped DEF Commit
  <2>. QED
    BY <2>1, <2>2
<1>3. CASE ~(resize \/ restate)
  BY <1>1, <1>3 DEF Asked
<1>. QED
  BY <1>2, <1>3

(* A configure that is scheduled has a serial newer than all others.       *)
LEMMA SerialsScheduled ==
  ASSUME XdgData, Serials, Scheduled.last <= MaxSerial, NEW c \in Confs,
         c.last = Scheduled.last, c.scheduled = Scheduled.scheduled, c.sent = Scheduled.sent,
         conf' = c, surf' = surf
  PROVE  Serials'
<1>1. conf \in Confs /\ surf.serial \in Nat
  BY XdgInts DEF XdgData
<1>2. c.sent = conf.sent /\ IF conf.scheduled # 0
                           THEN c.last = conf.last /\ c.scheduled = conf.scheduled
                           ELSE c.last = conf.last + 1 /\ c.scheduled = conf.last + 1
  BY ScheduledTyped
<1>. QED
  BY <1>1, <1>2, SerialsAssumption DEF Serials, Confs

(* Every step keeps the order of the serials.                              *)
LEMMA SerialsKept ==
  ASSUME XdgData, Serials, [Next]_vars
  PROVE  Serials'
<1>0. conf \in Confs /\ surf.serial \in Nat
  BY XdgInts DEF XdgData
<1>1. CASE SendConfigure
  <2>1. PICK sent : sent = conf.sent \cup {conf.scheduled}
    OBVIOUS
  <2>2. conf' = [conf EXCEPT !.sent = sent, !.scheduled = 0] /\ surf' = surf
    BY <1>1, <2>1 DEF SendConfigure
  <2>3. conf'.sent = sent /\ conf'.scheduled = 0 /\ conf'.last = conf.last
    BY <1>0, <2>2 DEF Confs
  <2>. QED
    BY <1>0, <1>1, <2>1, <2>2, <2>3 DEF SendConfigure, Serials, Confs
<1>2. CASE Commit
  <2>1. surf' = surf /\ conf'.last <= MaxSerial
    BY <1>2 DEF Commit
  <2>2. CASE conf' = conf
    BY <2>1, <2>2 DEF Serials
  <2>3. CASE conf' = Scheduled
    BY <2>1, <2>3, ScheduledTyped, SerialsScheduled
  <2>. QED
    BY <1>2, <2>2, <2>3, CommitAsks
<1>3. CASE InitialCommit
  <2>1. Scheduled.last <= MaxSerial
    BY <1>3, SerialsAssumption DEF InitialCommit, Scheduled, XdgData, Confs
  <2>2. PICK c \in Confs : c = Scheduled
    BY <2>1, ScheduledTyped
  <2>3. PICK d \in Confs : d = [c EXCEPT !.initialized = TRUE]
    BY DEF Confs
  <2>4. d.last = Scheduled.last /\ d.scheduled = Scheduled.scheduled /\ d.sent = Scheduled.sent
    BY <2>2, <2>3 DEF Confs
  <2>5. conf' = d /\ surf' = surf
    BY <1>3, <2>2, <2>3 DEF InitialCommit
  <2>. QED
    BY <2>1, <2>4, <2>5, SerialsScheduled
<1>4. ASSUME NEW w \in Widths \cup {0}, NEW s \in 1 .. MaxSerial, ClientCommit(w, s)
      PROVE  Serials'
  <2>1. s \in conf.sent \/ s = surf.serial
    BY <1>4 DEF ClientCommit
  <2>2. surf'.serial = s
    BY <1>4 DEF ClientCommit
  <2>3. PICK sent : sent = {n \in conf.sent : n > s}
    OBVIOUS
  <2>4. \/ conf' = [conf EXCEPT !.sent = sent]
        \/ conf' = [conf EXCEPT !.sent = {}, !.scheduled = 0, !.initialized = FALSE]
    BY <1>4, <2>3 DEF ClientCommit
  <2>5. /\ conf'.last = conf.last
        /\ \/ conf'.sent = sent /\ conf'.scheduled = conf.scheduled
           \/ conf'.sent = {} /\ conf'.scheduled = 0
    BY <1>0, <2>4 DEF Confs
  <2>6. s <= conf.last /\ (conf.scheduled # 0 => conf.scheduled > s)
    BY <1>0, <2>1 DEF Serials, Confs
  <2>. QED
    BY <1>0, <2>2, <2>3, <2>5, <2>6 DEF Serials, Confs
<1>5. CASE Destroy
  <2>1. surf'.serial = surf.serial /\ conf' = conf
    BY <1>5 DEF Destroy, XdgData
  <2>. QED
    BY <2>1 DEF Serials
<1>6. CASE DestroyEnd
  <2>1. surf' = surf /\ conf'.sent = {} /\ conf'.scheduled = 0 /\ conf'.last = conf.last
    BY <1>0, <1>6 DEF DestroyEnd, Confs
  <2>. QED
    BY <1>0, <2>1 DEF Serials, Confs
<1>7. CASE UNCHANGED <<surf, conf>>
  BY <1>7 DEF Serials
<1>. QED
  BY <1>1, <1>2, <1>3, <1>4, <1>5, <1>6, <1>7
  DEF Next, Transaction, Client, PluginRequest, ApplyState, ApplyEnd, HandleSurfaceCommit, vars

(* Every step keeps what is known of the answer that is waited for.        *)
LEMMA AnswersKept ==
  ASSUME XdgData, XdgFlags, Serials, Answers, [Next]_vars
  PROVE  Answers'
<1>0. conf \in Confs /\ surf.serial \in Nat /\ signalled \in Nat
  BY XdgInts DEF XdgData
<1>1. CASE Commit
  <2>1. CASE asked' = 0 /\ armed' = FALSE /\ signalled' = 1
    BY <1>0, <1>1, <2>1 DEF Answers, Commit
  <2>2. CASE armed' = TRUE /\ target' = Wire(asked') /\ signalled' = 0
    BY <2>2 DEF Answers, Wire
  <2>. QED
    BY <1>1, <2>1, <2>2, CommitAsks
<1>2. CASE ApplyEnd
  BY <1>2 DEF ApplyEnd, Answers
<1>3. ASSUME NEW w \in Widths \cup {0}, NEW s \in 1 .. MaxSerial, ClientCommit(w, s)
      PROVE  Answers'
  <2>1. surf'.serial = s /\ s >= surf.serial
    BY <1>0, <1>3 DEF ClientCommit, Serials
  <2>2. UNCHANGED <<running, signalled, armed, target, asked, alive>>
    BY <1>3 DEF ClientCommit
  <2>3. asked \in Nat
    BY SerialsAssumption DEF XdgData
  <2>. QED
    BY <1>0, <2>1, <2>2, <2>3 DEF Answers, Wire
<1>4. CASE Destroy
  <2>1. surf'.serial = surf.serial
    BY <1>4 DEF Destroy, XdgData
  <2>2. UNCHANGED <<running, signalled, armed, target, asked, alive>>
    BY <1>4 DEF Destroy
  <2>. QED
    BY <2>1, <2>2 DEF Answers, Wire
<1>5. CASE HandleSurfaceCommit
  <2>1. UNCHANGED <<surf, target, asked, alive, running>>
    BY <1>5 DEF HandleSurfaceCommit
  <2>2. CASE UNCHANGED <<armed, signalled>>
    BY <2>1, <2>2 DEF Answers, Wire
  <2>3. CASE running /\ ~(Wire(surf.serial) < target) /\ EmitReady /\ armed
    <3>1. ASSUME NoWrap PROVE surf.serial >= asked
      <4>1. PICK a \in 0 .. MaxSerial, b \in 0 .. MaxSerial : a = asked /\ b = surf.serial
        BY DEF XdgData
      <4>2. Wire(a) = a /\ Wire(b) = b
        BY <3>1, WireIs
      <4>3. target = Wire(asked)
        BY <2>3 DEF Answers
      <4>. QED
        BY <2>3, <4>1, <4>2, <4>3, SerialsAssumption
    <3>2. armed' = FALSE /\ signalled' = 1
      BY <2>3 DEF EmitReady, Answers
    <3>. QED
      BY <2>1, <3>1, <3>2 DEF Answers
  <2>4. CASE EmitReady /\ ~armed
    <3>1. armed' = FALSE /\ signalled' = signalled
      BY <2>4 DEF EmitReady
    <3>. QED
      BY <2>1, <3>1 DEF Answers
  <2>. QED
    BY <1>5, <2>2, <2>3, <2>4 DEF HandleSurfaceCommit, HandleCommitted, HandlePending, HandleQuiet
<1>6. CASE DestroyEnd
  <2>1. alive' = FALSE /\ running' = running /\ armed' = FALSE
        /\ signalled' = IF armed THEN signalled + 1 ELSE signalled
    BY <1>6 DEF DestroyEnd, EmitReady
  <2>. QED
    BY <1>0, <2>1 DEF Answers
<1>7. CASE UNCHANGED <<running, signalled, armed, target, asked, alive, surf>>
  BY <1>7 DEF Answers, Wire
<1>. QED
  BY <1>1, <1>2, <1>3, <1>4, <1>5, <1>6, <1>7
  DEF Next, Transaction, Client, SendConfigure, PluginRequest, ApplyState, InitialCommit,
      vars, tlvars, txvars, history

(* What apply() makes current is what was committed, but for its size.     *)
LEMMA AppliedIs ==
  ASSUME XdgData, XdgFlags, Mapped
  PROVE  /\ Applied \in States
         /\ alive => Applied = committed
         /\ ~alive => /\ Applied.mapped <=> committed.mapped /\ current.mapped
                      /\ Applied.x = committed.x
<1>1. CASE alive
  BY <1>1 DEF Applied, XdgData
<1>2. CASE ~alive
  <2>1. PICK w \in Int : w = current.w
    BY DEF XdgData, States
  <2>2. PICK m \in BOOLEAN : m <=> committed.mapped /\ current.mapped
    OBVIOUS
  <2>3. Applied = [committed EXCEPT !.w = w, !.mapped = m]
    BY <1>2, <2>1, <2>2 DEF Applied, XdgData, States
  <2>4. Applied \in States
    BY <2>3, StatesWith DEF XdgData
  <2>5. Applied.mapped = m /\ Applied.x = committed.x
    BY <2>3 DEF XdgData, States
  <2>. QED
    BY <1>2, <2>2, <2>4, <2>5
<1>. QED
  BY <1>1, <1>2

(* What a client that has drawn another size makes of a state.             *)
LEMMA Redrawn ==
  ASSUME XdgData
  PROVE  /\ Accepted \in States /\ Accepted.mapped = committed.mapped
         /\ Edge(Accepted) = Edge(committed) /\ Shrunk(Accepted) = surf.w
         /\ AdjustForGravity(pending, surf.w + current.margin) \in States
         /\ AdjustForGravity(pending, surf.w + current.margin).mapped = pending.mapped
         /\ Edge(AdjustForGravity(pending, surf.w + current.margin)) = Edge(pending)
         /\ pending.margin = current.margin
              => Shrunk(AdjustForGravity(pending, surf.w + current.margin)) = surf.w
<1>0. pending \in States /\ committed \in States /\ current \in States /\ surf.w \in Nat
  BY XdgInts DEF XdgData
<1>1. PICK n \in Int : n = surf.w + committed.margin
  BY <1>0 DEF States
<1>2. PICK m \in Int : m = surf.w + current.margin
  BY <1>0 DEF States
<1>3. PICK r \in States : r = AdjustForGravity(committed, n)
  BY <1>0, Gravity
<1>4. r.w = n /\ r.mapped = committed.mapped /\ r.margin = committed.margin
      /\ Edge(r) = Edge(committed)
  BY <1>0, <1>3, Gravity
<1>5. Accepted = r
  BY <1>1, <1>3 DEF Accepted
<1>6. PICK p \in States : p = AdjustForGravity(pending, m)
  BY <1>0, Gravity
<1>7. p.w = m /\ p.mapped = pending.mapped /\ p.margin = pending.margin
      /\ Edge(p) = Edge(pending)
  BY <1>0, <1>6, Gravity
<1>8. Shrunk(r) = surf.w
  BY <1>0, <1>1, <1>4 DEF Shrunk, States
<1>9. pending.margin = current.margin => Shrunk(p) = surf.w
  BY <1>0, <1>2, <1>7 DEF Shrunk, States
<1>. QED
  BY <1>2, <1>4, <1>5, <1>6, <1>7, <1>8, <1>9

(* Every step keeps what is mapped in each of the three states.            *)
LEMMA MappedKept ==
  ASSUME XdgData, XdgFlags, Mapped, [Next]_vars
  PROVE  Mapped'
<1>0. /\ pending \in States /\ committed \in States /\ current \in States
      /\ surf.w \in Nat
  BY XdgInts DEF XdgData
<1>1. ASSUME NEW r \in Requests, NEW group \in {"own", "shared"}, PluginRequest(r, group)
      PROVE  Mapped'
  <2>1. pending'.mapped = pending.mapped /\ queued' # "no"
    BY <1>0, <1>1 DEF PluginRequest, States
  <2>2. UNCHANGED <<committed, current, alive, surf, running, handler, applying, view>>
    BY <1>1 DEF PluginRequest
  <2>. QED
    BY <2>1, <2>2 DEF Mapped, IsPending, view
<1>2. CASE Commit
  <2>1. UNCHANGED <<pending, current, alive, surf, handler, applying, view>>
        /\ committed' = pending /\ running' = TRUE /\ queued' = "no" /\ ~applying
    BY <1>2 DEF Commit, Mapped
  <2>. QED
    BY <2>1 DEF Mapped, IsPending, view
<1>3. ASSUME NEW t \in BOOLEAN, ApplyState(t)
      PROVE  Mapped'
  <2>1. PICK s \in States : s = Applied
    BY AppliedIs
  <2>2. /\ running /\ ~applying /\ applying' = TRUE
        /\ committed' = s /\ current' = s
        /\ pending' = IF IsPending THEN pending ELSE s
        /\ viewMapped' = IF ViewAlive /\ s.mapped # current.mapped THEN s.mapped ELSE viewMapped
        /\ UNCHANGED <<alive, surf, queued, running, handler, controller, selfRef>>
    BY <1>3, <2>1 DEF ApplyState, PendingAfter, txvars
  <2>3. /\ alive => s = committed
        /\ ~alive => (s.mapped <=> committed.mapped /\ current.mapped)
    BY <2>1, AppliedIs
  <2>4. s.mapped => committed.mapped
    BY <2>3
  <2>5. ViewAlive \/ s.mapped = current.mapped
    BY <1>0, <2>1, <2>3 DEF ViewAlive, Mapped, States
  <2>6. viewMapped' = s.mapped
    BY <2>2, <2>5 DEF Mapped
  <2>7. ~IsPending => (s.mapped <=> surf.w # 0)
    BY <2>2, <2>3 DEF Mapped
  <2>8. (pending'.mapped <=> surf.w # 0) /\ (~IsPending => pending' = s)
    BY <2>2, <2>7 DEF Mapped
  <2>9. s.mapped /\ ~pending'.mapped => selfRef
    BY <2>2, <2>4, <2>8 DEF Mapped
  <2>. QED
    BY <2>2, <2>6, <2>8, <2>9 DEF Mapped, IsPending
<1>4. CASE ApplyEnd
  <2>1. /\ applying /\ applying' = FALSE /\ running' = FALSE
        /\ selfRef' = (selfRef /\ IsPending)
        /\ UNCHANGED <<pending, committed, current, alive, surf, queued, handler, controller,
                       viewMapped>>
    BY <1>4 DEF ApplyEnd, tlvars
  <2>2. ~IsPending => pending = current
    BY <2>1 DEF Mapped
  <2>3. viewMapped /\ ~pending.mapped => selfRef /\ IsPending
    BY <2>2 DEF Mapped
  <2>. QED
    BY <2>1, <2>2, <2>3 DEF Mapped, IsPending
<1>5. ASSUME NEW w \in Widths \cup {0}, NEW s \in 1 .. MaxSerial, ClientCommit(w, s)
      PROVE  Mapped'
  <2>1. /\ alive /\ ~applying /\ handler = "none" /\ handler' \in {"mapping", "commit"}
        /\ surf'.w = w
        /\ UNCHANGED <<committed, current, alive, running, applying, controller, viewMapped>>
    BY <1>5 DEF ClientCommit, InEventLoop
  <2>2. CASE StartMap(w) /\ w # 0
    <3>1. pending'.mapped = TRUE /\ queued' # "no" /\ selfRef' = selfRef
      BY <1>0, <2>2 DEF StartMap, Enqueue, States, IsPending
    <3>. QED
      BY <2>1, <2>2, <3>1 DEF Mapped, IsPending
  <2>3. CASE StartUnmap /\ w = 0
    <3>1. pending'.mapped = FALSE /\ queued' # "no" /\ selfRef' = TRUE
      BY <1>0, <2>3 DEF StartUnmap, Enqueue, States, IsPending
    <3>. QED
      BY <2>1, <2>3, <3>1 DEF Mapped, IsPending
  <2>4. CASE UNCHANGED <<pending, queued, selfRef, anchor>> /\ ((surf.w = 0) <=> (w = 0))
    BY <2>1, <2>4 DEF Mapped, IsPending
  <2>. QED
    BY <1>5, <2>2, <2>3, <2>4 DEF ClientCommit
<1>6. CASE Destroy
  <2>1. /\ alive /\ ~applying /\ handler = "none" /\ handler' = "destroy" /\ surf'.w = 0
        /\ UNCHANGED <<committed, current, alive, running, applying, controller, viewMapped>>
    BY <1>6 DEF Destroy, InEventLoop, XdgData
  <2>2. CASE StartUnmap
    <3>1. pending'.mapped = FALSE /\ queued' # "no" /\ selfRef' = TRUE
      BY <1>0, <2>2 DEF StartUnmap, Enqueue, States, IsPending
    <3>. QED
      BY <2>1, <3>1 DEF Mapped, IsPending
  <2>3. CASE UNCHANGED <<pending, queued, selfRef, anchor>> /\ surf.w = 0
    BY <2>1, <2>3 DEF Mapped, IsPending
  <2>. QED
    BY <1>6, <2>2, <2>3 DEF Destroy
<1>7. CASE HandleSurfaceCommit
  <2>0. /\ handler' = "none" /\ ~applying
        /\ UNCHANGED <<current, alive, surf, running, applying, view>>
    BY <1>7 DEF HandleSurfaceCommit
  <2>1. CASE HandleCommitted
    <3>1. UNCHANGED <<pending, queued>> /\ committed'.mapped = committed.mapped
      <4>1. Accepted.mapped = committed.mapped
        BY Redrawn
      <4>. QED
        BY <2>1, <4>1 DEF HandleCommitted
    <3>2. running
      BY <2>1 DEF HandleCommitted
    <3>. QED
      BY <2>0, <3>1, <3>2 DEF Mapped, IsPending, view
  <2>2. CASE HandlePending
    BY <2>0, <2>2 DEF HandlePending, Mapped, IsPending, view
  <2>3. CASE HandleQuiet
    <3>1. committed' = committed /\ ~running
      BY <2>3 DEF HandleQuiet
    <3>2. CASE UNCHANGED <<pending, queued>>
      BY <2>0, <3>1, <3>2 DEF Mapped, IsPending, view
    <3>3. CASE pending' = AdjustForGravity(pending, surf.w + current.margin) /\ Enqueue
      <4>1. pending'.mapped = pending.mapped
        BY <3>3, Redrawn
      <4>2. queued' # "no"
        BY <3>3 DEF Enqueue, IsPending
      <4>. QED
        BY <2>0, <3>1, <4>1, <4>2 DEF Mapped, IsPending, view
    <3>. QED
      BY <2>3, <3>2, <3>3 DEF HandleQuiet
  <2>. QED
    BY <1>7, <2>1, <2>2, <2>3 DEF HandleSurfaceCommit
<1>8. CASE DestroyEnd
  <2>1. /\ handler = "destroy" /\ handler' = "none" /\ ~applying
        /\ alive' = FALSE /\ controller' = FALSE
        /\ UNCHANGED <<pending, committed, current, surf, queued, running, applying, selfRef,
                       viewMapped>>
    BY <1>8 DEF DestroyEnd
  <2>. QED
    BY <2>1 DEF Mapped, IsPending
<1>9. CASE UNCHANGED <<tlvars, surf, txvars, handler, applying, view>>
  BY <1>9 DEF Mapped, IsPending, tlvars, txvars, view
<1>. QED
  BY <1>1, <1>2, <1>3, <1>4, <1>5, <1>6, <1>7, <1>8, <1>9
  DEF Next, Transaction, Client, SendConfigure, InitialCommit, vars

(* Every step keeps the anchored edge where it was placed.                 *)
LEMMA EdgesKept ==
  ASSUME XdgData, XdgFlags, Mapped, Edges, [Next]_vars
  PROVE  Edges'
<1>0. /\ pending \in States /\ committed \in States /\ current \in States
      /\ surf.w \in Nat
  BY XdgInts DEF XdgData
<1>1. ASSUME NEW r \in Requests, NEW group \in {"own", "shared"}, PluginRequest(r, group)
      PROVE  Edges'
  <2>1. anchor' = Edge(pending') /\ queued' # "no"
    BY <1>1 DEF PluginRequest, Edge
  <2>. QED
    BY <2>1 DEF Edges, IsPending, Edge
<1>2. CASE Commit
  BY <1>2 DEF Commit, Edges, Edge
<1>3. ASSUME NEW t \in BOOLEAN, ApplyState(t)
      PROVE  Edges'
  <2>1. CASE alive
    <3>1. Applied = committed
      BY <2>1, AppliedIs
    <3>2. /\ running /\ committed' = committed
          /\ pending' = IF IsPending THEN pending ELSE committed
          /\ UNCHANGED <<alive, queued, running, anchor>>
      BY <1>3, <3>1 DEF ApplyState, PendingAfter, txvars
    <3>. QED
      BY <2>1, <3>2 DEF Edges, IsPending, Edge
  <2>2. CASE ~alive
    BY <1>3, <2>2 DEF ApplyState, Edges
  <2>. QED
    BY <2>1, <2>2
<1>4. CASE ApplyEnd
  BY <1>4 DEF ApplyEnd, Edges, Edge, tlvars, history
<1>5. ASSUME NEW w \in Widths \cup {0}, NEW s \in 1 .. MaxSerial, ClientCommit(w, s)
      PROVE  Edges'
  <2>1. UNCHANGED <<committed, alive, running>>
    BY <1>5 DEF ClientCommit
  <2>2. CASE StartMap(w)
    <3>1. anchor' = Edge(pending') /\ queued' # "no"
      BY <2>2 DEF StartMap, Edge, Enqueue, IsPending
    <3>. QED
      BY <3>1 DEF Edges, IsPending, Edge
  <2>3. CASE StartUnmap
    <3>1. Edge(pending)' = Edge(pending) /\ anchor' = anchor /\ queued' # "no"
      BY <1>0, <2>3 DEF StartUnmap, Edge, Enqueue, IsPending, States
    <3>. QED
      BY <2>1, <3>1 DEF Edges, IsPending
  <2>4. CASE UNCHANGED <<pending, queued, selfRef, anchor>>
    BY <2>1, <2>4 DEF Edges, IsPending, Edge
  <2>. QED
    BY <1>5, <2>2, <2>3, <2>4 DEF ClientCommit
<1>6. CASE Destroy
  <2>1. UNCHANGED <<committed, alive, running>>
    BY <1>6 DEF Destroy
  <2>2. CASE StartUnmap
    <3>1. Edge(pending)' = Edge(pending) /\ anchor' = anchor /\ queued' # "no"
      BY <1>0, <2>2 DEF StartUnmap, Edge, Enqueue, IsPending, States
    <3>. QED
      BY <2>1, <3>1 DEF Edges, IsPending
  <2>3. CASE UNCHANGED <<pending, queued, selfRef, anchor>>
    BY <2>1, <2>3 DEF Edges, IsPending, Edge
  <2>. QED
    BY <1>6, <2>2, <2>3 DEF Destroy
<1>7. CASE HandleSurfaceCommit
  <2>0. UNCHANGED <<alive, running, anchor>>
    BY <1>7 DEF HandleSurfaceCommit
  <2>1. CASE HandleCommitted
    <3>1. UNCHANGED <<pending, queued>>
      BY <2>1 DEF HandleCommitted
    <3>2. committed' = committed \/ committed' = Accepted
      BY <2>1 DEF HandleCommitted
    <3>3. Edge(Accepted) = Edge(committed)
      BY Redrawn
    <3>4. Edge(committed)' = Edge(committed)
      BY <3>2, <3>3 DEF Edge
    <3>. QED
      BY <2>0, <3>1, <3>4 DEF Edges, IsPending, Edge
  <2>2. CASE HandlePending
    BY <2>0, <2>2 DEF HandlePending, Edges, IsPending, Edge
  <2>3. CASE HandleQuiet
    <3>1. committed' = committed /\ ~running
      BY <2>3 DEF HandleQuiet
    <3>2. CASE UNCHANGED <<pending, queued>>
      BY <2>0, <3>1, <3>2 DEF Edges, IsPending, Edge
    <3>3. CASE pending' = AdjustForGravity(pending, surf.w + current.margin)
      <4>1. Edge(AdjustForGravity(pending, surf.w + current.margin)) = Edge(pending)
        BY Redrawn
      <4>2. Edge(pending)' = Edge(pending)
        BY <3>3, <4>1 DEF Edge
      <4>. QED
        BY <2>0, <3>1, <4>2 DEF Edges
    <3>. QED
      BY <2>3, <3>2, <3>3 DEF HandleQuiet
  <2>. QED
    BY <1>7, <2>1, <2>2, <2>3 DEF HandleSurfaceCommit
<1>8. CASE DestroyEnd
  BY <1>8 DEF DestroyEnd, Edges
<1>9. CASE UNCHANGED <<tlvars, txvars, anchor>>
  BY <1>9 DEF Edges, IsPending, Edge, tlvars, txvars
<1>. QED
  BY <1>1, <1>2, <1>3, <1>4, <1>5, <1>6, <1>7, <1>8, <1>9
  DEF Next, Transaction, Client, SendConfigure, InitialCommit, vars, history

(* Every step keeps the relation of the three states to the size that is   *)
(* drawn.                                                                  *)
LEMMA SizesKept ==
  ASSUME XdgData, XdgFlags, Serials, Answers, Mapped, Sizes, [Next]_vars
  PROVE  Sizes'
<1>0. /\ pending \in States /\ committed \in States /\ current \in States
      /\ surf.w \in Nat
  BY XdgInts DEF XdgData
<1>1. ASSUME NEW r \in Requests, NEW group \in {"own", "shared"}, PluginRequest(r, group)
      PROVE  Sizes'
  <2>1. /\ queued' # "no" /\ (InEventLoop \/ applying)
        /\ UNCHANGED <<committed, current, shown, alive, surf, running, signalled, handler,
                       applying, ignored, late>>
    BY <1>1 DEF PluginRequest
  <2>2. applying => running
    BY DEF Mapped
  <2>. QED
    BY <2>1, <2>2 DEF Sizes, Settled, Quiet, Due, IsPending, Shrunk, InEventLoop
<1>2. CASE Commit
  <2>1. /\ queued' = "no" /\ running' = TRUE /\ ~running /\ committed' = pending /\ ~applying
        /\ UNCHANGED <<pending, current, shown, alive, surf, handler, applying, ignored, late>>
    BY <1>2 DEF Commit, Mapped
  <2>2. ASSUME Settled, signalled' = 1, pending.mapped
        PROVE  Shrunk(pending) = surf.w
    <3>1. alive /\ (current.mapped \/ ~current.mapped)
      BY <2>2 DEF Settled
    <3>2. CASE ~current.mapped
      <4>1. Asked(surf.w # Shrunk(pending), current.full # pending.full)
        BY <1>2, <2>2, <3>1, <3>2 DEF Commit
      <4>. QED
        BY <2>2, <4>1 DEF Asked
    <3>3. CASE current.mapped
      <4>1. Asked(Shrunk(current) # Shrunk(pending), current.full # pending.full)
        BY <1>2, <2>2, <3>1, <3>3 DEF Commit
      <4>2. Shrunk(current) = Shrunk(pending)
        BY <2>2, <4>1 DEF Asked
      <4>. QED
        BY <2>1, <2>2, <3>3, <4>2 DEF Sizes
    <3>. QED
      BY <3>2, <3>3
  <2>3. Settled' = Settled
    BY <2>1 DEF Settled
  <2>. QED
    BY <2>1, <2>2, <2>3 DEF Sizes, Quiet, Shrunk
<1>3. ASSUME NEW t \in BOOLEAN, ApplyState(t)
      PROVE  Sizes'
  <2>1. SUFFICES ASSUME Settled' PROVE Sizes'
    BY DEF Sizes
  <2>2. /\ running /\ ~applying /\ applying' = TRUE
        /\ current' = Applied
        /\ (IF t THEN signalled = 0 ELSE signalled > 0) /\ late' = (late \/ t)
        /\ UNCHANGED <<alive, surf, running, signalled, queued, handler, ignored>>
        /\ shown' = IF alive THEN surf.w ELSE shown
    BY <1>3 DEF ApplyState, ShownAfter, txvars
  <2>3. alive /\ ~t /\ Settled
    BY <2>1, <2>2 DEF Settled
  <2>4. current' = committed /\ shown' = surf.w
    BY <2>2, <2>3, AppliedIs
  <2>5. signalled = 1
    BY <2>2, <2>3 DEF Answers, XdgData
  <2>6. committed.mapped => Shrunk(committed) = surf.w
    BY <2>2, <2>3, <2>5 DEF Sizes
  <2>. QED
    BY <2>2, <2>4, <2>6 DEF Sizes, Quiet, Shrunk
<1>4. CASE ApplyEnd
  <2>1. /\ applying /\ applying' = FALSE /\ running' = FALSE
        /\ UNCHANGED <<tlvars, surf, queued, handler, signalled, history>>
    BY <1>4 DEF ApplyEnd
  <2>2. Settled' = Settled
    BY <2>1 DEF Settled, tlvars, history
  <2>3. Settled /\ current.mapped => Shrunk(current) = surf.w /\ shown = surf.w
    BY <2>1 DEF Sizes
  <2>. QED
    BY <2>1, <2>2, <2>3 DEF Sizes, Quiet, Shrunk, tlvars
<1>5. ASSUME NEW w \in Widths \cup {0}, NEW s \in 1 .. MaxSerial, ClientCommit(w, s)
      PROVE  Sizes'
  <2>1. handler' \in {"mapping", "commit"}
    BY <1>5 DEF ClientCommit
  <2>. QED
    BY <2>1 DEF Sizes, Settled
<1>6. CASE Destroy
  BY <1>6 DEF Destroy, Sizes, Settled
<1>7. CASE HandleSurfaceCommit
  <2>1. SUFFICES ASSUME Settled' PROVE Sizes'
    BY DEF Sizes
  <2>2. ~applying /\ UNCHANGED <<current, alive, surf, running, applying>>
    BY <1>7 DEF HandleSurfaceCommit
  <2>3. ~ignored'
    BY <2>1 DEF Settled
  <2>4. CASE HandleCommitted
    <3>1. running /\ committed' = Accepted
      BY <2>3, <2>4 DEF HandleCommitted
    <3>2. Shrunk(committed)' = surf.w
      BY <3>1, Redrawn DEF Shrunk
    <3>. QED
      BY <2>2, <3>1, <3>2 DEF Sizes, Quiet, Shrunk
  <2>5. CASE HandlePending
    <3>1. ~running /\ IsPending /\ queued' = queued /\ surf.w = Shrunk(current)
      BY <2>3, <2>5 DEF HandlePending
    <3>. QED
      BY <2>2, <3>1 DEF Sizes, Quiet, Shrunk, IsPending
  <2>6. CASE HandleQuiet
    <3>1. ~running /\ pending = current
      BY <2>6 DEF HandleQuiet, Mapped
    <3>2. CASE /\ surf.w + current.margin = current.w \/ ~current.mapped
               /\ shown' = surf.w /\ UNCHANGED <<pending, queued>>
      <4>1. current.mapped => surf.w = Shrunk(current)
        BY <1>0, <3>2 DEF Shrunk, States
      <4>. QED
        BY <2>2, <3>1, <3>2, <4>1 DEF Sizes, Shrunk
    <3>3. CASE pending' = AdjustForGravity(pending, surf.w + current.margin) /\ Enqueue
      <4>1. Shrunk(pending)' = surf.w
        BY <3>1, <3>3, Redrawn DEF Shrunk
      <4>2. queued' = "own"
        BY <2>6, <3>3 DEF HandleQuiet, Enqueue
      <4>. QED
        BY <2>2, <3>1, <4>1, <4>2 DEF Sizes, Due, Quiet, IsPending, Shrunk
    <3>. QED
      BY <2>6, <3>2, <3>3 DEF HandleQuiet
  <2>. QED
    BY <1>7, <2>4, <2>5, <2>6 DEF HandleSurfaceCommit
<1>8. CASE DestroyEnd
  BY <1>8 DEF DestroyEnd, Sizes, Settled
<1>9. CASE UNCHANGED <<tlvars, surf, txvars, handler, applying, ignored, late>>
  BY <1>9 DEF Sizes, Settled, Quiet, Due, IsPending, Shrunk, tlvars, txvars
<1>. QED
  BY <1>1, <1>2, <1>3, <1>4, <1>5, <1>6, <1>7, <1>8, <1>9
  DEF Next, Transaction, Client, SendConfigure, InitialCommit, vars, history

(* The invariant holds of a new toplevel.                                  *)
LEMMA XdgStarts ==
  ASSUME Init
  PROVE  XdgInv
<1>1. NewState \in States
  BY DEF NewState, States
<1>2. TypeOK
  <2>1. 0 \in 0 .. MaxSerial /\ 0 \in 0 .. Modulus - 1 /\ {} \in SUBSET (1 .. MaxSerial)
    BY SerialsAssumption
  <2>2. XdgFlags
    BY DEF Init, XdgFlags
  <2>3. conf \in Confs /\ surf \in [w: Widths \cup {0}, serial: 0 .. MaxSerial]
    BY <2>1 DEF Init, Confs
  <2>4. XdgData
    BY <1>1, <2>1, <2>3 DEF Init, XdgData
  <2>. QED
    BY <2>2, <2>4, XdgTypes
<1>3. Serials /\ Answers
  BY SerialsAssumption DEF Init, Serials, Answers
<1>4. Mapped /\ Edges /\ Sizes
  BY DEF Init, NewState, Mapped, Edges, Edge, Sizes, Settled, IsPending
<1>. QED
  BY <1>2, <1>3, <1>4 DEF XdgInv

(* Every step keeps the invariant.                                         *)
LEMMA XdgMoves ==
  ASSUME XdgInv, [Next]_vars
  PROVE  XdgInv'
<1>1. XdgData /\ XdgFlags
  BY XdgTypes DEF XdgInv
<1>2. XdgData' /\ XdgFlags'
  BY <1>1, XdgDataTyped, XdgFlagsTyped
<1>3. TypeOK'
  BY <1>2 DEF TypeOK, XdgData, XdgFlags, Confs
<1>. QED
  BY <1>1, <1>3, SerialsKept, AnswersKept, MappedKept, EdgesKept, SizesKept DEF XdgInv

(* What the run checks follows between transactions.                       *)
LEMMA XdgRight ==
  ASSUME XdgInv
  PROVE  (NoWrap => ReadyMeansAnswered) /\ MapFollowsSurface /\ NoMappedViewFreed /\ ShownAsPlaced
<1>1. NoWrap => ReadyMeansAnswered
  BY DEF XdgInv, Answers, ReadyMeansAnswered
<1>2. MapFollowsSurface
  <2>1. SUFFICES ASSUME Quiet PROVE viewMapped = (alive /\ surf.w # 0)
    BY DEF MapFollowsSurface
  <2>2. pending = current /\ viewMapped = current.mapped
    BY <2>1 DEF XdgInv, Mapped, Quiet
  <2>3. viewMapped <=> alive /\ surf.w # 0
    BY <2>2 DEF XdgInv, Mapped
  <2>4. viewMapped \in BOOLEAN
    BY DEF XdgInv, TypeOK
  <2>. QED
    BY <2>3, <2>4
<1>3. NoMappedViewFreed
  BY DEF XdgInv, Mapped, ViewAlive, NoMappedViewFreed
<1>4. Anchored
  BY DEF XdgInv, Mapped, Edges, Quiet, Anchored
<1>5. GeometryShown
  <2>1. SUFFICES ASSUME Quiet, alive, current.mapped, ~ignored, ~late
                 PROVE  current.w = surf.w + current.margin /\ shown = surf.w
    BY DEF GeometryShown
  <2>2. surf.w # 0 /\ ~running /\ ~Due
    BY <2>1 DEF XdgInv, Mapped, Quiet, Due, IsPending
  <2>3. surf.w = Shrunk(current) /\ shown = surf.w
    BY <2>1, <2>2 DEF XdgInv, Sizes, Settled, Quiet
  <2>4. surf.w \in Nat /\ current.w \in Int /\ current.margin \in Nat
    BY XdgTypes, XdgInts DEF XdgInv
  <2>. QED
    BY <2>3, <2>4 DEF Shrunk
<1>. QED
  BY <1>1, <1>2, <1>3, <1>4, <1>5 DEF ShownAsPlaced

(* The invariant of a Wayland toplevel holds in every state.               *)
LEMMA XdgAlways == SafetySpec => []XdgInv
<1>1. Init => XdgInv
  BY XdgStarts
<1>2. XdgInv /\ [Next]_vars => XdgInv'
  BY XdgMoves
<1>. QED
  BY <1>1, <1>2, PTL DEF SafetySpec

(* Between transactions a view is mapped exactly when its surface is, no   *)
(* view is freed before it was unmapped, and a toplevel is where it was    *)
(* put, in the size that its client drew.                                  *)
THEOREM ToplevelRight ==
  SafetySpec => [](MapFollowsSurface /\ NoMappedViewFreed /\ ShownAsPlaced)
<1>1. XdgInv => MapFollowsSurface /\ NoMappedViewFreed /\ ShownAsPlaced
  BY XdgRight
<1>. QED
  BY <1>1, XdgAlways, PTL

(* As long as serials do not wrap around, a toplevel is ready at most once *)
(* per commit(), and only when its client has answered.                    *)
THEOREM ReadyAnswered ==
  ASSUME NoWrap
  PROVE  SafetySpec => []ReadyMeansAnswered
<1>1. XdgInv => ReadyMeansAnswered
  BY XdgRight
<1>. QED
  BY <1>1, XdgAlways, PTL

-----------------------------------------------------------------------------
(* X11: xwayland-toplevel.cpp.                                             *)

(* Nothing waits, and what is current is what was applied last.            *)
XAtRest == xqueued = "no" /\ (xrunning = "no" \/ inApply)

(* Who holds the view, and what is mapped in each of the three states.     *)
XHeld ==
  /\ owned => lives
  /\ within \in {"destroy", "recreate"} => owned /\ ~xpending.mapped
  /\ inApply => xrunning # "no"
  /\ owned /\ within # "recreate" => (xpending.mapped <=> drawn # 0) /\ (node <=> drawn # 0)
  /\ xrunning # "no" /\ xqueued = "no" => (xcommitted.mapped <=> xpending.mapped)
  /\ XAtRest => (xcurrent.mapped <=> xpending.mapped)
  /\ xmapped => xcurrent.mapped
  /\ unmapLost <=> xcurrent.mapped /\ ~xmapped
  /\ xselfRef => xqueued # "no" \/ xrunning # "no"
  /\ ~owned /\ xmapped => xselfRef /\ ~xpending.mapped
  /\ ((xcommitted.mapped /\ xrunning # "no") \/ xmapped) /\ ~xpending.mapped => xselfRef

XShownNow == owned /\ drawn # 0 /\ within # "recreate"

(* The size that is current is the one that is drawn.                      *)
XSizes ==
  XAtRest /\ within # "commit" /\ XShownNow =>
    xcurrent.w = drawn + xcurrent.margin /\ seen = drawn

(* The edge that the window manager placed, in the state that counts.      *)
XEdges ==
  XShownNow =>
    /\ xqueued # "no" /\ (~unmapLost \/ (xrunning # "no" /\ ~inApply /\ ~xcommitted.mapped))
         => XEdge(xpending) = placed
    /\ xqueued = "no" /\ xrunning # "no" /\ ~unmapLost => XEdge(xcommitted) = placed
    /\ XAtRest /\ ~unmapLost =>
         /\ xpending = xcurrent /\ XEdge(xcurrent) = placed
         /\ told = [x |-> xcurrent.x + xcurrent.margin + offset, w |-> Inner(xcurrent)]

XwInv == XTypeOK /\ XHeld /\ XSizes /\ XEdges

-----------------------------------------------------------------------------
(* The X11 window.                                                         *)
XwData ==
  /\ xpending \in XStates /\ xcommitted \in XStates /\ xcurrent \in XStates
  /\ seen \in XWidths \cup {0} /\ drawn \in XWidths \cup {0}
  /\ offset \in Offsets /\ told \in [x: Int, w: Int]
  /\ xqueued \in {"no", "own", "shared"} /\ xrunning \in {"no", "own", "shared"}
  /\ xsignalled \in Nat /\ placed \in Int
  /\ within \in {"none", "mapping", "commit", "destroy", "recreate"}

XwFlags ==
  /\ awaiting \in BOOLEAN /\ node \in BOOLEAN /\ lives \in BOOLEAN /\ idleReady \in BOOLEAN
  /\ associated \in BOOLEAN /\ inApply \in BOOLEAN /\ owned \in BOOLEAN /\ xselfRef \in BOOLEAN
  /\ xmapped \in BOOLEAN /\ unmapLost \in BOOLEAN

(* The type invariant, in two halves: numbers and records, and flags.      *)
LEMMA XwTypes == XTypeOK <=> XwData /\ XwFlags
BY DEF XTypeOK, XwData, XwFlags

(* The states that the handlers make of a state are states.                *)
LEMMA XStatesWith ==
  ASSUME NEW s \in XStates
  PROVE  /\ \A x \in Int, w \in Int : [s EXCEPT !.x = x, !.w = w] \in XStates
         /\ \A x \in Int : [s EXCEPT !.x = x] \in XStates
         /\ \A w \in Int : [s EXCEPT !.w = w] \in XStates
         /\ \A m \in BOOLEAN : [s EXCEPT !.mapped = m] \in XStates
         /\ \A m \in BOOLEAN, w \in Int : [s EXCEPT !.w = w, !.mapped = m] \in XStates
         /\ \A m \in BOOLEAN, x \in Int, w \in Int, f \in BOOLEAN :
              [s EXCEPT !.mapped = m, !.x = x, !.w = w, !.full = f] \in XStates
<1>1. ASSUME NEW x \in Int, NEW w \in Int PROVE [s EXCEPT !.x = x, !.w = w] \in XStates
  BY DEF XStates
<1>2. ASSUME NEW x \in Int PROVE [s EXCEPT !.x = x] \in XStates
  BY DEF XStates
<1>3. ASSUME NEW w \in Int PROVE [s EXCEPT !.w = w] \in XStates
  BY DEF XStates
<1>4. ASSUME NEW m \in BOOLEAN PROVE [s EXCEPT !.mapped = m] \in XStates
  BY DEF XStates
<1>5. ASSUME NEW m \in BOOLEAN, NEW w \in Int
      PROVE  [s EXCEPT !.w = w, !.mapped = m] \in XStates
  BY DEF XStates
<1>6. ASSUME NEW m \in BOOLEAN, NEW x \in Int, NEW w \in Int, NEW f \in BOOLEAN
      PROVE  [s EXCEPT !.mapped = m, !.x = x, !.w = w, !.full = f] \in XStates
  BY DEF XStates
<1>. QED
  BY <1>1, <1>2, <1>3, <1>4, <1>5, <1>6

(* adjust_geometry_for_gravity() keeps the edge that the gravity names.    *)
LEMMA XGravity ==
  ASSUME NEW s \in XStates, NEW w \in Int
  PROVE  /\ Resized(s, w) \in XStates
         /\ Resized(s, w).w = w
         /\ Resized(s, w).mapped = s.mapped
         /\ Resized(s, w).margin = s.margin
         /\ XEdge(Resized(s, w)) = XEdge(s)
<1>1. s.x + s.w - w \in Int /\ s.x \in Int
  BY DEF XStates
<1>2. PICK x \in Int : x = IF s.gravity = "right" THEN s.x + s.w - w ELSE s.x
  BY <1>1
<1>3. PICK r : r = [s EXCEPT !.x = x, !.w = w]
  OBVIOUS
<1>4. Resized(s, w) = r
  BY <1>2, <1>3 DEF Resized
<1>5. r \in XStates /\ r.w = w /\ r.mapped = s.mapped /\ r.margin = s.margin
      /\ r.x = x /\ r.gravity = s.gravity
  BY <1>3 DEF XStates
<1>6. XEdge(r) = XEdge(s)
  BY <1>2, <1>5 DEF XEdge, XStates
<1>. QED
  BY <1>4, <1>5, <1>6

(* The anchored edge of a state is a number.                               *)
LEMMA XEdgeTyped == \A s \in XStates : XEdge(s) \in Int
BY DEF XEdge, XStates

(* The numbers that the states are made of.                                *)
LEMMA XwInts ==
  ASSUME XwData
  PROVE  /\ drawn \in Nat /\ seen \in Nat /\ offset \in Int
         /\ xpending.w \in Int /\ xpending.margin \in Nat /\ xpending.x \in Int
         /\ xcommitted.w \in Int /\ xcommitted.margin \in Nat
         /\ xcurrent.w \in Int /\ xcurrent.margin \in Nat
<1>1. \A n \in XWidths \cup {0} : n \in Nat
  BY XWidthsAssumption
<1>2. drawn \in XWidths \cup {0} /\ seen \in XWidths \cup {0} /\ offset \in Offsets
  BY DEF XwData
<1>3. drawn \in Nat /\ seen \in Nat /\ offset \in Int
  BY <1>1, <1>2, PlacesAssumption
<1>. QED
  BY <1>3 DEF XwData, XStates

(* A box in the workarea has integers.                                     *)
LEMMA WithinTyped ==
  ASSUME NEW x \in Int, NEW w \in Int
  PROVE  Within(x, w).x \in Int /\ Within(x, w).w \in Int
BY XWidthsAssumption DEF Within, AtMost, AtLeast

(* What the X server is told is a geometry.                                *)
LEMMA ReconfiguredTyped ==
  ASSUME XwData, NEW s \in XStates, NEW o \in Int
  PROVE  Reconfigured(s, o) \in [x: Int, w: Int]
BY DEF Reconfigured, Inner, XStates, XwData

(* What apply() makes current is what was committed, in the size that is   *)
(* drawn if there is a surface.                                            *)
LEMMA XAppliedIs ==
  ASSUME XwData, XwFlags
  PROVE  /\ XApplied \in XStates
         /\ lives => /\ XApplied.mapped <=> xcommitted.mapped
                     /\ XEdge(XApplied) = XEdge(xcommitted)
         /\ ~lives => (XApplied.mapped <=> xcommitted.mapped /\ xcurrent.mapped)
         /\ node => XApplied.w = drawn + XApplied.margin
<1>1. PICK s \in XStates :
        s = IF lives THEN xcommitted
            ELSE [xcommitted EXCEPT !.w = xcurrent.w, !.mapped = @ /\ xcurrent.mapped]
  <2>1. CASE lives
    BY <2>1 DEF XwData
  <2>2. CASE ~lives
    <3>1. PICK w \in Int : w = xcurrent.w
      BY DEF XwData, XStates
    <3>2. PICK m \in BOOLEAN : m = (xcommitted.mapped /\ xcurrent.mapped)
      OBVIOUS
    <3>3. [xcommitted EXCEPT !.w = w, !.mapped = m] \in XStates
      BY XStatesWith DEF XwData
    <3>. QED
      BY <2>2, <3>1, <3>2, <3>3
  <2>. QED
    BY <2>1, <2>2
<1>2. lives => s = xcommitted
  BY <1>1
<1>3. ~lives => (s.mapped <=> xcommitted.mapped /\ xcurrent.mapped)
  BY <1>1 DEF XwData, XStates
<1>4. PICK n \in Int : n = drawn + s.margin
  BY <1>1, XwInts DEF XStates
<1>5. PICK r \in XStates : r = Resized(s, n)
  BY <1>1, XGravity
<1>6. r.w = n /\ r.mapped = s.mapped /\ r.margin = s.margin /\ XEdge(r) = XEdge(s)
  BY <1>1, <1>5, XGravity
<1>7. XApplied = IF node THEN r ELSE s
  BY <1>1, <1>4, <1>5 DEF XApplied
<1>. QED
  BY <1>2, <1>3, <1>4, <1>6, <1>7

(* Every step keeps the types of the flags.                                *)
LEMMA XwFlagsTyped ==
  ASSUME XwData, XwFlags, [XNext]_xvars
  PROVE  XwFlags'
<1>1. ASSUME NEW r \in XRequests, NEW group \in {"own", "shared"}, XPluginRequest(r, group)
      PROVE  XwFlags'
  BY <1>1 DEF XPluginRequest, XwFlags, xview, xwindow
<1>2. ASSUME NEW o \in Offsets, OutputMoves(o)
      PROVE  XwFlags'
  BY <1>2 DEF OutputMoves, XwFlags, xview, xwindow
<1>3. CASE XCommit
  <2>1. awaiting' \in BOOLEAN
    BY <1>3, Zenon DEF XCommit
  <2>. QED
    BY <1>3, <2>1 DEF XCommit, XwFlags, xview, xwindow
<1>4. ASSUME NEW t \in BOOLEAN, XApplyState(t)
      PROVE  XwFlags'
  <2>1. xmapped' \in BOOLEAN
    <3>1. MappedAfter = xmapped \/ MappedAfter = TRUE \/ MappedAfter = FALSE
      BY DEF MappedAfter
    <3>. QED
      BY <1>4, <3>1 DEF XApplyState, XwFlags
  <2>2. unmapLost' \in BOOLEAN
    BY <1>4, Zenon DEF XApplyState
  <2>. QED
    BY <1>4, <2>1, <2>2 DEF XApplyState, XwFlags, xwindow
<1>5. CASE XApplyEnd
  BY <1>5 DEF XApplyEnd, XwFlags, xtoplevel, xwindow
<1>6. CASE Associate
  BY <1>6 DEF Associate, XwFlags, xtoplevel, xview
<1>7. CASE Unmap
  <2>1. (xselfRef' = xselfRef \/ xselfRef' = TRUE) /\ (node' = node \/ node' = FALSE)
    BY <1>7 DEF Unmap, XStartUnmap
  <2>. QED
    BY <1>7, <2>1 DEF Unmap, XwFlags
<1>8. ASSUME NEW w \in XWidths, Draw(w)
      PROVE  XwFlags'
  <2>1. node' = node \/ node' = TRUE
    BY <1>8 DEF Draw, XStartMap
  <2>. QED
    BY <1>8, <2>1 DEF Draw, XwFlags, xview
<1>9. CASE HandleDraw
  <2>1. awaiting' = awaiting \/ awaiting' = FALSE
    BY <1>9 DEF HandleDraw, SurfaceCommitted, XEmitReady
  <2>. QED
    BY <1>9, <2>1 DEF HandleDraw, XwFlags, xview, xwindow
<1>10. ASSUME NEW x \in Positions, NEW w \in XWidths, ConfigureRequest(x, w)
       PROVE  XwFlags'
  BY <1>10 DEF ConfigureRequest, XwFlags, xview, xwindow
<1>11. ASSUME NEW how \in {"destroy", "recreate"}, Leave(how)
       PROVE  XwFlags'
  <2>1. (drawn' = 0 /\ associated' = FALSE) \/ UNCHANGED xwindow
    BY <1>11 DEF Leave
  <2>2. (xselfRef' = xselfRef \/ xselfRef' = TRUE) /\ node' \in BOOLEAN
        /\ owned' \in BOOLEAN /\ lives' \in BOOLEAN /\ idleReady' \in BOOLEAN
    <3>1. CASE XStartUnmap /\ UNCHANGED <<owned, lives, idleReady>>
      BY <3>1 DEF XStartUnmap, XwFlags
    <3>2. CASE Dropped(how) /\ node' = (node /\ how # "destroy") /\ UNCHANGED xselfRef
      BY <3>2, Zenon DEF Dropped
    <3>. QED
      BY <1>11, <3>1, <3>2 DEF Leave
  <2>. QED
    BY <1>11, <2>1, <2>2 DEF Leave, XwFlags, xwindow
<1>12. CASE Left
  <2>1. owned' \in BOOLEAN /\ lives' \in BOOLEAN /\ idleReady' \in BOOLEAN
    BY <1>12, Zenon DEF Left, Dropped
  <2>. QED
    BY <1>12, <2>1 DEF Left, XwFlags, xwindow
<1>13. CASE IdleReady
  BY <1>13 DEF IdleReady, XEmitReady, XwFlags, xwindow, xview
<1>14. CASE UNCHANGED xvars
  BY <1>14 DEF XwFlags, xvars, xtoplevel, xwindow, xtx, xview
<1>. QED
  BY <1>1, <1>2, <1>3, <1>4, <1>5, <1>6, <1>7, <1>8, <1>9, <1>10, <1>11, <1>12, <1>13, <1>14
  DEF XNext, XTransaction

(* Every step keeps the types of the numbers and records.                  *)
LEMMA XwDataTyped ==
  ASSUME XwData, XwFlags, [XNext]_xvars
  PROVE  XwData'
<1>. USE XWidthsAssumption, PlacesAssumption
<1>0. /\ xpending \in XStates /\ xcommitted \in XStates /\ xcurrent \in XStates
      /\ told \in [x: Int, w: Int] /\ offset \in Int
  BY XwInts DEF XwData
<1>1. ASSUME NEW r \in XRequests, NEW group \in {"own", "shared"}, XPluginRequest(r, group)
      PROVE  XwData'
  <2>1. xpending' \in XStates
    BY <1>0, <1>1 DEF XPluginRequest, XStates
  <2>2. PICK p \in XStates : p = xpending'
    BY <2>1
  <2>3. placed' = XEdge(p)
    BY <1>1, <2>2 DEF XPluginRequest, XEdge
  <2>4. placed' \in Int
    BY <2>3, XEdgeTyped
  <2>. QED
    BY <1>1, <2>1, <2>4 DEF XPluginRequest, XwData, xwindow, xview
<1>2. ASSUME NEW o \in Offsets, OutputMoves(o)
      PROVE  XwData'
  <2>1. o \in Int
    OBVIOUS
  <2>2. told' \in [x: Int, w: Int]
    BY <1>0, <1>2, <2>1, ReconfiguredTyped DEF OutputMoves
  <2>. QED
    BY <1>2, <2>2 DEF OutputMoves, XwData, xwindow, xtx
<1>3. CASE XCommit
  <2>1. told' \in [x: Int, w: Int]
    BY <1>0, <1>3, ReconfiguredTyped DEF XCommit
  <2>2. xsignalled' \in Nat
    BY <1>3 DEF XCommit
  <2>. QED
    BY <1>3, <2>1, <2>2 DEF XCommit, XwData, xwindow
<1>4. ASSUME NEW t \in BOOLEAN, XApplyState(t)
      PROVE  XwData'
  <2>1. PICK s \in XStates : s = XApplied
    BY XAppliedIs
  <2>2. told' \in [x: Int, w: Int]
    BY <1>0, <1>4, <2>1, ReconfiguredTyped DEF XApplyState, XTold
  <2>3. xpending' \in XStates /\ xcommitted' = s /\ xcurrent' = s
        /\ seen' \in XWidths \cup {0}
    BY <1>4, <2>1 DEF XApplyState, XwData
  <2>. QED
    BY <1>4, <2>1, <2>2, <2>3 DEF XApplyState, XwData, xwindow, xtx
<1>5. CASE XApplyEnd
  BY <1>5 DEF XApplyEnd, XwData, xtoplevel, xwindow
<1>6. CASE Associate
  BY <1>6 DEF Associate, XwData, xtoplevel, xtx
<1>7. CASE Unmap
  <2>1. xpending' \in XStates /\ xqueued' \in {"no", "own", "shared"}
    <3>1. CASE XStartUnmap
      BY <1>0, <3>1, XStatesWith DEF XStartUnmap, XEnqueue, XwData
    <3>2. CASE UNCHANGED <<xselfRef, node, xpending, xqueued>>
      BY <3>2 DEF XwData
    <3>. QED
      BY <1>7, <3>1, <3>2 DEF Unmap
  <2>. QED
    BY <1>7, <2>1 DEF Unmap, XwData
<1>8. ASSUME NEW w \in XWidths, Draw(w)
      PROVE  XwData'
  <2>1. w \in Int
    OBVIOUS
  <2>. DEFINE Typed ==
         /\ xpending' \in XStates /\ xcommitted' \in XStates /\ xcurrent' \in XStates
         /\ xqueued' \in {"no", "own", "shared"} /\ placed' \in Int
         /\ seen' \in XWidths \cup {0} /\ within' \in {"mapping", "commit"}
  <2>2. Typed
    <3>1. ASSUME NEW x \in Positions, NEW full \in BOOLEAN, XStartMap(x, w, full),
                 within' = "mapping"
          PROVE  Typed
      <4>1. PICK left \in Int, outer \in Int :
              left = x - xpending.margin /\ outer = w + xpending.margin
        BY <1>0, <2>1 DEF XStates
      <4>0. Within(left, outer).x \in Int /\ Within(left, outer).w \in Int /\ ScreenWidth \in Int
        BY XWidthsAssumption, WithinTyped
      <4>2. PICK size \in Int : size = w + xcurrent.margin
        BY <1>0, <2>1 DEF XStates
      <4>3. PICK bx \in Int, bw \in Int :
              \/ bx = 0 /\ bw = ScreenWidth /\ full
              \/ bx = Within(left, outer).x /\ bw = Within(left, outer).w /\ ~full
        BY <4>0
      <4>4. PICK f \in BOOLEAN : f = (xpending.full \/ full)
        OBVIOUS
      <4>5. xpending' = [xpending EXCEPT !.mapped = TRUE, !.x = bx, !.w = bw, !.full = f]
        BY <3>1, <4>1, <4>3, <4>4 DEF XStartMap
      <4>6. xpending' \in XStates
        BY <1>0, <4>5, XStatesWith
      <4>7. xcurrent' = [xcurrent EXCEPT !.w = size]
            /\ xcommitted' = [xcommitted EXCEPT !.w = size]
        BY <3>1, <4>2 DEF XStartMap
      <4>8. xcurrent' \in XStates /\ xcommitted' \in XStates
        BY <1>0, <4>7, XStatesWith
      <4>9. placed' \in Int
        <5>1. PICK p \in XStates : p = xpending'
          BY <4>6
        <5>2. placed' = XEdge(p)
          BY <3>1, <5>1 DEF XStartMap, XEdge
        <5>. QED
          BY <5>2, XEdgeTyped
      <4>. QED
        BY <3>1, <4>6, <4>8, <4>9 DEF XStartMap, XEnqueue, XwData
    <3>2. CASE within' = "commit"
               /\ UNCHANGED <<xpending, xcommitted, xcurrent, node, seen, xqueued, placed>>
      BY <3>2 DEF XwData
    <3>. QED
      BY <1>8, <3>1, <3>2 DEF Draw
  <2>. QED
    BY <1>8, <2>2 DEF Draw, XwData
<1>9. CASE HandleDraw
  <2>1. /\ xpending' \in XStates /\ xcommitted' \in XStates /\ seen' \in XWidths \cup {0}
        /\ xqueued' \in {"no", "own", "shared"} /\ xsignalled' \in Nat
    <3>1. drawn \in Int /\ drawn + xcurrent.margin \in Int
      BY <1>0, XwInts DEF XStates
    <3>2. PICK p \in XStates : p = Resized(xpending, drawn + xcurrent.margin)
      BY <1>0, <3>1, XGravity
    <3>3. PICK c \in XStates : c = Resized(xcommitted, drawn)
      BY <1>0, <3>1, XGravity
    <3>4. xpending' = xpending \/ xpending' = p
      BY <1>9, <3>2 DEF HandleDraw, SurfaceCommitted
    <3>5. xcommitted' = xcommitted \/ xcommitted' = c
      BY <1>9, <3>3 DEF HandleDraw, SurfaceCommitted
    <3>6. seen' = seen \/ seen' = drawn
      BY <1>9 DEF HandleDraw, SurfaceCommitted
    <3>7. xqueued' = xqueued \/ xqueued' = "own"
      BY <1>9 DEF HandleDraw, SurfaceCommitted, XEnqueue
    <3>8. xsignalled' = xsignalled \/ xsignalled' = xsignalled + 1
      BY <1>9 DEF HandleDraw, SurfaceCommitted, XEmitReady
    <3>. QED
      BY <3>4, <3>5, <3>6, <3>7, <3>8 DEF XwData
  <2>. QED
    BY <1>9, <2>1 DEF HandleDraw, XwData, xwindow, xview
<1>10. ASSUME NEW x \in Positions, NEW w \in XWidths, ConfigureRequest(x, w)
       PROVE  XwData'
  <2>1. x \in Int /\ w \in Int /\ xpending.x \in Int
    BY <1>0 DEF XStates
  <2>2. /\ xpending' \in XStates /\ told' \in [x: Int, w: Int]
        /\ xqueued' \in {"no", "own", "shared"}
    <3>1. CASE xmapped
      <4>1. PICK bx \in Int, bw \in Int :
              bx = Within(xpending.x, w).x /\ bw = Within(xpending.x, w).w
        BY <2>1, WithinTyped
      <4>2. PICK p \in Int, n \in Int : p = bx - xpending.margin /\ n = bw + xpending.margin
        BY <1>0, <4>1 DEF XStates
      <4>3. xpending' = [xpending EXCEPT !.x = p, !.w = n] /\ XEnqueue /\ told' = told
        BY <1>10, <3>1, <4>1, <4>2 DEF ConfigureRequest
      <4>. QED
        BY <1>0, <4>3, XStatesWith DEF XEnqueue, XwData
    <3>2. CASE ~xmapped
      <4>1. PICK n \in Int : n = x - offset
        BY <1>0, <2>1
      <4>2. xpending' = [xpending EXCEPT !.x = n] /\ told' = [x |-> x, w |-> w]
            /\ xqueued' = xqueued
        BY <1>10, <3>2, <4>1 DEF ConfigureRequest
      <4>. QED
        BY <1>0, <2>1, <4>2, XStatesWith DEF XwData
    <3>. QED
      BY <3>1, <3>2
  <2>3. placed' \in Int
    <3>1. PICK p \in XStates : p = xpending'
      BY <2>2
    <3>2. placed' = XEdge(p) \/ placed' = placed
      BY <1>10, <3>1 DEF ConfigureRequest, XEdge
    <3>. QED
      BY <3>2, XEdgeTyped DEF XwData
  <2>. QED
    BY <1>10, <2>2, <2>3 DEF ConfigureRequest, XwData, xwindow
<1>11. ASSUME NEW how \in {"destroy", "recreate"}, Leave(how)
       PROVE  XwData'
  <2>1. drawn' \in XWidths \cup {0}
    BY <1>11 DEF Leave, XwData, xwindow
  <2>2. xpending' \in XStates /\ xqueued' \in {"no", "own", "shared"}
        /\ within' \in {"none", "mapping", "commit", "destroy", "recreate"}
    <3>1. CASE XStartUnmap /\ within' = how
      BY <1>0, <3>1, XStatesWith DEF XStartUnmap, XEnqueue, XwData
    <3>2. CASE UNCHANGED <<xpending, xqueued, within>>
      BY <3>2 DEF XwData
    <3>. QED
      BY <1>11, <3>1, <3>2 DEF Leave
  <2>. QED
    BY <1>11, <2>1, <2>2 DEF Leave, XwData
<1>12. CASE Left
  BY <1>12 DEF Left, XwData, xwindow, xtx
<1>13. CASE IdleReady
  <2>1. xsignalled' \in Nat
    BY <1>13 DEF IdleReady, XEmitReady, XwData
  <2>. QED
    BY <1>13, <2>1 DEF IdleReady, XwData, xwindow
<1>14. CASE UNCHANGED xvars
  BY <1>14 DEF XwData, xvars, xtoplevel, xwindow, xtx
<1>. QED
  BY <1>1, <1>2, <1>3, <1>4, <1>5, <1>6, <1>7, <1>8, <1>9, <1>10, <1>11, <1>12, <1>13, <1>14
  DEF XNext, XTransaction

(* When the view's window is unmapped, the view keeps itself alive.        *)
LEMMA XUnmapStarts ==
  ASSUME XwData, XStartUnmap
  PROVE  /\ xselfRef' = TRUE /\ node' = FALSE /\ xpending'.mapped = FALSE /\ xqueued' # "no"
         /\ XEdge(xpending)' = XEdge(xpending)
<1>1. xpending' = [xpending EXCEPT !.mapped = FALSE] /\ xpending \in XStates
  BY DEF XStartUnmap, XwData
<1>2. xpending'.mapped = FALSE /\ XEdge(xpending)' = XEdge(xpending)
  BY <1>1 DEF XEdge, XStates
<1>. QED
  BY <1>2 DEF XStartUnmap, XEnqueue

(* A window that is mapped anew is placed and drawn, and waits.            *)
LEMMA XMapStarts ==
  ASSUME XwData, NEW x \in Positions, NEW w \in XWidths, NEW full \in BOOLEAN,
         XStartMap(x, w, full)
  PROVE  /\ node' = TRUE /\ xpending'.mapped = TRUE /\ xqueued' # "no"
         /\ xcommitted'.mapped = xcommitted.mapped /\ xcurrent'.mapped = xcurrent.mapped
         /\ XEdge(xpending)' = placed'
<1>0. xpending \in XStates /\ xcommitted \in XStates /\ xcurrent \in XStates
  BY DEF XwData
<1>1. node' = TRUE /\ xqueued' # "no"
  BY DEF XStartMap, XEnqueue
<1>2. xpending'.mapped = TRUE
  BY <1>0 DEF XStartMap, XStates
<1>3. xcommitted'.mapped = xcommitted.mapped /\ xcurrent'.mapped = xcurrent.mapped
  BY <1>0 DEF XStartMap, XStates
<1>4. XEdge(xpending)' = placed'
  BY DEF XStartMap, XEdge
<1>. QED
  BY <1>1, <1>2, <1>3, <1>4

(* What a client that has drawn another size makes of a state.             *)
LEMMA XRedrawn ==
  ASSUME XwData
  PROVE  /\ Resized(xcommitted, drawn).mapped = xcommitted.mapped
         /\ XEdge(Resized(xcommitted, drawn)) = XEdge(xcommitted)
         /\ Resized(xpending, drawn + xcurrent.margin).mapped = xpending.mapped
         /\ XEdge(Resized(xpending, drawn + xcurrent.margin)) = XEdge(xpending)
<1>0. xpending \in XStates /\ xcommitted \in XStates /\ xcurrent \in XStates
  BY DEF XwData
<1>1. drawn \in Int /\ drawn + xcurrent.margin \in Int
  BY <1>0, XwInts DEF XStates
<1>2. PICK n \in Int : n = drawn + xcurrent.margin
  BY <1>1
<1>3. Resized(xpending, n).mapped = xpending.mapped
      /\ XEdge(Resized(xpending, n)) = XEdge(xpending)
  BY <1>0, XGravity
<1>4. Resized(xcommitted, drawn).mapped = xcommitted.mapped
      /\ XEdge(Resized(xcommitted, drawn)) = XEdge(xcommitted)
  BY <1>0, <1>1, XGravity
<1>. QED
  BY <1>2, <1>3, <1>4

(* Every step keeps who holds the view, and what is mapped in each state.  *)
LEMMA XHeldKept ==
  ASSUME XwData, XwFlags, XHeld, [XNext]_xvars
  PROVE  XHeld'
<1>. USE XWidthsAssumption
<1>0. /\ xpending \in XStates /\ xcommitted \in XStates /\ xcurrent \in XStates
      /\ drawn \in Nat
  BY XwInts DEF XwData
<1>1. ASSUME NEW r \in XRequests, NEW group \in {"own", "shared"}, XPluginRequest(r, group)
      PROVE  XHeld'
  <2>1. xpending'.mapped = xpending.mapped /\ xqueued' # "no" /\ (XIdle \/ inApply)
    BY <1>0, <1>1 DEF XPluginRequest, XStates
  <2>2. UNCHANGED <<xcommitted, xcurrent, lives, node, drawn, xrunning, within, inApply, owned,
                    xselfRef, xmapped, unmapLost>>
    BY <1>1 DEF XPluginRequest, xwindow, xview
  <2>. QED
    BY <2>1, <2>2 DEF XHeld, XAtRest
<1>2. CASE XCommit
  <2>1. /\ xcommitted' = xpending /\ xqueued' = "no" /\ xrunning' # "no" /\ xrunning = "no"
        /\ UNCHANGED <<xpending, xcurrent, lives, node, drawn, within, inApply, owned,
                       xselfRef, xmapped, unmapLost>>
    BY <1>2 DEF XCommit, xwindow, xview
  <2>. QED
    BY <2>1 DEF XHeld, XAtRest
<1>3. ASSUME NEW t \in BOOLEAN, XApplyState(t)
      PROVE  XHeld'
  <2>1. PICK s \in XStates : s = XApplied
    BY XAppliedIs
  <2>2. /\ xrunning # "no" /\ ~inApply /\ inApply' = TRUE
        /\ within # "none" => xqueued = "no"
        /\ xcommitted' = s /\ xcurrent' = s
        /\ xpending' = IF xqueued = "no" THEN s ELSE xpending
        /\ xmapped' = MappedAfter /\ (unmapLost' <=> s.mapped /\ ~xmapped')
        /\ UNCHANGED <<lives, node, drawn, xqueued, xrunning, within, owned, xselfRef>>
    BY <1>3, <2>1 DEF XApplyState, xwindow, xtx
  <2>3. /\ lives => (s.mapped <=> xcommitted.mapped)
        /\ ~lives => (s.mapped <=> xcommitted.mapped /\ xcurrent.mapped)
    BY <2>1, XAppliedIs
  <2>4. s.mapped => xcommitted.mapped
    BY <2>3
  <2>5. /\ ~XViewAlive => xmapped' = xmapped
        /\ XViewAlive /\ ~s.mapped => xmapped' = FALSE
        /\ xmapped' => xmapped \/ owned
    BY <2>1, <2>2 DEF MappedAfter
  <2>6. xmapped => XViewAlive
    BY DEF XHeld, XViewAlive
  <2>7. xmapped' => s.mapped
    BY <2>5, <2>6
  <2>8. xqueued = "no" => /\ owned /\ within # "recreate" => (s.mapped <=> drawn # 0)
                          /\ s.mapped => xpending.mapped
    BY <2>2, <2>3, <2>4 DEF XHeld
  <2>9. /\ xqueued = "no" => xpending' = s
        /\ xqueued # "no" => xpending' = xpending
    BY <2>2
  <2>10. xpending'.mapped => xpending.mapped
    BY <2>8, <2>9
  <2>11. ~owned /\ xmapped' => xselfRef /\ ~xpending'.mapped
    BY <2>5, <2>10 DEF XHeld
  <2>12. s.mapped /\ ~xpending'.mapped => xselfRef
    BY <2>2, <2>4, <2>9 DEF XHeld
  <2>13. within \in {"destroy", "recreate"} => owned /\ ~xpending'.mapped
    BY <2>10 DEF XHeld
  <2>14. owned /\ within # "recreate" => (xpending'.mapped <=> drawn # 0)
    BY <2>8, <2>9 DEF XHeld
  <2>. QED
    BY <2>2, <2>7, <2>9, <2>11, <2>12, <2>13, <2>14 DEF XHeld, XAtRest
<1>4. CASE XApplyEnd
  <2>1. /\ inApply /\ inApply' = FALSE /\ xrunning' = "no"
        /\ xselfRef' = (xselfRef /\ xqueued # "no")
        /\ UNCHANGED <<xpending, xcommitted, xcurrent, lives, node, drawn, xqueued, within, owned,
                       xmapped, unmapLost>>
    BY <1>4 DEF XApplyEnd, xtoplevel, xwindow
  <2>2. xqueued = "no" => (xcurrent.mapped <=> xpending.mapped)
    BY <2>1 DEF XHeld, XAtRest
  <2>3. xmapped => xcurrent.mapped
    BY DEF XHeld
  <2>4. xmapped /\ ~xpending.mapped => xselfRef /\ xqueued # "no"
    BY <2>2, <2>3 DEF XHeld
  <2>5. ~owned /\ xmapped => ~xpending.mapped
    BY DEF XHeld
  <2>. QED
    BY <2>1, <2>2, <2>4, <2>5 DEF XHeld, XAtRest
<1>5. CASE Unmap
  <2>1. /\ owned /\ within = "none" /\ drawn' = 0
        /\ UNCHANGED <<xcommitted, xcurrent, lives, xrunning, within, inApply, owned, xmapped,
                       unmapLost>>
    BY <1>5 DEF Unmap, XIdle
  <2>2. CASE XStartUnmap
    BY <2>1, <2>2, XUnmapStarts DEF XHeld, XAtRest
  <2>3. CASE drawn = 0 /\ UNCHANGED <<xselfRef, node, xpending, xqueued>>
    BY <2>1, <2>3 DEF XHeld, XAtRest
  <2>. QED
    BY <1>5, <2>2, <2>3 DEF Unmap
<1>6. ASSUME NEW w \in XWidths, Draw(w)
      PROVE  XHeld'
  <2>1. /\ within = "none" /\ within' \in {"mapping", "commit"} /\ drawn' = w /\ w # 0
        /\ UNCHANGED <<lives, xrunning, inApply, owned, xselfRef, xmapped, unmapLost>>
    BY <1>6 DEF Draw, XIdle, xview
  <2>2. ASSUME NEW x \in Positions, NEW full \in BOOLEAN, XStartMap(x, w, full), owned
        PROVE  XHeld'
    BY <2>1, <2>2, XMapStarts DEF XHeld, XAtRest
  <2>3. CASE drawn # 0 /\ UNCHANGED <<xpending, xcommitted, xcurrent, node, xqueued>>
    BY <2>1, <2>3 DEF XHeld, XAtRest
  <2>. QED
    BY <1>6, <2>2, <2>3 DEF Draw
<1>7. CASE HandleDraw
  <2>1. /\ within \in {"mapping", "commit"} /\ within' = "none" /\ ~inApply
        /\ UNCHANGED <<xcurrent, lives, node, drawn, xrunning, inApply, owned, xselfRef, xmapped,
                       unmapLost>>
    BY <1>7 DEF HandleDraw, xwindow, xview
  <2>2. /\ xcommitted'.mapped = xcommitted.mapped /\ xpending'.mapped = xpending.mapped
        /\ xqueued' = xqueued \/ (xqueued' # "no" /\ xqueued = "no")
    BY <1>7, XRedrawn DEF HandleDraw, SurfaceCommitted, XEnqueue
  <2>. QED
    BY <2>1, <2>2 DEF XHeld, XAtRest
<1>8. ASSUME NEW x \in Positions, NEW w \in XWidths, ConfigureRequest(x, w)
      PROVE  XHeld'
  <2>1. UNCHANGED <<xcommitted, xcurrent, lives, node, drawn, xrunning, within, inApply, owned,
                    xselfRef, xmapped, unmapLost>>
    BY <1>8 DEF ConfigureRequest, xwindow, xview
  <2>2. /\ xpending'.mapped = xpending.mapped
        /\ xqueued' = xqueued \/ (xqueued' # "no" /\ xqueued = "no")
    BY <1>0, <1>8 DEF ConfigureRequest, XEnqueue, XStates
  <2>. QED
    BY <2>1, <2>2 DEF XHeld, XAtRest
<1>9. ASSUME NEW how \in {"destroy", "recreate"}, Leave(how)
      PROVE  XHeld'
  <2>1. /\ lives /\ within = "none"
        /\ UNCHANGED <<xcommitted, xcurrent, xrunning, inApply, xmapped, unmapLost>>
        /\ how = "recreate" => owned
        /\ IF how = "destroy" THEN drawn' = 0 ELSE drawn' = drawn
    BY <1>9 DEF Leave, XIdle, xwindow
  <2>2. CASE /\ owned /\ XStartUnmap /\ within' = how
             /\ UNCHANGED <<owned, lives, idleReady>>
    BY <2>1, <2>2, XUnmapStarts DEF XHeld, XAtRest
  <2>3. CASE /\ ~(owned /\ (IF how = "destroy" THEN drawn # 0 ELSE xmapped))
             /\ Dropped(how) /\ UNCHANGED <<xselfRef, xpending, xqueued, within>>
    <3>1. owned' = FALSE
      BY <2>3 DEF Dropped
    <3>2. xmapped => xselfRef /\ ~xpending.mapped
      BY <2>1, <2>3 DEF XHeld
    <3>. QED
      BY <2>1, <2>3, <3>1, <3>2 DEF XHeld, XAtRest
  <2>. QED
    BY <1>9, <2>2, <2>3 DEF Leave
<1>10. CASE Left
  <2>1. /\ within \in {"destroy", "recreate"} /\ within' = "none" /\ owned' = FALSE
        /\ UNCHANGED <<xpending, xcommitted, xcurrent, node, drawn, xqueued, xrunning, inApply,
                       xselfRef, xmapped, unmapLost>>
    BY <1>10 DEF Left, Dropped, xwindow, xtx
  <2>2. ~xpending.mapped
    BY <2>1 DEF XHeld
  <2>. QED
    BY <2>1, <2>2 DEF XHeld, XAtRest
<1>11. CASE UNCHANGED <<xpending, xcommitted, xcurrent, lives, node, drawn, xqueued, xrunning,
                        within, inApply, owned, xselfRef, xmapped, unmapLost>>
  BY <1>11 DEF XHeld, XAtRest
<1>. QED
  BY <1>1, <1>2, <1>3, <1>4, <1>5, <1>6, <1>7, <1>8, <1>9, <1>10, <1>11
  DEF XNext, XTransaction, OutputMoves, Associate, IdleReady, xvars, xtoplevel, xwindow, xtx, xview

(* Every step keeps the current size equal to the one that is drawn.       *)
LEMMA XSizesKept ==
  ASSUME XwData, XwFlags, XHeld, XSizes, [XNext]_xvars
  PROVE  XSizes'
<1>. USE XWidthsAssumption
<1>0. /\ xpending \in XStates /\ xcommitted \in XStates /\ xcurrent \in XStates
      /\ drawn \in Nat
  BY XwInts DEF XwData
<1>1. ASSUME NEW r \in XRequests, NEW group \in {"own", "shared"}, XPluginRequest(r, group)
      PROVE  XSizes'
  <2>1. xqueued' # "no"
    BY <1>1 DEF XPluginRequest
  <2>. QED
    BY <2>1 DEF XSizes, XAtRest
<1>2. CASE XCommit
  <2>1. xrunning' # "no" /\ ~inApply'
    BY <1>2 DEF XCommit, XHeld
  <2>. QED
    BY <2>1 DEF XSizes, XAtRest
<1>3. ASSUME NEW t \in BOOLEAN, XApplyState(t)
      PROVE  XSizes'
  <2>1. PICK s \in XStates : s = XApplied
    BY XAppliedIs
  <2>2. /\ xcurrent' = s /\ (node => seen' = drawn)
        /\ UNCHANGED <<node, drawn, owned, within, xqueued>>
    BY <1>3, <2>1 DEF XApplyState, xwindow, xtx
  <2>3. node => s.w = drawn + s.margin
    BY <2>1, XAppliedIs
  <2>4. XShownNow' => node
    BY <2>2 DEF XShownNow, XHeld
  <2>. QED
    BY <2>2, <2>3, <2>4 DEF XSizes
<1>4. CASE XApplyEnd
  <2>1. inApply /\ UNCHANGED <<xcurrent, seen, drawn, owned, within, xqueued>>
    BY <1>4 DEF XApplyEnd, xtoplevel, xwindow
  <2>. QED
    BY <2>1 DEF XSizes, XAtRest, XShownNow
<1>5. CASE Unmap
  BY <1>5 DEF Unmap, XSizes, XShownNow
<1>6. ASSUME NEW w \in XWidths, Draw(w)
      PROVE  XSizes'
  <2>1. ASSUME NEW x \in Positions, NEW full \in BOOLEAN, XStartMap(x, w, full)
        PROVE  XSizes'
    BY <2>1, XMapStarts DEF XSizes, XAtRest
  <2>2. CASE within' = "commit"
    BY <2>2 DEF XSizes
  <2>. QED
    BY <1>6, <2>1, <2>2 DEF Draw
<1>7. CASE HandleDraw
  <2>1. ~inApply /\ UNCHANGED <<xcurrent, drawn, owned, xrunning, inApply>>
        /\ within # "recreate"
    BY <1>7 DEF HandleDraw, xwindow, xview
  <2>2. CASE xrunning # "no"
    BY <2>1, <2>2 DEF XSizes, XAtRest
  <2>3. CASE xqueued' # "no"
    BY <2>3 DEF XSizes, XAtRest
  <2>4. CASE drawn + xcurrent.margin = xcurrent.w /\ seen' = drawn
    BY <2>1, <2>4 DEF XSizes
  <2>. QED
    BY <1>7, <2>2, <2>3, <2>4 DEF HandleDraw, SurfaceCommitted, XEnqueue
<1>8. ASSUME NEW x \in Positions, NEW w \in XWidths, ConfigureRequest(x, w)
      PROVE  XSizes'
  <2>1. /\ UNCHANGED <<xcurrent, seen, drawn, owned, xrunning, inApply, within>>
        /\ xqueued' = xqueued \/ xqueued' # "no"
    BY <1>8 DEF ConfigureRequest, XEnqueue, xwindow, xview
  <2>. QED
    BY <2>1 DEF XSizes, XAtRest, XShownNow
<1>9. ASSUME NEW how \in {"destroy", "recreate"}, Leave(how)
      PROVE  XSizes'
  <2>1. ~XShownNow'
    BY <1>9 DEF Leave, Dropped, XShownNow
  <2>. QED
    BY <2>1 DEF XSizes
<1>10. CASE Left
  BY <1>10 DEF Left, Dropped, XSizes, XShownNow
<1>11. CASE UNCHANGED <<xcurrent, seen, drawn, owned, xqueued, xrunning, inApply, within>>
  BY <1>11 DEF XSizes, XAtRest, XShownNow
<1>. QED
  BY <1>1, <1>2, <1>3, <1>4, <1>5, <1>6, <1>7, <1>8, <1>9, <1>10, <1>11
  DEF XNext, XTransaction, OutputMoves, Associate, IdleReady, xvars, xtoplevel, xwindow, xtx, xview

(* What the X server is told of a window that is shown in its size.        *)
LEMMA XTellsAll ==
  ASSUME XwData, lives, NEW s \in XStates, NEW o \in Int, drawn # 0, s.w = drawn + s.margin
  PROVE  Reconfigured(s, o) = [x |-> s.x + s.margin + o, w |-> Inner(s)]
<1>1. drawn \in Nat /\ s.margin \in Nat
  BY XwInts DEF XStates
<1>2. Inner(s) > 0
  BY <1>1 DEF Inner
<1>. QED
  BY <1>2 DEF Reconfigured

(* Every step keeps the placed edge in the state that counts, and the X    *)
(* server told of it.                                                      *)
LEMMA XEdgesKept ==
  ASSUME XwData, XwFlags, XHeld, XSizes, XEdges, [XNext]_xvars
  PROVE  XEdges'
<1>. USE XWidthsAssumption
<1>0. /\ xpending \in XStates /\ xcommitted \in XStates /\ xcurrent \in XStates
      /\ drawn \in Nat /\ offset \in Int
  BY XwInts DEF XwData
<1>1. ASSUME NEW r \in XRequests, NEW group \in {"own", "shared"}, XPluginRequest(r, group)
      PROVE  XEdges'
  <2>1. xqueued' # "no" /\ placed' = XEdge(xpending')
    BY <1>1 DEF XPluginRequest
  <2>2. XEdge(xpending)' = placed'
    BY <2>1 DEF XEdge
  <2>. QED
    BY <2>1, <2>2 DEF XEdges, XAtRest
<1>2. ASSUME NEW o \in Offsets, OutputMoves(o)
      PROVE  XEdges'
  <2>1. /\ within = "none" /\ offset' = o /\ o \in Int
        /\ told' = IF xpending.mapped THEN Reconfigured(xpending, o) ELSE told
        /\ UNCHANGED <<xpending, xcommitted, xcurrent, drawn, xqueued, xrunning, within, inApply,
                       owned, placed, unmapLost>>
    BY <1>2, PlacesAssumption DEF OutputMoves, XIdle, xwindow, xtx, xview
  <2>2. CASE XShownNow /\ XAtRest /\ ~unmapLost
    <3>1. /\ xpending = xcurrent /\ XEdge(xcurrent) = placed /\ xcurrent.w = drawn + xcurrent.margin
          /\ lives /\ xpending.mapped
      BY <2>1, <2>2 DEF XEdges, XSizes, XHeld, XShownNow
    <3>2. told' = [x |-> xcurrent.x + xcurrent.margin + o, w |-> Inner(xcurrent)]
      BY <1>0, <2>1, <2>2, <3>1, XTellsAll DEF XShownNow
    <3>. QED
      BY <2>1, <2>2, <3>1, <3>2 DEF XEdges, XAtRest, XEdge, Inner
  <2>3. CASE XShownNow /\ ~(XAtRest /\ ~unmapLost)
    BY <2>1, <2>3 DEF XEdges, XAtRest, XShownNow, XEdge
  <2>4. CASE ~XShownNow
    BY <2>1, <2>4 DEF XEdges, XShownNow
  <2>. QED
    BY <2>2, <2>3, <2>4
<1>3. CASE XCommit
  <2>1. /\ xcommitted' = xpending /\ xqueued # "no" /\ xqueued' = "no" /\ xrunning' # "no"
        /\ ~inApply'
        /\ UNCHANGED <<drawn, owned, within, placed, unmapLost>>
    BY <1>3 DEF XCommit, XHeld, xwindow, xview
  <2>2. XShownNow /\ ~unmapLost => XEdge(xpending) = placed
    BY <2>1 DEF XEdges
  <2>3. XEdge(xcommitted)' = XEdge(xpending)
    BY <2>1 DEF XEdge
  <2>. QED
    BY <2>1, <2>2, <2>3 DEF XEdges, XAtRest, XShownNow
<1>4. ASSUME NEW t \in BOOLEAN, XApplyState(t)
      PROVE  XEdges'
  <2>1. PICK s \in XStates : s = XApplied
    BY XAppliedIs
  <2>2. /\ xrunning # "no" /\ ~inApply /\ inApply' = TRUE
        /\ xcommitted' = s /\ xcurrent' = s
        /\ xpending' = IF xqueued = "no" THEN s ELSE xpending
        /\ told' = IF xqueued = "no" THEN Reconfigured(s, offset) ELSE told
        /\ xmapped' = MappedAfter /\ (unmapLost' <=> s.mapped /\ ~xmapped')
        /\ UNCHANGED <<lives, node, drawn, offset, xqueued, xrunning, within, owned, placed>>
    BY <1>4, <2>1 DEF XApplyState, XTold, xwindow, xtx
  <2>3. SUFFICES ASSUME XShownNow, ~unmapLost'
                 PROVE  /\ xqueued # "no" => XEdge(xpending) = placed
                        /\ xqueued = "no" =>
                             /\ XEdge(s) = placed
                             /\ Reconfigured(s, offset) =
                                  [x |-> s.x + s.margin + offset, w |-> Inner(s)]
    <3>1. XShownNow' = XShownNow
      BY <2>2 DEF XShownNow
    <3>2. XEdge(s) = XEdge(xcurrent)' /\ XEdge(s) = XEdge(xcommitted)' /\ Inner(s) = Inner(xcurrent)'
      BY <2>2 DEF XEdge, Inner
    <3>3. xqueued # "no" => XEdge(xpending)' = XEdge(xpending)
      BY <2>2 DEF XEdge
    <3>. QED
      BY <2>2, <2>3, <3>1, <3>2, <3>3 DEF XEdges, XAtRest
  <2>4. /\ owned /\ lives /\ node /\ drawn # 0
        /\ s.mapped <=> xcommitted.mapped
        /\ XEdge(s) = XEdge(xcommitted)
        /\ s.w = drawn + s.margin
    BY <2>1, <2>3, XAppliedIs DEF XShownNow, XHeld
  <2>5. unmapLost /\ s.mapped => unmapLost'
    BY <2>1, <2>2 DEF MappedAfter, XHeld
  <2>6. unmapLost => ~xcommitted.mapped
    BY <2>3, <2>4, <2>5
  <2>7. CASE xqueued # "no"
    BY <2>2, <2>3, <2>6, <2>7 DEF XEdges
  <2>8. CASE xqueued = "no"
    <3>1. xcommitted.mapped
      BY <2>2, <2>3, <2>8 DEF XHeld, XShownNow
    <3>2. XEdge(s) = placed
      BY <2>2, <2>3, <2>4, <2>6, <2>8, <3>1 DEF XEdges
    <3>. QED
      BY <1>0, <2>4, <2>8, <3>2, XTellsAll
  <2>. QED
    BY <2>7, <2>8
<1>5. CASE XApplyEnd
  <2>1. /\ inApply /\ inApply' = FALSE /\ xrunning' = "no"
        /\ UNCHANGED <<xpending, xcommitted, xcurrent, told, drawn, offset, owned, within, xqueued,
                       placed, unmapLost>>
    BY <1>5 DEF XApplyEnd, xtoplevel, xwindow
  <2>2. XEdge(xpending)' = XEdge(xpending) /\ XEdge(xcurrent)' = XEdge(xcurrent)
        /\ Inner(xcurrent)' = Inner(xcurrent)
    BY <2>1 DEF XEdge, Inner
  <2>. QED
    BY <2>1, <2>2 DEF XEdges, XAtRest, XShownNow
<1>6. CASE Unmap
  BY <1>6 DEF Unmap, XEdges, XShownNow
<1>7. ASSUME NEW w \in XWidths, Draw(w)
      PROVE  XEdges'
  <2>1. ASSUME NEW x \in Positions, NEW full \in BOOLEAN, XStartMap(x, w, full)
        PROVE  XEdges'
    BY <2>1, XMapStarts DEF XEdges, XAtRest
  <2>2. CASE /\ drawn # 0 /\ within' = "commit"
             /\ UNCHANGED <<xpending, xcommitted, xcurrent, node, seen, xqueued, placed>>
    <3>1. /\ within = "none"
          /\ UNCHANGED <<told, offset, xrunning, inApply, owned, unmapLost>>
      BY <1>7 DEF Draw, XIdle, xview
    <3>2. /\ XEdge(xpending)' = XEdge(xpending) /\ XEdge(xcurrent)' = XEdge(xcurrent)
          /\ XEdge(xcommitted)' = XEdge(xcommitted) /\ Inner(xcurrent)' = Inner(xcurrent)
      BY <2>2 DEF XEdge, Inner
    <3>. QED
      BY <2>2, <3>1, <3>2 DEF XEdges, XAtRest, XShownNow
  <2>. QED
    BY <1>7, <2>1, <2>2 DEF Draw
<1>8. CASE HandleDraw
  <2>1. /\ within \in {"mapping", "commit"} /\ within' = "none" /\ ~inApply
        /\ UNCHANGED <<xcurrent, told, offset, drawn, owned, xrunning, inApply, placed, unmapLost>>
    BY <1>8 DEF HandleDraw, xwindow, xview
  <2>2. XEdge(xcurrent)' = XEdge(xcurrent) /\ Inner(xcurrent)' = Inner(xcurrent)
    BY <2>1 DEF XEdge, Inner
  <2>3. XShownNow' = XShownNow
    BY <2>1 DEF XShownNow
  <2>4. CASE xrunning # "no"
    <3>1. /\ UNCHANGED <<xpending, xqueued>>
          /\ xcommitted'.mapped = xcommitted.mapped /\ XEdge(xcommitted') = XEdge(xcommitted)
      BY <1>8, <2>4, XRedrawn DEF HandleDraw, SurfaceCommitted
    <3>2. XEdge(xcommitted)' = XEdge(xcommitted) /\ XEdge(xpending)' = XEdge(xpending)
      BY <3>1 DEF XEdge
    <3>. QED
      BY <2>1, <2>3, <2>4, <3>1, <3>2 DEF XEdges, XAtRest
  <2>5. CASE xrunning = "no"
    <3>1. CASE UNCHANGED <<xpending, xcommitted, xqueued>>
      <4>1. XEdge(xcommitted)' = XEdge(xcommitted) /\ XEdge(xpending)' = XEdge(xpending)
        BY <3>1 DEF XEdge
      <4>. QED
        BY <2>1, <2>2, <2>3, <3>1, <4>1 DEF XEdges, XAtRest
    <3>2. CASE xqueued = "no" /\ xqueued' # "no" /\ XEdge(xpending') = XEdge(xpending)
      <4>1. XEdge(xpending)' = XEdge(xpending)
        BY <3>2 DEF XEdge
      <4>. QED
        BY <2>1, <2>3, <2>5, <3>2, <4>1 DEF XEdges, XAtRest
    <3>. QED
      BY <1>8, <2>5, <3>1, <3>2, XRedrawn DEF HandleDraw, SurfaceCommitted, XEnqueue
  <2>. QED
    BY <2>4, <2>5
<1>9. ASSUME NEW x \in Positions, NEW w \in XWidths, ConfigureRequest(x, w)
      PROVE  XEdges'
  <2>1. /\ UNCHANGED <<xcommitted, xcurrent, drawn, owned, xrunning, inApply, within, unmapLost>>
        /\ within = "none"
        /\ xmapped => xqueued' # "no"
        /\ xqueued' # "no" => placed' = XEdge(xpending')
        /\ xqueued' = "no" => xqueued = "no" /\ placed' = placed
    BY <1>9 DEF ConfigureRequest, XIdle, XEnqueue, xwindow, xview
  <2>2. xqueued' # "no" => XEdge(xpending)' = placed'
    BY <2>1 DEF XEdge
  <2>3. XEdge(xcommitted)' = XEdge(xcommitted) /\ XShownNow' = XShownNow
    BY <2>1 DEF XEdge, XShownNow
  <2>4. XAtRest /\ XShownNow /\ ~unmapLost => xmapped
    BY <2>1 DEF XHeld, XShownNow
  <2>5. XAtRest' => XAtRest /\ xqueued' = "no"
    BY <2>1 DEF XAtRest
  <2>. QED
    BY <2>1, <2>2, <2>3, <2>4, <2>5 DEF XEdges
<1>10. ASSUME NEW how \in {"destroy", "recreate"}, Leave(how)
       PROVE  XEdges'
  <2>1. ~XShownNow'
    BY <1>10 DEF Leave, Dropped, XShownNow
  <2>. QED
    BY <2>1 DEF XEdges
<1>11. CASE Left
  BY <1>11 DEF Left, Dropped, XEdges, XShownNow
<1>12. CASE UNCHANGED <<xpending, xcommitted, xcurrent, told, offset, drawn, owned, xqueued,
                        xrunning, inApply, within, placed, unmapLost>>
  BY <1>12 DEF XEdges, XAtRest, XShownNow, XEdge, Inner
<1>. QED
  BY <1>1, <1>2, <1>3, <1>4, <1>5, <1>6, <1>7, <1>8, <1>9, <1>10, <1>11, <1>12
  DEF XNext, XTransaction, Associate, IdleReady, xvars, xtoplevel, xwindow, xtx, xview

(* The invariant holds of a new window.                                    *)
LEMMA XwStarts == XInit => XwInv
<1>. SUFFICES ASSUME XInit PROVE XwInv
  OBVIOUS
<1>. USE XWidthsAssumption, PlacesAssumption
<1>1. XNew \in XStates /\ ~XNew.mapped
  BY DEF XNew, XStates
<1>2. XwData
  BY <1>1 DEF XInit, XwData
<1>3. XwFlags
  BY DEF XInit, XwFlags
<1>4. XHeld
  BY <1>1 DEF XInit, XHeld, XAtRest
<1>5. ~XShownNow
  BY DEF XInit, XShownNow
<1>. QED
  BY <1>2, <1>3, <1>4, <1>5, XwTypes DEF XwInv, XSizes, XEdges

(* Every step keeps the invariant.                                         *)
LEMMA XwMoves == XwInv /\ [XNext]_xvars => XwInv'
<1>. SUFFICES ASSUME XwInv, [XNext]_xvars PROVE XwInv'
  OBVIOUS
<1>1. XwData /\ XwFlags /\ XHeld /\ XSizes /\ XEdges
  BY XwTypes DEF XwInv
<1>2. XwData' /\ XwFlags'
  BY <1>1, XwDataTyped, XwFlagsTyped
<1>3. XTypeOK'
  BY <1>2 DEF XTypeOK, XwData, XwFlags
<1>. QED
  BY <1>1, <1>3, XHeldKept, XSizesKept, XEdgesKept DEF XwInv

(* What the run checks follows between transactions.                       *)
LEMMA XwRight == XwInv => XMapFollows /\ XLifetime /\ XPlacedAndTold
<1>. SUFFICES ASSUME XwInv PROVE XMapFollows /\ XLifetime /\ XPlacedAndTold
  OBVIOUS
<1>1. XwData /\ XwFlags /\ XHeld /\ XSizes /\ XEdges
  BY XwTypes DEF XwInv
<1>2. XLifetime
  BY <1>1 DEF XLifetime, XQuiet, XHeld, XViewAlive
<1>3. XQuiet => XAtRest /\ (xcurrent.mapped <=> xpending.mapped)
  BY <1>1 DEF XQuiet, XAtRest, XHeld
<1>4. XMapFollows
  <2>1. XQuiet /\ ~unmapLost => (xmapped <=> owned /\ drawn # 0)
    BY <1>1, <1>3 DEF XHeld, XQuiet
  <2>. QED
    BY <1>1, <2>1 DEF XMapFollows, XwFlags
<1>5. XPlacedAndTold
  <2>1. XQuiet /\ owned /\ xmapped => XShownNow /\ ~unmapLost
    BY <1>1, <1>3 DEF XHeld, XQuiet, XShownNow
  <2>. QED
    BY <1>1, <1>3, <2>1 DEF XPlacedAndTold, XSizes, XEdges, XQuiet
<1>. QED
  BY <1>2, <1>4, <1>5

(* The invariant of an X11 toplevel holds in every state.                  *)
LEMMA XwAlways == XSpec => []XwInv
<1>1. XInit => XwInv
  BY XwStarts
<1>2. XwInv /\ [XNext]_xvars => XwInv'
  BY XwMoves
<1>. QED
  BY <1>1, <1>2, PTL DEF XSpec

(* Between transactions an X11 view is mapped exactly when its window is,  *)
(* has the size that is drawn at the edge where it was put, and the X      *)
(* server knows it; nothing keeps the view of a window that is gone.       *)
THEOREM XToplevelRight == XSpec => [](XMapFollows /\ XLifetime /\ XPlacedAndTold)
<1>1. XwInv => XMapFollows /\ XLifetime /\ XPlacedAndTold
  BY XwRight
<1>. QED
  BY <1>1, XwAlways, PTL

-----------------------------------------------------------------------------
(* Both, as the run checks them.                                           *)

(* The invariants hold of both, whichever of them moves.                   *)
LEMMA ToplevelsAlways == ToplevelsSpec => [](XdgInv /\ XwInv)
<1>1. ToplevelsInit => XdgInv /\ XwInv
  BY XdgStarts, XwStarts DEF ToplevelsInit
<1>2. ASSUME XdgInv, XwInv, [ToplevelsNext]_<<part, vars, xvars>>
      PROVE  XdgInv' /\ XwInv'
  <2>1. [Next]_vars /\ [XNext]_xvars
    BY <1>2 DEF ToplevelsNext
  <2>. QED
    BY <1>2, <2>1, XdgMoves, XwMoves
<1>3. (XdgInv /\ XwInv) /\ [ToplevelsNext]_<<part, vars, xvars>> => (XdgInv /\ XwInv)'
  BY <1>2
<1>. QED
  BY <1>1, <1>3, PTL DEF ToplevelsSpec

(* Between transactions the views of both kinds are mapped exactly when    *)
(* their surfaces are.                                                     *)
THEOREM ToplevelsMapped == ToplevelsSpec => []ViewsMapped
<1>1. XdgInv /\ XwInv => ViewsMapped
  BY XdgRight, XwRight DEF ViewsMapped
<1>. QED
  BY <1>1, ToplevelsAlways, PTL

(* No view is freed before it is unmapped, and nothing keeps one whose     *)
(* X11 window is gone.                                                     *)
THEOREM ToplevelsLive == ToplevelsSpec => []ViewsLive
<1>1. XdgInv /\ XwInv => ViewsLive
  BY XdgRight, XwRight DEF ViewsLive
<1>. QED
  BY <1>1, ToplevelsAlways, PTL

(* Between transactions a toplevel is seen where it was put, in the size   *)
(* that its client drew, and an X11 client knows where that is.            *)
THEOREM ToplevelsPlaced == ToplevelsSpec => []ViewsPlaced
<1>1. XdgInv /\ XwInv => ViewsPlaced
  BY XdgRight, XwRight DEF ViewsPlaced
<1>. QED
  BY <1>1, ToplevelsAlways, PTL

(* As long as serials do not wrap around, a Wayland toplevel is ready at   *)
(* most once per commit(), and only when its client has answered.          *)
THEOREM ToplevelsReadyAnswered ==
  ASSUME NoWrap
  PROVE  ToplevelsSpec => []ReadyMeansAnswered
<1>1. XdgInv => ReadyMeansAnswered
  BY XdgRight
<1>. QED
  BY <1>1, ToplevelsAlways, PTL
=============================================================================

--------------------------- MODULE SeatFocusProofs ---------------------------
(***************************************************************************)
(* FocusGiven holds for any number of outputs, toplevels and layer         *)
(* surfaces: which node has the keyboard focus, and which view is active.  *)
(* Every handler keeps the seat well formed and the focus with the node    *)
(* that a refocus would choose.  The proof says which node that is without *)
(* the loop that finds it, and so which changes of the seat leave it the   *)
(* one.                                                                    *)
(***************************************************************************)
EXTENDS SeatFocus, FiniteSetTheorems, SequenceTheorems, WellFoundedInduction, TLAPS

-----------------------------------------------------------------------------
(* The loops, the sequences of nodes, the node that a refocus chooses, and *)
(* the handlers.                                                           *)

(* Induction over the natural numbers, for a set.                          *)
LEMMA SetInduction ==
  ASSUME NEW S \in SUBSET Nat, 0 \in S, \A n \in S : n + 1 \in S
  PROVE  S = Nat
<1>1. SUFFICES ASSUME Nat \ S # {} PROVE FALSE
  OBVIOUS
<1>2. IsWellFoundedOn(OpToRel(<, Nat), Nat)
  BY NatLessThanWellFounded
<1>3. Nat \ S \subseteq Nat
  OBVIOUS
<1>4. PICK x \in Nat \ S : \A y \in Nat \ S : ~ (<<y, x>> \in OpToRel(<, Nat))
  BY <1>1, <1>2, <1>3, WFMin
<1>5. \A y \in Nat \ S : ~ (y < x)
  BY <1>4 DEF OpToRel
<1>6. x # 0 /\ x - 1 \in Nat /\ x - 1 < x /\ (x - 1) + 1 = x
  <2>1. x \in Nat /\ x # 0
    BY <1>4
  <2> QED
    BY <2>1
<1>7. x - 1 \in S
  BY <1>5, <1>6
<1> QED
  BY <1>6, <1>7

(* What every round of a loop keeps holds after it.                        *)
LEMMA LoopKeeps ==
  ASSUME NEW n \in Nat, NEW g, NEW T, g[0] \in T[0],
         \A i \in 1..n : g[i - 1] \in T[i - 1] => g[i] \in T[i]
  PROVE  \A i \in 0..n : g[i] \in T[i]
<1> DEFINE S == {i \in Nat : i <= n => g[i] \in T[i]}
<1>1. 0 \in S
  OBVIOUS
<1>2. ASSUME NEW i \in S PROVE i + 1 \in S
  <2>1. i \in Nat /\ i + 1 \in Nat
    BY <1>2
  <2>2. SUFFICES ASSUME i + 1 <= n PROVE g[i + 1] \in T[i + 1]
    BY <2>1
  <2>3. i <= n /\ i + 1 \in 1..n /\ (i + 1) - 1 = i
    BY <2>1, <2>2
  <2>4. g[i] \in T[i]
    BY <1>2, <2>3
  <2> QED
    BY <2>3, <2>4
<1>3. S = Nat
  <2> HIDE DEF S
  <2>1. S \in SUBSET Nat
    BY DEF S
  <2> QED
    BY <1>1, <1>2, <2>1, SetInduction
<1> QED
  <2>1. ASSUME NEW i \in 0..n PROVE g[i] \in T[i]
    <3>1. i \in Nat /\ i <= n
      OBVIOUS
    <3>2. i \in S
      <4> HIDE DEF S
      <4> QED
        BY <1>3, <3>1
    <3> QED
      BY <3>1, <3>2
  <2> QED
    BY <2>1

(* The rounds of a loop that starts with f, its step given as a function.  *)
Rounds(g, f, Step, n) == g = [i \in 0..n |-> IF i = 0 THEN f ELSE Step[<<g[i - 1], i>>]]

(* A loop over n rounds is a function on 0..n, by induction on n.          *)
LEMMA RoundsExist ==
  ASSUME NEW n \in Nat, NEW f, NEW Step
  PROVE  \E g : Rounds(g, f, Step, n)
<1> DEFINE S == {m \in Nat : \E g : Rounds(g, f, Step, m)}
<1>1. 0 \in S
  <2>1. PICK g : g = [i \in 0..0 |-> f]
    OBVIOUS
  <2>2. 0..0 = {0}
    OBVIOUS
  <2>3. Rounds(g, f, Step, 0)
    BY <2>1, <2>2 DEF Rounds
  <2> QED
    BY <2>3
<1>2. ASSUME NEW m \in S PROVE m + 1 \in S
  <2>1. PICK g : Rounds(g, f, Step, m)
    BY <1>2
  <2>2. m \in Nat /\ m + 1 \in Nat
    BY <1>2
  <2>3. PICK h : h = [i \in 0..(m + 1) |-> IF i \in 0..m THEN g[i] ELSE Step[<<g[m], m + 1>>]]
    OBVIOUS
  <2>4. PICK k : k = [i \in 0..(m + 1) |-> IF i = 0 THEN f ELSE Step[<<h[i - 1], i>>]]
    OBVIOUS
  <2>5. ASSUME NEW i \in 0..(m + 1) PROVE h[i] = k[i]
    <3>1. CASE i = 0
      <4>1. 0 \in 0..m
        BY <2>2
      <4>2. g[0] = f
        BY <2>1, <4>1 DEF Rounds
      <4> QED
        BY <2>3, <2>4, <3>1, <4>1, <4>2
    <3>2. CASE i # 0 /\ i \in 0..m
      <4>1. i - 1 \in 0..m /\ i - 1 \in 0..(m + 1)
        BY <2>2, <3>2
      <4>2. g[i] = Step[<<g[i - 1], i>>]
        BY <2>1, <3>2 DEF Rounds
      <4>3. h[i] = g[i] /\ h[i - 1] = g[i - 1]
        BY <2>3, <2>5, <3>2, <4>1
      <4>4. k[i] = Step[<<h[i - 1], i>>]
        BY <2>4, <2>5, <3>2
      <4> QED
        BY <4>2, <4>3, <4>4
    <3>3. CASE i = m + 1
      <4>1. i - 1 = m /\ m \in 0..m /\ m \in 0..(m + 1) /\ i \notin 0..m /\ i # 0
        BY <2>2, <3>3
      <4>2. h[i] = Step[<<g[m], m + 1>>] /\ h[m] = g[m]
        BY <2>3, <2>5, <4>1
      <4>3. k[i] = Step[<<h[m], i>>]
        BY <2>4, <2>5, <4>1
      <4> QED
        BY <3>3, <4>2, <4>3
    <3> QED
      BY <2>2, <2>5, <3>1, <3>2, <3>3
  <2>6. h = k
    BY <2>3, <2>4, <2>5
  <2>7. Rounds(h, f, Step, m + 1)
    BY <2>4, <2>6 DEF Rounds
  <2> QED
    BY <2>2, <2>7
<1>3. S = Nat
  <2> HIDE DEF S
  <2>1. S \in SUBSET Nat
    BY DEF S
  <2> QED
    BY <1>1, <1>2, <2>1, SetInduction
<1> QED
  BY <1>3

Nodes1 == SeatOutputs \cup SeatViews \cup Bars \cup {Grab}
Places == Nodes1 \cup {Nothing}
Results == [node : Places, importance : Nat, stamp : Nat, below : BOOLEAN]
NoResult == [node |-> Nothing, importance |-> 0, stamp |-> 0, below |-> TRUE]

(* Importances and times are natural numbers.                              *)
LEMMA ImportanceNat ==
  ASSUME NEW s, NEW n
  PROVE  ImportanceOf(s, n) \in 0..3
BY DEF ImportanceOf

(* A time is a natural number.                                             *)
LEMMA StampNat ==
  ASSUME NEW s, NEW n, NEW S, s.recent \in Seq(S)
  PROVE  StampOf(s, n) \in Nat
<1>1. CASE n \in ToSet(s.recent)
  <2>1. PICK q : q = s.recent
    OBVIOUS
  <2>2. PICK i : i = CHOOSE j \in DOMAIN q : q[j] = n
    OBVIOUS
  <2>3. i \in DOMAIN q
    BY <1>1, <2>1, <2>2 DEF ToSet
  <2>4. StampOf(s, n) = 1 + Len(q) - i
    BY <1>1, <2>1, <2>2 DEF StampOf
  <2> QED
    BY <2>1, <2>3, <2>4
<1>2. CASE n \notin ToSet(s.recent)
  BY <1>2 DEF StampOf
<1> QED
  BY <1>1, <1>2

(* One round of keyboard_refocus().                                        *)
LEMMA PreferredTyped ==
  ASSUME NEW s, NEW S, s.recent \in Seq(S), NEW r \in Results, NEW n \in Places
  PROVE  Preferred(s, r, n) \in Results
<1>1. PICK i \in Nat : i = ImportanceOf(s, n)
  BY ImportanceNat
<1>2. PICK t \in Nat : t = StampOf(s, n)
  BY StampNat
<1>3. PICK b \in BOOLEAN : b = ~Blocks(s, n)
  OBVIOUS
<1>4. PICK p : p = Preferred(s, r, n)
  OBVIOUS
<1>5. \/ p = r
      \/ p = [node |-> n, importance |-> i, stamp |-> t, below |-> b]
      \/ p = [r EXCEPT !.below = b]
  BY <1>1, <1>2, <1>3, <1>4 DEF Preferred
<1>6. p \in Results
  BY <1>5 DEF Results
<1> QED
  BY <1>4, <1>6

(* The loop of keyboard_refocus() over the scene.                          *)
LEMMA BestLoop ==
  ASSUME NEW s, NEW S, s.recent \in Seq(S), NEW q \in Seq(Places), q = Scene(s)
  PROVE  \E g : /\ g[0] = NoResult
                /\ \A i \in 1..Len(q) : g[i] = Preferred(s, g[i - 1], q[i])
                /\ \A i \in 0..Len(q) : g[i] \in Results
                /\ Best(s) = g[Len(q)].node
<1> DEFINE Loop(g) == g = [i \in 0..Len(q) |-> IF i = 0 THEN NoResult ELSE Preferred(s, g[i - 1], q[i])]
           Step == [p \in Results \X (1..Len(q)) |-> Preferred(s, p[1], q[p[2]])]
           T == [i \in 0..Len(q) |-> Results]
<1>1. PICK n \in Nat : n = Len(q)
  OBVIOUS
<1>2. PICK step : step = Step
  OBVIOUS
<1>3. PICK h : Rounds(h, NoResult, step, n)
  BY <1>1, RoundsExist
<1>4. NoResult \in Results
  BY DEF NoResult, Results, Places
<1>5. ASSUME NEW i \in 1..n, NEW r \in Results
      PROVE  step[<<r, i>>] = Preferred(s, r, q[i]) /\ step[<<r, i>>] \in Results
  <2>1. q[i] \in Places
    BY <1>1, <1>5
  <2>2. step[<<r, i>>] = Preferred(s, r, q[i])
    BY <1>1, <1>2
  <2> QED
    BY <2>1, <2>2, PreferredTyped
<1>6. h[0] = NoResult /\ \A i \in 1..n : h[i] = step[<<h[i - 1], i>>]
  BY <1>1, <1>3 DEF Rounds
<1>7. \A i \in 0..n : h[i] \in Results
  <2>1. PICK t : t = [i \in 0..n |-> Results]
    OBVIOUS
  <2>2. \A i \in 0..n : t[i] = Results
    BY <2>1
  <2>3. \A i \in 1..n : i - 1 \in 0..n /\ i \in 0..n
    BY <1>1
  <2>4. h[0] \in t[0]
    BY <1>1, <1>4, <1>6, <2>2
  <2>5. \A i \in 1..n : h[i - 1] \in t[i - 1] => h[i] \in t[i]
    BY <1>5, <1>6, <2>2, <2>3
  <2>6. \A i \in 0..n : h[i] \in t[i]
    BY <1>1, <2>4, <2>5, LoopKeeps
  <2> QED
    BY <2>2, <2>6
<1>8. Loop(h)
  <2>1. \A i \in 0..n : i # 0 => h[i] = Preferred(s, h[i - 1], q[i])
    <3>1. SUFFICES ASSUME NEW i \in 0..n, i # 0 PROVE h[i] = Preferred(s, h[i - 1], q[i])
      OBVIOUS
    <3>2. i \in 1..n /\ i - 1 \in 0..n
      BY <1>1, <3>1
    <3>3. h[i - 1] \in Results
      BY <1>7, <3>2
    <3> QED
      BY <1>5, <1>6, <3>2, <3>3
  <2>2. h = [i \in 0..n |-> IF i = 0 THEN NoResult ELSE step[<<h[i - 1], i>>]]
    BY <1>3 DEF Rounds
  <2>3. PICK k : k = [i \in 0..n |-> IF i = 0 THEN NoResult ELSE Preferred(s, h[i - 1], q[i])]
    OBVIOUS
  <2>4. \A i \in 0..n : k[i] = h[i]
    BY <1>6, <2>1, <2>3
  <2>5. h = k
    BY <2>2, <2>3, <2>4
  <2> QED
    BY <1>1, <2>3, <2>5
<1>9. PICK g : Loop(g) /\ g = CHOOSE x : Loop(x)
  BY <1>8
<1>10. Best(s) = g[Len(q)].node
  <2>1. g = CHOOSE x : Loop(x)
    BY <1>9
  <2> QED
    BY <2>1, Zenon DEF Best, Folded, NoResult
<1>11. g[0] = NoResult /\ \A i \in 1..n : g[i] = Preferred(s, g[i - 1], q[i])
  BY <1>1, <1>9
<1>12. \A i \in 0..n : g[i] \in Results
  <2>1. PICK t : t = [i \in 0..n |-> Results]
    OBVIOUS
  <2>2. \A i \in 0..n : t[i] = Results
    BY <2>1
  <2>3. \A i \in 1..n : i - 1 \in 0..n /\ i \in 0..n /\ q[i] \in Places
    BY <1>1
  <2>4. g[0] \in t[0]
    BY <1>1, <1>4, <1>11, <2>2
  <2>5. ASSUME NEW i \in 1..n, g[i - 1] \in t[i - 1] PROVE g[i] \in t[i]
    <3>1. i \in 0..n /\ i - 1 \in 0..n /\ q[i] \in Places
      BY <2>3
    <3>2. g[i - 1] \in Results
      BY <2>2, <2>5, <3>1
    <3>3. Preferred(s, g[i - 1], q[i]) \in Results
      BY <3>1, <3>2, PreferredTyped
    <3> QED
      BY <1>11, <2>2, <3>1, <3>3
  <2>6. \A i \in 0..n : g[i] \in t[i]
    BY <1>1, <2>4, <2>5, LoopKeeps
  <2> QED
    BY <2>2, <2>6
<1> QED
  BY <1>1, <1>10, <1>11, <1>12

(* Of the first nodes of a scene: that none of them blocks what is below,  *)
(* which of them is heard, and which of two is preferred.                  *)
OpenTo(s, q, i) == \A j \in 1..i : ImportanceOf(s, q[j]) > 0 => ~Blocks(s, q[j])
LiveAt(s, q, i) == ImportanceOf(s, q[i]) > 0 /\ OpenTo(s, q, i - 1)
BeatsAt(s, q, i, j) ==
  \/ ImportanceOf(s, q[i]) > ImportanceOf(s, q[j])
  \/ /\ ImportanceOf(s, q[i]) = ImportanceOf(s, q[j])
     /\ StampOf(s, q[i]) > StampOf(s, q[j]) \/ (StampOf(s, q[i]) = StampOf(s, q[j]) /\ i <= j)
NoneUpTo(s, q, r, i) ==
  r.node = Nothing /\ r.importance = 0 /\ r.stamp = 0 /\ \A j \in 1..i : ~LiveAt(s, q, j)
BestUpTo(s, q, r, i) ==
  \E k \in 1..i :
    /\ LiveAt(s, q, k) /\ r.node = q[k]
    /\ r.importance = ImportanceOf(s, q[k]) /\ r.stamp = StampOf(s, q[k])
    /\ \A j \in 1..i : LiveAt(s, q, j) => BeatsAt(s, q, k, j)
FoundUpTo(s, q, r, i) == (r.below <=> OpenTo(s, q, i)) /\ (NoneUpTo(s, q, r, i) \/ BestUpTo(s, q, r, i))

(* A round keeps that the result is the best node so far.                  *)
LEMMA PreferredRight ==
  ASSUME NEW s, NEW S, s.recent \in Seq(S), NEW q \in Seq(Places), NEW i \in 1..Len(q), NEW r \in Results,
         FoundUpTo(s, q, r, i - 1), NEW p, p = Preferred(s, r, q[i])
  PROVE  FoundUpTo(s, q, p, i)
<1>1. i \in Nat /\ i - 1 \in Nat /\ i \in 1..i /\ (\A j \in 1..(i - 1) : j \in 1..i)
      /\ \A j \in 1..i : j \in 1..(i - 1) \/ j = i
  OBVIOUS
<1>2. PICK n : n = q[i]
  OBVIOUS
<1>3. PICK a \in 0..3 : a = ImportanceOf(s, n)
  BY ImportanceNat
<1>4. PICK t \in Nat : t = StampOf(s, n)
  BY StampNat
<1>5. PICK b \in BOOLEAN : b = ~Blocks(s, n)
  OBVIOUS
<1>6. OpenTo(s, q, i) <=> OpenTo(s, q, i - 1) /\ (a > 0 => b)
  BY <1>1, <1>2, <1>3, <1>5 DEF OpenTo
<1>7. LiveAt(s, q, i) <=> a > 0 /\ r.below
  BY <1>2, <1>3 DEF LiveAt, FoundUpTo
<1>8. r.importance \in Nat /\ r.stamp \in Nat /\ r.below \in BOOLEAN
  BY DEF Results
<1>9. p = IF ~r.below \/ a = 0 THEN r
          ELSE IF a > r.importance \/ (a = r.importance /\ t > r.stamp)
          THEN [node |-> n, importance |-> a, stamp |-> t, below |-> b]
          ELSE [r EXCEPT !.below = b]
  BY <1>2, <1>3, <1>4, <1>5 DEF Preferred
<1>10. CASE ~r.below \/ a = 0
  <2>1. p = r
    BY <1>9, <1>10
  <2>2. ~LiveAt(s, q, i)
    BY <1>3, <1>7, <1>10
  <2>3. r.below <=> OpenTo(s, q, i)
    BY <1>3, <1>6, <1>10 DEF FoundUpTo
  <2>4. NoneUpTo(s, q, r, i - 1) => NoneUpTo(s, q, r, i)
    BY <1>1, <2>2 DEF NoneUpTo
  <2>5. BestUpTo(s, q, r, i - 1) => BestUpTo(s, q, r, i)
    BY <1>1, <2>2 DEF BestUpTo
  <2> QED
    BY <2>1, <2>3, <2>4, <2>5 DEF FoundUpTo
<1>11. CASE r.below /\ a > 0 /\ (a > r.importance \/ (a = r.importance /\ t > r.stamp))
  <2>1. p = [node |-> n, importance |-> a, stamp |-> t, below |-> b]
    BY <1>3, <1>9, <1>11
  <2>2. p.node = n /\ p.importance = a /\ p.stamp = t /\ p.below = b
    BY <2>1
  <2>3. p.below <=> OpenTo(s, q, i)
    BY <1>6, <1>11, <2>2 DEF FoundUpTo
  <2>4. LiveAt(s, q, i) /\ BeatsAt(s, q, i, i)
    BY <1>1, <1>7, <1>11 DEF BeatsAt
  <2>5. ASSUME NEW j \in 1..(i - 1), LiveAt(s, q, j) PROVE BeatsAt(s, q, i, j)
    <3>1. PICK k \in 1..(i - 1) : /\ r.importance = ImportanceOf(s, q[k]) /\ r.stamp = StampOf(s, q[k])
                                  /\ BeatsAt(s, q, k, j)
      <4>1. ~NoneUpTo(s, q, r, i - 1)
        BY <2>5 DEF NoneUpTo
      <4> QED
        BY <2>5, <4>1 DEF FoundUpTo, BestUpTo
    <3>2. ImportanceOf(s, q[j]) \in Nat /\ StampOf(s, q[j]) \in Nat
      BY ImportanceNat, StampNat
    <3> QED
      BY <1>2, <1>3, <1>4, <1>8, <1>11, <3>1, <3>2 DEF BeatsAt
  <2>6. BestUpTo(s, q, p, i)
    BY <1>1, <1>2, <1>3, <1>4, <2>2, <2>4, <2>5 DEF BestUpTo
  <2> QED
    BY <2>3, <2>6 DEF FoundUpTo
<1>12. CASE r.below /\ a > 0 /\ ~(a > r.importance \/ (a = r.importance /\ t > r.stamp))
  <2>1. p = [r EXCEPT !.below = b]
    BY <1>3, <1>9, <1>12
  <2>2. p.node = r.node /\ p.importance = r.importance /\ p.stamp = r.stamp /\ p.below = b
    BY <2>1 DEF Results
  <2>3. p.below <=> OpenTo(s, q, i)
    BY <1>6, <1>12, <2>2 DEF FoundUpTo
  <2>4. ~NoneUpTo(s, q, r, i - 1)
    BY <1>12 DEF NoneUpTo
  <2>5. PICK k \in 1..(i - 1) : /\ LiveAt(s, q, k) /\ r.node = q[k]
                                /\ r.importance = ImportanceOf(s, q[k]) /\ r.stamp = StampOf(s, q[k])
                                /\ \A j \in 1..(i - 1) : LiveAt(s, q, j) => BeatsAt(s, q, k, j)
    BY <2>4 DEF FoundUpTo, BestUpTo
  <2>6. BeatsAt(s, q, k, i)
    BY <1>1, <1>2, <1>3, <1>4, <1>8, <1>12, <2>5 DEF BeatsAt
  <2>7. \A j \in 1..i : LiveAt(s, q, j) => BeatsAt(s, q, k, j)
    BY <1>1, <2>5, <2>6
  <2>8. k \in 1..i
    BY <1>1, <2>5
  <2>9. BestUpTo(s, q, p, i)
    BY <2>2, <2>5, <2>7, <2>8 DEF BestUpTo
  <2> QED
    BY <2>3, <2>9 DEF FoundUpTo
<1> QED
  BY <1>3, <1>8, <1>10, <1>11, <1>12

(* What keyboard_refocus() chooses, by its place in the scene.             *)
LEMMA BestInScene ==
  ASSUME NEW s, NEW S, s.recent \in Seq(S), NEW q \in Seq(Places), q = Scene(s)
  PROVE  \/ Best(s) = Nothing /\ \A j \in 1..Len(q) : ~LiveAt(s, q, j)
         \/ \E k \in 1..Len(q) : /\ LiveAt(s, q, k) /\ Best(s) = q[k]
                                 /\ \A j \in 1..Len(q) : LiveAt(s, q, j) => BeatsAt(s, q, k, j)
<1>1. PICK g : /\ g[0] = NoResult
               /\ \A i \in 1..Len(q) : g[i] = Preferred(s, g[i - 1], q[i])
               /\ \A i \in 0..Len(q) : g[i] \in Results
               /\ Best(s) = g[Len(q)].node
  BY BestLoop
<1>2. PICK n \in Nat : n = Len(q)
  OBVIOUS
<1>3. PICK t : t = [i \in 0..n |-> {r \in Results : FoundUpTo(s, q, r, i)}]
  OBVIOUS
<1>4. \A i \in 0..n : t[i] = {r \in Results : FoundUpTo(s, q, r, i)}
  BY <1>3
<1>5. g[0] \in t[0]
  <2>1. FoundUpTo(s, q, NoResult, 0)
    BY DEF FoundUpTo, NoneUpTo, OpenTo, NoResult
  <2> QED
    BY <1>1, <1>2, <1>4, <2>1
<1>6. ASSUME NEW i \in 1..n, g[i - 1] \in t[i - 1] PROVE g[i] \in t[i]
  <2>1. i \in 0..n /\ i - 1 \in 0..n /\ i \in 1..Len(q)
    BY <1>2
  <2>2. g[i - 1] \in Results /\ FoundUpTo(s, q, g[i - 1], i - 1) /\ g[i] \in Results
    BY <1>1, <1>2, <1>4, <1>6, <2>1
  <2>3. PICK p, r : p = g[i] /\ r = g[i - 1]
    OBVIOUS
  <2>4. p = Preferred(s, r, q[i])
    BY <1>1, <2>1, <2>3
  <2>5. FoundUpTo(s, q, p, i)
    BY <2>1, <2>2, <2>3, <2>4, PreferredRight
  <2> QED
    BY <1>4, <2>1, <2>2, <2>3, <2>5
<1>7. \A i \in 0..n : g[i] \in t[i]
  BY <1>5, <1>6, LoopKeeps
<1>8. FoundUpTo(s, q, g[n], n)
  BY <1>2, <1>4, <1>7
<1> QED
  BY <1>1, <1>2, <1>8 DEF FoundUpTo, NoneUpTo, BestUpTo

ViewStates ==
  [mapped : BOOLEAN, minimized : BOOLEAN, out : SeatOutputs \cup {Nothing}, here : BOOLEAN, edge : BOOLEAN]
BarStates ==
  [mapped : BOOLEAN, mode : {"none", "exclusive", "demand"}, top : BOOLEAN, out : SeatOutputs \cup {Nothing}]
Seats ==
  [output : SeatOutputs, present : SUBSET SeatOutputs, focus : Places, active : SeatViews \cup Bars \cup {Nothing},
   toplevel : SeatViews \cup {Nothing}, activated : SUBSET SeatViews, recent : Seq(SeatViews \cup Bars),
   newest : Bars \cup {Nothing, "never"}, stack : Seq(SeatViews), bars : Seq(Bars),
   grab : SeatOutputs \cup {Nothing}, locked : SUBSET SeatOutputs, view : [SeatViews -> ViewStates],
   bar : [Bars -> BarStates], unseen : BOOLEAN]

(* A sequence that holds everything once, and where it holds it.           *)
EachOnce(q) == \A i, j \in DOMAIN q : q[i] = q[j] => i = j
PositionIn(q, x) == CHOOSE i \in DOMAIN q : q[i] = x

(* Where something is that is there once.                                  *)
LEMMA PositionIs ==
  ASSUME NEW q, EachOnce(q), NEW i \in DOMAIN q, NEW x, x = q[i]
  PROVE  PositionIn(q, x) = i
<1>1. PICK k : k = CHOOSE j \in DOMAIN q : q[j] = x
  OBVIOUS
<1>2. k \in DOMAIN q /\ q[k] = x
  BY <1>1
<1>3. k = i
  BY <1>2 DEF EachOnce
<1> QED
  BY <1>1, <1>3 DEF PositionIn

(* What is at the place where something is.                                *)
LEMMA PositionHolds ==
  ASSUME NEW q, NEW x \in ToSet(q)
  PROVE  PositionIn(q, x) \in DOMAIN q /\ q[PositionIn(q, x)] = x
BY DEF PositionIn, ToSet

(* A sequence without one of its elements.                                 *)
LEMMA OneTaken ==
  ASSUME NEW S, NEW q \in Seq(S), NEW i \in DOMAIN q, NEW r, r = RemoveAt(q, i)
  PROVE  /\ r \in Seq(S) /\ Len(r) = Len(q) - 1
         /\ \A j \in DOMAIN r : r[j] = IF j < i THEN q[j] ELSE q[j + 1]
<1>1. i \in 1..Len(q) /\ Len(q) \in Nat
  OBVIOUS
<1>2. /\ SubSeq(q, 1, i - 1) \in Seq(S) /\ Len(SubSeq(q, 1, i - 1)) = i - 1
      /\ \A j \in 1..(i - 1) : SubSeq(q, 1, i - 1)[j] = q[j]
  <2>1. /\ SubSeq(q, 1, i - 1) \in Seq(S)
        /\ Len(SubSeq(q, 1, i - 1)) = IF 1 <= i - 1 THEN (i - 1) - 1 + 1 ELSE 0
        /\ \A j \in 1..((i - 1) - 1 + 1) : SubSeq(q, 1, i - 1)[j] = q[1 + j - 1]
    <3>1. \A j \in 1..(i - 1) : q[j] \in S
      BY <1>1
    <3>2. 1 \in Int /\ i - 1 \in Int
      BY <1>1
    <3> QED
      BY <3>1, <3>2, SubSeqProperties
  <2> QED
    BY <1>1, <2>1
<1>3. /\ SubSeq(q, i + 1, Len(q)) \in Seq(S)
      /\ Len(SubSeq(q, i + 1, Len(q))) = Len(q) - i
      /\ \A j \in 1..(Len(q) - i) : SubSeq(q, i + 1, Len(q))[j] = q[j + i]
  <2>1. /\ SubSeq(q, i + 1, Len(q)) \in Seq(S)
        /\ Len(SubSeq(q, i + 1, Len(q))) = IF i + 1 <= Len(q) THEN Len(q) - (i + 1) + 1 ELSE 0
        /\ \A j \in 1..(Len(q) - (i + 1) + 1) : SubSeq(q, i + 1, Len(q))[j] = q[i + 1 + j - 1]
    <3>1. \A j \in (i + 1)..Len(q) : q[j] \in S
      BY <1>1
    <3>2. i + 1 \in Int /\ Len(q) \in Int
      BY <1>1
    <3> QED
      BY <3>1, <3>2, SubSeqProperties
  <2>2. \A j \in 1..(Len(q) - i) : i + 1 + j - 1 = j + i
    BY <1>1
  <2>3. Len(q) - (i + 1) + 1 = Len(q) - i
    BY <1>1
  <2>4. (IF i + 1 <= Len(q) THEN Len(q) - i ELSE 0) = Len(q) - i
    BY <1>1
  <2> QED
    BY <2>1, <2>2, <2>3, <2>4
<1>4. PICK a \in Seq(S) : a = SubSeq(q, 1, i - 1) /\ Len(a) = i - 1 /\ \A j \in 1..(i - 1) : a[j] = q[j]
  BY <1>2
<1>5. PICK b \in Seq(S) : /\ b = SubSeq(q, i + 1, Len(q)) /\ Len(b) = Len(q) - i
                          /\ \A j \in 1..(Len(q) - i) : b[j] = q[j + i]
  BY <1>3
<1>6. r = a \o b
  BY <1>4, <1>5 DEF RemoveAt
<1>7. /\ r \in Seq(S) /\ Len(r) = Len(a) + Len(b)
      /\ \A j \in 1..(Len(a) + Len(b)) : r[j] = IF j <= Len(a) THEN a[j] ELSE b[j - Len(a)]
  BY <1>6, ConcatProperties
<1>8. r \in Seq(S) /\ Len(r) = Len(q) - 1
  BY <1>1, <1>4, <1>5, <1>7
<1>9. ASSUME NEW j \in DOMAIN r PROVE r[j] = IF j < i THEN q[j] ELSE q[j + 1]
  <2>1. j \in 1..(Len(q) - 1)
    BY <1>8
  <2>2. CASE j < i
    <3>1. j \in 1..(Len(a) + Len(b)) /\ j <= Len(a) /\ j \in 1..(i - 1)
      BY <1>1, <1>4, <1>5, <2>1, <2>2
    <3> QED
      BY <1>4, <1>7, <2>2, <3>1
  <2>3. CASE ~(j < i)
    <3>1. j \in 1..(Len(a) + Len(b)) /\ ~(j <= Len(a)) /\ j - Len(a) \in 1..(Len(q) - i)
      <4>1. PICK la, lb, l : la = Len(a) /\ lb = Len(b) /\ l = Len(q)
        OBVIOUS
      <4>2. la = i - 1 /\ lb = l - i
        BY <1>4, <1>5, <4>1
      <4>3. l \in Nat /\ i \in 1..l /\ j \in 1..(l - 1) /\ j >= i
        BY <1>1, <2>1, <2>3, <4>1
      <4>4. j \in 1..(la + lb) /\ ~(j <= la) /\ j - la \in 1..(l - i)
        BY <4>2, <4>3
      <4> QED
        BY <4>1, <4>4
    <3>2. (j - Len(a)) + i = j + 1
      BY <1>1, <1>4, <2>1
    <3> QED
      BY <1>5, <1>7, <2>3, <3>1, <3>2
  <2> QED
    BY <2>2, <2>3
<1> QED
  BY <1>8, <1>9

(* Without() takes what it should and keeps the order of the rest.          *)
LEMMA WithoutIs ==
  ASSUME NEW S, NEW q \in Seq(S), EachOnce(q), NEW x, NEW r, r = Without(q, x)
  PROVE  /\ r \in Seq(S) /\ EachOnce(r) /\ Len(r) <= Len(q) /\ ToSet(r) = ToSet(q) \ {x}
         /\ \A a, b \in ToSet(r) : PositionIn(r, a) < PositionIn(r, b) <=> PositionIn(q, a) < PositionIn(q, b)
<1>1. CASE x \notin ToSet(q)
  BY <1>1 DEF Without
<1>2. CASE x \in ToSet(q)
  <2>1. PICK i \in DOMAIN q : q[i] = x /\ r = RemoveAt(q, i)
    <3>1. PICK i : i = CHOOSE j \in DOMAIN q : q[j] = x
      OBVIOUS
    <3>2. i \in DOMAIN q /\ q[i] = x
      BY <1>2, <3>1 DEF ToSet
    <3>3. r = RemoveAt(q, i)
      BY <1>2, <3>1 DEF Without
    <3> QED
      BY <3>2, <3>3
  <2>2. /\ r \in Seq(S) /\ Len(r) = Len(q) - 1
        /\ \A j \in DOMAIN r : r[j] = IF j < i THEN q[j] ELSE q[j + 1]
    BY <2>1, OneTaken
  <2>3. PICK n \in Nat : n = Len(r)
    BY <2>2
  <2>4. DOMAIN r = 1..n /\ DOMAIN q = 1..(n + 1) /\ i \in 1..(n + 1)
    BY <2>1, <2>2, <2>3
  <2>5. PICK from : from = [j \in 1..n |-> IF j < i THEN j ELSE j + 1]
    OBVIOUS
  <2>6. /\ \A j \in 1..n : from[j] \in 1..(n + 1) /\ from[j] # i /\ r[j] = q[from[j]]
        /\ \A j, k \in 1..n : from[j] < from[k] <=> j < k
        /\ \A j, k \in 1..n : from[j] = from[k] => j = k
    <3>1. \A j \in 1..n : from[j] = IF j < i THEN j ELSE j + 1
      BY <2>5
    <3>2. \A j \in 1..n : from[j] \in 1..(n + 1) /\ from[j] # i
      BY <2>4, <3>1
    <3>3. \A j \in 1..n : r[j] = q[from[j]]
      BY <2>2, <2>4, <3>1
    <3>4. \A j, k \in 1..n : from[j] < from[k] <=> j < k
      BY <2>4, <3>1
    <3>5. \A j, k \in 1..n : from[j] = from[k] => j = k
      BY <2>4, <3>1
    <3> QED
      BY <3>2, <3>3, <3>4, <3>5
  <2>7. EachOnce(r)
    BY <2>4, <2>6 DEF EachOnce
  <2>8. ASSUME NEW a \in ToSet(r) PROVE a \in ToSet(q) \ {x}
    <3>1. PICK j \in 1..n : r[j] = a
      BY <2>4, <2>8 DEF ToSet
    <3>2. from[j] \in DOMAIN q /\ a = q[from[j]] /\ from[j] # i
      BY <2>4, <2>6, <3>1
    <3> QED
      BY <2>1, <3>2 DEF ToSet, EachOnce
  <2>9. ASSUME NEW a \in ToSet(q) \ {x} PROVE a \in ToSet(r)
    <3>1. PICK k \in 1..(n + 1) : q[k] = a
      BY <2>4, <2>9 DEF ToSet
    <3>2. k # i
      BY <2>1, <2>9, <3>1
    <3>3. CASE k < i
      <4>1. k \in 1..n /\ r[k] = a
        BY <2>2, <2>4, <3>1, <3>3
      <4> QED
        BY <2>4, <4>1 DEF ToSet
    <3>4. CASE k > i
      <4>1. k - 1 \in 1..n /\ ~(k - 1 < i) /\ (k - 1) + 1 = k
        BY <2>4, <3>4
      <4>2. r[k - 1] = a
        BY <2>2, <2>4, <3>1, <4>1
      <4> QED
        BY <2>4, <4>1, <4>2 DEF ToSet
    <3> QED
      BY <2>4, <3>1, <3>2, <3>3, <3>4
  <2>10. ASSUME NEW a \in ToSet(r), NEW b \in ToSet(r)
         PROVE  PositionIn(r, a) < PositionIn(r, b) <=> PositionIn(q, a) < PositionIn(q, b)
    <3>1. PICK j \in 1..n : r[j] = a
      BY <2>4, <2>10 DEF ToSet
    <3>2. PICK k \in 1..n : r[k] = b
      BY <2>4, <2>10 DEF ToSet
    <3>3. PositionIn(r, a) = j
      BY <2>4, <2>7, <3>1, PositionIs
    <3>4. PositionIn(r, b) = k
      BY <2>4, <2>7, <3>2, PositionIs
    <3>5. PICK fj, fk : fj = from[j] /\ fk = from[k]
      OBVIOUS
    <3>6. fj \in DOMAIN q /\ fk \in DOMAIN q /\ q[fj] = a /\ q[fk] = b
      BY <2>4, <2>6, <3>1, <3>2, <3>5
    <3>7. PositionIn(q, a) = fj
      BY <3>6, PositionIs
    <3>8. PositionIn(q, b) = fk
      BY <3>6, PositionIs
    <3> QED
      BY <2>6, <3>3, <3>4, <3>5, <3>7, <3>8
  <2>11. Len(r) <= Len(q)
    BY <2>2, <2>3
  <2> QED
    BY <2>2, <2>7, <2>8, <2>9, <2>10, <2>11
<1> QED
  BY <1>1, <1>2

(* A sequence with an element more in front.                               *)
InFront(x, q) == <<x>> \o q

(* What was there keeps its order behind the new element.                  *)
LEMMA PutInFront ==
  ASSUME NEW S, NEW q \in Seq(S), EachOnce(q), NEW x \in S, x \notin ToSet(q), NEW r, r = InFront(x, q)
  PROVE  /\ r \in Seq(S) /\ EachOnce(r) /\ Len(r) = Len(q) + 1 /\ ToSet(r) = ToSet(q) \cup {x}
         /\ \A a \in ToSet(q) : PositionIn(r, a) = PositionIn(q, a) + 1
<1>1. <<x>> \in Seq(S) /\ Len(<<x>>) = 1 /\ <<x>>[1] = x
  OBVIOUS
<1>2. PICK n \in Nat : n = Len(q)
  OBVIOUS
<1>3. PICK y \in Seq(S) : y = <<x>> /\ Len(y) = 1 /\ y[1] = x
  BY <1>1
<1>4. r = y \o q
  BY <1>3 DEF InFront
<1>5. /\ r \in Seq(S) /\ Len(r) = Len(y) + Len(q)
      /\ \A j \in 1..(Len(y) + Len(q)) : r[j] = IF j <= Len(y) THEN y[j] ELSE q[j - Len(y)]
  BY <1>4, ConcatProperties
<1>6. r \in Seq(S) /\ Len(r) = n + 1 /\ r[1] = x
  BY <1>2, <1>3, <1>5
<1>7. ASSUME NEW j \in 1..n PROVE r[j + 1] = q[j]
  <2>1. j + 1 \in 1..(Len(y) + Len(q)) /\ ~(j + 1 <= Len(y)) /\ (j + 1) - Len(y) = j
    BY <1>2, <1>3
  <2> QED
    BY <1>5, <2>1
<1>8. ASSUME NEW j \in 1..(n + 1), j # 1 PROVE j - 1 \in 1..n /\ r[j] = q[j - 1]
  <2>1. j - 1 \in 1..n /\ (j - 1) + 1 = j
    BY <1>2, <1>8
  <2> QED
    BY <1>7, <2>1
<1>9. EachOnce(r)
  <2>1. \A j \in 1..n : q[j] # x
    <3>1. DOMAIN q = 1..n
      BY <1>2
    <3> QED
      BY <3>1 DEF ToSet
  <2>2. \A j, k \in 1..n : q[j] = q[k] => j = k
    <3>1. DOMAIN q = 1..n
      BY <1>2
    <3> QED
      BY <3>1 DEF EachOnce
  <2>3. ASSUME NEW j \in 1..(n + 1), NEW k \in 1..(n + 1), r[j] = r[k] PROVE j = k
    <3>1. CASE j = 1 /\ k # 1
      <4>1. k - 1 \in 1..n /\ r[k] = q[k - 1]
        BY <1>8, <3>1
      <4> QED
        BY <1>6, <2>1, <2>3, <3>1, <4>1
    <3>2. CASE j # 1 /\ k = 1
      <4>1. j - 1 \in 1..n /\ r[j] = q[j - 1]
        BY <1>8, <3>2
      <4> QED
        BY <1>6, <2>1, <2>3, <3>2, <4>1
    <3>3. CASE j # 1 /\ k # 1
      <4>1. /\ j - 1 \in 1..n /\ r[j] = q[j - 1]
            /\ k - 1 \in 1..n /\ r[k] = q[k - 1]
        BY <1>8, <3>3
      <4>2. j - 1 = k - 1
        BY <2>2, <2>3, <4>1
      <4> QED
        BY <1>2, <4>2
    <3> QED
      BY <3>1, <3>2, <3>3
  <2> QED
    BY <1>6, <2>3 DEF EachOnce
<1>10. ToSet(r) = ToSet(q) \cup {x}
  <2>1. ASSUME NEW a \in ToSet(r) PROVE a \in ToSet(q) \cup {x}
    <3>1. PICK j \in 1..(n + 1) : a = r[j]
      BY <1>6, <2>1 DEF ToSet
    <3>2. CASE j = 1
      BY <1>6, <3>1, <3>2
    <3>3. CASE j # 1
      <4>1. j - 1 \in 1..n /\ a = q[j - 1]
        BY <1>8, <3>1, <3>3
      <4>2. j - 1 \in DOMAIN q
        BY <1>2, <4>1
      <4> QED
        BY <4>1, <4>2 DEF ToSet
    <3> QED
      BY <3>2, <3>3
  <2>2. ASSUME NEW a \in ToSet(q) PROVE a \in ToSet(r)
    <3>1. PICK j \in 1..n : a = q[j]
      BY <1>2, <2>2 DEF ToSet
    <3>2. j + 1 \in DOMAIN r /\ r[j + 1] = a
      BY <1>6, <1>7, <3>1
    <3> QED
      BY <3>2 DEF ToSet
  <2>3. x \in ToSet(r)
    <3>1. 1 \in DOMAIN r /\ r[1] = x
      BY <1>6
    <3> QED
      BY <3>1 DEF ToSet
  <2> QED
    BY <2>1, <2>2, <2>3
<1>11. ASSUME NEW a \in ToSet(q) PROVE PositionIn(r, a) = PositionIn(q, a) + 1
  <2>1. PICK j \in 1..n : a = q[j]
    BY <1>2, <1>11 DEF ToSet
  <2>2. PositionIn(q, a) = j
    BY <1>2, <2>1, PositionIs
  <2>3. PICK k : k = j + 1
    OBVIOUS
  <2>4. k \in DOMAIN r /\ a = r[k]
    BY <1>6, <1>7, <2>1, <2>3
  <2>5. PositionIn(r, a) = k
    BY <1>9, <2>4, PositionIs
  <2> QED
    BY <2>2, <2>3, <2>5
<1> QED
  BY <1>2, <1>6, <1>9, <1>10, <1>11

(* What is brought to the front is there once.                             *)
LEMMA BroughtToFront ==
  ASSUME NEW S, NEW q \in Seq(S), EachOnce(q), NEW x \in S, NEW r, r = InFront(x, Without(q, x))
  PROVE  r \in Seq(S) /\ EachOnce(r) /\ ToSet(r) = ToSet(q) \cup {x}
<1>1. PICK p : p = Without(q, x)
  OBVIOUS
<1>2. p \in Seq(S) /\ EachOnce(p) /\ ToSet(p) = ToSet(q) \ {x}
  BY <1>1, WithoutIs
<1>3. PICK z : z = InFront(x, p)
  OBVIOUS
<1>4. p \in Seq(S) /\ EachOnce(p) /\ x \notin ToSet(p)
  BY <1>2
<1>5. z \in Seq(S) /\ EachOnce(z) /\ ToSet(z) = ToSet(p) \cup {x}
  BY <1>3, <1>4, PutInFront
<1> QED
  BY <1>1, <1>2, <1>3, <1>5

(* A state of the seat whose sequences hold everything once.               *)
Sequenced(s) == s \in Seats /\ EachOnce(s.recent) /\ EachOnce(s.stack) /\ EachOnce(s.bars)

(* The nodes of the scene, and the place of each.                          *)
InScene(s) == {s.output, Grab} \cup ToSet(s.bars) \cup ToSet(s.stack)
Place(s, n) ==
  CASE n \in SeatOutputs -> 1
    [] n = Grab -> 2
    [] n \in Bars -> IF s.bar[n].top THEN 2 + PositionIn(s.bars, n)
                     ELSE 2 + Len(s.bars) + Len(s.stack) + PositionIn(s.bars, n)
    [] OTHER -> 2 + Len(s.bars) + PositionIn(s.stack, n)

(* The layer surfaces of one level.                                        *)
LEMMA LevelIs ==
  ASSUME NEW s, s \in Seats, NEW top, NEW q, q = Level(s, top)
  PROVE  /\ q \in Seq(Places) /\ Len(q) = Len(s.bars)
         /\ \A i \in 1..Len(s.bars) : q[i] = IF s.bar[s.bars[i]].top = top THEN s.bars[i] ELSE Nothing
<1>1. PICK bars \in Seq(Bars) : bars = s.bars
  BY DEF Seats
<1>2. PICK n \in Nat : n = Len(bars)
  OBVIOUS
<1>3. DOMAIN bars = 1..n /\ \A i \in 1..n : bars[i] \in Places
  <2>1. DOMAIN bars = 1..n
    BY <1>2
  <2>2. \A i \in 1..n : bars[i] \in Bars
    BY <1>2
  <2> QED
    BY <2>1, <2>2 DEF Places, Nodes1
<1>4. q = [i \in 1..n |-> IF s.bar[bars[i]].top = top THEN bars[i] ELSE Nothing]
  BY <1>1, <1>3 DEF Level
<1>5. Nothing \in Places
  BY DEF Places
<1>6. \A i \in 1..n : q[i] = (IF s.bar[bars[i]].top = top THEN bars[i] ELSE Nothing) /\ q[i] \in Places
  BY <1>3, <1>4, <1>5
<1>7. q \in [1..n -> Places]
  BY <1>4, <1>6
<1>8. q \in Seq(Places) /\ Len(q) = n
  BY <1>2, <1>7
<1> QED
  BY <1>1, <1>2, <1>6, <1>8

(* The scene, place by place.                                              *)
SceneLaidOut(s, q) ==
  /\ q \in Seq(Places) /\ Len(q) = 2 + Len(s.bars) + Len(s.stack) + Len(s.bars)
  /\ q[1] = s.output /\ q[2] = Grab
  /\ \A i \in 1..Len(s.bars) : q[2 + i] = IF s.bar[s.bars[i]].top THEN s.bars[i] ELSE Nothing
  /\ \A i \in 1..Len(s.stack) : q[2 + Len(s.bars) + i] = s.stack[i]
  /\ \A i \in 1..Len(s.bars) :
       q[2 + Len(s.bars) + Len(s.stack) + i] = IF s.bar[s.bars[i]].top THEN Nothing ELSE s.bars[i]

(* The places of the scene are laid out like this.                         *)
LEMMA SceneIs ==
  ASSUME NEW s, s \in Seats, NEW q, q = Scene(s)
  PROVE  SceneLaidOut(s, q)
<1> DEFINE Of(top, i) == IF s.bar[s.bars[i]].top = top THEN s.bars[i] ELSE Nothing
<1>1. PICK yes \in BOOLEAN : yes = TRUE
  OBVIOUS
<1>2. PICK no \in BOOLEAN : no = FALSE
  OBVIOUS
<1>3. PICK l \in Nat : l = Len(s.bars)
  BY DEF Seats
<1>4. PICK k \in Nat : k = Len(s.stack)
  BY DEF Seats
<1>5. l \in Nat /\ k \in Nat
  OBVIOUS
<1>6. PICK a : a = Level(s, yes)
  OBVIOUS
<1>7. PICK b : b = Level(s, no)
  OBVIOUS
<1>8. a \in Seq(Places) /\ Len(a) = l /\ \A i \in 1..l : a[i] = Of(yes, i)
  BY <1>3, <1>6, LevelIs
<1>9. b \in Seq(Places) /\ Len(b) = l /\ \A i \in 1..l : b[i] = Of(no, i)
  BY <1>3, <1>7, LevelIs
<1> HIDE DEF Of
<1>10. PICK stack : stack = s.stack
  OBVIOUS
<1>11. stack \in Seq(Places) /\ Len(stack) = k
  <2>1. stack \in Seq(SeatViews)
    BY <1>10 DEF Seats
  <2>2. SeatViews \subseteq Places
    BY DEF Places, Nodes1
  <2>3. stack \in Seq(Places)
    BY <2>1, <2>2
  <2> QED
    BY <1>4, <1>10, <2>3
<1>12. PICK o, grab : o = s.output /\ grab = Grab
  OBVIOUS
<1>13. o \in Places /\ grab \in Places
  BY <1>12 DEF Seats, Places, Nodes1
<1>14. PICK top : top = <<o, grab>>
  OBVIOUS
<1>15. top \in Seq(Places) /\ Len(top) = 2 /\ top[1] = o /\ top[2] = grab
  BY <1>13, <1>14
<1>16. PICK u : u = top \o a
  OBVIOUS
<1>17. PICK v : v = u \o stack
  OBVIOUS
<1>18. q = v \o b
  BY <1>1, <1>2, <1>6, <1>7, <1>10, <1>12, <1>14, <1>16, <1>17 DEF Scene
<1>19. /\ u \in Seq(Places) /\ Len(u) = Len(top) + Len(a)
       /\ \A j \in 1..(Len(top) + Len(a)) : u[j] = IF j <= Len(top) THEN top[j] ELSE a[j - Len(top)]
  BY <1>8, <1>15, <1>16, ConcatProperties
<1>20. /\ v \in Seq(Places) /\ Len(v) = Len(u) + Len(stack)
       /\ \A j \in 1..(Len(u) + Len(stack)) : v[j] = IF j <= Len(u) THEN u[j] ELSE stack[j - Len(u)]
  <2>1. u \in Seq(Places) /\ stack \in Seq(Places)
    BY <1>11, <1>19
  <2> QED
    BY <1>17, <2>1, ConcatProperties
<1>21. /\ q \in Seq(Places) /\ Len(q) = Len(v) + Len(b)
       /\ \A j \in 1..(Len(v) + Len(b)) : q[j] = IF j <= Len(v) THEN v[j] ELSE b[j - Len(v)]
  <2>1. v \in Seq(Places) /\ b \in Seq(Places)
    BY <1>9, <1>20
  <2> QED
    BY <1>18, <2>1, ConcatProperties
<1>22. Len(top) = 2 /\ Len(a) = l /\ Len(u) = 2 + l /\ Len(stack) = k /\ Len(v) = 2 + l + k /\ Len(b) = l
  <2>1. Len(top) = 2 /\ Len(a) = l /\ Len(b) = l /\ Len(stack) = k
    BY <1>8, <1>9, <1>11, <1>15
  <2>2. Len(u) = 2 + l
    BY <1>19, <2>1
  <2>3. Len(v) = 2 + l + k
    BY <1>20, <2>1, <2>2
  <2> QED
    BY <2>1, <2>2, <2>3
<1>23. \A j \in 1..(2 + l) : u[j] = IF j <= 2 THEN top[j] ELSE a[j - 2]
  BY <1>19, <1>22
<1>24. \A j \in 1..(2 + l + k) : v[j] = IF j <= 2 + l THEN u[j] ELSE stack[j - (2 + l)]
  BY <1>20, <1>22
<1>25. \A j \in 1..(2 + l + k + l) : q[j] = IF j <= 2 + l + k THEN v[j] ELSE b[j - (2 + l + k)]
  BY <1>21, <1>22
<1>26. q \in Seq(Places) /\ Len(q) = 2 + l + k + l
  BY <1>21, <1>22
<1>27. q[1] = o /\ q[2] = grab
  <2>1. /\ 1 \in 1..(2 + l + k + l) /\ 1 \in 1..(2 + l + k) /\ 1 \in 1..(2 + l)
        /\ 2 \in 1..(2 + l + k + l) /\ 2 \in 1..(2 + l + k) /\ 2 \in 1..(2 + l)
        /\ 1 <= 2 + l + k /\ 2 <= 2 + l + k /\ 1 <= 2 + l /\ 2 <= 2 + l /\ 1 <= 2 /\ 2 <= 2
    BY <1>5
  <2>2. q[1] = v[1] /\ q[2] = v[2]
    BY <1>25, <2>1
  <2>3. v[1] = u[1] /\ v[2] = u[2]
    BY <1>24, <2>1
  <2>4. u[1] = top[1] /\ u[2] = top[2]
    BY <1>23, <2>1
  <2> QED
    BY <1>15, <2>2, <2>3, <2>4
<1>28. ASSUME NEW i \in 1..l PROVE q[2 + i] = Of(yes, i)
  <2>1. PICK j : j = 2 + i
    OBVIOUS
  <2>2. /\ j \in 1..(2 + l + k + l) /\ j \in 1..(2 + l + k) /\ j \in 1..(2 + l)
        /\ j <= 2 + l + k /\ j <= 2 + l /\ ~(j <= 2) /\ j - 2 = i
    BY <1>5, <1>28, <2>1
  <2>3. q[j] = a[i]
    BY <1>23, <1>24, <1>25, <2>2
  <2> QED
    BY <1>8, <2>1, <2>3
<1>29. ASSUME NEW i \in 1..k PROVE q[2 + l + i] = stack[i]
  <2>1. PICK j : j = 2 + l + i
    OBVIOUS
  <2>2. /\ j \in 1..(2 + l + k + l) /\ j \in 1..(2 + l + k) /\ j <= 2 + l + k /\ ~(j <= 2 + l) /\ j - (2 + l) = i
    BY <1>5, <1>29, <2>1
  <2>3. q[j] = stack[i]
    BY <1>24, <1>25, <2>2
  <2> QED
    BY <2>1, <2>3
<1>30. ASSUME NEW i \in 1..l PROVE q[2 + l + k + i] = Of(no, i)
  <2>1. PICK j : j = 2 + l + k + i
    OBVIOUS
  <2>2. j \in 1..(2 + l + k + l) /\ ~(j <= 2 + l + k) /\ j - (2 + l + k) = i
    BY <1>5, <1>30, <2>1
  <2>3. q[j] = b[i]
    BY <1>25, <2>2
  <2> QED
    BY <1>9, <2>1, <2>3
<1>31. ASSUME NEW i \in 1..l
       PROVE  /\ Of(yes, i) = IF s.bar[s.bars[i]].top THEN s.bars[i] ELSE Nothing
              /\ Of(no, i) = IF s.bar[s.bars[i]].top THEN Nothing ELSE s.bars[i]
  <2>1. s.bars[i] \in Bars
    BY <1>3 DEF Seats
  <2>2. PICK t \in BOOLEAN : t = s.bar[s.bars[i]].top
    BY <2>1 DEF Seats, BarStates
  <2> QED
    BY <1>1, <1>2, <2>2 DEF Of
<1> QED
  BY <1>3, <1>4, <1>10, <1>12, <1>26, <1>27, <1>28, <1>29, <1>30, <1>31 DEF SceneLaidOut

(* Every node of the scene is at its place, and at no other.               *)
LEMMA ScenePlaces ==
  ASSUME SeatFocusAssumption, NEW s, Sequenced(s), NEW q, q = Scene(s)
  PROVE  /\ q \in Seq(Places)
         /\ \A i \in 1..Len(q) : q[i] = Nothing \/ (q[i] \in InScene(s) /\ Place(s, q[i]) = i)
         /\ \A n \in InScene(s) : Place(s, n) \in 1..Len(q) /\ q[Place(s, n)] = n
<1>1. s \in Seats /\ EachOnce(s.stack) /\ EachOnce(s.bars)
  BY DEF Sequenced
<1>2. PICK bars \in Seq(Bars) : bars = s.bars
  BY <1>1 DEF Seats
<1>3. PICK stack \in Seq(SeatViews) : stack = s.stack
  BY <1>1 DEF Seats
<1>4. PICK l \in Nat : l = Len(bars)
  OBVIOUS
<1>5. PICK k \in Nat : k = Len(stack)
  OBVIOUS
<1>6. /\ q \in Seq(Places) /\ Len(q) = 2 + l + k + l
      /\ q[1] = s.output /\ q[2] = Grab
      /\ \A i \in 1..l : q[2 + i] = IF s.bar[bars[i]].top THEN bars[i] ELSE Nothing
      /\ \A i \in 1..k : q[2 + l + i] = stack[i]
      /\ \A i \in 1..l : q[2 + l + k + i] = IF s.bar[bars[i]].top THEN Nothing ELSE bars[i]
  <2>1. SceneLaidOut(s, q)
    BY <1>1, SceneIs
  <2>2. l = Len(s.bars) /\ k = Len(s.stack)
    BY <1>2, <1>3, <1>4, <1>5
  <2> QED
    BY <1>2, <1>3, <2>1, <2>2 DEF SceneLaidOut
<1>7. DOMAIN bars = 1..l /\ DOMAIN stack = 1..k
  BY <1>4, <1>5
<1>8. ASSUME NEW i \in 1..l
      PROVE  /\ bars[i] \in Bars /\ bars[i] \in InScene(s) /\ PositionIn(s.bars, bars[i]) = i
             /\ s.bar[bars[i]].top \in BOOLEAN
             /\ Place(s, bars[i]) = IF s.bar[bars[i]].top THEN 2 + i ELSE 2 + l + k + i
  <2>1. PICK b : b = bars[i]
    OBVIOUS
  <2>2. b \in Bars /\ b \notin SeatOutputs /\ b # Grab
    BY <1>4, <2>1 DEF SeatFocusAssumption
  <2>3. b \in InScene(s)
    BY <1>2, <1>7, <2>1 DEF InScene, ToSet
  <2>4. PositionIn(s.bars, b) = i
    BY <1>1, <1>2, <1>7, <2>1, PositionIs
  <2>5. s.bar[b].top \in BOOLEAN
    BY <1>1, <2>2 DEF Seats, BarStates
  <2>6. Place(s, b) = IF s.bar[b].top THEN 2 + i ELSE 2 + l + k + i
    BY <1>2, <1>3, <1>4, <1>5, <2>2, <2>4 DEF Place
  <2> QED
    BY <2>1, <2>2, <2>3, <2>4, <2>5, <2>6
<1>9. ASSUME NEW i \in 1..k
      PROVE  stack[i] \in InScene(s) /\ Place(s, stack[i]) = 2 + l + i
  <2>1. PICK v : v = stack[i]
    OBVIOUS
  <2>2. v \notin Bars /\ v \notin SeatOutputs /\ v # Grab
    BY <1>5, <2>1 DEF SeatFocusAssumption
  <2>3. v \in InScene(s)
    BY <1>3, <1>7, <2>1 DEF InScene, ToSet
  <2>4. PositionIn(s.stack, v) = i
    BY <1>1, <1>3, <1>7, <2>1, PositionIs
  <2>5. Place(s, v) = 2 + l + i
    BY <1>2, <1>4, <2>2, <2>4 DEF Place
  <2> QED
    BY <2>1, <2>3, <2>5
<1>10. /\ s.output \in SeatOutputs /\ s.output \in InScene(s) /\ Place(s, s.output) = 1
       /\ Grab \in InScene(s) /\ Place(s, Grab) = 2
  BY <1>1 DEF Seats, InScene, Place, SeatFocusAssumption
<1>11. ASSUME NEW i \in 1..Len(q) PROVE q[i] = Nothing \/ (q[i] \in InScene(s) /\ Place(s, q[i]) = i)
  <2>1. i \in 1..(2 + l + k + l)
    BY <1>6
  <2>2. CASE i = 1 \/ i = 2
    BY <1>6, <1>10, <2>2
  <2>3. CASE i > 2 /\ i <= 2 + l
    <3>1. PICK j : j = i - 2
      OBVIOUS
    <3>2. j \in 1..l /\ i = 2 + j
      BY <2>1, <2>3, <3>1
    <3>3. q[i] = IF s.bar[bars[j]].top THEN bars[j] ELSE Nothing
      BY <1>2, <1>6, <3>2
    <3> QED
      BY <1>8, <3>2, <3>3
  <2>4. CASE i > 2 + l /\ i <= 2 + l + k
    <3>1. PICK j : j = i - (2 + l)
      OBVIOUS
    <3>2. j \in 1..k /\ i = 2 + l + j
      BY <2>1, <2>4, <3>1
    <3>3. q[i] = stack[j]
      BY <1>3, <1>6, <3>2
    <3> QED
      BY <1>9, <3>2, <3>3
  <2>5. CASE i > 2 + l + k
    <3>1. PICK j : j = i - (2 + l + k)
      OBVIOUS
    <3>2. j \in 1..l /\ i = 2 + l + k + j
      BY <2>1, <2>5, <3>1
    <3>3. q[i] = IF s.bar[bars[j]].top THEN Nothing ELSE bars[j]
      BY <1>2, <1>6, <3>2
    <3> QED
      BY <1>8, <3>2, <3>3
  <2> QED
    BY <2>1, <2>2, <2>3, <2>4, <2>5
<1>12. ASSUME NEW n \in InScene(s) PROVE Place(s, n) \in 1..Len(q) /\ q[Place(s, n)] = n
  <2>1. CASE n = s.output \/ n = Grab
    <3>1. 1 \in 1..Len(q) /\ 2 \in 1..Len(q)
      BY <1>6
    <3> QED
      BY <1>6, <1>10, <2>1, <3>1
  <2>2. CASE n \in ToSet(s.bars)
    <3>1. PICK j \in 1..l : n = bars[j]
      BY <1>2, <1>7, <2>2 DEF ToSet
    <3>2. PICK p : p = Place(s, n)
      OBVIOUS
    <3>3. CASE s.bar[n].top = TRUE
      <4>1. p = 2 + j /\ q[2 + j] = n
        BY <1>2, <1>6, <1>8, <3>1, <3>2, <3>3
      <4> QED
        BY <1>6, <3>2, <4>1
    <3>4. CASE s.bar[n].top = FALSE
      <4>1. p = 2 + l + k + j /\ q[2 + l + k + j] = n
        BY <1>2, <1>6, <1>8, <3>1, <3>2, <3>4
      <4> QED
        BY <1>6, <3>2, <4>1
    <3> QED
      BY <1>8, <3>1, <3>3, <3>4
  <2>3. CASE n \in ToSet(s.stack)
    <3>1. PICK j \in 1..k : n = stack[j]
      BY <1>3, <1>7, <2>3 DEF ToSet
    <3>2. Place(s, n) = 2 + l + j /\ q[2 + l + j] = n
      BY <1>3, <1>6, <1>9, <3>1
    <3> QED
      BY <1>6, <3>2
  <2> QED
    BY <2>1, <2>2, <2>3 DEF InScene
<1> QED
  BY <1>6, <1>11, <1>12

(* What keyboard_refocus() chooses, by the nodes: those that offer         *)
(* themselves, those of them that nothing above blocks, and the one that   *)
(* beats the others.                                                       *)
Offers(s, n) == n \in InScene(s) /\ ImportanceOf(s, n) > 0
Live(s, n) == Offers(s, n) /\ \A m \in InScene(s) : Offers(s, m) /\ Place(s, m) < Place(s, n) => ~Blocks(s, m)
Beats(s, n, m) ==
  \/ ImportanceOf(s, n) > ImportanceOf(s, m)
  \/ /\ ImportanceOf(s, n) = ImportanceOf(s, m)
     /\ StampOf(s, n) > StampOf(s, m) \/ (StampOf(s, n) = StampOf(s, m) /\ Place(s, n) <= Place(s, m))
IsBest(s, b) ==
  \/ b = Nothing /\ \A n \in InScene(s) : ~Live(s, n)
  \/ Live(s, b) /\ \A n \in InScene(s) : Live(s, n) => Beats(s, b, n)

(* Where nothing stands, nothing offers itself.                            *)
LEMMA NothingDeclines ==
  ASSUME SeatFocusAssumption, NEW s
  PROVE  ImportanceOf(s, Nothing) = 0
BY DEF SeatFocusAssumption, ImportanceOf

(* Best() is the best.                                                     *)
LEMMA BestIs ==
  ASSUME SeatFocusAssumption, NEW s, Sequenced(s)
  PROVE  IsBest(s, Best(s))
<1>1. PICK q : q = Scene(s)
  OBVIOUS
<1>2. /\ q \in Seq(Places)
      /\ \A i \in 1..Len(q) : q[i] = Nothing \/ (q[i] \in InScene(s) /\ Place(s, q[i]) = i)
      /\ \A n \in InScene(s) : Place(s, n) \in 1..Len(q) /\ q[Place(s, n)] = n
  BY <1>1, ScenePlaces
<1>3. s.recent \in Seq(SeatViews \cup Bars)
  BY DEF Sequenced, Seats
<1>4. \A i \in 1..Len(q) : ImportanceOf(s, q[i]) > 0 => q[i] \in InScene(s) /\ Place(s, q[i]) = i
  BY <1>2, NothingDeclines
<1>5. Len(q) \in Nat
  BY <1>2
<1>6. ASSUME NEW i \in 1..Len(q), LiveAt(s, q, i) PROVE Live(s, q[i])
  <2>1. ImportanceOf(s, q[i]) > 0 /\ OpenTo(s, q, i - 1)
    BY <1>6 DEF LiveAt
  <2>2. q[i] \in InScene(s) /\ Place(s, q[i]) = i
    BY <1>4, <2>1
  <2>3. ASSUME NEW m \in InScene(s), Offers(s, m), Place(s, m) < Place(s, q[i]) PROVE ~Blocks(s, m)
    <3>1. PICK j : j = Place(s, m)
      OBVIOUS
    <3>2. j \in 1..Len(q) /\ q[j] = m /\ j < i
      BY <1>2, <2>2, <2>3, <3>1
    <3>3. j \in 1..(i - 1)
      BY <1>5, <3>2
    <3> QED
      BY <2>1, <2>3, <3>2, <3>3 DEF OpenTo, Offers
  <2> QED
    BY <2>1, <2>2, <2>3 DEF Live, Offers
<1>7. ASSUME NEW n \in InScene(s), Live(s, n)
      PROVE  Place(s, n) \in 1..Len(q) /\ q[Place(s, n)] = n /\ LiveAt(s, q, Place(s, n))
  <2>1. PICK i : i = Place(s, n)
    OBVIOUS
  <2>2. i \in 1..Len(q) /\ q[i] = n
    BY <1>2, <2>1
  <2>3. ImportanceOf(s, q[i]) > 0
    BY <1>7, <2>2 DEF Live, Offers
  <2>4. ASSUME NEW j \in 1..(i - 1), ImportanceOf(s, q[j]) > 0 PROVE ~Blocks(s, q[j])
    <3>1. j \in 1..Len(q) /\ j < i
      BY <1>5, <2>2
    <3>2. q[j] \in InScene(s) /\ Place(s, q[j]) = j
      BY <1>4, <2>4, <3>1
    <3> QED
      BY <1>7, <2>1, <2>4, <3>1, <3>2 DEF Live, Offers
  <2>5. LiveAt(s, q, i)
    BY <2>3, <2>4 DEF LiveAt, OpenTo
  <2> QED
    BY <2>1, <2>2, <2>5
<1>8. CASE Best(s) = Nothing /\ \A j \in 1..Len(q) : ~LiveAt(s, q, j)
  BY <1>7, <1>8 DEF IsBest
<1>9. ASSUME NEW k \in 1..Len(q), LiveAt(s, q, k), Best(s) = q[k],
             \A j \in 1..Len(q) : LiveAt(s, q, j) => BeatsAt(s, q, k, j)
      PROVE  IsBest(s, Best(s))
  <2>1. PICK b : b = q[k]
    OBVIOUS
  <2>2. Live(s, b)
    BY <1>6, <1>9, <2>1
  <2>3. Place(s, b) = k
    BY <1>4, <1>9, <2>1 DEF LiveAt
  <2>4. ASSUME NEW n \in InScene(s), Live(s, n) PROVE Beats(s, b, n)
    <3>1. PICK j : j = Place(s, n)
      OBVIOUS
    <3>2. j \in 1..Len(q) /\ q[j] = n /\ LiveAt(s, q, j)
      BY <1>7, <2>4, <3>1
    <3>3. BeatsAt(s, q, k, j)
      BY <1>9, <3>2
    <3> QED
      BY <2>1, <2>3, <3>1, <3>2, <3>3 DEF BeatsAt, Beats
  <2>5. IsBest(s, b)
    BY <2>2, <2>4 DEF IsBest
  <2> QED
    BY <1>9, <2>1, <2>5
<1>10. \/ Best(s) = Nothing /\ \A j \in 1..Len(q) : ~LiveAt(s, q, j)
       \/ \E k \in 1..Len(q) : /\ LiveAt(s, q, k) /\ Best(s) = q[k]
                               /\ \A j \in 1..Len(q) : LiveAt(s, q, j) => BeatsAt(s, q, k, j)
  BY <1>1, <1>2, <1>3, BestInScene
<1> QED
  BY <1>8, <1>9, <1>10

(* Nothing else is the best.                                               *)
LEMMA BestOnly ==
  ASSUME SeatFocusAssumption, NEW s, Sequenced(s), NEW b, IsBest(s, b)
  PROVE  Best(s) = b
<1>1. PICK a : a = Best(s)
  OBVIOUS
<1>2. IsBest(s, a)
  BY <1>1, BestIs
<1>3. CASE a = Nothing \/ b = Nothing
  <2>1. \A n \in InScene(s) : n # Nothing
    <3>1. s.output # Nothing /\ Grab # Nothing
      BY DEF Sequenced, Seats, SeatFocusAssumption
    <3>2. \A n \in ToSet(s.bars) : n # Nothing
      BY DEF Sequenced, Seats, SeatFocusAssumption, ToSet
    <3>3. \A n \in ToSet(s.stack) : n # Nothing
      BY DEF Sequenced, Seats, SeatFocusAssumption, ToSet
    <3> QED
      BY <3>1, <3>2, <3>3 DEF InScene
  <2> QED
    BY <1>1, <1>2, <1>3, <2>1 DEF IsBest, Live, Offers
<1>4. CASE a # Nothing /\ b # Nothing
  <2>1. Live(s, a) /\ Live(s, b) /\ Beats(s, a, b) /\ Beats(s, b, a) /\ a \in InScene(s) /\ b \in InScene(s)
    BY <1>2, <1>4 DEF IsBest, Live, Offers
  <2>2. PICK q : q = Scene(s)
    OBVIOUS
  <2>3. /\ q \in Seq(Places)
        /\ \A n \in InScene(s) : Place(s, n) \in 1..Len(q) /\ q[Place(s, n)] = n
    BY <2>2, ScenePlaces
  <2>4. PICK i, j : i = Place(s, a) /\ j = Place(s, b)
    OBVIOUS
  <2>5. i \in Nat /\ j \in Nat /\ q[i] = a /\ q[j] = b
    BY <2>1, <2>3, <2>4
  <2>6. s.recent \in Seq(SeatViews \cup Bars)
    BY DEF Sequenced, Seats
  <2>7. StampOf(s, a) \in Nat /\ StampOf(s, b) \in Nat
    BY <2>6, StampNat
  <2>8. ImportanceOf(s, a) \in Nat /\ ImportanceOf(s, b) \in Nat
    BY ImportanceNat
  <2>9. i = j
    BY <2>1, <2>4, <2>5, <2>7, <2>8 DEF Beats
  <2> QED
    BY <1>1, <2>5, <2>9
<1> QED
  BY <1>3, <1>4

(* The best node stays the best when only others that block nothing give   *)
(* up their offers.                                                        *)
SameOffer(s, t, n) == ImportanceOf(t, n) = ImportanceOf(s, n) /\ (Blocks(t, n) <=> Blocks(s, n))
SameOrder(s, t, m, n) ==
  /\ Place(t, m) < Place(t, n) <=> Place(s, m) < Place(s, n)
  /\ StampOf(t, m) < StampOf(t, n) <=> StampOf(s, m) < StampOf(s, n)
OffersLess(s, t, b) ==
  /\ \A n \in InScene(t) : Offers(t, n) => Offers(s, n) /\ SameOffer(s, t, n)
  /\ \A n \in InScene(s) : Offers(s, n) /\ (n = b \/ Blocks(s, n)) => Offers(t, n)
  /\ \A m, n \in InScene(t) : Offers(t, m) /\ Offers(t, n) => SameOrder(s, t, m, n)

(* Then the best node is the same.                                         *)
LEMMA BestStays ==
  ASSUME SeatFocusAssumption, NEW s, Sequenced(s), NEW t, Sequenced(t), OffersLess(s, t, Best(s))
  PROVE  Best(t) = Best(s)
<1>1. PICK b : b = Best(s)
  OBVIOUS
<1>2. IsBest(s, b)
  BY <1>1, BestIs
<1>3. \A n \in InScene(t) : Offers(t, n) => Offers(s, n) /\ SameOffer(s, t, n)
  BY DEF OffersLess
<1>4. \A n \in InScene(s) : Offers(s, n) /\ (n = b \/ Blocks(s, n)) => Offers(t, n)
  BY <1>1 DEF OffersLess
<1>5. \A m, n \in InScene(t) : Offers(t, m) /\ Offers(t, n) => SameOrder(s, t, m, n)
  BY DEF OffersLess
<1>6. ASSUME NEW n \in InScene(t), Live(t, n) PROVE Live(s, n)
  <2>1. Offers(t, n) /\ Offers(s, n)
    BY <1>3, <1>6 DEF Live
  <2>2. ASSUME NEW m \in InScene(s), Offers(s, m), Place(s, m) < Place(s, n), Blocks(s, m) PROVE FALSE
    <3>1. Offers(t, m) /\ m \in InScene(t)
      BY <1>4, <2>2 DEF Offers
    <3>2. Place(t, m) < Place(t, n) /\ Blocks(t, m)
      BY <1>3, <1>5, <2>1, <2>2, <3>1 DEF SameOrder, SameOffer
    <3> QED
      BY <1>6, <3>1, <3>2 DEF Live
  <2> QED
    BY <2>1, <2>2 DEF Live
<1>7. ASSUME NEW n \in InScene(s), Live(s, n), Offers(t, n) PROVE Live(t, n)
  <2>1. ASSUME NEW m \in InScene(t), Offers(t, m), Place(t, m) < Place(t, n), Blocks(t, m) PROVE FALSE
    <3>1. Offers(s, m) /\ Blocks(s, m) /\ n \in InScene(t) /\ m \in InScene(s)
      BY <1>3, <1>7, <2>1 DEF SameOffer, Offers
    <3>2. Place(s, m) < Place(s, n)
      BY <1>5, <1>7, <2>1, <3>1 DEF SameOrder
    <3> QED
      BY <1>7, <3>1, <3>2 DEF Live
  <2> QED
    BY <1>7, <2>1 DEF Live
<1>8. IsBest(t, b)
  <2>1. CASE b = Nothing /\ \A n \in InScene(s) : ~Live(s, n)
    <3>1. \A n \in InScene(t) : ~Live(t, n)
      BY <1>6, <2>1 DEF Live, Offers
    <3> QED
      BY <2>1, <3>1 DEF IsBest
  <2>2. CASE Live(s, b) /\ \A n \in InScene(s) : Live(s, n) => Beats(s, b, n)
    <3>1. b \in InScene(s) /\ Offers(s, b) /\ Offers(t, b) /\ b \in InScene(t)
      BY <1>4, <2>2 DEF Live, Offers
    <3>2. Live(t, b)
      BY <1>7, <2>2, <3>1
    <3>3. ASSUME NEW n \in InScene(t), Live(t, n) PROVE Beats(t, b, n)
      <4>1. Live(s, n) /\ n \in InScene(s) /\ Offers(t, n)
        BY <1>6, <3>3 DEF Live, Offers
      <4>2. Beats(s, b, n)
        BY <2>2, <4>1
      <4>3. SameOffer(s, t, n) /\ SameOffer(s, t, b) /\ SameOrder(s, t, b, n) /\ SameOrder(s, t, n, b)
        BY <1>3, <1>5, <3>1, <3>3, <4>1
      <4>4. s.recent \in Seq(SeatViews \cup Bars) /\ t.recent \in Seq(SeatViews \cup Bars)
        BY DEF Sequenced, Seats
      <4>5. /\ StampOf(s, b) \in Nat /\ StampOf(s, n) \in Nat /\ StampOf(t, b) \in Nat /\ StampOf(t, n) \in Nat
        BY <4>4, StampNat
      <4>6. PICK p : p = Scene(s)
        OBVIOUS
      <4>7. PICK q : q = Scene(t)
        OBVIOUS
      <4>8. p \in Seq(Places) /\ \A x \in InScene(s) : Place(s, x) \in 1..Len(p)
        BY <4>6, ScenePlaces
      <4>9. q \in Seq(Places) /\ \A x \in InScene(t) : Place(t, x) \in 1..Len(q)
        BY <4>7, ScenePlaces
      <4>10. Place(s, b) \in Nat /\ Place(s, n) \in Nat /\ Place(t, b) \in Nat /\ Place(t, n) \in Nat
        BY <3>1, <4>1, <4>8, <4>9
      <4>11. ImportanceOf(s, b) \in Nat /\ ImportanceOf(s, n) \in Nat
        BY ImportanceNat
      <4>12. ImportanceOf(t, b) = ImportanceOf(s, b) /\ ImportanceOf(t, n) = ImportanceOf(s, n)
        BY <4>3 DEF SameOffer
      <4>13. /\ Place(t, n) < Place(t, b) <=> Place(s, n) < Place(s, b)
             /\ StampOf(t, b) < StampOf(t, n) <=> StampOf(s, b) < StampOf(s, n)
             /\ StampOf(t, n) < StampOf(t, b) <=> StampOf(s, n) < StampOf(s, b)
        BY <4>3 DEF SameOrder
      <4> QED
        BY <4>2, <4>5, <4>10, <4>11, <4>12, <4>13 DEF Beats
    <3> QED
      BY <3>2, <3>3 DEF IsBest
  <2> QED
    BY <1>2, <2>1, <2>2 DEF IsBest
<1> QED
  BY <1>1, <1>8, BestOnly

(* What holds in every state that a handler passes through: one toplevel   *)
(* looks activated, and what is mapped is on an output and in the scene.   *)
OneActive(s) ==
  s.activated = {s.toplevel} \ {Nothing} /\ (s.active \in SeatViews => s.toplevel = s.active)
Stacked(s) == \A v \in SeatViews : s.view[v].mapped => s.view[v].out # Nothing /\ v \in ToSet(s.stack)
WellFormed(s) == Sequenced(s) /\ OneActive(s) /\ Stacked(s)

(* What a refocus leaves alone.                                            *)
SameWorld(s, t) ==
  /\ t.output = s.output /\ t.present = s.present /\ t.stack = s.stack /\ t.bars = s.bars
  /\ t.grab = s.grab /\ t.locked = s.locked /\ t.view = s.view /\ t.bar = s.bar
SameTimes(s, t) == t.recent = s.recent /\ t.newest = s.newest

(* What the focus is on is there, and it is what a refocus would choose.   *)
LockFocused(s) == s.output \in s.locked => s.focus = s.output
FocusThere(s) ==
  /\ s.focus \in SeatViews =>
       s.view[s.focus].mapped /\ ~s.view[s.focus].minimized /\ s.view[s.focus].out = s.output
  /\ s.focus \in Bars => s.bar[s.focus].mapped
  /\ s.focus = Grab => s.grab = s.output
  /\ s.focus \in SeatOutputs => s.focus \in s.locked /\ s.focus = s.output
FocusHeld(s) == LockFocused(s) /\ FocusThere(s) /\ (s.unseen \/ s.focus = Best(s))

(* The best node is in the scene and offers itself.                        *)
LEMMA BestOffers ==
  ASSUME SeatFocusAssumption, NEW s, Sequenced(s), NEW b, b = Best(s), b # Nothing
  PROVE  b \in InScene(s) /\ ImportanceOf(s, b) > 0 /\ Live(s, b)
<1>1. IsBest(s, b)
  BY BestIs
<1> QED
  BY <1>1 DEF IsBest, Live, Offers

(* The best node is a node, or none.                                       *)
LEMMA BestPlaced ==
  ASSUME SeatFocusAssumption, NEW s, Sequenced(s), NEW b, b = Best(s)
  PROVE  b \in Places
<1>1. CASE b = Nothing
  BY <1>1 DEF Places
<1>2. CASE b # Nothing
  <2>1. b \in InScene(s)
    BY <1>2, BestOffers
  <2>2. s.output \in SeatOutputs
    BY DEF Sequenced, Seats
  <2>3. \A x \in ToSet(s.bars) : x \in Bars
    BY DEF Sequenced, Seats, ToSet
  <2>4. \A x \in ToSet(s.stack) : x \in SeatViews
    BY DEF Sequenced, Seats, ToSet
  <2> QED
    BY <2>1, <2>2, <2>3, <2>4 DEF InScene, Places, Nodes1
<1> QED
  BY <1>1, <1>2

(* A focus that a refocus would choose is on what is there, and on the     *)
(* lock screen of a locked output.                                         *)
LEMMA CurrentIsRight ==
  ASSUME SeatFocusAssumption, NEW s, Sequenced(s), s.focus = Best(s)
  PROVE  FocusHeld(s)
<1>1. PICK b : b = s.focus
  OBVIOUS
<1>2. b \in Places /\ (b # Nothing => ImportanceOf(s, b) > 0 /\ Live(s, b))
  BY <1>1, BestPlaced, BestOffers
<1>3. s \in Seats
  BY DEF Sequenced
<1>4. FocusThere(s)
  <2>1. CASE b \in SeatViews
    <3>1. ImportanceOf(s, b) > 0 /\ b \notin SeatOutputs /\ b # Grab /\ b \notin Bars
      BY <1>2, <2>1 DEF SeatFocusAssumption
    <3>2. s.view[b].mapped /\ ~s.view[b].minimized /\ s.view[b].out = s.output
      BY <2>1, <3>1 DEF ImportanceOf
    <3> QED
      BY <1>1, <3>1, <3>2 DEF FocusThere
  <2>2. CASE b \in Bars
    <3>1. ImportanceOf(s, b) > 0 /\ b \notin SeatOutputs /\ b # Grab /\ b \notin SeatViews
      BY <1>2, <2>2 DEF SeatFocusAssumption
    <3>2. s.bar[b].mapped
      BY <2>2, <3>1 DEF ImportanceOf
    <3> QED
      BY <1>1, <3>1, <3>2 DEF FocusThere
  <2>3. CASE b = Grab
    <3>1. ImportanceOf(s, b) > 0 /\ b \notin SeatOutputs /\ b \notin Bars /\ b \notin SeatViews
      BY <1>2, <2>3 DEF SeatFocusAssumption
    <3>2. s.grab = s.output
      BY <2>3, <3>1 DEF ImportanceOf
    <3> QED
      BY <1>1, <3>1, <3>2 DEF FocusThere
  <2>4. CASE b \in SeatOutputs
    <3>1. ImportanceOf(s, b) > 0 /\ b # Grab /\ b \notin Bars /\ b \notin SeatViews
      BY <1>2, <2>4 DEF SeatFocusAssumption
    <3>2. b \in s.locked /\ b = s.output
      BY <2>4, <3>1 DEF ImportanceOf
    <3> QED
      BY <1>1, <3>1, <3>2 DEF FocusThere
  <2>5. CASE b = Nothing
    BY <1>1, <2>5 DEF FocusThere, SeatFocusAssumption
  <2> QED
    BY <1>2, <2>1, <2>2, <2>3, <2>4, <2>5 DEF Places, Nodes1
<1>5. LockFocused(s)
  <2>1. SUFFICES ASSUME s.output \in s.locked PROVE b = s.output
    BY <1>1 DEF LockFocused
  <2>2. PICK o \in SeatOutputs : o = s.output
    BY <1>3 DEF Seats
  <2>3. ImportanceOf(s, o) = 3 /\ Blocks(s, o) /\ Place(s, o) = 1 /\ o \in InScene(s)
    BY <2>1, <2>2 DEF ImportanceOf, Blocks, Place, InScene
  <2>4. PICK q : q = Scene(s)
    OBVIOUS
  <2>5. q \in Seq(Places) /\ \A n \in InScene(s) : Place(s, n) \in 1..Len(q) /\ q[Place(s, n)] = n
    BY <2>4, ScenePlaces
  <2>6. \A n \in InScene(s) : ~(Place(s, n) < 1) /\ (n # o => Place(s, n) > 1)
    <3>1. ASSUME NEW n \in InScene(s) PROVE ~(Place(s, n) < 1) /\ (n # o => Place(s, n) > 1)
      <4>1. PICK i \in 1..Len(q) : i = Place(s, n) /\ q[i] = n
        BY <2>5
      <4>2. q[1] = o
        BY <2>3, <2>5
      <4>3. i \in Nat /\ i >= 1
        BY <2>5
      <4>4. n # o => i # 1
        BY <4>1, <4>2
      <4> QED
        BY <4>1, <4>3, <4>4
    <3> QED
      BY <3>1
  <2>7. Live(s, o)
    BY <2>3, <2>6 DEF Live, Offers
  <2>8. b # Nothing
    <3>1. IsBest(s, b)
      BY <1>1, BestIs
    <3>2. \A n \in InScene(s) : n # Nothing \/ ~Live(s, n)
      BY NothingDeclines DEF Live, Offers
    <3> QED
      BY <2>3, <2>7, <3>1, <3>2 DEF IsBest, Live, Offers
  <2>9. Live(s, b) /\ b \in InScene(s)
    BY <1>2, <2>8 DEF Live, Offers
  <2>10. b = o
    BY <2>3, <2>6, <2>9 DEF Live, Offers
  <2> QED
    BY <2>2, <2>10
<1> QED
  BY <1>4, <1>5 DEF FocusHeld

(* The best node is the best node still when it has the focus.             *)
LEMMA BestWithFocus ==
  ASSUME SeatFocusAssumption, NEW s, Sequenced(s), NEW t, Sequenced(t), SameWorld(s, t), SameTimes(s, t),
         t.focus = Best(s)
  PROVE  Best(t) = Best(s)
<1>1. PICK b : b = Best(s)
  OBVIOUS
<1>2. b # Nothing => b \in InScene(s) /\ Offers(s, b)
  BY <1>1, BestOffers DEF Offers
<1>3. InScene(t) = InScene(s) /\ \A n \in InScene(s) : Place(t, n) = Place(s, n)
  BY DEF SameWorld, InScene, Place
<1>4. \A n \in InScene(s) : StampOf(t, n) = StampOf(s, n)
  BY DEF SameTimes, StampOf
<1>5. \A n \in InScene(s) : Blocks(t, n) <=> Blocks(s, n)
  BY DEF SameWorld, Blocks
<1>6. ASSUME NEW n \in InScene(s)
      PROVE  \/ ImportanceOf(t, n) = ImportanceOf(s, n)
             \/ n # b /\ ImportanceOf(t, n) = 0 /\ ~Blocks(s, n)
  <2>1. CASE n \notin Bars
    <3>1. ImportanceOf(t, n) = ImportanceOf(s, n)
      BY <2>1 DEF ImportanceOf, SameWorld
    <3> QED
      BY <3>1
  <2>2. CASE n \in Bars
    <3>1. n \notin SeatOutputs /\ n # Grab /\ n # Nothing
      BY <2>2 DEF SeatFocusAssumption
    <3>2. PICK bar \in BarStates : bar = s.bar[n] /\ bar = t.bar[n]
      BY <2>2 DEF Sequenced, Seats, SameWorld
    <3>3. PICK mapped \in BOOLEAN : mapped = bar.mapped
      BY DEF BarStates
    <3>4. PICK mode : mode = bar.mode
      OBVIOUS
    <3>5. PICK here \in BOOLEAN : here = (bar.out = s.output)
      OBVIOUS
    <3>6. PICK newest : newest = s.newest
      OBVIOUS
    <3>7. PICK f : f = s.focus
      OBVIOUS
    <3>8. ImportanceOf(s, n) = IF ~mapped \/ mode = "none" THEN 0
                               ELSE IF mode = "exclusive" THEN 3
                               ELSE IF here /\ (f = n \/ newest \in {n, "never"}) THEN 2 ELSE 0
      BY <2>2, <3>1, <3>2, <3>3, <3>4, <3>5, <3>6, <3>7 DEF ImportanceOf
    <3>9. ImportanceOf(t, n) = IF ~mapped \/ mode = "none" THEN 0
                               ELSE IF mode = "exclusive" THEN 3
                               ELSE IF here /\ (b = n \/ newest \in {n, "never"}) THEN 2 ELSE 0
      BY <1>1, <2>2, <3>1, <3>2, <3>3, <3>4, <3>5, <3>6 DEF ImportanceOf, SameWorld, SameTimes
    <3>10. Blocks(s, n) <=> mode = "exclusive"
      BY <2>2, <3>1, <3>2, <3>4 DEF Blocks
    <3>11. n = b => ImportanceOf(s, n) > 0
      BY <1>2, <3>1 DEF Offers
    <3> QED
      BY <3>8, <3>9, <3>10, <3>11
  <2> QED
    BY <2>1, <2>2
<1>7. OffersLess(s, t, b)
  <2>1. \A n \in InScene(t) : Offers(t, n) => Offers(s, n) /\ SameOffer(s, t, n)
    BY <1>3, <1>5, <1>6 DEF Offers, SameOffer
  <2>2. \A n \in InScene(s) : Offers(s, n) /\ (n = b \/ Blocks(s, n)) => Offers(t, n)
    BY <1>3, <1>6 DEF Offers
  <2>3. \A m, n \in InScene(t) : SameOrder(s, t, m, n)
    BY <1>3, <1>4 DEF SameOrder
  <2> QED
    BY <2>1, <2>2, <2>3 DEF OffersLess
<1> QED
  BY <1>1, <1>7, BestStays

(* What else a handler keeps: the layer surfaces and the order of times.   *)
LEMMA WellFormedAfter ==
  ASSUME NEW s, WellFormed(s), NEW t, t \in Seats, SameWorld(s, t), OneActive(t), EachOnce(t.recent)
  PROVE  WellFormed(t)
BY DEF WellFormed, Sequenced, SameWorld, Stacked

(* update_active_view()                                                    *)
LEMMA ActiveUpdated ==
  ASSUME SeatFocusAssumption, NEW s, WellFormed(s), NEW v \in SeatViews \cup Bars \cup {Nothing},
         NEW t, t = update_active_view(s, v)
  PROVE  WellFormed(t) /\ SameWorld(s, t) /\ SameTimes(s, t) /\ t.focus = s.focus /\ t.unseen = s.unseen
<1>1. s \in Seats /\ OneActive(s) /\ EachOnce(s.recent)
  BY DEF WellFormed, Sequenced
<1>2. CASE v = s.active
  BY <1>2 DEF update_active_view, SameWorld, SameTimes
<1>3. CASE v # s.active /\ (v \in Bars \/ v = s.toplevel)
  <2>1. t = [s EXCEPT !.active = v]
    BY <1>3 DEF update_active_view
  <2>2. t \in Seats
    BY <1>1, <2>1 DEF Seats
  <2>3. /\ t.active = v /\ t.toplevel = s.toplevel /\ t.activated = s.activated /\ t.recent = s.recent
        /\ SameWorld(s, t) /\ SameTimes(s, t) /\ t.focus = s.focus /\ t.unseen = s.unseen
    BY <1>1, <2>1 DEF Seats, SameWorld, SameTimes
  <2>4. OneActive(t)
    BY <1>1, <1>3, <2>3 DEF OneActive, SeatFocusAssumption
  <2> QED
    BY <1>1, <2>2, <2>3, <2>4, WellFormedAfter
<1>4. CASE v # s.active /\ v \notin Bars /\ v # s.toplevel
  <2>1. PICK a : a = (s.activated \ {s.toplevel}) \cup ({v} \cap SeatViews)
    OBVIOUS
  <2>2. t = [s EXCEPT !.active = v, !.toplevel = v, !.activated = a]
    BY <1>4, <2>1 DEF update_active_view
  <2>3. v \in SeatViews \cup {Nothing}
    BY <1>4
  <2>4. a \in SUBSET SeatViews
    BY <1>1, <2>1 DEF Seats
  <2>5. t \in Seats
    BY <1>1, <2>2, <2>3, <2>4 DEF Seats
  <2>6. /\ t.active = v /\ t.toplevel = v /\ t.activated = a /\ t.recent = s.recent
        /\ SameWorld(s, t) /\ SameTimes(s, t) /\ t.focus = s.focus /\ t.unseen = s.unseen
    BY <1>1, <2>2 DEF Seats, SameWorld, SameTimes
  <2>7. a = {v} \ {Nothing}
    <3>1. s.activated = {s.toplevel} \ {Nothing}
      BY <1>1 DEF OneActive
    <3>2. v \in SeatViews <=> v # Nothing
      BY <2>3 DEF SeatFocusAssumption
    <3> QED
      BY <2>1, <3>1, <3>2
  <2>8. OneActive(t)
    BY <2>6, <2>7 DEF OneActive
  <2> QED
    BY <1>1, <2>5, <2>6, <2>8, WellFormedAfter
<1> QED
  BY <1>2, <1>3, <1>4

(* refocus(): the focus is on the best node.                               *)
LEMMA RefocusRight ==
  ASSUME SeatFocusAssumption, NEW s, WellFormed(s), NEW t, t = refocus(s)
  PROVE  WellFormed(t) /\ SameWorld(s, t) /\ SameTimes(s, t) /\ t.focus = Best(t) /\ t.unseen = FALSE
<1>1. PICK n : n = Best(s)
  OBVIOUS
<1>2. s \in Seats /\ Sequenced(s)
  BY DEF WellFormed, Sequenced
<1>3. n \in Places
  BY <1>1, <1>2, BestPlaced
<1>4. PICK u : u = IF n \in SeatViews \cup Bars \cup {Nothing} THEN update_active_view(s, n) ELSE s
  OBVIOUS
<1>5. WellFormed(u) /\ SameWorld(s, u) /\ SameTimes(s, u)
  <2>1. CASE n \in SeatViews \cup Bars \cup {Nothing}
    <3>1. u = update_active_view(s, n)
      BY <1>4, <2>1
    <3> QED
      BY <2>1, <3>1, ActiveUpdated
  <2>2. CASE n \notin SeatViews \cup Bars \cup {Nothing}
    <3>1. u = s
      BY <1>4, <2>2
    <3> QED
      BY <3>1 DEF SameWorld, SameTimes
  <2> QED
    BY <2>1, <2>2
<1>6. t = [u EXCEPT !.focus = n, !.unseen = FALSE]
  BY <1>1, <1>4 DEF refocus
<1>7. u \in Seats /\ OneActive(u) /\ EachOnce(u.recent)
  BY <1>5 DEF WellFormed, Sequenced
<1>8. t \in Seats
  BY <1>3, <1>6, <1>7 DEF Seats
<1>9. /\ t.focus = n /\ t.unseen = FALSE /\ t.active = u.active /\ t.toplevel = u.toplevel
      /\ t.activated = u.activated /\ t.recent = u.recent /\ SameWorld(u, t) /\ SameTimes(u, t)
  BY <1>6, <1>7 DEF Seats, SameWorld, SameTimes
<1>10. WellFormed(t)
  <2>1. OneActive(t) /\ EachOnce(t.recent)
    BY <1>7, <1>9 DEF OneActive
  <2> QED
    BY <1>5, <1>8, <1>9, <2>1, WellFormedAfter
<1>11. SameWorld(s, t) /\ SameTimes(s, t)
  BY <1>5, <1>9 DEF SameWorld, SameTimes
<1>12. Best(t) = n
  <2>1. Sequenced(t)
    BY <1>10 DEF WellFormed
  <2> QED
    BY <1>1, <1>2, <1>9, <1>11, <2>1, BestWithFocus
<1> QED
  BY <1>9, <1>10, <1>11, <1>12

(* set_active_node()                                                       *)
LEMMA StampedRight ==
  ASSUME SeatFocusAssumption, NEW s, WellFormed(s), NEW n \in SeatOutputs \cup SeatViews \cup Bars \cup {Nothing},
         NEW t, t = Stamped(s, n)
  PROVE  WellFormed(t) /\ SameWorld(s, t) /\ t.unseen = s.unseen
<1>1. s \in Seats /\ OneActive(s) /\ EachOnce(s.recent)
  BY DEF WellFormed, Sequenced
<1>2. CASE n = Nothing
  BY <1>2 DEF Stamped, SameWorld
<1>3. CASE n # Nothing /\ n \in SeatOutputs
  <2>1. t = [s EXCEPT !.newest = Nothing]
    BY <1>3 DEF Stamped
  <2>2. t \in Seats
    BY <1>1, <2>1 DEF Seats
  <2>3. /\ t.active = s.active /\ t.toplevel = s.toplevel /\ t.activated = s.activated /\ t.recent = s.recent
        /\ SameWorld(s, t) /\ t.unseen = s.unseen
    BY <1>1, <2>1 DEF Seats, SameWorld
  <2>4. OneActive(t) /\ EachOnce(t.recent)
    BY <1>1, <2>3 DEF OneActive
  <2> QED
    BY <2>2, <2>3, <2>4, WellFormedAfter
<1>4. CASE n # Nothing /\ n \notin SeatOutputs
  <2>1. PICK r : r = InFront(n, Without(s.recent, n))
    OBVIOUS
  <2>2. PICK x : x = IF n \in Bars THEN n ELSE Nothing
    OBVIOUS
  <2>3. t = [s EXCEPT !.recent = r, !.newest = x]
    BY <1>4, <2>1, <2>2 DEF Stamped, InFront
  <2>4. n \in SeatViews \cup Bars
    BY <1>4
  <2>5. r \in Seq(SeatViews \cup Bars) /\ EachOnce(r)
    <3>1. PICK q : q = s.recent
      OBVIOUS
    <3>2. q \in Seq(SeatViews \cup Bars) /\ EachOnce(q)
      BY <1>1, <3>1 DEF Seats
    <3> QED
      BY <2>1, <2>4, <3>1, <3>2, BroughtToFront
  <2>6. x \in Bars \cup {Nothing, "never"}
    BY <2>2
  <2>7. t \in Seats
    BY <1>1, <2>3, <2>5, <2>6 DEF Seats
  <2>8. /\ t.active = s.active /\ t.toplevel = s.toplevel /\ t.activated = s.activated /\ t.recent = r
        /\ SameWorld(s, t) /\ t.unseen = s.unseen
    BY <1>1, <2>3 DEF Seats, SameWorld
  <2>9. OneActive(t) /\ EachOnce(t.recent)
    BY <1>1, <2>5, <2>8 DEF OneActive
  <2> QED
    BY <2>7, <2>8, <2>9, WellFormedAfter
<1> QED
  BY <1>2, <1>3, <1>4

(* The focus is on the best node after it.                                 *)
LEMMA SetActiveRight ==
  ASSUME SeatFocusAssumption, NEW s, WellFormed(s), NEW n \in SeatOutputs \cup SeatViews \cup Bars \cup {Nothing},
         NEW t, t = set_active_node(s, n)
  PROVE  WellFormed(t) /\ SameWorld(s, t) /\ t.focus = Best(t) /\ t.unseen = s.unseen
<1>1. PICK u : u = Stamped(s, n)
  OBVIOUS
<1>2. WellFormed(u) /\ SameWorld(s, u) /\ u.unseen = s.unseen
  BY <1>1, StampedRight
<1>3. PICK b : b = Best(u)
  OBVIOUS
<1>4. u \in Seats /\ Sequenced(u) /\ OneActive(u) /\ EachOnce(u.recent)
  BY <1>2 DEF WellFormed, Sequenced
<1>5. b \in Places
  BY <1>3, <1>4, BestPlaced
<1>6. t = [u EXCEPT !.focus = b]
  BY <1>1, <1>3 DEF set_active_node
<1>7. t \in Seats
  BY <1>4, <1>5, <1>6 DEF Seats
<1>8. /\ t.focus = b /\ t.unseen = u.unseen /\ t.active = u.active /\ t.toplevel = u.toplevel
      /\ t.activated = u.activated /\ t.recent = u.recent /\ SameWorld(u, t) /\ SameTimes(u, t)
  BY <1>4, <1>6 DEF Seats, SameWorld, SameTimes
<1>9. WellFormed(t)
  <2>1. OneActive(t) /\ EachOnce(t.recent)
    BY <1>4, <1>8 DEF OneActive
  <2> QED
    BY <1>2, <1>7, <1>8, <2>1, WellFormedAfter
<1>10. SameWorld(s, t) /\ t.unseen = s.unseen
  BY <1>2, <1>8 DEF SameWorld
<1>11. Best(t) = b
  <2>1. Sequenced(t)
    BY <1>9 DEF WellFormed
  <2> QED
    BY <1>3, <1>4, <1>8, <2>1, BestWithFocus
<1> QED
  BY <1>8, <1>9, <1>10, <1>11

(* The flag that a refocus clears has no part in what is chosen.           *)
LEMMA BestUnseen ==
  ASSUME SeatFocusAssumption, NEW s, Sequenced(s), s.focus = Best(s), NEW t, Sequenced(t), SameWorld(s, t),
         SameTimes(s, t), t.focus = s.focus
  PROVE  t.focus = Best(t)
BY BestWithFocus

(* focus_view()                                                            *)
LEMMA FocusViewRight ==
  ASSUME SeatFocusAssumption, NEW s, WellFormed(s), NEW v \in SeatViews \cup Bars \cup {Nothing},
         NEW t, t = focus_view(s, v)
  PROVE  WellFormed(t) /\ SameWorld(s, t) /\ t.focus = Best(t) /\ t.unseen = FALSE
<1>1. PICK w \in SeatViews \cup Bars \cup {Nothing} : w = IF Focusable(s, v) THEN v ELSE Nothing
  OBVIOUS
<1>2. PICK u : u = update_active_view(s, w)
  OBVIOUS
<1>3. WellFormed(u) /\ SameWorld(s, u)
  BY <1>2, ActiveUpdated
<1>4. PICK x : x = set_active_node(u, w)
  OBVIOUS
<1>5. WellFormed(x) /\ SameWorld(u, x) /\ x.focus = Best(x)
  <2>1. w \in SeatOutputs \cup SeatViews \cup Bars \cup {Nothing}
    OBVIOUS
  <2> QED
    BY <1>3, <1>4, <2>1, SetActiveRight
<1>6. t = [x EXCEPT !.unseen = FALSE]
  BY <1>1, <1>2, <1>4 DEF focus_view
<1>7. x \in Seats /\ Sequenced(x) /\ OneActive(x) /\ EachOnce(x.recent)
  BY <1>5 DEF WellFormed, Sequenced
<1>8. t \in Seats
  BY <1>6, <1>7 DEF Seats
<1>9. /\ t.focus = x.focus /\ t.unseen = FALSE /\ t.active = x.active /\ t.toplevel = x.toplevel
      /\ t.activated = x.activated /\ t.recent = x.recent /\ SameWorld(x, t) /\ SameTimes(x, t)
  BY <1>6, <1>7 DEF Seats, SameWorld, SameTimes
<1>10. WellFormed(t)
  <2>1. OneActive(t) /\ EachOnce(t.recent)
    BY <1>7, <1>9 DEF OneActive
  <2> QED
    BY <1>5, <1>8, <1>9, <2>1, WellFormedAfter
<1>11. SameWorld(s, t)
  BY <1>3, <1>5, <1>9 DEF SameWorld
<1>12. t.focus = Best(t)
  <2>1. Sequenced(t)
    BY <1>10 DEF WellFormed
  <2> QED
    BY <1>5, <1>7, <1>9, <2>1, BestUnseen
<1> QED
  BY <1>9, <1>10, <1>11, <1>12

(* The handlers of the window manager.                                     *)
SameBars(s, t) == t.bars = s.bars /\ t.bar = s.bar
SamePlaces(s, t) == SameBars(s, t) /\ t.stack = s.stack /\ t.output = s.output
WithViews(s, f) == [s EXCEPT !.view = f]

(* Views that change within an output.                                     *)
LEMMA ViewsChanged ==
  ASSUME NEW s, s \in Seats, OneActive(s), Sequenced(s), NEW f \in [SeatViews -> ViewStates],
         \A v \in SeatViews : f[v].mapped => f[v].out # Nothing /\ v \in ToSet(s.stack),
         NEW t, t = WithViews(s, f)
  PROVE  /\ WellFormed(t) /\ SamePlaces(s, t) /\ SameTimes(s, t) /\ t.view = f /\ t.locked = s.locked
         /\ t.grab = s.grab /\ t.focus = s.focus /\ t.unseen = s.unseen /\ t.present = s.present
<1>1. t = [s EXCEPT !.view = f]
  BY DEF WithViews
<1>2. t \in Seats
  BY <1>1 DEF Seats
<1>3. /\ SamePlaces(s, t) /\ SameTimes(s, t) /\ t.view = f /\ t.locked = s.locked
      /\ t.grab = s.grab /\ t.focus = s.focus /\ t.unseen = s.unseen /\ t.present = s.present
      /\ t.active = s.active /\ t.toplevel = s.toplevel /\ t.activated = s.activated
  BY <1>1 DEF Seats, SamePlaces, SameBars, SameTimes
<1>4. Sequenced(t) /\ OneActive(t) /\ Stacked(t)
  BY <1>2, <1>3 DEF Sequenced, OneActive, Stacked, SamePlaces, SameBars, SameTimes
<1> QED
  BY <1>3, <1>4 DEF WellFormed

(* view_bring_to_front()                                                   *)
LEMMA BringRight ==
  ASSUME NEW s, Sequenced(s), OneActive(s), NEW v \in SeatViews,
         \A u \in SeatViews : s.view[u].mapped => s.view[u].out # Nothing /\ (u = v \/ u \in ToSet(s.stack)),
         NEW t, t = view_bring_to_front(s, v)
  PROVE  /\ WellFormed(t) /\ SameBars(s, t) /\ t.output = s.output /\ t.view = s.view /\ t.locked = s.locked
         /\ ToSet(t.stack) = ToSet(s.stack) \cup {v} /\ t.present = s.present
<1>1. s \in Seats
  BY DEF Sequenced
<1>2. PICK r : r = InFront(v, Without(s.stack, v))
  OBVIOUS
<1>3. t = [s EXCEPT !.stack = r]
  BY <1>2 DEF view_bring_to_front, InFront
<1>4. r \in Seq(SeatViews) /\ EachOnce(r) /\ ToSet(r) = ToSet(s.stack) \cup {v}
  <2>1. PICK q : q = s.stack
    OBVIOUS
  <2>2. q \in Seq(SeatViews) /\ EachOnce(q)
    BY <2>1 DEF Seats, Sequenced
  <2> QED
    BY <1>2, <2>1, <2>2, BroughtToFront
<1>5. t \in Seats
  BY <1>1, <1>3, <1>4 DEF Seats
<1>6. /\ SameBars(s, t) /\ t.output = s.output /\ t.view = s.view /\ t.locked = s.locked /\ t.stack = r
      /\ t.present = s.present /\ t.recent = s.recent
      /\ t.active = s.active /\ t.toplevel = s.toplevel /\ t.activated = s.activated
  BY <1>1, <1>3 DEF Seats, SameBars
<1>7. Sequenced(t) /\ OneActive(t)
  BY <1>4, <1>5, <1>6 DEF Sequenced, OneActive, SameBars
<1>8. Stacked(t)
  BY <1>4, <1>6 DEF Stacked
<1> QED
  BY <1>4, <1>6, <1>7, <1>8 DEF WellFormed

(* A workspace of an output is shown.                                      *)
LEMMA SwitchRight ==
  ASSUME SeatFocusAssumption, NEW s, WellFormed(s), NEW o, NEW t, t = SwitchWorkspace(s, o)
  PROVE  WellFormed(t) /\ SamePlaces(s, t) /\ t.focus = Best(t)
<1>1. PICK f : f = [v \in SeatViews |-> IF s.view[v].mapped /\ s.view[v].out = o
                                        THEN [s.view[v] EXCEPT !.here = ~@] ELSE s.view[v]]
  OBVIOUS
<1>2. s \in Seats /\ OneActive(s) /\ Sequenced(s) /\ Stacked(s)
  BY DEF WellFormed, Sequenced
<1>3. ASSUME NEW v \in SeatViews
      PROVE  f[v] \in ViewStates /\ f[v].mapped = s.view[v].mapped /\ f[v].out = s.view[v].out
  <2>1. PICK x \in ViewStates : x = s.view[v]
    BY <1>2 DEF Seats
  <2>2. PICK h \in BOOLEAN : h = ~x.here
    OBVIOUS
  <2>3. f[v] = x \/ f[v] = [x EXCEPT !.here = h]
    BY <1>1, <2>1, <2>2
  <2> QED
    BY <2>1, <2>3 DEF ViewStates
<1>4. PICK u : u = WithViews(s, f)
  OBVIOUS
<1>5. t = refocus(u)
  BY <1>1, <1>4 DEF SwitchWorkspace, WithViews
<1>6. f \in [SeatViews -> ViewStates]
  BY <1>1, <1>3
<1>7. WellFormed(u) /\ SamePlaces(s, u)
  BY <1>2, <1>3, <1>4, <1>6, ViewsChanged DEF Stacked
<1>8. WellFormed(t) /\ SameWorld(u, t) /\ t.focus = Best(t)
  BY <1>5, <1>7, RefocusRight
<1> QED
  BY <1>7, <1>8 DEF SamePlaces, SameWorld, SameBars

(* So does making a view visible.                                          *)
LEMMA EnsureVisibleRight ==
  ASSUME SeatFocusAssumption, NEW s, WellFormed(s), NEW v, NEW t, t = ensure_visible(s, v)
  PROVE  WellFormed(t) /\ SamePlaces(s, t)
<1>1. CASE t = s
  BY <1>1 DEF SamePlaces, SameBars
<1>2. CASE t = SwitchWorkspace(s, s.view[v].out)
  BY <1>2, SwitchRight
<1> QED
  BY <1>1, <1>2 DEF ensure_visible

(* focus_output()                                                          *)
LEMMA FocusOutputRight ==
  ASSUME SeatFocusAssumption, NEW s, WellFormed(s), NEW o \in SeatOutputs, NEW t, t = focus_output(s, o)
  PROVE  /\ WellFormed(t) /\ SameBars(s, t) /\ t.output = o /\ t.stack = s.stack /\ t.view = s.view
         /\ t = s \/ t.focus = Best(t)
<1>1. CASE s.output = o
  BY <1>1 DEF focus_output, SameBars
<1>2. CASE s.output # o
  <2>1. PICK u : u = [s EXCEPT !.output = o]
    OBVIOUS
  <2>2. t = refocus(u)
    BY <1>2, <2>1 DEF focus_output
  <2>3. s \in Seats
    BY DEF WellFormed, Sequenced
  <2>4. u \in Seats
    BY <2>1, <2>3 DEF Seats
  <2>5. /\ SameBars(s, u) /\ u.output = o /\ u.stack = s.stack /\ u.view = s.view /\ u.recent = s.recent
        /\ u.active = s.active /\ u.toplevel = s.toplevel /\ u.activated = s.activated
    BY <2>1, <2>3 DEF Seats, SameBars
  <2>6. WellFormed(u)
    BY <2>4, <2>5 DEF WellFormed, Sequenced, OneActive, Stacked, SameBars
  <2>7. WellFormed(t) /\ SameWorld(u, t) /\ t.focus = Best(t)
    BY <2>2, <2>6, RefocusRight
  <2> QED
    BY <2>5, <2>7 DEF SameWorld, SameBars
<1> QED
  BY <1>1, <1>2

(* minimize_request()                                                      *)
LEMMA MinimizeRight ==
  ASSUME SeatFocusAssumption, NEW s, WellFormed(s), NEW v \in SeatViews, NEW state \in BOOLEAN,
         NEW t, t = minimize_request(s, v, state)
  PROVE  WellFormed(t) /\ SameBars(s, t) /\ t.output = s.output /\ (t = s \/ t.focus = Best(t))
<1>1. CASE s.view[v].minimized = state \/ ~s.view[v].mapped
  BY <1>1 DEF minimize_request, SameBars
<1>2. CASE ~(s.view[v].minimized = state \/ ~s.view[v].mapped)
  <2>1. s \in Seats /\ OneActive(s) /\ Sequenced(s) /\ Stacked(s)
    BY DEF WellFormed, Sequenced
  <2>2. PICK x \in ViewStates : x = s.view[v]
    BY <2>1 DEF Seats
  <2>3. PICK y : y = [x EXCEPT !.minimized = state]
    OBVIOUS
  <2>4. y \in ViewStates /\ y.mapped = x.mapped /\ y.out = x.out
    BY <2>3 DEF ViewStates
  <2>5. PICK f : f = [s.view EXCEPT ![v] = y]
    OBVIOUS
  <2>6. f \in [SeatViews -> ViewStates]
    BY <2>1, <2>4, <2>5 DEF Seats
  <2>7. \A u \in SeatViews : f[u].mapped = s.view[u].mapped /\ f[u].out = s.view[u].out
    BY <2>1, <2>2, <2>4, <2>5 DEF Seats
  <2>8. PICK a : a = WithViews(s, f)
    OBVIOUS
  <2>9. WellFormed(a) /\ SamePlaces(s, a)
    BY <2>1, <2>6, <2>7, <2>8, ViewsChanged DEF Stacked
  <2>10. t = IF state THEN refocus(a) ELSE focus_view(view_bring_to_front(a, v), v)
    <3>1. a = [s EXCEPT !.view[v].minimized = state]
      BY <2>2, <2>3, <2>5, <2>8 DEF WithViews
    <3> QED
      BY <1>2, <3>1 DEF minimize_request
  <2>11. CASE state
    <3>1. t = refocus(a)
      BY <2>10, <2>11
    <3>2. WellFormed(t) /\ SameWorld(a, t) /\ t.focus = Best(t)
      BY <2>9, <3>1, RefocusRight
    <3> QED
      BY <2>9, <3>2 DEF SamePlaces, SameWorld, SameBars
  <2>12. CASE ~state
    <3>1. PICK b : b = view_bring_to_front(a, v)
      OBVIOUS
    <3>2. t = focus_view(b, v)
      BY <2>10, <2>12, <3>1
    <3>3. WellFormed(b) /\ SameBars(a, b) /\ b.output = a.output
      BY <2>9, <3>1, BringRight DEF WellFormed, Stacked
    <3>4. WellFormed(t) /\ SameWorld(b, t) /\ t.focus = Best(t)
      BY <3>2, <3>3, FocusViewRight
    <3> QED
      BY <2>9, <3>3, <3>4 DEF SamePlaces, SameWorld, SameBars
  <2> QED
    BY <2>11, <2>12
<1> QED
  BY <1>1, <1>2

(* focus_raise_view()                                                      *)
LEMMA FocusRaiseRight ==
  ASSUME SeatFocusAssumption, NEW s, WellFormed(s), NEW v \in SeatViews, s.view[v].mapped,
         NEW allow \in BOOLEAN, NEW t, t = focus_raise_view(s, v, allow)
  PROVE  WellFormed(t) /\ SameBars(s, t) /\ t.focus = Best(t)
<1>1. PICK no \in BOOLEAN : no = FALSE
  OBVIOUS
<1>2. PICK a : a = minimize_request(s, v, no)
  OBVIOUS
<1>3. WellFormed(a) /\ SameBars(s, a)
  BY <1>2, MinimizeRight
<1>4. PICK b : b = IF allow THEN ensure_visible(a, v) ELSE a
  OBVIOUS
<1>5. WellFormed(b) /\ SameBars(a, b)
  <2>1. CASE allow
    <3>1. b = ensure_visible(a, v)
      BY <1>4, <2>1
    <3> QED
      BY <1>3, <3>1, EnsureVisibleRight DEF SamePlaces
  <2>2. CASE ~allow
    BY <1>3, <1>4, <2>2 DEF SameBars
  <2> QED
    BY <2>1, <2>2
<1>6. PICK c : c = view_bring_to_front(b, v)
  OBVIOUS
<1>7. WellFormed(c) /\ SameBars(b, c)
  BY <1>5, <1>6, BringRight DEF WellFormed, Stacked
<1>8. PICK o : o = s.view[v].out
  OBVIOUS
<1>9. o \in SeatOutputs
  BY <1>8 DEF WellFormed, Sequenced, Seats, ViewStates, Stacked
<1>10. PICK d : d = focus_output(c, o)
  OBVIOUS
<1>11. WellFormed(d) /\ SameBars(c, d)
  BY <1>7, <1>9, <1>10, FocusOutputRight
<1>12. t = focus_view(d, v)
  BY <1>1, <1>2, <1>4, <1>6, <1>8, <1>10 DEF focus_raise_view
<1>13. WellFormed(t) /\ SameWorld(d, t) /\ t.focus = Best(t)
  BY <1>11, <1>12, FocusViewRight
<1> QED
  BY <1>3, <1>5, <1>7, <1>11, <1>13 DEF SameBars, SameWorld

(* What is important does not change with views that are not.              *)
SameAsks(s, t) ==
  /\ t.output = s.output /\ t.locked = s.locked /\ t.grab = s.grab /\ t.bar = s.bar /\ t.focus = s.focus
  /\ SameTimes(s, t)

(* What nodes that are not views ask for depends on nothing else.          *)
LEMMA OthersAsk ==
  ASSUME SeatFocusAssumption, NEW s, NEW t, SameAsks(s, t), NEW n, n \notin SeatViews
  PROVE  ImportanceOf(t, n) = ImportanceOf(s, n)
BY DEF SameAsks, SameTimes, ImportanceOf

(* What a view asks for.                                                   *)
LEMMA ViewAsks ==
  ASSUME SeatFocusAssumption, NEW s, NEW v \in SeatViews
  PROVE  ImportanceOf(s, v) = IF ~s.view[v].mapped \/ s.view[v].minimized \/ s.view[v].out # s.output THEN 0
                              ELSE IF s.view[v].here THEN 2
                              ELSE IF s.view[v].edge THEN 1
                              ELSE 0
BY DEF ImportanceOf, SeatFocusAssumption

(* When nobody asks for more or for less, the best node is the same.       *)
LEMMA BestSame ==
  ASSUME SeatFocusAssumption, NEW s, Sequenced(s), NEW t, Sequenced(t), SamePlaces(s, t), SameTimes(s, t),
         \A n \in InScene(s) : ImportanceOf(t, n) = ImportanceOf(s, n)
  PROVE  Best(t) = Best(s)
<1>1. InScene(t) = InScene(s) /\ \A n \in InScene(s) : Place(t, n) = Place(s, n)
  BY DEF SamePlaces, SameBars, InScene, Place
<1>2. \A n \in InScene(s) : StampOf(t, n) = StampOf(s, n)
  BY DEF SameTimes, StampOf
<1>3. \A n \in InScene(s) : Blocks(t, n) <=> Blocks(s, n)
  BY DEF SamePlaces, SameBars, Blocks
<1>4. \A n \in InScene(s) : (Offers(t, n) <=> Offers(s, n)) /\ SameOffer(s, t, n)
  BY <1>1, <1>3 DEF Offers, SameOffer
<1>5. \A m, n \in InScene(t) : SameOrder(s, t, m, n)
  BY <1>1, <1>2 DEF SameOrder
<1>6. OffersLess(s, t, Best(s))
  BY <1>1, <1>4, <1>5 DEF OffersLess
<1> QED
  BY <1>6, BestStays

(* Another value of the flag.                                              *)
Unseen(s, e) == [s EXCEPT !.unseen = e]

(* The flag is all that changes.                                           *)
LEMMA UnseenRight ==
  ASSUME NEW s, WellFormed(s), NEW e \in BOOLEAN, NEW t, t = Unseen(s, e)
  PROVE  WellFormed(t) /\ SameWorld(s, t) /\ SameTimes(s, t) /\ t.focus = s.focus /\ t.unseen = e
<1>1. s \in Seats /\ OneActive(s) /\ EachOnce(s.recent)
  BY DEF WellFormed, Sequenced
<1>2. t = [s EXCEPT !.unseen = e]
  BY DEF Unseen
<1>3. t \in Seats
  BY <1>1, <1>2 DEF Seats
<1>4. /\ SameWorld(s, t) /\ SameTimes(s, t) /\ t.focus = s.focus /\ t.unseen = e
      /\ t.active = s.active /\ t.toplevel = s.toplevel /\ t.activated = s.activated /\ t.recent = s.recent
  BY <1>1, <1>2 DEF Seats, SameWorld, SameTimes
<1>5. OneActive(t) /\ EachOnce(t.recent)
  BY <1>1, <1>4 DEF OneActive
<1> QED
  BY <1>3, <1>4, <1>5, WellFormedAfter

(* move_view_to_output()                                                   *)
LEMMA MoveRight ==
  ASSUME SeatFocusAssumption, NEW s, WellFormed(s), NEW v \in SeatViews, NEW o \in SeatOutputs,
         NEW t, t = move_view_to_output(s, v, o)
  PROVE  /\ WellFormed(t) /\ FocusHeld(t) /\ SameBars(s, t) /\ t.output = s.output
         /\ t.view[v].out = o /\ \A u \in SeatViews : u # v => t.view[u] = s.view[u]
<1>1. s \in Seats /\ OneActive(s) /\ Sequenced(s) /\ Stacked(s)
  BY DEF WellFormed, Sequenced
<1>2. PICK a : a = view_bring_to_front(s, v)
  OBVIOUS
<1>3. /\ WellFormed(a) /\ SameBars(s, a) /\ a.output = s.output /\ a.view = s.view
      /\ ToSet(a.stack) = ToSet(s.stack) \cup {v}
  BY <1>1, <1>2, BringRight DEF Stacked
<1>4. a \in Seats /\ OneActive(a) /\ Sequenced(a) /\ Stacked(a)
  BY <1>3 DEF WellFormed, Sequenced
<1>5. PICK x \in ViewStates : x = s.view[v]
  BY <1>1 DEF Seats
<1>6. PICK no \in BOOLEAN : no = FALSE
  OBVIOUS
<1>7. PICK y : y = [x EXCEPT !.out = o, !.edge = no]
  OBVIOUS
<1>8. y \in ViewStates /\ y.mapped = x.mapped /\ y.out = o /\ y.here = x.here
  BY <1>7 DEF ViewStates
<1>9. PICK f : f = [a.view EXCEPT ![v] = y]
  OBVIOUS
<1>10. f \in [SeatViews -> ViewStates] /\ f[v] = y /\ \A u \in SeatViews : u # v => f[u] = s.view[u]
  BY <1>3, <1>4, <1>8, <1>9 DEF Seats
<1>11. PICK b : b = WithViews(a, f)
  OBVIOUS
<1>12. WellFormed(b) /\ SamePlaces(a, b) /\ b.view = f
  <2>1. \A u \in SeatViews : f[u].mapped => f[u].out # Nothing /\ u \in ToSet(a.stack)
    <3>1. \A u \in SeatViews : u # v => (f[u].mapped => f[u].out # Nothing /\ u \in ToSet(a.stack))
      BY <1>1, <1>3, <1>10 DEF Stacked
    <3>2. f[v].out # Nothing /\ v \in ToSet(a.stack)
      BY <1>3, <1>8, <1>10 DEF SeatFocusAssumption
    <3> QED
      BY <3>1, <3>2
  <2> QED
    BY <1>4, <1>10, <1>11, <2>1, ViewsChanged
<1>13. PICK r : r = refocus(b)
  OBVIOUS
<1>14. WellFormed(r) /\ SameWorld(b, r) /\ r.focus = Best(r) /\ r.unseen = FALSE
  BY <1>12, <1>13, RefocusRight
<1>15. PICK c : c = IF o = r.output THEN focus_view(r, v) ELSE r
  OBVIOUS
<1>16. WellFormed(c) /\ SameWorld(b, c) /\ c.focus = Best(c) /\ c.unseen = FALSE
  <2>1. CASE o = r.output
    <3>1. c = focus_view(r, v)
      BY <1>15, <2>1
    <3>2. WellFormed(c) /\ SameWorld(r, c) /\ c.focus = Best(c) /\ c.unseen = FALSE
      BY <1>14, <3>1, FocusViewRight
    <3> QED
      BY <1>14, <3>2 DEF SameWorld
  <2>2. CASE o # r.output
    BY <1>14, <1>15, <2>2
  <2> QED
    BY <2>1, <2>2
<1>17. c \in Seats /\ OneActive(c) /\ Sequenced(c) /\ Stacked(c) /\ c.view = f
  BY <1>12, <1>16 DEF WellFormed, Sequenced, SameWorld
<1>18. PICK yes \in BOOLEAN : yes = TRUE
  OBVIOUS
<1>19. PICK z : z = [y EXCEPT !.here = yes]
  OBVIOUS
<1>20. /\ z \in ViewStates /\ z.mapped = y.mapped /\ z.out = o /\ z.minimized = y.minimized /\ z.edge = y.edge
       /\ z.here = yes
  BY <1>8, <1>19 DEF ViewStates
<1>21. PICK g : g = [c.view EXCEPT ![v] = z]
  OBVIOUS
<1>22. g \in [SeatViews -> ViewStates] /\ g[v] = z /\ \A u \in SeatViews : u # v => g[u] = c.view[u]
  BY <1>17, <1>20, <1>21 DEF Seats
<1>23. PICK d : d = WithViews(c, g)
  OBVIOUS
<1>24. WellFormed(d) /\ SamePlaces(c, d) /\ d.view = g /\ SameAsks(c, d) /\ SameTimes(c, d)
  <2>1. \A u \in SeatViews : g[u].mapped => g[u].out # Nothing /\ u \in ToSet(c.stack)
    BY <1>8, <1>10, <1>17, <1>20, <1>22 DEF Stacked
  <2> QED
    BY <1>17, <1>22, <1>23, <2>1, ViewsChanged DEF SameAsks, SamePlaces, SameBars
<1>25. PICK e \in BOOLEAN : e = (~s.view[v].here /\ o = c.output)
  OBVIOUS
<1>26. t = Unseen(d, e)
  <2>1. t = [c EXCEPT !.view[v].here = TRUE, !.unseen = c.unseen \/ (~s.view[v].here /\ o = c.output)]
    <3>1. b = [a EXCEPT !.view[v] = [a.view[v] EXCEPT !.out = o, !.edge = FALSE]]
      BY <1>3, <1>5, <1>6, <1>7, <1>9, <1>11 DEF WithViews
    <3> QED
      BY <1>2, <1>13, <1>15, <3>1 DEF move_view_to_output
  <2>2. (c.unseen \/ (~s.view[v].here /\ o = c.output)) = e
    BY <1>16, <1>25
  <2>3. c.view[v] = y
    BY <1>10, <1>17
  <2> QED
    BY <1>17, <1>18, <1>19, <1>21, <1>23, <2>1, <2>2, <2>3 DEF Unseen, WithViews, Seats
<1>27. WellFormed(t) /\ SameWorld(d, t) /\ SameTimes(d, t) /\ t.focus = d.focus /\ t.unseen = e
  BY <1>24, <1>26, UnseenRight
<1>28. SamePlaces(c, t) /\ SameAsks(c, t) /\ t.view = g
  BY <1>24, <1>27 DEF SamePlaces, SameBars, SameAsks, SameWorld, SameTimes
<1>29. SameBars(s, t) /\ t.output = s.output
  BY <1>3, <1>12, <1>16, <1>28 DEF SamePlaces, SameBars, SameWorld
<1>30. t.view[v].out = o /\ \A u \in SeatViews : u # v => t.view[u] = s.view[u]
  BY <1>10, <1>17, <1>20, <1>22, <1>28
<1>31. ~e => Best(t) = Best(c)
  <2>1. ASSUME ~e, NEW n \in InScene(c) PROVE ImportanceOf(t, n) = ImportanceOf(c, n)
    <3>1. CASE n \notin SeatViews
      BY <1>28, <3>1, OthersAsk
    <3>2. CASE n \in SeatViews /\ n # v
      <4>1. t.view[n] = c.view[n] /\ t.output = c.output
        BY <1>22, <1>28, <3>2 DEF SameAsks
      <4> QED
        BY <3>2, <4>1, ViewAsks
    <3>3. CASE n = v
      <4>1. t.view[v] = z /\ c.view[v] = y /\ t.output = c.output
        BY <1>10, <1>17, <1>22, <1>28 DEF SameAsks
      <4>2. PICK mapped, minimized, edge, here \in BOOLEAN :
              mapped = y.mapped /\ minimized = y.minimized /\ edge = y.edge /\ here = y.here
        BY <1>8 DEF ViewStates
      <4>3. here \/ o # c.output
        BY <1>5, <1>8, <1>25, <2>1, <4>2
      <4>4. ImportanceOf(t, v) = IF ~mapped \/ minimized \/ o # c.output THEN 0
                                 ELSE IF yes THEN 2 ELSE IF edge THEN 1 ELSE 0
        BY <1>20, <4>1, <4>2, ViewAsks
      <4>5. ImportanceOf(c, v) = IF ~mapped \/ minimized \/ o # c.output THEN 0
                                 ELSE IF here THEN 2 ELSE IF edge THEN 1 ELSE 0
        BY <1>8, <4>1, <4>2, ViewAsks
      <4> QED
        BY <1>18, <3>3, <4>3, <4>4, <4>5
    <3> QED
      BY <3>1, <3>2, <3>3
  <2>2. Sequenced(t) /\ Sequenced(c)
    BY <1>16, <1>27 DEF WellFormed
  <2> QED
    BY <1>28, <2>1, <2>2, BestSame DEF SameAsks
<1>32. FocusHeld(t)
  <2>1. LockFocused(c) /\ FocusThere(c)
    BY <1>16, <1>17, CurrentIsRight DEF FocusHeld
  <2>2. \A u \in SeatViews : /\ t.view[u].mapped = c.view[u].mapped
                             /\ t.view[u].minimized = c.view[u].minimized /\ t.view[u].out = c.view[u].out
    BY <1>8, <1>10, <1>17, <1>20, <1>22, <1>28
  <2>3. LockFocused(t)
    BY <1>28, <2>1 DEF LockFocused, SameAsks
  <2>4. FocusThere(t)
    BY <1>28, <2>1, <2>2 DEF FocusThere, SameAsks
  <2>5. t.unseen \/ t.focus = Best(t)
    <3>1. t.focus = c.focus
      BY <1>28 DEF SameAsks
    <3> QED
      BY <1>16, <1>27, <1>31, <3>1
  <2> QED
    BY <2>3, <2>4, <2>5 DEF FocusHeld
<1> QED
  BY <1>27, <1>29, <1>30, <1>32

(* The level of a node in the scene, and its place within it.              *)
Rank(s, n) ==
  CASE n \in SeatOutputs -> 1
    [] n = Grab -> 2
    [] n \in Bars -> IF s.bar[n].top THEN 3 ELSE 5
    [] OTHER -> 4
Spot(s, n) ==
  CASE n \in SeatOutputs \cup {Grab} -> 0
    [] n \in Bars -> PositionIn(s.bars, n)
    [] OTHER -> PositionIn(s.stack, n)

(* The order of the scene is that of the levels, and then of the places    *)
(* within.                                                                 *)
LEMMA PlaceOrder ==
  ASSUME SeatFocusAssumption, NEW s, Sequenced(s), NEW m \in InScene(s), NEW n \in InScene(s)
  PROVE  Place(s, m) < Place(s, n) <=>
           Rank(s, m) < Rank(s, n) \/ (Rank(s, m) = Rank(s, n) /\ Spot(s, m) < Spot(s, n))
<1>1. PICK l \in Nat : l = Len(s.bars)
  BY DEF Sequenced, Seats
<1>2. PICK k \in Nat : k = Len(s.stack)
  BY DEF Sequenced, Seats
<1>3. ASSUME NEW x \in InScene(s)
      PROVE  \/ Rank(s, x) = 1 /\ Spot(s, x) = 0 /\ Place(s, x) = 1
             \/ Rank(s, x) = 2 /\ Spot(s, x) = 0 /\ Place(s, x) = 2
             \/ Rank(s, x) = 3 /\ Spot(s, x) \in 1..l /\ Place(s, x) = 2 + Spot(s, x)
             \/ Rank(s, x) = 4 /\ Spot(s, x) \in 1..k /\ Place(s, x) = 2 + l + Spot(s, x)
             \/ Rank(s, x) = 5 /\ Spot(s, x) \in 1..l /\ Place(s, x) = 2 + l + k + Spot(s, x)
  <2>1. CASE x = s.output
    <3>1. x \in SeatOutputs
      BY <2>1 DEF Sequenced, Seats
    <3> QED
      BY <3>1 DEF Rank, Spot, Place
  <2>2. CASE x = Grab
    <3>1. x \notin SeatOutputs
      BY <2>2 DEF SeatFocusAssumption
    <3> QED
      BY <2>2, <3>1 DEF Rank, Spot, Place
  <2>3. CASE x \in ToSet(s.bars)
    <3>1. x \in Bars
      BY <2>3 DEF Sequenced, Seats, ToSet
    <3>2. x \notin SeatOutputs /\ x # Grab
      BY <3>1 DEF SeatFocusAssumption
    <3>3. PICK p : p = PositionIn(s.bars, x)
      OBVIOUS
    <3>4. p \in 1..l
      <4>1. p \in DOMAIN s.bars
        BY <2>3, <3>3, PositionHolds
      <4>2. DOMAIN s.bars = 1..l
        BY <1>1 DEF Sequenced, Seats
      <4> QED
        BY <4>1, <4>2
    <3>5. PICK top \in BOOLEAN : top = s.bar[x].top
      BY <3>1 DEF Sequenced, Seats, BarStates
    <3>6. Spot(s, x) = p /\ Rank(s, x) = (IF top THEN 3 ELSE 5)
          /\ Place(s, x) = (IF top THEN 2 + p ELSE 2 + l + k + p)
      BY <1>1, <1>2, <3>1, <3>2, <3>3, <3>5 DEF Rank, Spot, Place
    <3> QED
      BY <3>4, <3>5, <3>6
  <2>4. CASE x \in ToSet(s.stack)
    <3>1. x \in SeatViews
      BY <2>4 DEF Sequenced, Seats, ToSet
    <3>2. x \notin SeatOutputs /\ x # Grab /\ x \notin Bars
      BY <3>1 DEF SeatFocusAssumption
    <3>3. PICK p : p = PositionIn(s.stack, x)
      OBVIOUS
    <3>4. p \in 1..k
      <4>1. p \in DOMAIN s.stack
        BY <2>4, <3>3, PositionHolds
      <4>2. DOMAIN s.stack = 1..k
        BY <1>2 DEF Sequenced, Seats
      <4> QED
        BY <4>1, <4>2
    <3>5. Spot(s, x) = p /\ Rank(s, x) = 4 /\ Place(s, x) = 2 + l + p
      BY <1>1, <3>2, <3>3 DEF Rank, Spot, Place
    <3> QED
      BY <3>4, <3>5
  <2> QED
    BY <2>1, <2>2, <2>3, <2>4 DEF InScene
<1>4. PICK a, b, c, d, e, f : /\ a = Rank(s, m) /\ b = Spot(s, m) /\ c = Place(s, m)
                              /\ d = Rank(s, n) /\ e = Spot(s, n) /\ f = Place(s, n)
  OBVIOUS
<1>5. \/ a = 1 /\ b = 0 /\ c = 1
      \/ a = 2 /\ b = 0 /\ c = 2
      \/ a = 3 /\ b \in 1..l /\ c = 2 + b
      \/ a = 4 /\ b \in 1..k /\ c = 2 + l + b
      \/ a = 5 /\ b \in 1..l /\ c = 2 + l + k + b
  BY <1>3, <1>4
<1>6. \/ d = 1 /\ e = 0 /\ f = 1
      \/ d = 2 /\ e = 0 /\ f = 2
      \/ d = 3 /\ e \in 1..l /\ f = 2 + e
      \/ d = 4 /\ e \in 1..k /\ f = 2 + l + e
      \/ d = 5 /\ e \in 1..l /\ f = 2 + l + k + e
  BY <1>3, <1>4
<1>7. c < f <=> a < d \/ (a = d /\ b < e)
  BY <1>5, <1>6
<1> QED
  BY <1>4, <1>7

(* The order of what two sequences both hold.                              *)
SameSpots(p, q, m, n) == PositionIn(q, m) < PositionIn(q, n) <=> PositionIn(p, m) < PositionIn(p, n)

(* Nodes whose order in the sequences of nodes is the same are in the same *)
(* order in the scene.                                                     *)
LEMMA PlacesAgree ==
  ASSUME SeatFocusAssumption, NEW s, Sequenced(s), NEW t, Sequenced(t), t.output = s.output,
         NEW m \in InScene(s), m \in InScene(t), NEW n \in InScene(s), n \in InScene(t),
         Rank(t, m) = Rank(s, m), Rank(t, n) = Rank(s, n),
         m \in Bars /\ n \in Bars => SameSpots(s.bars, t.bars, m, n),
         m \in SeatViews /\ n \in SeatViews => SameSpots(s.stack, t.stack, m, n)
  PROVE  Place(t, m) < Place(t, n) <=> Place(s, m) < Place(s, n)
<1>1. \A x \in InScene(s) : \/ x \in SeatOutputs /\ x = s.output /\ Rank(s, x) = 1
                            \/ x = Grab /\ Rank(s, x) = 2
                            \/ x \in Bars /\ Rank(s, x) \in {3, 5}
                            \/ x \in SeatViews /\ Rank(s, x) = 4
  <2>1. s.output \in SeatOutputs
    BY DEF Sequenced, Seats
  <2>2. \A x \in ToSet(s.bars) : x \in Bars /\ x \notin SeatOutputs /\ x # Grab
    BY DEF Sequenced, Seats, ToSet, SeatFocusAssumption
  <2>3. \A x \in ToSet(s.stack) : x \in SeatViews /\ x \notin SeatOutputs /\ x # Grab /\ x \notin Bars
    BY DEF Sequenced, Seats, ToSet, SeatFocusAssumption
  <2>4. Grab \notin SeatOutputs
    BY DEF SeatFocusAssumption
  <2> QED
    BY <2>1, <2>2, <2>3, <2>4 DEF InScene, Rank
<1>2. Rank(s, m) = Rank(s, n) => (Spot(t, m) < Spot(t, n) <=> Spot(s, m) < Spot(s, n))
  <2>1. SUFFICES ASSUME Rank(s, m) = Rank(s, n)
                 PROVE  Spot(t, m) < Spot(t, n) <=> Spot(s, m) < Spot(s, n)
    OBVIOUS
  <2>2. CASE m \in SeatOutputs \cup {Grab}
    <3>1. n = m
      BY <1>1, <2>1, <2>2 DEF SeatFocusAssumption
    <3>2. Spot(t, m) = 0 /\ Spot(s, m) = 0
      BY <2>2 DEF Spot
    <3> QED
      BY <3>1, <3>2
  <2>3. CASE m \in Bars
    <3>1. n \in Bars /\ n \notin SeatOutputs \cup {Grab} /\ m \notin SeatOutputs \cup {Grab}
      BY <1>1, <2>1, <2>3 DEF SeatFocusAssumption
    <3> QED
      BY <2>3, <3>1 DEF Spot, SameSpots
  <2>4. CASE m \in SeatViews
    <3>1. /\ n \in SeatViews /\ n \notin SeatOutputs \cup {Grab} \cup Bars
          /\ m \notin SeatOutputs \cup {Grab} \cup Bars
      BY <1>1, <2>1, <2>4 DEF SeatFocusAssumption
    <3> QED
      BY <2>4, <3>1 DEF Spot, SameSpots
  <2> QED
    BY <1>1, <2>2, <2>3, <2>4
<1>3. Place(s, m) < Place(s, n) <=>
        Rank(s, m) < Rank(s, n) \/ (Rank(s, m) = Rank(s, n) /\ Spot(s, m) < Spot(s, n))
  BY PlaceOrder
<1>4. Place(t, m) < Place(t, n) <=>
        Rank(t, m) < Rank(t, n) \/ (Rank(t, m) = Rank(t, n) /\ Spot(t, m) < Spot(t, n))
  BY PlaceOrder
<1> QED
  BY <1>2, <1>3, <1>4

(* And so are the times of nodes.                                          *)
LEMMA TimesAgree ==
  ASSUME NEW s, NEW S, s.recent \in Seq(S), NEW t, t.recent \in Seq(S), NEW m, NEW n,
         m \in ToSet(t.recent) <=> m \in ToSet(s.recent), n \in ToSet(t.recent) <=> n \in ToSet(s.recent),
         m \in ToSet(t.recent) /\ n \in ToSet(t.recent) => SameSpots(s.recent, t.recent, n, m)
  PROVE  StampOf(t, m) < StampOf(t, n) <=> StampOf(s, m) < StampOf(s, n)
<1>1. ASSUME NEW u, u.recent \in Seq(S), NEW x
      PROVE  /\ x \in ToSet(u.recent) => /\ PositionIn(u.recent, x) \in 1..Len(u.recent)
                                         /\ StampOf(u, x) = 1 + Len(u.recent) - PositionIn(u.recent, x)
             /\ x \notin ToSet(u.recent) => StampOf(u, x) = 0
             /\ Len(u.recent) \in Nat
  <2>1. DOMAIN u.recent = 1..Len(u.recent) /\ Len(u.recent) \in Nat
    BY <1>1
  <2>2. x \in ToSet(u.recent) => PositionIn(u.recent, x) \in 1..Len(u.recent)
    BY <2>1, PositionHolds
  <2>3. StampOf(u, x) = IF x \in ToSet(u.recent) THEN 1 + Len(u.recent) - PositionIn(u.recent, x) ELSE 0
    BY DEF StampOf, PositionIn
  <2> QED
    BY <2>1, <2>2, <2>3
<1>2. PICK a, b, c, d : /\ a = PositionIn(s.recent, m) /\ b = PositionIn(s.recent, n)
                        /\ c = PositionIn(t.recent, m) /\ d = PositionIn(t.recent, n)
  OBVIOUS
<1>3. PICK l \in Nat : l = Len(s.recent)
  OBVIOUS
<1>4. PICK k \in Nat : k = Len(t.recent)
  OBVIOUS
<1>5. PICK x \in BOOLEAN : x <=> m \in ToSet(s.recent)
  OBVIOUS
<1>6. PICK y \in BOOLEAN : y <=> n \in ToSet(s.recent)
  OBVIOUS
<1>7. /\ StampOf(s, m) = IF x THEN 1 + l - a ELSE 0
      /\ StampOf(s, n) = IF y THEN 1 + l - b ELSE 0
      /\ x => a \in 1..l
      /\ y => b \in 1..l
  BY <1>1, <1>2, <1>3, <1>5, <1>6
<1>8. /\ StampOf(t, m) = IF x THEN 1 + k - c ELSE 0
      /\ StampOf(t, n) = IF y THEN 1 + k - d ELSE 0
      /\ x => c \in 1..k
      /\ y => d \in 1..k
  BY <1>1, <1>2, <1>4, <1>5, <1>6
<1>9. x /\ y => (d < c <=> b < a)
  BY <1>2, <1>5, <1>6 DEF SameSpots
<1> QED
  BY <1>7, <1>8, <1>9

(* Freed(): what is freed offers nothing, so the best node stays.          *)
Gone(s, n) == (n \in SeatViews => ~s.view[n].mapped) /\ (n \in Bars => ~s.bar[n].mapped)
AfterFreed(s, t, n) ==
  /\ WellFormed(t) /\ Best(t) = Best(s)
  /\ t.output = s.output /\ t.present = s.present /\ t.focus = s.focus /\ t.unseen = s.unseen
  /\ t.grab = s.grab /\ t.locked = s.locked /\ t.view = s.view /\ t.bar = s.bar
  /\ ToSet(t.bars) = ToSet(s.bars) \ {n}

(* What is freed is nowhere afterwards, and the rest is as it was.         *)
LEMMA FreedRight ==
  ASSUME SeatFocusAssumption, NEW s, WellFormed(s), NEW n \in SeatViews \cup Bars, Gone(s, n),
         NEW t, t = Freed(s, n)
  PROVE  AfterFreed(s, t, n)
<1>1. s \in Seats /\ OneActive(s) /\ Sequenced(s) /\ Stacked(s)
  BY DEF WellFormed, Sequenced
<1>2. n # Nothing /\ n # "never" /\ n \notin SeatOutputs \cup {Grab}
  BY DEF SeatFocusAssumption
<1>3. PICK recent : recent = Without(s.recent, n)
  OBVIOUS
<1>4. PICK stack : stack = Without(s.stack, n)
  OBVIOUS
<1>5. PICK bars : bars = Without(s.bars, n)
  OBVIOUS
<1>6. /\ recent \in Seq(SeatViews \cup Bars) /\ EachOnce(recent) /\ ToSet(recent) = ToSet(s.recent) \ {n}
      /\ \A x, y \in ToSet(recent) : SameSpots(s.recent, recent, x, y)
  <2>1. PICK q : q = s.recent
    OBVIOUS
  <2>2. q \in Seq(SeatViews \cup Bars) /\ EachOnce(q)
    BY <1>1, <2>1 DEF Sequenced, Seats
  <2> QED
    BY <1>3, <2>1, <2>2, WithoutIs DEF SameSpots
<1>7. /\ stack \in Seq(SeatViews) /\ EachOnce(stack) /\ ToSet(stack) = ToSet(s.stack) \ {n}
      /\ \A x, y \in ToSet(stack) : SameSpots(s.stack, stack, x, y)
  <2>1. PICK q : q = s.stack
    OBVIOUS
  <2>2. q \in Seq(SeatViews) /\ EachOnce(q)
    BY <1>1, <2>1 DEF Sequenced, Seats
  <2> QED
    BY <1>4, <2>1, <2>2, WithoutIs DEF SameSpots
<1>8. /\ bars \in Seq(Bars) /\ EachOnce(bars) /\ ToSet(bars) = ToSet(s.bars) \ {n}
      /\ \A x, y \in ToSet(bars) : SameSpots(s.bars, bars, x, y)
  <2>1. PICK q : q = s.bars
    OBVIOUS
  <2>2. q \in Seq(Bars) /\ EachOnce(q)
    BY <1>1, <2>1 DEF Sequenced, Seats
  <2> QED
    BY <1>5, <2>1, <2>2, WithoutIs DEF SameSpots
<1>9. PICK newest \in Bars \cup {Nothing, "never"} : newest = IF s.newest = n THEN Nothing ELSE s.newest
  BY <1>1 DEF Seats
<1>10. PICK active \in SeatViews \cup Bars \cup {Nothing} : active = IF s.active = n THEN Nothing ELSE s.active
  BY <1>1 DEF Seats
<1>11. PICK toplevel \in SeatViews \cup {Nothing} : toplevel = IF s.toplevel = n THEN Nothing ELSE s.toplevel
  BY <1>1 DEF Seats
<1>12. PICK activated \in SUBSET SeatViews : activated = s.activated \ {n}
  BY <1>1 DEF Seats
<1>13. t = [s EXCEPT !.recent = recent, !.stack = stack, !.bars = bars, !.newest = newest,
                     !.active = active, !.toplevel = toplevel, !.activated = activated]
  BY <1>3, <1>4, <1>5, <1>9, <1>10, <1>11, <1>12 DEF Freed
<1>14. t \in Seats
  <2>1. /\ recent \in Seq(SeatViews \cup Bars) /\ stack \in Seq(SeatViews) /\ bars \in Seq(Bars)
        /\ newest \in Bars \cup {Nothing, "never"} /\ active \in SeatViews \cup Bars \cup {Nothing}
        /\ toplevel \in SeatViews \cup {Nothing} /\ activated \in SUBSET SeatViews /\ s \in Seats
    BY <1>1, <1>6, <1>7, <1>8
  <2>2. PICK u : u = [s EXCEPT !.recent = recent, !.stack = stack, !.bars = bars, !.newest = newest]
    OBVIOUS
  <2>3. u \in Seats
    BY <2>1, <2>2 DEF Seats
  <2>4. t = [u EXCEPT !.active = active, !.toplevel = toplevel, !.activated = activated]
    BY <1>13, <2>1, <2>2 DEF Seats
  <2> QED
    BY <2>1, <2>3, <2>4 DEF Seats
<1>15. /\ t.recent = recent /\ t.stack = stack /\ t.bars = bars /\ t.newest = newest
       /\ t.active = active /\ t.toplevel = toplevel /\ t.activated = activated
       /\ t.output = s.output /\ t.present = s.present /\ t.focus = s.focus /\ t.unseen = s.unseen
       /\ t.grab = s.grab /\ t.locked = s.locked /\ t.view = s.view /\ t.bar = s.bar
  BY <1>1, <1>13 DEF Seats
<1>16. Sequenced(t)
  BY <1>6, <1>7, <1>8, <1>14, <1>15 DEF Sequenced
<1>17. OneActive(t)
  <2>1. activated = {toplevel} \ {Nothing}
    <3>1. s.activated = {s.toplevel} \ {Nothing}
      BY <1>1 DEF OneActive
    <3> QED
      BY <1>2, <1>11, <1>12, <3>1
  <2>2. active \in SeatViews => toplevel = active
    <3>1. s.active \in SeatViews => s.toplevel = s.active
      BY <1>1 DEF OneActive
    <3>2. Nothing \notin SeatViews
      BY DEF SeatFocusAssumption
    <3> QED
      BY <1>10, <1>11, <3>1, <3>2
  <2> QED
    BY <1>15, <2>1, <2>2 DEF OneActive
<1>18. Stacked(t)
  BY <1>1, <1>7, <1>15 DEF Stacked, Gone
<1>19. ASSUME NEW m PROVE ImportanceOf(t, m) = ImportanceOf(s, m)
  <2>1. CASE m \notin Bars
    BY <1>15, <2>1 DEF ImportanceOf
  <2>2. CASE m \in Bars
    <3>1. m \notin SeatOutputs /\ m # Grab /\ m # Nothing
      BY <2>2 DEF SeatFocusAssumption
    <3>2. PICK bar \in BarStates : bar = s.bar[m] /\ bar = t.bar[m]
      BY <1>1, <1>15, <2>2 DEF Seats
    <3>3. PICK mapped \in BOOLEAN : mapped = bar.mapped
      BY DEF BarStates
    <3>4. mapped => (newest \in {m, "never"} <=> s.newest \in {m, "never"})
      BY <1>2, <1>9, <3>1, <3>2, <3>3, <2>2 DEF SeatFocusAssumption, Gone
    <3>5. PICK old, before : old = s.newest /\ before = s.focus
      OBVIOUS
    <3>6. PICK mode, here : mode = bar.mode /\ here = (bar.out = s.output)
      OBVIOUS
    <3>7. ImportanceOf(s, m) = IF ~mapped \/ mode = "none" THEN 0
                               ELSE IF mode = "exclusive" THEN 3
                               ELSE IF here /\ (before = m \/ old \in {m, "never"}) THEN 2 ELSE 0
      BY <2>2, <3>1, <3>2, <3>3, <3>5, <3>6 DEF ImportanceOf
    <3>8. ImportanceOf(t, m) = IF ~mapped \/ mode = "none" THEN 0
                               ELSE IF mode = "exclusive" THEN 3
                               ELSE IF here /\ (before = m \/ newest \in {m, "never"}) THEN 2 ELSE 0
      BY <1>15, <2>2, <3>1, <3>2, <3>3, <3>5, <3>6 DEF ImportanceOf
    <3> QED
      BY <3>4, <3>5, <3>7, <3>8
  <2> QED
    BY <2>1, <2>2
<1>20. ImportanceOf(s, n) = 0
  BY <1>2 DEF ImportanceOf, Gone
<1>21. InScene(t) \subseteq InScene(s) /\ \A m \in InScene(s) : m # n => m \in InScene(t)
  BY <1>7, <1>8, <1>15 DEF InScene
<1>22. \A m : (Blocks(t, m) <=> Blocks(s, m)) /\ Rank(t, m) = Rank(s, m)
  BY <1>15 DEF Blocks, Rank
<1>23. ASSUME NEW x \in InScene(t), NEW y \in InScene(t), Offers(t, x), Offers(t, y)
       PROVE  SameOrder(s, t, x, y)
  <2>1. x # n /\ y # n /\ x \in InScene(s) /\ y \in InScene(s)
    BY <1>19, <1>20, <1>21, <1>23 DEF Offers
  <2>2. ASSUME x \in Bars, y \in Bars PROVE SameSpots(s.bars, t.bars, x, y)
    <3>1. x \in ToSet(t.bars) /\ y \in ToSet(t.bars)
      BY <1>14, <1>23, <2>2 DEF InScene, Seats, ToSet, SeatFocusAssumption
    <3> QED
      BY <1>8, <1>15, <3>1
  <2>3. ASSUME x \in SeatViews, y \in SeatViews PROVE SameSpots(s.stack, t.stack, x, y)
    <3>1. x \in ToSet(t.stack) /\ y \in ToSet(t.stack)
      BY <1>14, <1>23, <2>3 DEF InScene, Seats, ToSet, SeatFocusAssumption
    <3> QED
      BY <1>7, <1>15, <3>1
  <2>4. Place(t, x) < Place(t, y) <=> Place(s, x) < Place(s, y)
    BY <1>1, <1>15, <1>16, <1>22, <1>23, <2>1, <2>2, <2>3, PlacesAgree
  <2>5. x \in ToSet(t.recent) /\ y \in ToSet(t.recent) => SameSpots(s.recent, t.recent, y, x)
    BY <1>6, <1>15
  <2>6. /\ x \in ToSet(t.recent) <=> x \in ToSet(s.recent)
        /\ y \in ToSet(t.recent) <=> y \in ToSet(s.recent)
    BY <1>6, <1>15, <2>1
  <2>7. s.recent \in Seq(SeatViews \cup Bars) /\ t.recent \in Seq(SeatViews \cup Bars)
    BY <1>1, <1>14 DEF Seats
  <2>8. StampOf(t, x) < StampOf(t, y) <=> StampOf(s, x) < StampOf(s, y)
    BY <2>5, <2>6, <2>7, TimesAgree
  <2> QED
    BY <2>4, <2>8 DEF SameOrder
<1>24. Best(t) = Best(s)
  <2>1. \A m \in InScene(t) : Offers(t, m) => Offers(s, m) /\ SameOffer(s, t, m)
    BY <1>19, <1>21, <1>22 DEF Offers, SameOffer
  <2>2. \A m \in InScene(s) : Offers(s, m) => Offers(t, m)
    BY <1>19, <1>20, <1>21 DEF Offers
  <2>3. OffersLess(s, t, Best(s))
    BY <1>23, <2>1, <2>2 DEF OffersLess
  <2> QED
    BY <1>1, <1>16, <2>3, BestStays
<1> QED
  BY <1>8, <1>15, <1>16, <1>17, <1>18, <1>24 DEF WellFormed, AfterFreed

(* A layer surface is not in the scene before it is mapped.                *)
BarsMapped(s) == \A b \in ToSet(s.bars) : s.bar[b].mapped
WithBar(s, b, y) == [s EXCEPT !.bar[b] = y]

(* A layer surface changes.                                                *)
LEMMA BarChanged ==
  ASSUME NEW s, WellFormed(s), NEW b \in Bars, NEW y \in BarStates, NEW t, t = WithBar(s, b, y)
  PROVE  /\ WellFormed(t) /\ t.bar = [s.bar EXCEPT ![b] = y] /\ SameTimes(s, t)
         /\ t.output = s.output /\ t.present = s.present /\ t.focus = s.focus /\ t.unseen = s.unseen
         /\ t.grab = s.grab /\ t.locked = s.locked /\ t.view = s.view /\ t.bars = s.bars /\ t.stack = s.stack
<1>1. s \in Seats /\ OneActive(s) /\ Sequenced(s) /\ Stacked(s)
  BY DEF WellFormed, Sequenced
<1>2. PICK f \in [Bars -> BarStates] : f = [s.bar EXCEPT ![b] = y]
  BY <1>1 DEF Seats
<1>3. t = [s EXCEPT !.bar = f]
  BY <1>2 DEF WithBar
<1>4. t \in Seats
  BY <1>1, <1>3 DEF Seats
<1>5. /\ t.bar = f /\ SameTimes(s, t)
      /\ t.output = s.output /\ t.present = s.present /\ t.focus = s.focus /\ t.unseen = s.unseen
      /\ t.grab = s.grab /\ t.locked = s.locked /\ t.view = s.view /\ t.bars = s.bars /\ t.stack = s.stack
      /\ t.active = s.active /\ t.toplevel = s.toplevel /\ t.activated = s.activated
  BY <1>1, <1>3 DEF Seats, SameTimes
<1>6. Sequenced(t) /\ OneActive(t) /\ Stacked(t)
  BY <1>1, <1>4, <1>5 DEF Sequenced, OneActive, Stacked, SameTimes
<1> QED
  BY <1>2, <1>5, <1>6 DEF WellFormed

(* A layer surface that is unmapped.                                       *)
LEMMA UnmappedRight ==
  ASSUME SeatFocusAssumption, NEW s, WellFormed(s), BarsMapped(s), NEW b \in Bars, NEW t, t = Unmapped(s, b)
  PROVE  WellFormed(t) /\ BarsMapped(t) /\ t.focus = Best(t) /\ t.output = s.output /\ t.view = s.view
<1>1. NoBar \in BarStates /\ NoBar.mapped = FALSE
  BY DEF NoBar, BarStates
<1>2. PICK a : a = WithBar(s, b, NoBar)
  OBVIOUS
<1>3. /\ WellFormed(a) /\ a.bar = [s.bar EXCEPT ![b] = NoBar] /\ a.bars = s.bars
      /\ a.output = s.output /\ a.view = s.view
  BY <1>1, <1>2, BarChanged
<1>4. PICK r : r = refocus(a)
  OBVIOUS
<1>5. WellFormed(r) /\ SameWorld(a, r) /\ r.focus = Best(r)
  BY <1>3, <1>4, RefocusRight
<1>6. t = Freed(r, b)
  BY <1>2, <1>4 DEF Unmapped, WithBar
<1>7. s.bar \in [Bars -> BarStates]
  BY DEF WellFormed, Sequenced, Seats
<1>8. ~r.bar[b].mapped /\ r.bars = s.bars /\ r.bar = [s.bar EXCEPT ![b] = NoBar]
  BY <1>1, <1>3, <1>5, <1>7 DEF SameWorld
<1>9. b \notin SeatViews
  BY DEF SeatFocusAssumption
<1>10. /\ WellFormed(t) /\ Best(t) = Best(r) /\ t.focus = r.focus /\ t.bar = r.bar /\ t.view = r.view
       /\ t.output = r.output /\ ToSet(t.bars) = ToSet(r.bars) \ {b}
  <2>1. b \in SeatViews \cup Bars /\ (b \in SeatViews => ~r.view[b].mapped) /\ (b \in Bars => ~r.bar[b].mapped)
    BY <1>8, <1>9
  <2>2. WellFormed(r)
    BY <1>5
  <2>3. Gone(r, b)
    BY <2>1 DEF Gone
  <2>4. AfterFreed(r, t, b)
    BY <1>6, <2>2, <2>3, FreedRight
  <2> QED
    BY <2>4 DEF AfterFreed
<1>11. BarsMapped(t)
  BY <1>7, <1>8, <1>10 DEF BarsMapped
<1> QED
  BY <1>3, <1>5, <1>10, <1>11 DEF SameWorld

(* SetToSeq() of a finite set is a sequence.                               *)
LEMMA SetToSeqIs ==
  ASSUME NEW S, IsFiniteSet(S)
  PROVE  SetToSeq(S) \in Seq(S)
<1>1. Cardinality(S) \in Nat /\ ExistsBijection(1..Cardinality(S), S)
  BY FS_CardinalityType
<1>2. \E f \in [1..Cardinality(S) -> S] : IsInjective(f)
  BY <1>1, Zenon DEF ExistsBijection, Bijection, Injection
<1>3. SetToSeq(S) \in [1..Cardinality(S) -> S]
  BY <1>2, Zenon DEF SetToSeq
<1> QED
  BY <1>1, <1>3

(* Nothing refers to the node of a lock screen.                            *)
LEMMA FreedOutput ==
  ASSUME SeatFocusAssumption, NEW s, s \in Seats, NEW o \in SeatOutputs, NEW t, t = Freed(s, o)
  PROVE  t = s
<1>1. /\ Without(s.recent, o) = s.recent /\ Without(s.stack, o) = s.stack /\ Without(s.bars, o) = s.bars
  <2>1. o \notin ToSet(s.recent)
    BY DEF Seats, ToSet, SeatFocusAssumption
  <2>2. o \notin ToSet(s.stack)
    BY DEF Seats, ToSet, SeatFocusAssumption
  <2>3. o \notin ToSet(s.bars)
    BY DEF Seats, ToSet, SeatFocusAssumption
  <2> QED
    BY <2>1, <2>2, <2>3 DEF Without
<1>2. s.newest # o /\ s.active # o /\ s.toplevel # o /\ s.activated \ {o} = s.activated
  BY DEF Seats, SeatFocusAssumption
<1>3. t = [s EXCEPT !.recent = s.recent, !.stack = s.stack, !.bars = s.bars, !.newest = s.newest,
                    !.active = s.active, !.toplevel = s.toplevel, !.activated = s.activated]
  BY <1>1, <1>2 DEF Freed
<1> QED
  BY <1>3 DEF Seats

(* The loop of an unlock frees nodes that nothing refers to.               *)
LEMMA UnlockLoop ==
  ASSUME SeatFocusAssumption, NEW s, s \in Seats
  PROVE  Folded(Freed, s, SetToSeq(s.locked)) = s
<1> DEFINE Loop(g, q) == g = [i \in 0..Len(q) |-> IF i = 0 THEN s ELSE Freed(g[i - 1], q[i])]
<1>1. PICK q : q = SetToSeq(s.locked)
  OBVIOUS
<1>2. q \in Seq(s.locked)
  <2>1. IsFiniteSet(s.locked)
    <3>1. IsFiniteSet(SeatOutputs) /\ s.locked \in SUBSET SeatOutputs
      BY DEF Seats, SeatFocusAssumption
    <3> QED
      BY <3>1, FS_Subset
  <2> QED
    BY <1>1, <2>1, SetToSeqIs
<1>3. PICK n \in Nat : n = Len(q)
  BY <1>2
<1>4. \A i \in 1..n : q[i] \in SeatOutputs
  BY <1>2, <1>3 DEF Seats
<1>5. PICK h : h = [i \in 0..n |-> s]
  OBVIOUS
<1>6. Loop(h, q)
  <2>1. PICK k : k = [i \in 0..n |-> IF i = 0 THEN s ELSE Freed(h[i - 1], q[i])]
    OBVIOUS
  <2>2. ASSUME NEW i \in 0..n PROVE k[i] = h[i]
    <3>1. CASE i = 0
      BY <1>5, <2>1, <3>1
    <3>2. CASE i # 0
      <4>1. i \in 1..n /\ i - 1 \in 0..n
        BY <3>2
      <4>2. k[i] = Freed(s, q[i])
        BY <1>5, <2>1, <3>2, <4>1
      <4>3. Freed(s, q[i]) = s
        BY <1>4, <4>1, FreedOutput
      <4> QED
        BY <1>5, <4>2, <4>3
    <3> QED
      BY <3>1, <3>2
  <2>3. h = k
    BY <1>5, <2>1, <2>2
  <2> QED
    BY <1>3, <2>1, <2>3
<1>7. PICK g : Loop(g, q) /\ g = CHOOSE x : Loop(x, q)
  BY <1>6
<1>8. Folded(Freed, s, SetToSeq(s.locked)) = g[Len(q)]
  <2>1. g = CHOOSE x : Loop(x, q)
    BY <1>7
  <2> QED
    BY <1>1, <2>1, Zenon DEF Folded
<1>9. g[0] = s /\ \A i \in 1..n : g[i] = Freed(g[i - 1], q[i])
  BY <1>3, <1>7
<1>10. PICK t : t = [i \in 0..n |-> {s}]
  OBVIOUS
<1>11. \A i \in 0..n : t[i] = {s}
  BY <1>10
<1>12. \A i \in 1..n : g[i - 1] \in t[i - 1] => g[i] \in t[i]
  <2>1. SUFFICES ASSUME NEW i \in 1..n, g[i - 1] \in t[i - 1] PROVE g[i] \in t[i]
    OBVIOUS
  <2>2. i - 1 \in 0..n /\ i \in 0..n
    BY <1>3
  <2>3. g[i - 1] = s
    BY <1>11, <2>1, <2>2
  <2>4. Freed(s, q[i]) = s
    BY <1>4, FreedOutput
  <2> QED
    BY <1>9, <1>11, <2>2, <2>3, <2>4
<1>13. g[0] \in t[0]
  BY <1>9, <1>11
<1>14. \A i \in 0..n : g[i] \in t[i]
  BY <1>12, <1>13, LoopKeeps
<1> QED
  BY <1>3, <1>8, <1>11, <1>14

(* The loops of transfer_views(): the views.                               *)
FollowedUpTo(s, o, q, i, t) ==
  /\ WellFormed(t) /\ FocusHeld(t) /\ SameBars(s, t) /\ t.output = s.output
  /\ \A u \in SeatViews : t.view[u].out = o => t.view[u] = s.view[u] /\ \A j \in 1..i : q[j] # u

(* One round of the loop.                                                  *)
LEMMA FollowedOne ==
  ASSUME SeatFocusAssumption, NEW s, NEW o, o # s.output, s.output \in SeatOutputs,
         NEW q \in Seq(SeatViews), NEW i \in 1..Len(q), NEW r, FollowedUpTo(s, o, q, i - 1, r),
         NEW t, t = IF s.view[q[i]].out = o THEN move_view_to_output(r, q[i], s.output) ELSE r
  PROVE  FollowedUpTo(s, o, q, i, t)
<1>1. PICK v \in SeatViews : v = q[i]
  OBVIOUS
<1>2. \A j \in 1..i : j \in 1..(i - 1) \/ j = i
  OBVIOUS
<1>3. CASE s.view[v].out = o
  <2>1. t = move_view_to_output(r, v, s.output)
    BY <1>1, <1>3
  <2>2. WellFormed(r) /\ SameBars(s, r) /\ r.output = s.output
    BY DEF FollowedUpTo
  <2>3. PICK p \in SeatOutputs : p = s.output
    OBVIOUS
  <2>4. /\ WellFormed(t) /\ FocusHeld(t) /\ SameBars(r, t) /\ t.output = r.output
        /\ t.view[v].out = p /\ \A u \in SeatViews : u # v => t.view[u] = r.view[u]
    BY <2>1, <2>2, <2>3, MoveRight
  <2>5. ASSUME NEW u \in SeatViews, t.view[u].out = o
        PROVE  t.view[u] = s.view[u] /\ \A j \in 1..i : q[j] # u
    <3>1. u # v
      BY <2>3, <2>4, <2>5
    <3>2. t.view[u] = r.view[u]
      BY <2>4, <3>1
    <3>3. r.view[u] = s.view[u] /\ \A j \in 1..(i - 1) : q[j] # u
      BY <2>5, <3>2 DEF FollowedUpTo
    <3> QED
      BY <1>1, <1>2, <3>1, <3>2, <3>3
  <2> QED
    BY <2>2, <2>4, <2>5 DEF FollowedUpTo, SameBars
<1>4. CASE s.view[v].out # o
  <2>1. t = r
    BY <1>1, <1>4
  <2>2. ASSUME NEW u \in SeatViews, t.view[u].out = o
        PROVE  t.view[u] = s.view[u] /\ \A j \in 1..i : q[j] # u
    <3>1. r.view[u] = s.view[u] /\ \A j \in 1..(i - 1) : q[j] # u
      BY <2>1, <2>2 DEF FollowedUpTo
    <3>2. u # v
      BY <1>4, <2>1, <2>2, <3>1
    <3> QED
      BY <1>1, <1>2, <2>1, <3>1, <3>2
  <2> QED
    BY <2>1, <2>2 DEF FollowedUpTo
<1> QED
  BY <1>3, <1>4

(* After the loop no view that is mapped is on the output.                 *)
LEMMA FollowedRight ==
  ASSUME SeatFocusAssumption, NEW s, WellFormed(s), FocusHeld(s), NEW o, o # s.output, NEW t, t = Followed(s, o)
  PROVE  /\ WellFormed(t) /\ FocusHeld(t) /\ SameBars(s, t) /\ t.output = s.output
         /\ \A u \in SeatViews : t.view[u].out = o => ~t.view[u].mapped
<1> DEFINE Onward(r, v) == IF s.view[v].out = o THEN move_view_to_output(r, v, s.output) ELSE r
           Loop(g, q) == g = [i \in 0..Len(q) |-> IF i = 0 THEN s ELSE Onward(g[i - 1], q[i])]
<1>1. s \in Seats /\ Stacked(s) /\ s.output \in SeatOutputs
  BY DEF WellFormed, Sequenced, Seats
<1>2. PICK q \in Seq(SeatViews) : q = s.stack
  BY <1>1 DEF Seats
<1>3. PICK n \in Nat : n = Len(q)
  OBVIOUS
<1>4. PICK T : T = [i \in 0..n |-> {r \in Seats : FollowedUpTo(s, o, q, i, r)}]
  OBVIOUS
<1>5. \A i \in 0..n : T[i] = {r \in Seats : FollowedUpTo(s, o, q, i, r)}
  BY <1>4
<1>6. s \in T[0]
  <2>1. FollowedUpTo(s, o, q, 0, s)
    BY DEF FollowedUpTo, SameBars
  <2> QED
    BY <1>1, <1>5, <2>1
<1>7. ASSUME NEW i \in 1..n, NEW r \in T[i - 1] PROVE Onward(r, q[i]) \in T[i]
  <2>1. i - 1 \in 0..n /\ i \in 0..n /\ i \in 1..Len(q)
    BY <1>3
  <2>2. FollowedUpTo(s, o, q, i - 1, r)
    BY <1>5, <1>7, <2>1
  <2>3. PICK u : u = Onward(r, q[i])
    OBVIOUS
  <2>4. FollowedUpTo(s, o, q, i, u)
    BY <1>1, <2>1, <2>2, <2>3, FollowedOne
  <2>5. u \in Seats
    BY <2>4 DEF FollowedUpTo, WellFormed, Sequenced
  <2> QED
    BY <1>5, <2>1, <2>3, <2>4, <2>5
<1> HIDE DEF Onward
<1>8. \A i \in 0..n : T[i] \subseteq Seats
  BY <1>5
<1>9. PICK step : step = [p \in Seats \X (1..n) |-> Onward(p[1], q[p[2]])]
  OBVIOUS
<1>10. \A r \in Seats : \A i \in 1..n : step[<<r, i>>] = Onward(r, q[i])
  BY <1>9
<1>11. PICK h : Rounds(h, s, step, n)
  BY RoundsExist
<1>12. h[0] = s /\ \A i \in 1..n : h[i] = step[<<h[i - 1], i>>]
  BY <1>11 DEF Rounds
<1>13. \A i \in 0..n : h[i] \in T[i]
  <2>1. h[0] \in T[0]
    BY <1>6, <1>12
  <2>2. ASSUME NEW i \in 1..n, h[i - 1] \in T[i - 1] PROVE h[i] \in T[i]
    <3>1. h[i - 1] \in Seats
      <4>1. i - 1 \in 0..n
        OBVIOUS
      <4> QED
        BY <1>8, <2>2, <4>1
    <3>2. h[i] = Onward(h[i - 1], q[i])
      BY <1>10, <1>12, <3>1
    <3> QED
      BY <1>7, <2>2, <3>2
  <2> QED
    BY <2>1, <2>2, LoopKeeps
<1>14. Loop(h, q)
  <2>1. PICK k : k = [i \in 0..n |-> IF i = 0 THEN s ELSE Onward(h[i - 1], q[i])]
    OBVIOUS
  <2>2. ASSUME NEW i \in 0..n PROVE k[i] = h[i]
    <3>1. CASE i = 0
      BY <1>12, <2>1, <3>1
    <3>2. CASE i # 0
      <4>1. i \in 1..n /\ i - 1 \in 0..n
        BY <3>2
      <4>2. h[i - 1] \in Seats
        BY <1>8, <1>13, <4>1
      <4> QED
        BY <1>10, <1>12, <2>1, <3>2, <4>1, <4>2
    <3> QED
      BY <3>1, <3>2
  <2>3. h = [i \in 0..n |-> IF i = 0 THEN s ELSE step[<<h[i - 1], i>>]]
    BY <1>11 DEF Rounds
  <2>4. h = k
    BY <2>1, <2>2, <2>3
  <2> QED
    BY <1>3, <2>1, <2>4
<1>15. PICK g : Loop(g, q) /\ g = CHOOSE x : Loop(x, q)
  BY <1>14
<1>16. t = g[Len(q)]
  <2>1. g = CHOOSE x : Loop(x, q)
    BY <1>15
  <2> QED
    BY <1>2, <2>1, Zenon DEF Followed, Folded, Onward
<1>17. g[0] = s /\ \A i \in 1..n : g[i] = Onward(g[i - 1], q[i])
  BY <1>3, <1>15
<1>18. \A i \in 0..n : g[i] \in T[i]
  <2>1. g[0] \in T[0]
    BY <1>6, <1>17
  <2>2. ASSUME NEW i \in 1..n, g[i - 1] \in T[i - 1] PROVE g[i] \in T[i]
    BY <1>7, <1>17, <2>2
  <2> QED
    BY <2>1, <2>2, LoopKeeps
<1>19. FollowedUpTo(s, o, q, n, t)
  BY <1>3, <1>5, <1>16, <1>18
<1>20. ASSUME NEW u \in SeatViews, t.view[u].out = o, t.view[u].mapped PROVE FALSE
  <2>1. t.view[u] = s.view[u] /\ \A j \in 1..n : q[j] # u
    BY <1>19, <1>20 DEF FollowedUpTo
  <2>2. u \in ToSet(q)
    BY <1>1, <1>2, <1>20, <2>1 DEF Stacked
  <2>3. DOMAIN q = 1..n
    BY <1>3
  <2> QED
    BY <2>1, <2>2, <2>3 DEF ToSet
<1> QED
  BY <1>19, <1>20 DEF FollowedUpTo

(* Views that change while they are not mapped.                            *)
LEMMA HiddenChanged ==
  ASSUME SeatFocusAssumption, NEW s, WellFormed(s), FocusHeld(s), NEW f \in [SeatViews -> ViewStates],
         \A v \in SeatViews : f[v].mapped = s.view[v].mapped /\ (f[v].mapped => f[v] = s.view[v]),
         NEW t, t = WithViews(s, f)
  PROVE  WellFormed(t) /\ FocusHeld(t) /\ SameBars(s, t) /\ t.output = s.output
<1>1. s \in Seats /\ OneActive(s) /\ Sequenced(s) /\ Stacked(s)
  BY DEF WellFormed, Sequenced
<1>2. /\ WellFormed(t) /\ SamePlaces(s, t) /\ SameTimes(s, t) /\ t.view = f /\ t.locked = s.locked
      /\ t.grab = s.grab /\ t.focus = s.focus /\ t.unseen = s.unseen
  <2>1. \A v \in SeatViews : f[v].mapped => f[v].out # Nothing /\ v \in ToSet(s.stack)
    BY <1>1 DEF Stacked
  <2> QED
    BY <1>1, <2>1, ViewsChanged
<1>3. SameAsks(s, t)
  BY <1>2 DEF SameAsks, SamePlaces, SameBars
<1>4. ASSUME NEW n \in InScene(s) PROVE ImportanceOf(t, n) = ImportanceOf(s, n)
  <2>1. CASE n \notin SeatViews
    BY <1>3, <2>1, OthersAsk
  <2>2. CASE n \in SeatViews
    <3>1. t.output = s.output /\ t.view[n].mapped = s.view[n].mapped /\ (s.view[n].mapped => t.view[n] = s.view[n])
      BY <1>2, <1>3, <2>2 DEF SameAsks
    <3> QED
      BY <2>2, <3>1, ViewAsks
  <2> QED
    BY <2>1, <2>2
<1>5. Best(t) = Best(s)
  <2>1. Sequenced(t)
    BY <1>2 DEF WellFormed
  <2> QED
    BY <1>1, <1>2, <1>4, <2>1, BestSame
<1>6. FocusHeld(t)
  <2>1. LockFocused(s) /\ FocusThere(s) /\ (s.unseen \/ s.focus = Best(s))
    BY DEF FocusHeld
  <2>2. LockFocused(t)
    BY <1>3, <2>1 DEF LockFocused, SameAsks
  <2>3. FocusThere(t)
    BY <1>2, <1>3, <2>1 DEF FocusThere, SameAsks
  <2> QED
    BY <1>2, <1>5, <2>1, <2>2, <2>3 DEF FocusHeld
<1> QED
  BY <1>2, <1>6 DEF SamePlaces

(* And so are those that are not mapped on the output that is removed.     *)
LEMMA ReassignedRight ==
  ASSUME SeatFocusAssumption, NEW s, WellFormed(s), FocusHeld(s), NEW o,
         \A u \in SeatViews : s.view[u].out = o => ~s.view[u].mapped, NEW t, t = Reassigned(s, o)
  PROVE  WellFormed(t) /\ FocusHeld(t) /\ SameBars(s, t) /\ t.output = s.output
<1>1. s \in Seats
  BY DEF WellFormed, Sequenced
<1>2. PICK f : f = [v \in SeatViews |-> IF s.view[v].out = o THEN [s.view[v] EXCEPT !.out = s.output]
                                        ELSE s.view[v]]
  OBVIOUS
<1>3. ASSUME NEW v \in SeatViews
      PROVE  f[v] \in ViewStates /\ f[v].mapped = s.view[v].mapped /\ (f[v].mapped => f[v] = s.view[v])
  <2>1. PICK x \in ViewStates : x = s.view[v]
    BY <1>1 DEF Seats
  <2>2. PICK p \in SeatOutputs : p = s.output
    BY <1>1 DEF Seats
  <2>3. (f[v] = x /\ x.out # o) \/ (f[v] = [x EXCEPT !.out = p] /\ x.out = o)
    BY <1>2, <2>1, <2>2
  <2>4. x.out = o => ~x.mapped
    BY <2>1
  <2> QED
    BY <2>1, <2>3, <2>4 DEF ViewStates
<1>4. f \in [SeatViews -> ViewStates]
  BY <1>2, <1>3
<1>5. t = WithViews(s, f)
  BY <1>2 DEF Reassigned, WithViews
<1> QED
  BY <1>3, <1>4, <1>5, HiddenChanged

(* What holds between two events: what is in the scene is mapped, and the  *)
(* focus is right.                                                         *)
SeatRight(s) == WellFormed(s) /\ BarsMapped(s) /\ FocusHeld(s)

(* A handler that has refocused.                                           *)
LEMMA RightOnceFocused ==
  ASSUME SeatFocusAssumption, NEW s, WellFormed(s), BarsMapped(s), s.focus = Best(s)
  PROVE  SeatRight(s)
BY CurrentIsRight DEF SeatRight, WellFormed

(* A handler that leaves the layer surfaces alone.                         *)
LEMMA BarsStay ==
  ASSUME NEW s, BarsMapped(s), NEW t, SameBars(s, t)
  PROVE  BarsMapped(t)
BY DEF BarsMapped, SameBars

(* The loops of transfer_views(): the layer surfaces.                      *)
LEMMA BarsClosed ==
  ASSUME SeatFocusAssumption, NEW s, SeatRight(s), NEW S \in SUBSET Bars,
         NEW t, t = Folded(Unmapped, s, SetToSeq(S))
  PROVE  SeatRight(t) /\ t.output = s.output
<1> DEFINE Loop(g, q) == g = [i \in 0..Len(q) |-> IF i = 0 THEN s ELSE Unmapped(g[i - 1], q[i])]
           Rights == {r \in Seats : SeatRight(r) /\ r.output = s.output}
<1>1. PICK q : q = SetToSeq(S)
  OBVIOUS
<1>2. q \in Seq(Bars)
  <2>1. IsFiniteSet(S)
    BY FS_Subset DEF SeatFocusAssumption
  <2>2. q \in Seq(S)
    BY <1>1, <2>1, SetToSeqIs
  <2> QED
    BY <2>2
<1>3. PICK n \in Nat : n = Len(q)
  BY <1>2
<1>4. \A i \in 1..n : q[i] \in Bars
  BY <1>2, <1>3
<1>5. PICK R : R = Rights
  OBVIOUS
<1>6. \A r : r \in R <=> r \in Seats /\ SeatRight(r) /\ r.output = s.output
  BY <1>5
<1>7. s \in R
  BY <1>6 DEF SeatRight, WellFormed, Sequenced
<1>8. ASSUME NEW r \in R, NEW b \in Bars PROVE Unmapped(r, b) \in R
  <2>1. PICK u : u = Unmapped(r, b)
    OBVIOUS
  <2>2. WellFormed(r) /\ BarsMapped(r) /\ r.output = s.output
    BY <1>6, <1>8 DEF SeatRight
  <2>3. WellFormed(u) /\ BarsMapped(u) /\ u.focus = Best(u) /\ u.output = r.output
    BY <2>1, <2>2, UnmappedRight
  <2>4. SeatRight(u) /\ u \in Seats
    BY <2>3, RightOnceFocused DEF WellFormed, Sequenced
  <2> QED
    BY <1>6, <2>1, <2>2, <2>3, <2>4
<1> HIDE DEF Rights
<1>9. PICK step : step = [p \in R \X (1..n) |-> Unmapped(p[1], q[p[2]])]
  OBVIOUS
<1>10. \A r \in R : \A i \in 1..n : step[<<r, i>>] = Unmapped(r, q[i])
  BY <1>9
<1>11. PICK h : Rounds(h, s, step, n)
  BY RoundsExist
<1>12. h[0] = s /\ \A i \in 1..n : h[i] = step[<<h[i - 1], i>>]
  BY <1>11 DEF Rounds
<1>13. PICK T : T = [i \in 0..n |-> R]
  OBVIOUS
<1>14. \A i \in 0..n : T[i] = R
  BY <1>13
<1>15. \A i \in 1..n : i - 1 \in 0..n /\ i \in 0..n
  BY <1>3
<1>16. \A i \in 0..n : h[i] \in T[i]
  <2>1. h[0] \in T[0]
    BY <1>7, <1>12, <1>14
  <2>2. ASSUME NEW i \in 1..n, h[i - 1] \in T[i - 1] PROVE h[i] \in T[i]
    <3>1. h[i - 1] \in R
      BY <1>14, <1>15, <2>2
    <3>2. h[i] = Unmapped(h[i - 1], q[i])
      BY <1>10, <1>12, <3>1
    <3>3. h[i] \in R
      BY <1>4, <1>8, <3>1, <3>2
    <3> QED
      BY <1>14, <1>15, <3>3
  <2> QED
    BY <2>1, <2>2, LoopKeeps
<1>17. Loop(h, q)
  <2>1. PICK k : k = [i \in 0..n |-> IF i = 0 THEN s ELSE Unmapped(h[i - 1], q[i])]
    OBVIOUS
  <2>2. ASSUME NEW i \in 0..n PROVE k[i] = h[i]
    <3>1. CASE i = 0
      BY <1>12, <2>1, <3>1
    <3>2. CASE i # 0
      <4>1. i \in 1..n /\ i - 1 \in 0..n
        BY <3>2
      <4>2. h[i - 1] \in R
        BY <1>14, <1>16, <4>1
      <4> QED
        BY <1>10, <1>12, <2>1, <3>2, <4>1, <4>2
    <3> QED
      BY <3>1, <3>2
  <2>3. h = [i \in 0..n |-> IF i = 0 THEN s ELSE step[<<h[i - 1], i>>]]
    BY <1>11 DEF Rounds
  <2>4. h = k
    BY <2>1, <2>2, <2>3
  <2> QED
    BY <1>3, <2>1, <2>4
<1>18. PICK g : Loop(g, q) /\ g = CHOOSE x : Loop(x, q)
  BY <1>17
<1>19. t = g[Len(q)]
  <2>1. g = CHOOSE x : Loop(x, q)
    BY <1>18
  <2> QED
    BY <1>1, <2>1, Zenon DEF Folded
<1>20. g[0] = s /\ \A i \in 1..n : g[i] = Unmapped(g[i - 1], q[i])
  BY <1>3, <1>18
<1>21. \A i \in 0..n : g[i] \in T[i]
  <2>1. g[0] \in T[0]
    BY <1>7, <1>14, <1>20
  <2>2. ASSUME NEW i \in 1..n, g[i - 1] \in T[i - 1] PROVE g[i] \in T[i]
    <3>1. g[i - 1] \in R
      BY <1>14, <1>15, <2>2
    <3>2. g[i] \in R
      BY <1>4, <1>8, <1>20, <3>1
    <3> QED
      BY <1>14, <1>15, <3>2
  <2> QED
    BY <2>1, <2>2, LoopKeeps
<1>22. t \in R
  BY <1>3, <1>14, <1>19, <1>21
<1> QED
  BY <1>6, <1>22

(* transfer_views() of an output that is not focused.                      *)
LEMMA TransferRight ==
  ASSUME SeatFocusAssumption, NEW s, SeatRight(s), NEW o, o # s.output, NEW t, t = transfer_views(s, o)
  PROVE  SeatRight(t) /\ t.output = s.output
<1>1. PICK a : a = Followed(s, o)
  OBVIOUS
<1>2. /\ WellFormed(a) /\ FocusHeld(a) /\ SameBars(s, a) /\ a.output = s.output
      /\ \A u \in SeatViews : a.view[u].out = o => ~a.view[u].mapped
  <2>1. WellFormed(s) /\ FocusHeld(s)
    BY DEF SeatRight
  <2> QED
    BY <1>1, <2>1, FollowedRight
<1>3. PICK b : b = Reassigned(a, o)
  OBVIOUS
<1>4. WellFormed(b) /\ FocusHeld(b) /\ SameBars(a, b) /\ b.output = a.output
  BY <1>2, <1>3, ReassignedRight
<1>5. SeatRight(b)
  BY <1>2, <1>4, BarsStay DEF SeatRight
<1>6. PICK S \in SUBSET Bars : S = {x \in Bars : s.bar[x].out = o}
  OBVIOUS
<1>7. t = Folded(Unmapped, b, SetToSeq(S))
  BY <1>1, <1>3, <1>6, Zenon DEF transfer_views
<1>8. SeatRight(t) /\ t.output = b.output
  BY <1>5, <1>7, BarsClosed
<1> QED
  BY <1>2, <1>4, <1>8

(* Other fields that no node asks about, and outputs that are not focused. *)
OtherFields(s, t) ==
  /\ t.output = s.output /\ t.stack = s.stack /\ t.bars = s.bars /\ t.recent = s.recent
  /\ t.newest = s.newest /\ t.active = s.active /\ t.toplevel = s.toplevel /\ t.activated = s.activated
  /\ t.view = s.view /\ t.bar = s.bar

(* Nothing else is disturbed by them.                                      *)
LEMMA OthersStay ==
  ASSUME NEW s, WellFormed(s), NEW t, t \in Seats, OtherFields(s, t)
  PROVE  WellFormed(t) /\ SamePlaces(s, t) /\ SameTimes(s, t) /\ (BarsMapped(s) => BarsMapped(t))
BY DEF WellFormed, Sequenced, OneActive, Stacked, OtherFields, SamePlaces, SameBars, SameTimes, BarsMapped

(* The lock screen of an output that is not focused ends.                  *)
LEMMA LockEndsRight ==
  ASSUME SeatFocusAssumption, NEW s, SeatRight(s), NEW o \in SeatOutputs, o # s.output,
         NEW t, t = LockScreenEnds(s, o)
  PROVE  SeatRight(t)
<1>1. CASE o \notin s.locked
  BY <1>1 DEF LockScreenEnds
<1>2. CASE o \in s.locked
  <2>1. s \in Seats /\ WellFormed(s) /\ BarsMapped(s) /\ FocusHeld(s) /\ Sequenced(s)
    BY DEF SeatRight, WellFormed, Sequenced
  <2>2. PICK locked \in SUBSET SeatOutputs : locked = s.locked \ {o}
    BY <2>1 DEF Seats
  <2>3. PICK u : u = [s EXCEPT !.locked = locked]
    OBVIOUS
  <2>4. u \in Seats
    BY <2>1, <2>3 DEF Seats
  <2>5. t = u
    <3>1. t = Freed(u, o)
      BY <1>2, <2>2, <2>3 DEF LockScreenEnds
    <3> QED
      BY <2>4, <3>1, FreedOutput
  <2>6. /\ OtherFields(s, t) /\ t.locked = locked /\ t.grab = s.grab /\ t.focus = s.focus /\ t.unseen = s.unseen
        /\ t.output = s.output /\ t.view = s.view /\ t.bar = s.bar
    BY <2>1, <2>3, <2>5 DEF Seats, OtherFields
  <2>7. WellFormed(t) /\ SamePlaces(s, t) /\ SameTimes(s, t) /\ BarsMapped(t)
    BY <2>1, <2>4, <2>5, <2>6, OthersStay
  <2>8. ASSUME NEW n PROVE ImportanceOf(t, n) = ImportanceOf(s, n)
    <3>1. CASE n \in SeatOutputs
      <4>1. n \in locked /\ n = s.output <=> n \in s.locked /\ n = s.output
        BY <2>2
      <4> QED
        BY <2>6, <3>1, <4>1 DEF ImportanceOf
    <3>2. CASE n \notin SeatOutputs
      BY <2>6, <2>7, <3>2 DEF ImportanceOf, SameTimes
    <3> QED
      BY <3>1, <3>2
  <2>9. Best(t) = Best(s)
    <3>1. Sequenced(t)
      BY <2>7 DEF WellFormed
    <3> QED
      BY <2>1, <2>7, <2>8, <3>1, BestSame
  <2>10. FocusHeld(t)
    <3>1. LockFocused(t)
      BY <2>1, <2>2, <2>6 DEF LockFocused, FocusHeld
    <3>2. FocusThere(t)
      BY <2>1, <2>2, <2>6 DEF FocusThere, FocusHeld
    <3> QED
      BY <2>1, <2>6, <2>9, <3>1, <3>2 DEF FocusHeld
  <2> QED
    BY <2>7, <2>10 DEF SeatRight
<1> QED
  BY <1>1, <1>2

(* Outputs come and go.                                                    *)
LEMMA PresentRight ==
  ASSUME SeatFocusAssumption, NEW s, SeatRight(s), NEW p \in SUBSET SeatOutputs,
         NEW t, t = [s EXCEPT !.present = p]
  PROVE  SeatRight(t)
<1>1. s \in Seats /\ WellFormed(s) /\ BarsMapped(s) /\ FocusHeld(s) /\ Sequenced(s)
  BY DEF SeatRight, WellFormed, Sequenced
<1>2. t \in Seats
  BY <1>1 DEF Seats
<1>3. /\ OtherFields(s, t) /\ t.locked = s.locked /\ t.grab = s.grab /\ t.focus = s.focus /\ t.unseen = s.unseen
      /\ t.output = s.output /\ t.view = s.view /\ t.bar = s.bar
  BY <1>1 DEF Seats, OtherFields
<1>4. WellFormed(t) /\ SamePlaces(s, t) /\ SameTimes(s, t) /\ BarsMapped(t)
  BY <1>1, <1>2, <1>3, OthersStay
<1>5. \A n : ImportanceOf(t, n) = ImportanceOf(s, n)
  BY <1>3, <1>4 DEF ImportanceOf, SameTimes
<1>6. Best(t) = Best(s)
  <2>1. Sequenced(t)
    BY <1>4 DEF WellFormed
  <2> QED
    BY <1>1, <1>4, <1>5, <2>1, BestSame
<1>7. FocusHeld(t)
  <2>1. LockFocused(t)
    BY <1>1, <1>3 DEF LockFocused, FocusHeld
  <2>2. FocusThere(t)
    BY <1>1, <1>3 DEF FocusThere, FocusHeld
  <2> QED
    BY <1>1, <1>3, <1>6, <2>1, <2>2 DEF FocusHeld
<1> QED
  BY <1>4, <1>7 DEF SeatRight

(* A grab that ends.                                                       *)
LEMMA GrabEndsRight ==
  ASSUME SeatFocusAssumption, NEW s, SeatRight(s), NEW t, t = refocus([s EXCEPT !.grab = Nothing])
  PROVE  SeatRight(t) /\ t.output = s.output /\ t.present = s.present
<1>1. s \in Seats /\ WellFormed(s) /\ BarsMapped(s)
  BY DEF SeatRight, WellFormed, Sequenced
<1>2. PICK u : u = [s EXCEPT !.grab = Nothing]
  OBVIOUS
<1>3. u \in Seats
  BY <1>1, <1>2 DEF Seats
<1>4. OtherFields(s, u) /\ u.output = s.output /\ u.present = s.present
  BY <1>1, <1>2 DEF Seats, OtherFields
<1>5. WellFormed(u) /\ BarsMapped(u)
  BY <1>1, <1>3, <1>4, OthersStay
<1>6. t = refocus(u)
  BY <1>2
<1>7. WellFormed(t) /\ SameWorld(u, t) /\ t.focus = Best(t)
  BY <1>5, <1>6, RefocusRight
<1>8. BarsMapped(t)
  BY <1>5, <1>7 DEF SameWorld, BarsMapped
<1> QED
  BY <1>4, <1>7, <1>8, RightOnceFocused DEF SameWorld

(* The events: views.                                                      *)
LEMMA CreateKeeps ==
  ASSUME SeatFocusAssumption, SeatRight(seat), NEW v \in SeatViews, CreateView(v)
  PROVE  SeatRight(seat')
<1>1. seat \in Seats /\ WellFormed(seat) /\ BarsMapped(seat) /\ FocusHeld(seat) /\ Stacked(seat)
  BY DEF SeatRight, WellFormed, Sequenced
<1>2. PICK y : y = [NoSeatView EXCEPT !.out = seat.output]
  OBVIOUS
<1>3. y \in ViewStates /\ y.mapped = FALSE
  BY <1>1, <1>2 DEF NoSeatView, ViewStates, Seats
<1>4. PICK f : f = [seat.view EXCEPT ![v] = y]
  OBVIOUS
<1>5. f \in [SeatViews -> ViewStates] /\ f[v] = y /\ \A u \in SeatViews : u # v => f[u] = seat.view[u]
  BY <1>1, <1>3, <1>4 DEF Seats
<1>6. seat.view[v].mapped = FALSE
  BY <1>1 DEF CreateView, Stacked, Seats, ViewStates
<1>7. \A u \in SeatViews : f[u].mapped = seat.view[u].mapped /\ (f[u].mapped => f[u] = seat.view[u])
  BY <1>3, <1>5, <1>6
<1>8. seat' = WithViews(seat, f)
  BY <1>2, <1>4 DEF CreateView, WithViews
<1>9. PICK s, t : s = seat /\ t = seat'
  OBVIOUS
<1>10. WellFormed(t) /\ FocusHeld(t) /\ SameBars(s, t)
  BY <1>1, <1>5, <1>7, <1>8, <1>9, HiddenChanged
<1> QED
  BY <1>1, <1>9, <1>10, BarsStay DEF SeatRight

(* A view is mapped.                                                       *)
LEMMA MapKeeps ==
  ASSUME SeatFocusAssumption, SeatRight(seat), NEW v \in SeatViews, MapView(v)
  PROVE  SeatRight(seat')
<1>1. seat \in Seats /\ Sequenced(seat) /\ OneActive(seat) /\ BarsMapped(seat) /\ Stacked(seat)
  BY DEF SeatRight, WellFormed, Sequenced
<1>2. PICK here, edge \in BOOLEAN :
        seat' = focus_raise_view(view_bring_to_front(
                  [seat EXCEPT !.view[v] = [@ EXCEPT !.mapped = TRUE, !.here = here, !.edge = edge]], v), v, TRUE)
  BY DEF MapView
<1>3. PICK s : s = seat
  OBVIOUS
<1>4. PICK x \in ViewStates : x = s.view[v]
  BY <1>1, <1>3 DEF Seats
<1>5. PICK yes \in BOOLEAN : yes = TRUE
  OBVIOUS
<1>6. PICK y : y = [x EXCEPT !.mapped = yes, !.here = here, !.edge = edge]
  OBVIOUS
<1>7. y \in ViewStates /\ y.mapped = yes /\ y.out = x.out
  BY <1>6 DEF ViewStates
<1>8. x.out # Nothing
  BY <1>3, <1>4 DEF MapView
<1>9. PICK f : f = [s.view EXCEPT ![v] = y]
  OBVIOUS
<1>10. f \in [SeatViews -> ViewStates] /\ f[v] = y /\ \A u \in SeatViews : u # v => f[u] = s.view[u]
  BY <1>1, <1>3, <1>7, <1>9 DEF Seats
<1>11. PICK a : a = WithViews(s, f)
  OBVIOUS
<1>12. /\ a \in Seats /\ a.view = f /\ a.stack = s.stack /\ a.bars = s.bars /\ a.recent = s.recent /\ a.bar = s.bar
       /\ a.active = s.active /\ a.toplevel = s.toplevel /\ a.activated = s.activated
  BY <1>1, <1>3, <1>10, <1>11 DEF WithViews, Seats
<1>13. Sequenced(a) /\ OneActive(a) /\ SameBars(s, a)
  BY <1>1, <1>3, <1>12 DEF Sequenced, OneActive, SameBars
<1>14. \A u \in SeatViews : a.view[u].mapped => a.view[u].out # Nothing /\ (u = v \/ u \in ToSet(a.stack))
  <2>1. \A u \in SeatViews : s.view[u].mapped => s.view[u].out # Nothing /\ u \in ToSet(s.stack)
    BY <1>1, <1>3 DEF Stacked
  <2> QED
    BY <1>7, <1>8, <1>10, <1>12, <2>1
<1>15. PICK b : b = view_bring_to_front(a, v)
  OBVIOUS
<1>16. WellFormed(b) /\ SameBars(a, b) /\ b.view = f
  BY <1>12, <1>13, <1>14, <1>15, BringRight
<1>17. PICK t : t = seat'
  OBVIOUS
<1>18. t = focus_raise_view(b, v, yes)
  BY <1>2, <1>3, <1>4, <1>5, <1>6, <1>9, <1>11, <1>15, <1>17 DEF WithViews
<1>19. b.view[v].mapped
  BY <1>5, <1>7, <1>10, <1>16
<1>20. WellFormed(t) /\ SameBars(b, t) /\ t.focus = Best(t)
  BY <1>16, <1>18, <1>19, FocusRaiseRight
<1>21. BarsMapped(t)
  BY <1>1, <1>3, <1>13, <1>16, <1>20, BarsStay
<1> QED
  BY <1>17, <1>20, <1>21, RightOnceFocused

(* A view is unmapped and destroyed.                                       *)
LEMMA UnmapKeeps ==
  ASSUME SeatFocusAssumption, SeatRight(seat), NEW v \in SeatViews, UnmapView(v)
  PROVE  SeatRight(seat')
<1>1. PICK s : s = seat
  OBVIOUS
<1>2. s \in Seats /\ Sequenced(s) /\ OneActive(s) /\ BarsMapped(s) /\ Stacked(s)
  BY <1>1 DEF SeatRight, WellFormed, Sequenced
<1>3. NoSeatView \in ViewStates /\ NoSeatView.mapped = FALSE
  BY DEF NoSeatView, ViewStates
<1>4. PICK f : f = [s.view EXCEPT ![v] = NoSeatView]
  OBVIOUS
<1>5. f \in [SeatViews -> ViewStates] /\ f[v] = NoSeatView /\ \A u \in SeatViews : u # v => f[u] = s.view[u]
  BY <1>2, <1>3, <1>4 DEF Seats
<1>6. PICK a : a = WithViews(s, f)
  OBVIOUS
<1>7. WellFormed(a) /\ SamePlaces(s, a) /\ a.view = f
  <2>1. \A u \in SeatViews : f[u].mapped => f[u].out # Nothing /\ u \in ToSet(s.stack)
    BY <1>2, <1>3, <1>5 DEF Stacked
  <2> QED
    BY <1>2, <1>5, <1>6, <2>1, ViewsChanged
<1>8. PICK r : r = refocus(a)
  OBVIOUS
<1>9. WellFormed(r) /\ SameWorld(a, r) /\ r.focus = Best(r)
  BY <1>7, <1>8, RefocusRight
<1>10. PICK t : t = seat'
  OBVIOUS
<1>11. t = Freed(r, v)
  BY <1>1, <1>4, <1>6, <1>8, <1>10 DEF UnmapView, WithViews
<1>12. Gone(r, v)
  <2>1. ~r.view[v].mapped
    BY <1>3, <1>5, <1>7, <1>9 DEF SameWorld
  <2>2. v \notin Bars
    BY DEF SeatFocusAssumption
  <2> QED
    BY <2>1, <2>2 DEF Gone
<1>13. AfterFreed(r, t, v)
  <2>1. v \in SeatViews \cup Bars
    OBVIOUS
  <2> QED
    BY <1>9, <1>11, <1>12, <2>1, FreedRight
<1>14. BarsMapped(t)
  BY <1>2, <1>7, <1>9, <1>13 DEF AfterFreed, BarsMapped, SameWorld, SamePlaces, SameBars
<1>15. WellFormed(t) /\ t.focus = Best(t)
  BY <1>9, <1>13 DEF AfterFreed
<1> QED
  BY <1>10, <1>14, <1>15, RightOnceFocused

(* A view is focused on request.                                           *)
LEMMA RequestKeeps ==
  ASSUME SeatFocusAssumption, SeatRight(seat), NEW v \in SeatViews, FocusRequest(v)
  PROVE  SeatRight(seat')
<1>1. PICK allow \in BOOLEAN : seat' = focus_raise_view(seat, v, allow)
  BY DEF FocusRequest
<1>2. PICK s, t : s = seat /\ t = seat'
  OBVIOUS
<1>3. WellFormed(s) /\ BarsMapped(s) /\ s.view[v].mapped
  BY <1>2 DEF SeatRight, FocusRequest
<1>4. t = focus_raise_view(s, v, allow)
  BY <1>1, <1>2
<1>5. WellFormed(t) /\ SameBars(s, t) /\ t.focus = Best(t)
  BY <1>3, <1>4, FocusRaiseRight
<1> QED
  BY <1>2, <1>3, <1>5, BarsStay, RightOnceFocused

(* A view is minimized or restored.                                        *)
LEMMA MinimizeKeeps ==
  ASSUME SeatFocusAssumption, SeatRight(seat), NEW v \in SeatViews, Minimize(v)
  PROVE  SeatRight(seat')
<1>1. PICK state \in BOOLEAN : seat' = minimize_request(seat, v, state)
  BY DEF Minimize
<1>2. PICK s, t : s = seat /\ t = seat'
  OBVIOUS
<1>3. WellFormed(s) /\ BarsMapped(s) /\ SeatRight(s)
  BY <1>2 DEF SeatRight
<1>4. t = minimize_request(s, v, state)
  BY <1>1, <1>2
<1>5. WellFormed(t) /\ SameBars(s, t) /\ (t = s \/ t.focus = Best(t))
  BY <1>3, <1>4, MinimizeRight
<1>6. BarsMapped(t)
  BY <1>3, <1>5, BarsStay
<1> QED
  BY <1>2, <1>3, <1>5, <1>6, RightOnceFocused

(* A view is dragged.                                                      *)
LEMMA MoveViewKeeps ==
  ASSUME SeatFocusAssumption, SeatRight(seat), NEW v \in SeatViews, MoveView(v)
  PROVE  SeatRight(seat')
<1>1. PICK here, edge \in BOOLEAN :
        seat' = [seat EXCEPT !.view[v] = [@ EXCEPT !.here = here, !.edge = edge], !.unseen = TRUE]
  BY DEF MoveView
<1>2. PICK s, t : s = seat /\ t = seat'
  OBVIOUS
<1>3. s \in Seats /\ Sequenced(s) /\ OneActive(s) /\ BarsMapped(s) /\ Stacked(s) /\ FocusHeld(s)
  BY <1>2 DEF SeatRight, WellFormed, Sequenced
<1>4. PICK x \in ViewStates : x = s.view[v]
  BY <1>3 DEF Seats
<1>5. PICK y : y = [x EXCEPT !.here = here, !.edge = edge]
  OBVIOUS
<1>6. y \in ViewStates /\ y.mapped = x.mapped /\ y.out = x.out /\ y.minimized = x.minimized
  BY <1>5 DEF ViewStates
<1>7. PICK f : f = [s.view EXCEPT ![v] = y]
  OBVIOUS
<1>8. f \in [SeatViews -> ViewStates] /\ f[v] = y /\ \A u \in SeatViews : u # v => f[u] = s.view[u]
  BY <1>3, <1>6, <1>7 DEF Seats
<1>9. PICK a : a = WithViews(s, f)
  OBVIOUS
<1>10. /\ WellFormed(a) /\ SamePlaces(s, a) /\ a.view = f /\ a.locked = s.locked
       /\ a.grab = s.grab /\ a.focus = s.focus
  <2>1. \A u \in SeatViews : f[u].mapped => f[u].out # Nothing /\ u \in ToSet(s.stack)
    BY <1>3, <1>4, <1>6, <1>8 DEF Stacked
  <2> QED
    BY <1>3, <1>8, <1>9, <2>1, ViewsChanged
<1>11. PICK yes \in BOOLEAN : yes = TRUE
  OBVIOUS
<1>12. t = Unseen(a, yes)
  BY <1>1, <1>2, <1>4, <1>5, <1>7, <1>9, <1>11 DEF Unseen, WithViews
<1>13. WellFormed(t) /\ SameWorld(a, t) /\ t.focus = a.focus /\ t.unseen = yes
  BY <1>10, <1>12, UnseenRight
<1>14. \A u \in SeatViews : /\ f[u].mapped = s.view[u].mapped /\ f[u].minimized = s.view[u].minimized
                            /\ f[u].out = s.view[u].out
  BY <1>4, <1>6, <1>8
<1>15. FocusHeld(t)
  <2>1. LockFocused(t)
    BY <1>3, <1>10, <1>13 DEF LockFocused, FocusHeld, SameWorld, SamePlaces
  <2>2. FocusThere(t)
    BY <1>3, <1>10, <1>13, <1>14 DEF FocusThere, FocusHeld, SameWorld, SamePlaces, SameBars
  <2> QED
    BY <1>11, <1>13, <2>1, <2>2 DEF FocusHeld
<1>16. BarsMapped(t)
  BY <1>3, <1>10, <1>13 DEF BarsMapped, SameWorld, SamePlaces, SameBars
<1> QED
  BY <1>2, <1>13, <1>15, <1>16 DEF SeatRight

(* A view goes to another output.                                          *)
LEMMA MoveToKeeps ==
  ASSUME SeatFocusAssumption, SeatRight(seat), NEW v \in SeatViews, MoveToOutput(v)
  PROVE  SeatRight(seat')
<1>1. PICK o \in seat.present : seat' = move_view_to_output(seat, v, o)
  BY DEF MoveToOutput
<1>2. PICK s, t : s = seat /\ t = seat'
  OBVIOUS
<1>3. WellFormed(s) /\ BarsMapped(s) /\ o \in SeatOutputs
  BY <1>2 DEF SeatRight, WellFormed, Sequenced, Seats
<1>4. t = move_view_to_output(s, v, o)
  BY <1>1, <1>2
<1>5. WellFormed(t) /\ FocusHeld(t) /\ SameBars(s, t)
  BY <1>3, <1>4, MoveRight
<1> QED
  BY <1>2, <1>3, <1>5, BarsStay DEF SeatRight

(* The events: layer surfaces.                                             *)
WithBars(s, q) == [s EXCEPT !.bars = q]

(* Only the order of the layer surfaces changes.                           *)
LEMMA BarsChanged ==
  ASSUME NEW s, WellFormed(s), NEW q \in Seq(Bars), EachOnce(q), NEW t, t = WithBars(s, q)
  PROVE  /\ WellFormed(t) /\ t.bars = q /\ t.bar = s.bar /\ t.view = s.view /\ t.stack = s.stack
         /\ t.output = s.output /\ t.locked = s.locked /\ t.grab = s.grab /\ t.focus = s.focus
         /\ t.unseen = s.unseen /\ SameTimes(s, t)
<1>1. s \in Seats /\ OneActive(s) /\ Sequenced(s) /\ Stacked(s)
  BY DEF WellFormed, Sequenced
<1>2. t = [s EXCEPT !.bars = q]
  BY DEF WithBars
<1>3. t \in Seats
  BY <1>1, <1>2 DEF Seats
<1>4. /\ t.bars = q /\ t.bar = s.bar /\ t.view = s.view /\ t.stack = s.stack
      /\ t.output = s.output /\ t.locked = s.locked /\ t.grab = s.grab /\ t.focus = s.focus
      /\ t.unseen = s.unseen /\ SameTimes(s, t)
      /\ t.active = s.active /\ t.toplevel = s.toplevel /\ t.activated = s.activated
  BY <1>1, <1>2 DEF Seats, SameTimes
<1>5. Sequenced(t) /\ OneActive(t) /\ Stacked(t)
  BY <1>1, <1>3, <1>4 DEF Sequenced, OneActive, Stacked, SameTimes
<1> QED
  BY <1>4, <1>5 DEF WellFormed

(* A layer surface that does not want the keyboard changes nothing.        *)
LEMMA QuietBar ==
  ASSUME SeatFocusAssumption, NEW s, Sequenced(s), NEW t, Sequenced(t), NEW b \in Bars, b \notin ToSet(s.bars),
         t.bars = InFront(b, s.bars), t.stack = s.stack, t.view = s.view, t.output = s.output,
         t.locked = s.locked, t.grab = s.grab, t.focus = s.focus, SameTimes(s, t),
         \A x \in Bars : x # b => t.bar[x] = s.bar[x], t.bar[b].mode = "none"
  PROVE  Best(t) = Best(s)
<1>1. s \in Seats /\ t \in Seats
  BY DEF Sequenced
<1>2. PICK q \in Seq(Bars) : q = s.bars
  BY <1>1 DEF Seats
<1>3. PICK r : r = InFront(b, q)
  OBVIOUS
<1>4. EachOnce(q) /\ b \notin ToSet(q)
  BY <1>2 DEF Sequenced
<1>5. ToSet(r) = ToSet(q) \cup {b} /\ \A a \in ToSet(q) : PositionIn(r, a) = PositionIn(q, a) + 1
  BY <1>3, <1>4, PutInFront
<1>6. \A a \in ToSet(q) : PositionIn(q, a) \in Int
  BY PositionHolds
<1>7. InScene(t) = InScene(s) \cup {b}
  BY <1>2, <1>3, <1>5 DEF InScene
<1>8. b \notin SeatOutputs /\ b # Grab /\ b \notin SeatViews
  BY DEF SeatFocusAssumption
<1>9. ImportanceOf(t, b) = 0
  BY <1>8 DEF ImportanceOf
<1>10. b \notin InScene(s)
  <2>1. s.output \in SeatOutputs
    BY <1>1 DEF Seats
  <2>2. \A x \in ToSet(s.stack) : x \in SeatViews
    BY <1>1 DEF Seats, ToSet
  <2> QED
    BY <1>8, <2>1, <2>2 DEF InScene
<1>11. ASSUME NEW m, m # b PROVE ImportanceOf(t, m) = ImportanceOf(s, m) /\ (Blocks(t, m) <=> Blocks(s, m))
  <2>1. CASE m \notin Bars
    BY <2>1 DEF ImportanceOf, Blocks, SameTimes
  <2>2. CASE m \in Bars
    <3>1. PICK bar : bar = s.bar[m] /\ bar = t.bar[m]
      BY <1>11, <2>2
    <3>2. ImportanceOf(t, m) = ImportanceOf(s, m)
      BY <2>2, <3>1 DEF ImportanceOf, SameTimes
    <3> QED
      BY <2>2, <3>1, <3>2 DEF Blocks
  <2> QED
    BY <2>1, <2>2
<1>12. ASSUME NEW m \in InScene(s), m # b PROVE Rank(t, m) = Rank(s, m)
  <2>1. CASE m \notin Bars
    BY <2>1 DEF Rank
  <2>2. CASE m \in Bars
    <3>1. t.bar[m] = s.bar[m]
      BY <1>12, <2>2
    <3> QED
      BY <2>2, <3>1 DEF Rank
  <2> QED
    BY <2>1, <2>2
<1>13. ASSUME NEW x \in InScene(t), NEW y \in InScene(t), Offers(t, x), Offers(t, y)
       PROVE  SameOrder(s, t, x, y)
  <2>1. x # b /\ y # b /\ x \in InScene(s) /\ y \in InScene(s)
    BY <1>7, <1>9, <1>13 DEF Offers
  <2>2. ASSUME x \in Bars, y \in Bars PROVE SameSpots(s.bars, t.bars, x, y)
    <3>1. x \in ToSet(q) /\ y \in ToSet(q)
      BY <1>1, <1>2, <2>1, <2>2 DEF InScene, Seats, ToSet, SeatFocusAssumption
    <3>2. PositionIn(r, x) = PositionIn(q, x) + 1 /\ PositionIn(r, y) = PositionIn(q, y) + 1
      BY <1>5, <3>1
    <3>3. PositionIn(q, x) \in Int /\ PositionIn(q, y) \in Int
      BY <1>6, <3>1
    <3> QED
      BY <1>2, <1>3, <3>2, <3>3 DEF SameSpots
  <2>3. SameSpots(s.stack, t.stack, x, y)
    BY DEF SameSpots
  <2>4. Place(t, x) < Place(t, y) <=> Place(s, x) < Place(s, y)
    <3>1. Rank(t, x) = Rank(s, x) /\ Rank(t, y) = Rank(s, y)
      BY <1>12, <2>1
    <3> QED
      BY <1>13, <2>1, <2>2, <2>3, <3>1, PlacesAgree
  <2>5. StampOf(t, x) = StampOf(s, x) /\ StampOf(t, y) = StampOf(s, y)
    BY DEF StampOf, SameTimes
  <2> QED
    BY <2>4, <2>5 DEF SameOrder
<1>14. OffersLess(s, t, Best(s))
  <2>1. \A m \in InScene(t) : Offers(t, m) => Offers(s, m) /\ SameOffer(s, t, m)
    BY <1>7, <1>9, <1>11 DEF Offers, SameOffer
  <2>2. \A m \in InScene(s) : Offers(s, m) => Offers(t, m)
    BY <1>7, <1>10, <1>11 DEF Offers
  <2> QED
    BY <1>13, <2>1, <2>2 DEF OffersLess
<1> QED
  BY <1>14, BestStays

(* The focus is where it was, on what is still there.                      *)
LEMMA FocusStays ==
  ASSUME NEW s, LockFocused(s), FocusThere(s), NEW t, t.output = s.output, t.locked = s.locked,
         t.grab = s.grab, t.view = s.view, t.focus = s.focus,
         \A b \in Bars : s.bar[b].mapped => t.bar[b].mapped
  PROVE  LockFocused(t) /\ FocusThere(t)
BY DEF LockFocused, FocusThere

(* A layer surface is mapped.                                              *)
LEMMA MapBarKeeps ==
  ASSUME SeatFocusAssumption, SeatRight(seat), NEW b \in Bars, MapBar(b)
  PROVE  SeatRight(seat')
<1>1. PICK s, t : s = seat /\ t = seat'
  OBVIOUS
<1>2. s \in Seats /\ WellFormed(s) /\ Sequenced(s) /\ BarsMapped(s) /\ FocusHeld(s)
  BY <1>1 DEF SeatRight, WellFormed, Sequenced
<1>3. ~s.bar[b].mapped
  BY <1>1 DEF MapBar
<1>4. PICK o \in s.present, mode \in {"none", "exclusive", "demand"}, top \in BOOLEAN :
        LET u == [s EXCEPT !.bars = <<b>> \o @,
                    !.bar[b] = [mapped |-> TRUE, mode |-> mode, top |-> top, out |-> o]]
        IN t = IF mode # "none" /\ top THEN focus_view(u, b) ELSE [u EXCEPT !.unseen = @ \/ mode # "none"]
  BY <1>1 DEF MapBar
<1>5. PICK yes \in BOOLEAN : yes = TRUE
  OBVIOUS
<1>6. PICK y : y = [mapped |-> yes, mode |-> mode, top |-> top, out |-> o]
  OBVIOUS
<1>7. y \in BarStates /\ y.mapped = yes /\ y.mode = mode
  <2>1. o \in SeatOutputs \cup {Nothing}
    BY <1>2 DEF Seats
  <2> QED
    BY <1>6, <2>1 DEF BarStates
<1>8. PICK a : a = WithBar(s, b, y)
  OBVIOUS
<1>9. /\ WellFormed(a) /\ a.bar = [s.bar EXCEPT ![b] = y] /\ SameTimes(s, a)
      /\ a.output = s.output /\ a.focus = s.focus /\ a.unseen = s.unseen
      /\ a.grab = s.grab /\ a.locked = s.locked /\ a.view = s.view /\ a.bars = s.bars /\ a.stack = s.stack
  BY <1>2, <1>7, <1>8, BarChanged
<1>10. PICK q : q = InFront(b, s.bars)
  OBVIOUS
<1>11. b \notin ToSet(s.bars)
  BY <1>2, <1>3 DEF BarsMapped
<1>12. q \in Seq(Bars) /\ EachOnce(q) /\ ToSet(q) = ToSet(s.bars) \cup {b}
  <2>1. PICK p : p = s.bars
    OBVIOUS
  <2>2. p \in Seq(Bars) /\ EachOnce(p) /\ b \notin ToSet(p)
    BY <1>2, <1>11, <2>1 DEF Sequenced, Seats
  <2> QED
    BY <1>10, <2>1, <2>2, PutInFront
<1>13. PICK c : c = WithBars(a, q)
  OBVIOUS
<1>14. /\ WellFormed(c) /\ c.bars = q /\ c.bar = a.bar /\ c.view = a.view /\ c.stack = a.stack
       /\ c.output = a.output /\ c.locked = a.locked /\ c.grab = a.grab /\ c.focus = a.focus
       /\ c.unseen = a.unseen /\ SameTimes(a, c)
  BY <1>9, <1>12, <1>13, BarsChanged
<1>15. c.bar = [s.bar EXCEPT ![b] = y] /\ s.bar \in [Bars -> BarStates]
  BY <1>2, <1>9, <1>14 DEF Seats
<1>16. BarsMapped(c)
  <2>1. \A x \in ToSet(s.bars) : x \in Bars /\ s.bar[x].mapped
    BY <1>2 DEF BarsMapped, Seats, ToSet
  <2>2. y.mapped
    BY <1>5, <1>7
  <2>3. ASSUME NEW x \in ToSet(c.bars) PROVE c.bar[x].mapped
    <3>1. x = b \/ (x \in ToSet(s.bars) /\ x # b)
      BY <1>12, <1>14, <2>3
    <3>2. CASE x = b
      BY <1>15, <2>2, <3>2
    <3>3. CASE x \in ToSet(s.bars) /\ x # b
      <4>1. c.bar[x] = s.bar[x]
        BY <1>15, <2>1, <3>3
      <4> QED
        BY <2>1, <3>3, <4>1
    <3> QED
      BY <3>1, <3>2, <3>3
  <2> QED
    BY <2>3 DEF BarsMapped
<1>17. PICK wants \in BOOLEAN : wants <=> mode # "none"
  OBVIOUS
<1>18. t = IF wants /\ top THEN focus_view(c, b) ELSE Unseen(c, c.unseen \/ wants)
  <2>1. c = [s EXCEPT !.bars = <<b>> \o s.bars,
                      !.bar[b] = [mapped |-> TRUE, mode |-> mode, top |-> top, out |-> o]]
    BY <1>2, <1>5, <1>6, <1>8, <1>10, <1>13 DEF WithBar, WithBars, InFront, Seats
  <2>2. t = IF mode # "none" /\ top THEN focus_view(c, b) ELSE [c EXCEPT !.unseen = c.unseen \/ mode # "none"]
    BY <1>4, <2>1
  <2>3. CASE mode = "none"
    BY <1>17, <2>2, <2>3 DEF Unseen
  <2>4. CASE mode # "none"
    <3>1. wants = TRUE
      BY <1>17, <2>4
    <3> QED
      BY <2>2, <2>4, <3>1 DEF Unseen
  <2> QED
    BY <2>3, <2>4
<1>19. CASE wants /\ top
  <2>1. t = focus_view(c, b)
    BY <1>18, <1>19
  <2>2. b \in SeatViews \cup Bars \cup {Nothing}
    OBVIOUS
  <2>3. WellFormed(t) /\ SameWorld(c, t) /\ t.focus = Best(t)
    BY <1>14, <2>1, <2>2, FocusViewRight
  <2>4. BarsMapped(t)
    BY <1>16, <2>3 DEF BarsMapped, SameWorld
  <2> QED
    BY <1>1, <2>3, <2>4, RightOnceFocused
<1>20. CASE ~(wants /\ top)
  <2>1. PICK e \in BOOLEAN : e = (c.unseen \/ wants)
    OBVIOUS
  <2>2. t = Unseen(c, e)
    BY <1>18, <1>20, <2>1
  <2>3. WellFormed(t) /\ SameWorld(c, t) /\ SameTimes(c, t) /\ t.focus = c.focus /\ t.unseen = e
    BY <1>14, <2>2, UnseenRight
  <2>4. BarsMapped(t)
    BY <1>16, <2>3 DEF BarsMapped, SameWorld
  <2>5. /\ t.output = s.output /\ t.locked = s.locked /\ t.grab = s.grab /\ t.view = s.view
        /\ t.focus = s.focus /\ t.stack = s.stack /\ t.bars = q /\ t.bar = c.bar /\ SameTimes(s, t)
    BY <1>9, <1>14, <2>3 DEF SameWorld, SameTimes
  <2>6. \A x \in Bars : x # b => t.bar[x] = s.bar[x]
    BY <1>15, <2>5
  <2>7. t.bar[b] = y
    BY <1>15, <2>5
  <2>8. LockFocused(t) /\ FocusThere(t)
    <3>1. LockFocused(s) /\ FocusThere(s)
      BY <1>2 DEF FocusHeld
    <3>2. \A x \in Bars : s.bar[x].mapped => t.bar[x].mapped
      BY <1>3, <2>6
    <3> QED
      BY <2>5, <3>1, <3>2, FocusStays
  <2>9. t.unseen \/ t.focus = Best(t)
    <3>1. CASE wants
      BY <2>1, <2>3, <3>1
    <3>2. CASE ~wants
      <4>1. t.bar[b].mode = "none"
        BY <1>7, <1>17, <2>7, <3>2
      <4>2. Sequenced(t) /\ t.bars = InFront(b, s.bars)
        BY <1>10, <2>3, <2>5 DEF WellFormed
      <4>3. Best(t) = Best(s)
        BY <1>2, <1>11, <2>5, <2>6, <4>1, <4>2, QuietBar
      <4>4. t.unseen = s.unseen
        <5>1. c.unseen = s.unseen /\ s.unseen \in BOOLEAN
          BY <1>2, <1>9, <1>14 DEF Seats
        <5>2. t.unseen = (c.unseen \/ wants)
          BY <2>1, <2>3
        <5> QED
          BY <3>2, <5>1, <5>2
      <4> QED
        BY <1>2, <2>5, <4>3, <4>4 DEF FocusHeld
    <3> QED
      BY <3>1, <3>2
  <2> QED
    BY <1>1, <2>3, <2>4, <2>8, <2>9 DEF SeatRight, FocusHeld
<1> QED
  BY <1>19, <1>20

(* A layer surface commits another mode or level.                          *)
LEMMA CommitBarKeeps ==
  ASSUME SeatFocusAssumption, SeatRight(seat), NEW b \in Bars, CommitBar(b)
  PROVE  SeatRight(seat')
<1>1. PICK s, t : s = seat /\ t = seat'
  OBVIOUS
<1>2. s \in Seats /\ WellFormed(s) /\ Sequenced(s) /\ BarsMapped(s) /\ FocusHeld(s) /\ SeatRight(s)
  BY <1>1 DEF SeatRight, WellFormed, Sequenced
<1>3. PICK x \in BarStates : x = s.bar[b]
  BY <1>2 DEF Seats
<1>4. PICK mode \in {"none", "exclusive", "demand"}, top \in BOOLEAN :
        LET bar == [seat.bar[b] EXCEPT !.mode = mode, !.top = top]
            bars == IF top # seat.bar[b].top THEN <<b>> \o Without(seat.bars, b) ELSE seat.bars
            u == [seat EXCEPT !.bar[b] = bar, !.bars = bars]
            changed == mode # seat.bar[b].mode
        IN seat' = IF changed /\ mode = "exclusive" /\ top THEN focus_view(u, b)
                   ELSE IF changed /\ mode = "none" THEN refocus(u)
                   ELSE [u EXCEPT !.unseen = @ \/ changed \/ top # seat.bar[b].top]
  BY Zenon DEF CommitBar
<1>5. PICK y : y = [x EXCEPT !.mode = mode, !.top = top]
  OBVIOUS
<1>6. y \in BarStates /\ y.mapped = x.mapped
  BY <1>5 DEF BarStates
<1>7. x.mapped
  BY <1>1, <1>3 DEF CommitBar
<1>8. PICK q : q = IF top # x.top THEN InFront(b, Without(s.bars, b)) ELSE s.bars
  OBVIOUS
<1>9. q \in Seq(Bars) /\ EachOnce(q) /\ \A z \in ToSet(q) : z = b \/ z \in ToSet(s.bars)
  <2>1. PICK p : p = s.bars
    OBVIOUS
  <2>2. p \in Seq(Bars) /\ EachOnce(p)
    BY <1>2, <2>1 DEF Sequenced, Seats
  <2>3. CASE top # x.top
    <3>1. q = InFront(b, Without(p, b))
      BY <1>8, <2>1, <2>3
    <3>2. q \in Seq(Bars) /\ EachOnce(q) /\ ToSet(q) = ToSet(p) \cup {b}
      BY <2>2, <3>1, BroughtToFront
    <3> QED
      BY <2>1, <3>2
  <2>4. CASE top = x.top
    BY <1>8, <2>1, <2>2, <2>4
  <2> QED
    BY <2>3, <2>4
<1>10. PICK a : a = WithBar(s, b, y)
  OBVIOUS
<1>11. /\ WellFormed(a) /\ a.bar = [s.bar EXCEPT ![b] = y] /\ SameTimes(s, a)
       /\ a.output = s.output /\ a.focus = s.focus /\ a.unseen = s.unseen
       /\ a.grab = s.grab /\ a.locked = s.locked /\ a.view = s.view /\ a.bars = s.bars /\ a.stack = s.stack
  BY <1>2, <1>6, <1>10, BarChanged
<1>12. PICK c : c = WithBars(a, q)
  OBVIOUS
<1>13. /\ WellFormed(c) /\ c.bars = q /\ c.bar = a.bar /\ c.view = a.view /\ c.stack = a.stack
       /\ c.output = a.output /\ c.locked = a.locked /\ c.grab = a.grab /\ c.focus = a.focus
       /\ c.unseen = a.unseen /\ SameTimes(a, c)
  BY <1>9, <1>11, <1>12, BarsChanged
<1>14. s.bar \in [Bars -> BarStates] /\ c.bar = [s.bar EXCEPT ![b] = y]
  BY <1>2, <1>11, <1>13 DEF Seats
<1>15. \A z \in Bars : c.bar[z].mapped = s.bar[z].mapped
  BY <1>3, <1>6, <1>14
<1>16. BarsMapped(c)
  <2>1. \A z \in ToSet(s.bars) : z \in Bars /\ s.bar[z].mapped
    BY <1>2 DEF BarsMapped, Seats, ToSet
  <2> QED
    BY <1>3, <1>7, <1>9, <1>13, <1>15, <2>1 DEF BarsMapped
<1>17. c = [s EXCEPT !.bar[b] = [s.bar[b] EXCEPT !.mode = mode, !.top = top],
                     !.bars = IF top # s.bar[b].top THEN <<b>> \o Without(s.bars, b) ELSE s.bars]
  BY <1>2, <1>3, <1>5, <1>8, <1>10, <1>12 DEF WithBar, WithBars, InFront, Seats
<1>18. t = IF mode # x.mode /\ mode = "exclusive" /\ top THEN focus_view(c, b)
           ELSE IF mode # x.mode /\ mode = "none" THEN refocus(c)
           ELSE [c EXCEPT !.unseen = c.unseen \/ mode # x.mode \/ top # x.top]
  BY <1>1, <1>3, <1>4, <1>17
<1>19. CASE t = focus_view(c, b)
  <2>1. b \in SeatViews \cup Bars \cup {Nothing}
    OBVIOUS
  <2>2. WellFormed(t) /\ SameWorld(c, t) /\ t.focus = Best(t)
    BY <1>13, <1>19, <2>1, FocusViewRight
  <2>3. BarsMapped(t)
    BY <1>16, <2>2 DEF BarsMapped, SameWorld
  <2> QED
    BY <1>1, <2>2, <2>3, RightOnceFocused
<1>20. CASE t = refocus(c)
  <2>1. WellFormed(t) /\ SameWorld(c, t) /\ t.focus = Best(t)
    BY <1>13, <1>20, RefocusRight
  <2>2. BarsMapped(t)
    BY <1>16, <2>1 DEF BarsMapped, SameWorld
  <2> QED
    BY <1>1, <2>1, <2>2, RightOnceFocused
<1>21. CASE t = [c EXCEPT !.unseen = c.unseen \/ mode # x.mode \/ top # x.top]
  <2>1. CASE mode = x.mode /\ top = x.top
    <3>1. y = x
      BY <1>5, <2>1 DEF BarStates
    <3>2. q = s.bars
      BY <1>8, <2>1
    <3>3. c = s
      <4>1. [s.bar EXCEPT ![b] = y] = s.bar
        BY <1>3, <1>14, <3>1
      <4>2. a = [s EXCEPT !.bar = s.bar]
        BY <1>10, <4>1 DEF WithBar
      <4>3. a = s
        BY <1>2, <4>2 DEF Seats
      <4>4. c = [s EXCEPT !.bars = s.bars]
        BY <1>12, <3>2, <4>3 DEF WithBars
      <4> QED
        BY <1>2, <4>4 DEF Seats
    <3>4. t = s
      <4>1. (c.unseen \/ mode # x.mode \/ top # x.top) = s.unseen
        BY <1>2, <2>1, <3>3 DEF Seats
      <4> QED
        BY <1>2, <1>21, <3>3, <4>1 DEF Seats
    <3> QED
      BY <1>1, <1>2, <3>4
  <2>2. CASE mode # x.mode \/ top # x.top
    <3>1. PICK yes \in BOOLEAN : yes = TRUE
      OBVIOUS
    <3>2. (c.unseen \/ mode # x.mode \/ top # x.top) = yes
      BY <2>2, <3>1
    <3>3. t = Unseen(c, yes)
      BY <1>21, <3>2 DEF Unseen
    <3>4. WellFormed(t) /\ SameWorld(c, t) /\ t.focus = c.focus /\ t.unseen = yes
      BY <1>13, <3>3, UnseenRight
    <3>5. BarsMapped(t)
      BY <1>16, <3>4 DEF BarsMapped, SameWorld
    <3>6. LockFocused(t) /\ FocusThere(t)
      <4>1. LockFocused(s) /\ FocusThere(s)
        BY <1>2 DEF FocusHeld
      <4>2. /\ t.output = s.output /\ t.locked = s.locked /\ t.grab = s.grab /\ t.view = s.view
            /\ t.focus = s.focus /\ \A z \in Bars : s.bar[z].mapped => t.bar[z].mapped
        BY <1>11, <1>13, <1>15, <3>4 DEF SameWorld
      <4> QED
        BY <4>1, <4>2, FocusStays
    <3> QED
      BY <1>1, <3>1, <3>4, <3>5, <3>6 DEF SeatRight, FocusHeld
  <2> QED
    BY <2>1, <2>2
<1> QED
  BY <1>18, <1>19, <1>20, <1>21

(* A layer surface is unmapped.                                            *)
LEMMA UnmapBarKeeps ==
  ASSUME SeatFocusAssumption, SeatRight(seat), NEW b \in Bars, UnmapBar(b)
  PROVE  SeatRight(seat')
<1>1. PICK s, t : s = seat /\ t = seat'
  OBVIOUS
<1>2. WellFormed(s) /\ BarsMapped(s)
  BY <1>1 DEF SeatRight
<1>3. t = Unmapped(s, b)
  BY <1>1 DEF UnmapBar
<1>4. WellFormed(t) /\ BarsMapped(t) /\ t.focus = Best(t)
  BY <1>2, <1>3, UnmappedRight
<1> QED
  BY <1>1, <1>4, RightOnceFocused

(* The events: the window manager.                                         *)
LEMMA NothingKeeps ==
  ASSUME SeatFocusAssumption, SeatRight(seat), FocusNothing
  PROVE  SeatRight(seat')
<1>1. PICK s, t : s = seat /\ t = seat'
  OBVIOUS
<1>2. WellFormed(s) /\ BarsMapped(s)
  BY <1>1 DEF SeatRight
<1>3. t = focus_view(s, Nothing)
  BY <1>1 DEF FocusNothing
<1>4. Nothing \in SeatViews \cup Bars \cup {Nothing}
  OBVIOUS
<1>5. WellFormed(t) /\ SameWorld(s, t) /\ t.focus = Best(t)
  BY <1>2, <1>3, <1>4, FocusViewRight
<1>6. BarsMapped(t)
  BY <1>2, <1>5 DEF BarsMapped, SameWorld
<1> QED
  BY <1>1, <1>5, <1>6, RightOnceFocused

(* An output is focused.                                                   *)
LEMMA OutputKeeps ==
  ASSUME SeatFocusAssumption, NEW s, SeatRight(s), NEW o \in SeatOutputs, NEW t, t = focus_output(s, o)
  PROVE  SeatRight(t) /\ t.output = o
<1>1. WellFormed(s) /\ BarsMapped(s)
  BY DEF SeatRight
<1>2. WellFormed(t) /\ SameBars(s, t) /\ t.output = o /\ (t = s \/ t.focus = Best(t))
  BY <1>1, FocusOutputRight
<1>3. BarsMapped(t)
  BY <1>1, <1>2, BarsStay
<1> QED
  BY <1>2, <1>3, RightOnceFocused

(* Another workspace is shown.                                             *)
LEMMA SwitchKeeps ==
  ASSUME SeatFocusAssumption, SeatRight(seat), Switch
  PROVE  SeatRight(seat')
<1>1. PICK s, t : s = seat /\ t = seat'
  OBVIOUS
<1>2. WellFormed(s) /\ BarsMapped(s)
  BY <1>1 DEF SeatRight
<1>3. PICK o : t = SwitchWorkspace(s, o)
  BY <1>1 DEF Switch
<1>4. WellFormed(t) /\ SamePlaces(s, t) /\ t.focus = Best(t)
  BY <1>2, <1>3, SwitchRight
<1>5. BarsMapped(t)
  BY <1>2, <1>4, BarsStay DEF SamePlaces
<1> QED
  BY <1>1, <1>4, <1>5, RightOnceFocused

(* The events: grabs and lock screens.                                     *)
LEMMA StartKeeps ==
  ASSUME SeatFocusAssumption, SeatRight(seat), StartSeatGrab
  PROVE  SeatRight(seat')
<1>1. PICK s, t : s = seat /\ t = seat'
  OBVIOUS
<1>2. s \in Seats /\ WellFormed(s) /\ BarsMapped(s)
  BY <1>1 DEF SeatRight, WellFormed, Sequenced
<1>3. PICK o \in s.present : LET u == [s EXCEPT !.grab = o]
                             IN t = refocus(IF o = u.output THEN [u EXCEPT !.focus = Grab] ELSE u)
  BY <1>1 DEF StartSeatGrab
<1>4. PICK u : u = [s EXCEPT !.grab = o]
  OBVIOUS
<1>5. PICK f \in Places : f = IF o = u.output THEN Grab ELSE s.focus
  BY <1>2 DEF Seats, Places, Nodes1
<1>6. PICK v : v = [u EXCEPT !.focus = f]
  OBVIOUS
<1>7. o \in SeatOutputs
  BY <1>2 DEF Seats
<1>8. u \in Seats /\ v \in Seats
  BY <1>2, <1>4, <1>6, <1>7 DEF Seats
<1>9. v = IF o = u.output THEN [u EXCEPT !.focus = Grab] ELSE u
  <2>1. CASE o = u.output
    BY <1>5, <1>6, <2>1
  <2>2. CASE o # u.output
    <3>1. u.focus = s.focus
      BY <1>2, <1>4 DEF Seats
    <3> QED
      BY <1>5, <1>6, <1>8, <2>2, <3>1 DEF Seats
  <2> QED
    BY <2>1, <2>2
<1>10. t = refocus(v)
  BY <1>3, <1>4, <1>9
<1>11. OtherFields(s, v)
  BY <1>2, <1>4, <1>6 DEF Seats, OtherFields
<1>12. WellFormed(v) /\ BarsMapped(v)
  BY <1>2, <1>8, <1>11, OthersStay
<1>13. WellFormed(t) /\ SameWorld(v, t) /\ t.focus = Best(t)
  BY <1>10, <1>12, RefocusRight
<1>14. BarsMapped(t)
  BY <1>12, <1>13 DEF BarsMapped, SameWorld
<1> QED
  BY <1>1, <1>13, <1>14, RightOnceFocused

(* A grab ends.                                                            *)
LEMMA EndKeeps ==
  ASSUME SeatFocusAssumption, SeatRight(seat), EndSeatGrab
  PROVE  SeatRight(seat')
<1>1. PICK s, t : s = seat /\ t = seat'
  OBVIOUS
<1>2. t = refocus([s EXCEPT !.grab = Nothing]) /\ SeatRight(s)
  BY <1>1 DEF EndSeatGrab
<1> QED
  BY <1>1, <1>2, GrabEndsRight

(* A lock screen is shown.                                                 *)
LEMMA LockKeeps ==
  ASSUME SeatFocusAssumption, SeatRight(seat), Lock
  PROVE  SeatRight(seat')
<1>1. PICK s, t : s = seat /\ t = seat'
  OBVIOUS
<1>2. s \in Seats /\ WellFormed(s) /\ BarsMapped(s)
  BY <1>1 DEF SeatRight, WellFormed, Sequenced
<1>3. PICK o \in s.present : LET a == set_active_node([s EXCEPT !.locked = @ \cup {o}], o) IN t \in {a, refocus(a)}
  BY <1>1 DEF Lock
<1>4. o \in SeatOutputs
  BY <1>2 DEF Seats
<1>5. PICK locked \in SUBSET SeatOutputs : locked = s.locked \cup {o}
  BY <1>2, <1>4 DEF Seats
<1>6. PICK u : u = [s EXCEPT !.locked = locked]
  OBVIOUS
<1>7. u \in Seats
  BY <1>2, <1>6 DEF Seats
<1>8. OtherFields(s, u)
  BY <1>2, <1>6 DEF Seats, OtherFields
<1>9. WellFormed(u) /\ BarsMapped(u)
  BY <1>2, <1>7, <1>8, OthersStay
<1>10. PICK a : a = set_active_node(u, o)
  OBVIOUS
<1>11. WellFormed(a) /\ SameWorld(u, a) /\ a.focus = Best(a)
  <2>1. o \in SeatOutputs \cup SeatViews \cup Bars \cup {Nothing}
    BY <1>4
  <2> QED
    BY <1>9, <1>10, <2>1, SetActiveRight
<1>12. BarsMapped(a)
  BY <1>9, <1>11 DEF BarsMapped, SameWorld
<1>13. CASE t = a
  BY <1>1, <1>11, <1>12, <1>13, RightOnceFocused
<1>14. CASE t = refocus(a)
  <2>1. WellFormed(t) /\ SameWorld(a, t) /\ t.focus = Best(t)
    BY <1>11, <1>14, RefocusRight
  <2>2. BarsMapped(t)
    BY <1>12, <2>1 DEF BarsMapped, SameWorld
  <2> QED
    BY <1>1, <2>1, <2>2, RightOnceFocused
<1> QED
  BY <1>3, <1>5, <1>6, <1>10, <1>13, <1>14

(* The session is unlocked.                                                *)
LEMMA UnlockKeeps ==
  ASSUME SeatFocusAssumption, SeatRight(seat), Unlock
  PROVE  SeatRight(seat')
<1>1. PICK s, t : s = seat /\ t = seat'
  OBVIOUS
<1>2. s \in Seats /\ WellFormed(s) /\ BarsMapped(s)
  BY <1>1 DEF SeatRight, WellFormed, Sequenced
<1>3. PICK a : a = Folded(Freed, s, SetToSeq(s.locked))
  OBVIOUS
<1>4. a = s
  BY <1>2, <1>3, UnlockLoop
<1>5. PICK u : u = [s EXCEPT !.locked = {}]
  OBVIOUS
<1>6. t = refocus(u)
  <2>1. t = refocus([a EXCEPT !.locked = {}])
    BY <1>1, <1>3, Zenon DEF Unlock
  <2> QED
    BY <1>4, <1>5, <2>1
<1>7. u \in Seats
  BY <1>2, <1>5 DEF Seats
<1>8. OtherFields(s, u)
  BY <1>2, <1>5 DEF Seats, OtherFields
<1>9. WellFormed(u) /\ BarsMapped(u)
  BY <1>2, <1>7, <1>8, OthersStay
<1>10. WellFormed(t) /\ SameWorld(u, t) /\ t.focus = Best(t)
  BY <1>6, <1>9, RefocusRight
<1>11. BarsMapped(t)
  BY <1>9, <1>10 DEF BarsMapped, SameWorld
<1> QED
  BY <1>1, <1>10, <1>11, RightOnceFocused

(* The events: outputs.                                                    *)
LEMMA UnplugKeeps ==
  ASSUME SeatFocusAssumption, SeatRight(seat), Unplug
  PROVE  SeatRight(seat')
<1>1. PICK s : s = seat
  OBVIOUS
<1>2. s \in Seats /\ SeatRight(s)
  BY <1>1 DEF SeatRight, WellFormed, Sequenced
<1>3. PICK o \in s.present, next \in s.present :
        /\ next # o
        /\ LET a == cancel_active_plugins(s, o) IN
           seat' = [LockScreenEnds(transfer_views(IF a.output = o THEN focus_output(a, next) ELSE a, o), o)
                      EXCEPT !.present = @ \ {o}]
  BY <1>1 DEF Unplug
<1>4. o \in SeatOutputs /\ next \in SeatOutputs /\ next # o
  BY <1>2, <1>3 DEF Seats
<1>5. PICK a : a = cancel_active_plugins(s, o)
  OBVIOUS
<1>6. SeatRight(a)
  <2>1. CASE s.grab = o
    <3>1. a = refocus([s EXCEPT !.grab = Nothing])
      BY <1>5, <2>1 DEF cancel_active_plugins
    <3> QED
      BY <1>2, <3>1, GrabEndsRight
  <2>2. CASE s.grab # o
    BY <1>2, <1>5, <2>2 DEF cancel_active_plugins
  <2> QED
    BY <2>1, <2>2
<1>7. PICK b : b = IF a.output = o THEN focus_output(a, next) ELSE a
  OBVIOUS
<1>8. SeatRight(b) /\ b.output # o
  <2>1. CASE a.output = o
    <3>1. b = focus_output(a, next)
      BY <1>7, <2>1
    <3>2. SeatRight(b) /\ b.output = next
      BY <1>4, <1>6, <3>1, OutputKeeps
    <3> QED
      BY <1>4, <3>2
  <2>2. CASE a.output # o
    BY <1>6, <1>7, <2>2
  <2> QED
    BY <2>1, <2>2
<1>9. PICK c : c = transfer_views(b, o)
  OBVIOUS
<1>10. SeatRight(c) /\ c.output = b.output
  BY <1>8, <1>9, TransferRight
<1>11. PICK d : d = LockScreenEnds(c, o)
  OBVIOUS
<1>12. SeatRight(d)
  BY <1>4, <1>8, <1>10, <1>11, LockEndsRight
<1>13. PICK p \in SUBSET SeatOutputs : p = d.present \ {o}
  BY <1>12 DEF SeatRight, WellFormed, Sequenced, Seats
<1>14. PICK t : t = seat'
  OBVIOUS
<1>15. t = [d EXCEPT !.present = p]
  BY <1>3, <1>5, <1>7, <1>9, <1>11, <1>13, <1>14
<1>16. SeatRight(t)
  BY <1>12, <1>15, PresentRight
<1> QED
  BY <1>14, <1>16

(* An output is plugged in.                                                *)
LEMMA PlugKeeps ==
  ASSUME SeatFocusAssumption, SeatRight(seat), Plug
  PROVE  SeatRight(seat')
<1>1. PICK s, t : s = seat /\ t = seat'
  OBVIOUS
<1>2. s \in Seats /\ SeatRight(s)
  BY <1>1 DEF SeatRight, WellFormed, Sequenced
<1>3. PICK o \in SeatOutputs : t = [s EXCEPT !.present = @ \cup {o}]
  BY <1>1 DEF Plug
<1>4. PICK p \in SUBSET SeatOutputs : p = s.present \cup {o}
  BY <1>2 DEF Seats
<1>5. t = [s EXCEPT !.present = p]
  BY <1>3, <1>4
<1>6. SeatRight(t)
  BY <1>2, <1>5, PresentRight
<1> QED
  BY <1>1, <1>6

(* The seat as it is made.                                                 *)
LEMMA SeatFocusStarts ==
  ASSUME SeatFocusAssumption, SeatFocusInit
  PROVE  SeatRight(seat)
<1>1. PICK o \in SeatOutputs :
        seat = [output |-> o, present |-> SeatOutputs, focus |-> Nothing, active |-> Nothing, toplevel |-> Nothing,
                activated |-> {}, recent |-> <<>>, newest |-> "never", stack |-> <<>>, bars |-> <<>>,
                grab |-> Nothing, locked |-> {}, view |-> [v \in SeatViews |-> NoSeatView],
                bar |-> [b \in Bars |-> NoBar], unseen |-> FALSE]
  BY DEF SeatFocusInit
<1>2. PICK s : s = seat
  OBVIOUS
<1>3. PICK view \in [SeatViews -> ViewStates] : view = [v \in SeatViews |-> NoSeatView]
  BY DEF NoSeatView, ViewStates
<1>4. PICK bar \in [Bars -> BarStates] : bar = [b \in Bars |-> NoBar]
  BY DEF NoBar, BarStates
<1>5. PICK none : none = <<>>
  OBVIOUS
<1>6. /\ none \in Seq(SeatViews \cup Bars) /\ none \in Seq(SeatViews) /\ none \in Seq(Bars)
      /\ EachOnce(none) /\ ToSet(none) = {}
  BY <1>5 DEF EachOnce, ToSet
<1>7. s = [output |-> o, present |-> SeatOutputs, focus |-> Nothing, active |-> Nothing, toplevel |-> Nothing,
           activated |-> {}, recent |-> none, newest |-> "never", stack |-> none, bars |-> none,
           grab |-> Nothing, locked |-> {}, view |-> view, bar |-> bar, unseen |-> FALSE]
  BY <1>1, <1>2, <1>3, <1>4, <1>5
<1>8. s \in Seats
  BY <1>3, <1>4, <1>6, <1>7 DEF Seats, Places
<1>9. /\ s.output = o /\ s.focus = Nothing /\ s.active = Nothing /\ s.toplevel = Nothing /\ s.activated = {}
      /\ s.recent = none /\ s.stack = none /\ s.bars = none /\ s.grab = Nothing /\ s.locked = {} /\ s.view = view
  BY <1>7
<1>10. Sequenced(s)
  BY <1>6, <1>8, <1>9 DEF Sequenced
<1>11. OneActive(s)
  BY <1>9 DEF OneActive, SeatFocusAssumption
<1>12. Stacked(s)
  BY <1>3, <1>9 DEF Stacked, NoSeatView
<1>13. BarsMapped(s)
  BY <1>6, <1>9 DEF BarsMapped
<1>14. Best(s) = Nothing
  <2>1. InScene(s) = {o, Grab}
    BY <1>6, <1>9 DEF InScene
  <2>2. ImportanceOf(s, o) = 0
    BY <1>9 DEF ImportanceOf
  <2>3. ImportanceOf(s, Grab) = 0
    BY <1>9 DEF ImportanceOf, SeatFocusAssumption
  <2>4. IsBest(s, Nothing)
    BY <2>1, <2>2, <2>3 DEF IsBest, Live, Offers
  <2> QED
    BY <1>10, <2>4, BestOnly
<1>15. WellFormed(s) /\ s.focus = Best(s)
  BY <1>9, <1>10, <1>11, <1>12, <1>14 DEF WellFormed
<1> QED
  BY <1>2, <1>13, <1>15, RightOnceFocused

(* All the events.                                                         *)
LEMMA SeatFocusSteps ==
  ASSUME SeatFocusAssumption, SeatRight(seat), [SeatFocusNext]_seat
  PROVE  SeatRight(seat')
<1>1. CASE UNCHANGED seat
  BY <1>1
<1>2. ASSUME NEW v \in SeatViews, ForView(v) PROVE SeatRight(seat')
  BY <1>2, CreateKeeps, MapKeeps, UnmapKeeps, RequestKeeps, MinimizeKeeps, MoveViewKeeps, MoveToKeeps DEF ForView
<1>3. ASSUME NEW b \in Bars, ForBar(b) PROVE SeatRight(seat')
  BY <1>3, MapBarKeeps, CommitBarKeeps, UnmapBarKeeps DEF ForBar
<1>4. CASE FocusOutput
  <2>1. PICK s, t : s = seat /\ t = seat'
    OBVIOUS
  <2>2. PICK o \in SeatOutputs : t = focus_output(s, o)
    <3>1. seat.present \subseteq SeatOutputs
      BY DEF SeatRight, WellFormed, Sequenced, Seats
    <3> QED
      BY <1>4, <2>1, <3>1 DEF FocusOutput
  <2> QED
    BY <2>1, <2>2, OutputKeeps
<1>5. CASE FocusNothing \/ Switch \/ StartSeatGrab \/ EndSeatGrab
  BY <1>5, NothingKeeps, SwitchKeeps, StartKeeps, EndKeeps
<1>6. CASE Lock \/ Unlock \/ Unplug \/ Plug
  BY <1>6, LockKeeps, UnlockKeeps, UnplugKeeps, PlugKeeps
<1> QED
  BY <1>1, <1>2, <1>3, <1>4, <1>5, <1>6 DEF SeatFocusNext

(* What holds between two events is more than what the run checks.         *)
LEMMA SeatRightEnough ==
  ASSUME SeatRight(seat)
  PROVE  FocusGiven
BY DEF SeatRight, WellFormed, OneActive, FocusHeld, LockFocused, FocusThere,
       FocusGiven, LockHasKeys, FocusExists, FocusIsBest, OneActivated

(* While the focused output is locked its lock screen has the keyboard;    *)
(* the focus is on what is there; unless views or layer surfaces were      *)
(* changed and nobody refocused since, it is what a refocus would choose;  *)
(* and one toplevel looks activated, the one that was active last          *)
(* (seat.cpp, window-manager.cpp).                                         *)
THEOREM SeatFocusRight == SeatFocusSpec => []FocusGiven
<1>1. SeatFocusInit => SeatRight(seat)
  BY SeatFocusStarts, SeatFocusAssumption
<1>2. SeatRight(seat) /\ [SeatFocusNext]_seat => SeatRight(seat)'
  BY SeatFocusSteps, SeatFocusAssumption
<1>3. SeatRight(seat) => FocusGiven
  BY SeatRightEnough
<1> QED
  BY <1>1, <1>2, <1>3, PTL DEF SeatFocusSpec
==============================================================================

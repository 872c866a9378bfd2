---------------------------- MODULE OutputsProofs ----------------------------
(***************************************************************************)
(* The outputs, and the plugins that show all of the views on one.         *)
(*                                                                         *)
(* What the output layout promises, and the power saving on top of it, for *)
(* every set of outputs and views.                                         *)
(*                                                                         *)
(* OverviewsUndo holds for any number of views and every grid.  Expo's     *)
(* part is inductive together with the types, which say that the output's  *)
(* workspace is in its grid.  Scale's follows from ScaleOK: the counters   *)
(* of every view's nodes are what its own state and scale's data of it     *)
(* say, scale keeps something of a transformed view only, and it listens   *)
(* just while it is active.  The switchers' follows from SwitchersOK: the  *)
(* same of root nodes, and the list of the fast switcher has no view twice *)
(* and every view it has changed, wherever its index points.               *)
(***************************************************************************)
EXTENDS MCOverviews, IdleDpms, FiniteSetTheorems, SequenceTheorems, TLAPS

-----------------------------------------------------------------------------
(* The output layout: output-layout.cpp.                                   *)

(* An output that is not plugged in has no state left, so that the         *)
(* configuration of one that comes back always differs from it.            *)
Forgotten == \A o \in Outputs \ plugged : state[o] = Plain("INVALID")

LayoutInv ==
  TypeOK /\ AlwaysAnOutput /\ ViewsOnOutputs /\ MirrorsLive /\ NoopTimerRight /\ Forgotten

-----------------------------------------------------------------------------
(* The states that the code gives to an output are states.                 *)
LEMMA States ==
  /\ \A s \in Sources : Plain(s) \in OutputStates
  /\ Configurable \subseteq OutputStates
  /\ Plain("INVALID") \notin Configurable
  /\ ~SelfBit(Plain("INVALID"))
<1>1. ASSUME NEW s \in Sources PROVE Plain(s) \in OutputStates
  BY DEF Plain, OutputStates
<1>2. ASSUME NEW o \in Outputs PROVE MirrorOf(o) \in OutputStates
  BY DEF MirrorOf, OutputStates, Sources
<1>3. Configurable \subseteq OutputStates
  BY <1>1, <1>2 DEF Configurable, Sources
<1>4. Plain("INVALID") \notin Configurable
  BY DEF Configurable, Plain, MirrorOf
<1>5. ~SelfBit(Plain("INVALID"))
  BY DEF SelfBit, Plain
<1>. QED
  BY <1>1, <1>3, <1>4, <1>5

(* A render manager that is new starts with no inhibition.                 *)
LEMMA RenderingTypes ==
  ASSUME TypeOK, NEW W
  PROVE  Rendering(W) \in [Outputs -> -MaxInhibit..MaxInhibit]
  BY BoundAssumption DEF Rendering, TypeOK

(* apply_configuration() for a configuration that forgets what is not      *)
(* plugged in afterwards: it leaves an output with a desktop for every     *)
(* state that asks for one, the noop if there is none, the focus on one of *)
(* them, the views of what is turned off on the focus, and mirrors of what *)
(* shows only.                                                             *)
LEMMA Applied ==
  ASSUME LayoutInv, NEW conf \in [Outputs -> OutputStates], NEW dom \in SUBSET Outputs,
         ApplyConfiguration(conf, dom),
         plugged \subseteq dom, plugged' \subseteq dom,
         \A o \in Outputs \ plugged' : conf[o] = Plain("INVALID")
  PROVE  /\ state' = conf
         /\ wf' \subseteq plugged' \cup {Noop}
         /\ active' \in wf' /\ noopTimer' \in BOOLEAN
         /\ mirrors' \in [Outputs -> Outputs \cup {None}]
         /\ viewOn' \in [Views -> Outputs \cup {Noop}]
         /\ (AlwaysAnOutput /\ ViewsOnOutputs /\ MirrorsLive /\ NoopTimerRight /\ Forgotten)'
<1>. DEFINE withNoop == IF TurnsOffAllActive(conf) THEN {Noop} ELSE {}
            off      == {o \in dom : ~SelfBit(conf[o])}
            on       == dom \ off
            kept     == (wf \ off) \cup withNoop
            added    == on \ wf
<1>1. PICK focus \in IF active \in off THEN NextOutput(kept) ELSE {active} :
        /\ state' = conf
        /\ wf' = kept \cup added
        /\ viewOn' = [v \in Views |-> IF viewOn[v] \in off THEN focus ELSE viewOn[v]]
        /\ active' \in FocusAfter(focus, added)
        /\ noopTimer' = NoopTimerAfter(on, TurnsOffAllActive(conf))
        /\ mirrors' = MirrorSource(conf, kept \cup added)
  BY DEF ApplyConfiguration
<1>2. /\ plugged \subseteq Outputs /\ wf \subseteq plugged \cup {Noop} /\ Noop \notin Outputs
      /\ None \notin Outputs \cup {Noop} /\ wf \subseteq dom \cup {Noop}
  BY NoopAssumption DEF LayoutInv, TypeOK
<1>3. on \subseteq plugged' /\ on = {o \in plugged' : SelfBit(conf[o])}
  BY States
<1>4. wf' \ {Noop} = on /\ wf' = on \cup ((wf \cap {Noop}) \cup withNoop)
  BY <1>1, <1>2
<1>5. focus \in kept
  <2>1. CASE active \in off
    BY <1>1, <2>1 DEF NextOutput
  <2>2. CASE active \notin off
    BY <1>1, <2>2 DEF LayoutInv, AlwaysAnOutput
  <2>. QED
    BY <2>1, <2>2
<1>6. GetOutputs' = wf'
  BY <1>1, <1>2, <1>3, <1>4 DEF GetOutputs
<1>7. active' \in wf'
  BY <1>1, <1>5 DEF FocusAfter
<1>8. GetOutputs' # {}
  BY <1>6, <1>7
<1>9. ViewsOnOutputs' /\ viewOn' \in [Views -> Outputs \cup {Noop}]
  <2>1. \A v \in Views : viewOn'[v] \in wf'
    BY <1>1, <1>2, <1>5 DEF LayoutInv, ViewsOnOutputs
  <2>2. wf' \subseteq Outputs \cup {Noop}
    BY <1>2, <1>4
  <2>. QED
    BY <1>1, <2>1, <2>2 DEF ViewsOnOutputs
<1>10. NoopTimerRight' /\ noopTimer' \in BOOLEAN
  <2>1. CASE on # {}
    BY <1>1, <1>2, <1>4, <2>1 DEF NoopTimerAfter, NoopTimerRight
  <2>2. CASE on = {}
    <3>1. TurnsOffAllActive(conf)
      BY <1>2, <2>2 DEF TurnsOffAllActive, LayoutInv, AlwaysAnOutput
    <3>. QED
      BY <1>1, <1>4, <2>2, <3>1 DEF NoopTimerAfter, NoopTimerRight
  <2>. QED
    BY <2>1, <2>2
<1>11. MirrorsLive' /\ mirrors' \in [Outputs -> Outputs \cup {None}]
  <2>1. mirrors' = MirrorSource(conf, wf')
    BY <1>1
  <2>2. ASSUME NEW o \in Outputs, mirrors'[o] # None
        PROVE  /\ o \in plugged' \ wf'
               /\ mirrors'[o] \in plugged' \cap wf'
               /\ conf[mirrors'[o]].source = "SELF"
    <3>1. /\ conf[o].source = "MIRROR" /\ conf[o].from \in wf' /\ mirrors'[o] = conf[o].from
          /\ ~NoneBit(conf[conf[o].from])
      BY <2>1, <2>2 DEF MirrorSource
    <3>2. o \in plugged' /\ o \notin on /\ o # Noop
      BY <1>2, <3>1 DEF Plain, SelfBit
    <3>3. conf[o].from \in Outputs \cup {None}
      BY DEF OutputStates
    <3>4. conf[o].from \in on
      BY <1>2, <1>4, <3>1, <3>3
    <3>5. conf[conf[o].from].source = "SELF"
      BY <3>1, <3>4 DEF SelfBit, NoneBit
    <3>. QED
      BY <1>3, <1>4, <3>1, <3>2, <3>4, <3>5
  <2>3. \A o \in Outputs : mirrors'[o] \in Outputs \cup {None}
    BY <2>1 DEF MirrorSource, OutputStates
  <2>4. mirrors' \in [Outputs -> Outputs \cup {None}]
    BY <2>1, <2>3 DEF MirrorSource
  <2>. QED
    BY <1>1, <2>2, <2>4 DEF MirrorsLive
<1>12. Forgotten'
  BY <1>1 DEF Forgotten
<1>13. wf' \subseteq plugged' \cup {Noop}
  BY <1>3, <1>4
<1>. QED
  BY <1>1, <1>6, <1>7, <1>8, <1>9, <1>10, <1>11, <1>12, <1>13 DEF AlwaysAnOutput

(* ... and so such a change of the layout keeps its invariant.             *)
LEMMA AppliedInv ==
  ASSUME LayoutInv, NEW conf \in [Outputs -> OutputStates], NEW dom \in SUBSET Outputs,
         ApplyConfiguration(conf, dom),
         plugged \subseteq dom, plugged' \subseteq dom,
         \A o \in Outputs \ plugged' : conf[o] = Plain("INVALID"),
         cfg' \in [Outputs -> Configurable],
         inhibited' \in [Outputs -> BOOLEAN],
         render' \in [Outputs -> -MaxInhibit..MaxInhibit]
  PROVE  LayoutInv'
<1>1. plugged' \subseteq Outputs /\ active' \in Outputs \cup {Noop} /\ state' \in [Outputs -> OutputStates]
  BY Applied
<1>. QED
  BY <1>1, Applied DEF LayoutInv, TypeOK

-----------------------------------------------------------------------------
(* The file is read again, or for the first time for a new output.         *)
LEMMA Reconfigured ==
  ASSUME LayoutInv, NEW c \in [Outputs -> Configurable], NEW dom \in SUBSET Outputs,
         ReconfigureFromConfig(c, dom), cfg' = c, plugged' = dom, plugged \subseteq dom,
         UNCHANGED inhibited
  PROVE  LayoutInv'
<1>. DEFINE conf == [o \in Outputs |-> IF o \in dom THEN c[o] ELSE Plain("INVALID")]
<1>1. conf \in [Outputs -> OutputStates]
  BY States DEF Sources
<1>2. inhibited' \in [Outputs -> BOOLEAN]
  BY DEF LayoutInv, TypeOK
<1>3. CASE \E o \in dom : ~SameState(conf[o], state[o])
  <2>1. ApplyConfiguration(conf, dom) /\ render' = Rendering(wf')
    BY <1>3 DEF ReconfigureFromConfig
  <2>2. render' \in [Outputs -> -MaxInhibit..MaxInhibit]
    BY <2>1, RenderingTypes DEF LayoutInv
  <2>. HIDE DEF conf
  <2>3. \A o \in Outputs \ plugged' : conf[o] = Plain("INVALID")
    BY DEF conf
  <2>. QED
    BY <1>1, <1>2, <2>1, <2>2, <2>3, AppliedInv
<1>4. CASE ~\E o \in dom : ~SameState(conf[o], state[o])
  <2>1. UNCHANGED <<state, wf, active, noopTimer, mirrors, render, viewOn>>
    BY <1>4 DEF ReconfigureFromConfig
  <2>2. dom \subseteq plugged
    <3>1. SUFFICES ASSUME NEW o \in dom, o \notin plugged PROVE FALSE
      OBVIOUS
    <3>2. state[o] = c[o] /\ state[o] = Plain("INVALID") /\ c[o] \in Configurable
      BY <1>4, <3>1 DEF SameState, LayoutInv, Forgotten
    <3>. QED
      BY <3>2, States
  <2>3. UNCHANGED plugged
    BY <2>2
  <2>. QED
    BY <2>1, <2>3
    DEF LayoutInv, TypeOK, AlwaysAnOutput, GetOutputs, ViewsOnOutputs, MirrorsLive, NoopTimerRight,
        Forgotten
<1>. QED
  BY <1>3, <1>4

(* Plugging and unplugging an output, and the requests of clients.         *)
LEMMA PluggedInv ==
  ASSUME LayoutInv, NEW o \in Outputs, AddOutput(o) \/ RemoveOutput(o)
  PROVE  LayoutInv'
<1>1. CASE AddOutput(o)
  <2>1. plugged \cup {o} \in SUBSET Outputs /\ cfg \in [Outputs -> Configurable]
    BY DEF LayoutInv, TypeOK
  <2>. QED
    BY <1>1, <2>1, Reconfigured DEF AddOutput
<1>2. CASE RemoveOutput(o)
  <2>. DEFINE conf == [state EXCEPT ![o] = Plain("INVALID")]
  <2>1. /\ plugged' = plugged \ {o} /\ ApplyConfiguration(conf, plugged)
        /\ render' = Rendering(wf') /\ inhibited' = [inhibited EXCEPT ![o] = FALSE]
        /\ UNCHANGED cfg
    BY <1>2 DEF RemoveOutput
  <2>2. conf \in [Outputs -> OutputStates] /\ plugged \in SUBSET Outputs
    BY States DEF LayoutInv, TypeOK, Sources
  <2>3. \A x \in Outputs \ plugged' : conf[x] = Plain("INVALID")
    BY <2>1 DEF LayoutInv, TypeOK, Forgotten
  <2>4. /\ render' \in [Outputs -> -MaxInhibit..MaxInhibit] /\ cfg' \in [Outputs -> Configurable]
        /\ inhibited' \in [Outputs -> BOOLEAN]
    BY <2>1, RenderingTypes DEF LayoutInv, TypeOK
  <2>. HIDE DEF conf
  <2>. QED
    BY <2>1, <2>2, <2>3, <2>4, AppliedInv
<1>. QED
  BY <1>1, <1>2

(* A configuration for the outputs that are plugged in, from anybody.      *)
LEMMA ReplacedInv ==
  ASSUME LayoutInv, NEW conf \in [Outputs -> OutputStates],
         \A o \in Outputs \ plugged : conf[o] = state[o],
         ApplyConfiguration(conf, plugged), UNCHANGED <<plugged, cfg>>,
         inhibited' \in [Outputs -> BOOLEAN],
         render' \in [Outputs -> -MaxInhibit..MaxInhibit]
  PROVE  LayoutInv'
<1>1. \A o \in Outputs \ plugged' : conf[o] = Plain("INVALID")
  BY DEF LayoutInv, Forgotten
<1>2. plugged \in SUBSET Outputs /\ cfg' \in [Outputs -> Configurable]
  BY DEF LayoutInv, TypeOK
<1>. QED
  BY <1>1, <1>2, AppliedInv

(* What is known of a configuration that is asked for.                      *)
LEMMA RequestInv ==
  ASSUME LayoutInv,
         \/ \E enabled \in SUBSET plugged : ApplyWlrConfiguration(enabled)
         \/ \E o \in Outputs, off \in BOOLEAN : SetPowerMode(o, off)
  PROVE  LayoutInv'
<1>1. inhibited \in [Outputs -> BOOLEAN] /\ state \in [Outputs -> OutputStates]
  BY DEF LayoutInv, TypeOK
<1>2. ASSUME NEW enabled \in SUBSET plugged, ApplyWlrConfiguration(enabled) PROVE LayoutInv'
  <2>. DEFINE conf == [o \in Outputs |-> IF o \in enabled THEN Plain("SELF")
                                         ELSE IF o \in plugged THEN Plain("NONE")
                                         ELSE state[o]]
  <2>1. ApplyConfiguration(conf, plugged) /\ render' = Rendering(wf')
        /\ UNCHANGED <<plugged, cfg, inhibited>>
    BY <1>2 DEF ApplyWlrConfiguration
  <2>2. conf \in [Outputs -> OutputStates]
    BY <1>1, States DEF Sources
  <2>3. \A o \in Outputs \ plugged : conf[o] = state[o]
    OBVIOUS
  <2>4. render' \in [Outputs -> -MaxInhibit..MaxInhibit]
    BY <2>1, RenderingTypes DEF LayoutInv
  <2>. HIDE DEF conf
  <2>. QED
    BY <1>1, <2>1, <2>2, <2>3, <2>4, ReplacedInv
<1>3. ASSUME NEW o \in Outputs, NEW off \in BOOLEAN, SetPowerMode(o, off) PROVE LayoutInv'
  <2>. DEFINE conf == [state EXCEPT ![o] = Plain(IF off THEN "DPMS" ELSE "SELF")]
  <2>1. /\ o \in plugged /\ ApplyConfiguration(conf, plugged) /\ UNCHANGED <<plugged, cfg>>
        /\ inhibited' = [inhibited EXCEPT ![o] = off]
        /\ render' = [Rendering(wf') EXCEPT
                        ![o] = IF inhibited[o] = off THEN @ ELSE IF off THEN @ + 1 ELSE @ - 1]
        /\ render'[o] \in -MaxInhibit..MaxInhibit
    BY <1>3 DEF SetPowerMode
  <2>2. conf \in [Outputs -> OutputStates] /\ inhibited' \in [Outputs -> BOOLEAN]
    BY <1>1, <2>1, States DEF Sources
  <2>3. \A x \in Outputs \ plugged : conf[x] = state[x]
    BY <1>1, <2>1
  <2>4. render' \in [Outputs -> -MaxInhibit..MaxInhibit]
    <3>1. Rendering(wf') \in [Outputs -> -MaxInhibit..MaxInhibit]
      BY RenderingTypes DEF LayoutInv
    <3>. HIDE DEF conf
    <3>. QED
      BY <2>1, <3>1
  <2>. HIDE DEF conf
  <2>. QED
    BY <2>1, <2>2, <2>3, <2>4, ReplacedInv
<1>. QED
  BY <1>2, <1>3

(* The noop goes, which nobody needs any more; views and focus move.       *)
LEMMA RemoveNoopInv ==
  ASSUME LayoutInv, RemoveNoopOutput
  PROVE  LayoutInv'
<1>1. noopTimer /\ UNCHANGED <<plugged, cfg, state, inhibited, render>>
  BY DEF RemoveNoopOutput
<1>2. CASE Noop \in wf
  <2>. DEFINE rest == wf \ {Noop}
  <2>1. /\ wf' = rest
        /\ active' \in IF active = Noop THEN NextOutput(GetOutputs) ELSE {active}
        /\ viewOn' = [v \in Views |-> IF viewOn[v] = Noop THEN active' ELSE viewOn[v]]
        /\ noopTimer' = (rest # {})
        /\ mirrors' = MirrorSource(state, rest)
    BY <1>2 DEF RemoveNoopOutput
  <2>2. rest # {} /\ GetOutputs = wf /\ active \in wf /\ wf \subseteq plugged \cup {Noop}
        /\ Noop \notin Outputs /\ None \notin Outputs \cup {Noop} /\ plugged \subseteq Outputs
    BY <1>1, <1>2, NoopAssumption DEF LayoutInv, NoopTimerRight, AlwaysAnOutput, TypeOK
  <2>3. active' \in rest
    BY <2>1, <2>2 DEF NextOutput
  <2>4. AlwaysAnOutput'
    BY <1>1, <2>1, <2>2, <2>3 DEF AlwaysAnOutput, GetOutputs
  <2>5. ViewsOnOutputs' /\ viewOn' \in [Views -> Outputs \cup {Noop}]
    BY <2>1, <2>2, <2>3 DEF LayoutInv, ViewsOnOutputs, TypeOK
  <2>6. NoopTimerRight' /\ noopTimer' \in BOOLEAN
    BY <2>1, <2>2 DEF NoopTimerRight
  <2>7. MirrorsLive'
    <3>1. SUFFICES ASSUME NEW o \in Outputs, mirrors'[o] # None
                   PROVE  /\ o \in plugged \ rest
                          /\ mirrors'[o] \in plugged \cap rest
                          /\ state[mirrors'[o]].source = "SELF"
      BY <1>1, <2>1 DEF MirrorsLive
    <3>2. /\ state[o].source = "MIRROR" /\ mirrors'[o] = state[o].from
          /\ state[o].from \in rest /\ ~NoneBit(state[state[o].from])
      BY <2>1, <3>1 DEF MirrorSource
    <3>3. o \in plugged /\ o \notin rest
      BY <2>2, <3>2 DEF LayoutInv, Forgotten, Plain, GetOutputs, SelfBit
    <3>4. state[o].from \in plugged /\ SelfBit(state[state[o].from])
      BY <2>2, <3>2 DEF GetOutputs
    <3>5. state[state[o].from].source = "SELF"
      BY <3>2, <3>4 DEF SelfBit, NoneBit
    <3>. QED
      BY <3>2, <3>3, <3>4, <3>5
  <2>8. mirrors' \in [Outputs -> Outputs \cup {None}]
    <3>1. \A o \in Outputs : state[o].from \in Outputs \cup {None}
      BY DEF LayoutInv, TypeOK, OutputStates
    <3>. QED
      BY <2>1, <3>1 DEF MirrorSource
  <2>. QED
    BY <1>1, <2>1, <2>2, <2>3, <2>4, <2>5, <2>6, <2>7, <2>8
    DEF LayoutInv, TypeOK, Forgotten
<1>3. CASE Noop \notin wf
  <2>1. noopTimer' = FALSE /\ UNCHANGED <<wf, active, viewOn, mirrors>>
    BY <1>3 DEF RemoveNoopOutput
  <2>. QED
    BY <1>1, <1>3, <2>1
    DEF LayoutInv, TypeOK, AlwaysAnOutput, GetOutputs, ViewsOnOutputs, MirrorsLive, NoopTimerRight,
        Forgotten
<1>. QED
  BY <1>2, <1>3

(* A view is moved, an output focused.                                     *)
LEMMA MovedInv ==
  ASSUME LayoutInv,
         \/ \E v \in Views, o \in wf : MoveView(v, o)
         \/ \E o \in wf : FocusOutput(o)
         \/ UNCHANGED vars
  PROVE  LayoutInv'
<1>1. UNCHANGED <<plugged, cfg, state, wf, noopTimer, mirrors, inhibited, render>>
  BY DEF MoveView, FocusOutput, vars
<1>2. wf \subseteq Outputs \cup {Noop}
  BY DEF LayoutInv, TypeOK
<1>3. active' \in wf /\ viewOn' \in [Views -> wf]
  BY DEF LayoutInv, AlwaysAnOutput, ViewsOnOutputs, TypeOK, MoveView, FocusOutput, vars
<1>. QED
  BY <1>1, <1>2, <1>3
  DEF LayoutInv, TypeOK, AlwaysAnOutput, GetOutputs, ViewsOnOutputs, MirrorsLive, NoopTimerRight,
      Forgotten

(* The invariant holds when the layout starts.                              *)
LEMMA InitLayout == Init => LayoutInv
<1>. SUFFICES ASSUME Init PROVE LayoutInv
  OBVIOUS
<1>1. TypeOK
  <2>1. Plain("INVALID") \in OutputStates
    BY States DEF Sources
  <2>2. 0 \in -MaxInhibit..MaxInhibit
    BY BoundAssumption
  <2>. HIDE DEF Plain
  <2>. QED
    BY <2>1, <2>2 DEF Init, TypeOK
<1>2. AlwaysAnOutput /\ ViewsOnOutputs /\ MirrorsLive /\ NoopTimerRight /\ Forgotten
  BY DEF Init, AlwaysAnOutput, GetOutputs, ViewsOnOutputs, MirrorsLive, NoopTimerRight, Forgotten
<1>. QED
  BY <1>1, <1>2 DEF LayoutInv

(* Every step keeps the invariant.                                          *)
LEMMA NextLayout == LayoutInv /\ [Next]_vars => LayoutInv'
<1>. SUFFICES ASSUME LayoutInv, [Next]_vars PROVE LayoutInv'
  OBVIOUS
<1>1. CASE \E c \in [Outputs -> Configurable] : ReloadConfig(c)
  <2>1. plugged \in SUBSET Outputs
    BY DEF LayoutInv, TypeOK
  <2>. QED
    BY <1>1, <2>1, Reconfigured DEF ReloadConfig
<1>. QED
  BY <1>1, PluggedInv, RequestInv, RemoveNoopInv, MovedInv DEF Next, LayoutNext

(* apply_configuration() never leaves the seat without an output: what     *)
(* get_outputs() lists has a wf::output_t, the active output is one of     *)
(* them, and the noop is removed if and only if others have come.          *)
THEOREM LayoutHasOutput == Spec => []OutputRemains
<1>1. LayoutInv => OutputRemains
  BY DEF LayoutInv, OutputRemains
<1>. QED
  BY <1>1, InitLayout, NextLayout, PTL DEF Spec

(* No view stays on an output that is gone, and no mirror copies one that  *)
(* is gone or powered off.                                                 *)
THEOREM LayoutStrandsNothing == Spec => []NothingStranded
<1>1. LayoutInv => NothingStranded
  BY DEF LayoutInv, NothingStranded
<1>. QED
  BY <1>1, InitLayout, NextLayout, PTL DEF Spec

-----------------------------------------------------------------------------
(***************************************************************************)
(* Power saving.  While an inhibitor lives the shared plugin is connected  *)
(* to nothing; without one, what is idle or will be is connected to input. *)
(***************************************************************************)
Connected ==
  /\ isIdle \in BOOLEAN /\ timer \in BOOLEAN /\ listening \in Nat /\ inhibitors \in Nat
  /\ inhibitors > 0 => listening = 0 /\ ~timer
  /\ timer => listening > 0 /\ ~isIdle
  /\ isIdle /\ inhibitors = 0 => listening > 0

IdleInv == LayoutInv /\ Connected

(* The layout is what it was or what set_state() makes of it.              *)
LEMMA SetStateInv ==
  ASSUME LayoutInv, NEW from \in Sources, NEW to \in Sources, SetState(from, to)
  PROVE  LayoutInv'
<1>. DEFINE conf == [o \in Outputs |-> IF o \in plugged /\ state[o].source = from
                                         THEN Plain(to) ELSE state[o]]
<1>1. ApplyConfiguration(conf, plugged) /\ render' = Rendering(wf')
      /\ UNCHANGED <<plugged, cfg, inhibited>>
  BY DEF SetState
<1>2. state \in [Outputs -> OutputStates] /\ inhibited \in [Outputs -> BOOLEAN]
  BY DEF LayoutInv, TypeOK
<1>3. conf \in [Outputs -> OutputStates]
  BY <1>2, States
<1>4. \A o \in Outputs \ plugged : conf[o] = state[o]
  OBVIOUS
<1>5. render' \in [Outputs -> -MaxInhibit..MaxInhibit]
  BY <1>1, RenderingTypes DEF LayoutInv
<1>. HIDE DEF conf
<1>. QED
  BY <1>1, <1>2, <1>3, <1>4, <1>5, ReplacedInv

(* idle.cpp: the timers are made again.                                     *)
LEMMA CreateTimeoutInv ==
  ASSUME LayoutInv, NEW calls, CreateDpmsTimeout(calls)
  PROVE  LayoutInv'
<1>1. SetState("DPMS", "SELF") \/ UNCHANGED vars
  BY DEF CreateDpmsTimeout
<1>. QED
  BY <1>1, SetStateInv, MovedInv DEF Sources

(* There are outputs, and finitely many of them.                           *)
LEMMA InstancesCounted ==
  ASSUME LayoutInv
  PROVE  Cardinality(wf) \in Nat /\ Cardinality(wf) > 0
<1>1. IsFiniteSet(Outputs \cup {Noop})
  BY IdleAssumption, FS_AddElement
<1>2. wf \in SUBSET (Outputs \cup {Noop}) /\ wf # {}
  BY DEF LayoutInv, TypeOK, AlwaysAnOutput
<1>3. IsFiniteSet(wf)
  BY <1>1, <1>2, FS_Subset
<1>. QED
  BY <1>2, <1>3, FS_CardinalityType, FS_EmptySet

(* Every step of the idle plugin keeps the invariant.                       *)
LEMMA IdleNextInv == IdleInv /\ [IdleNext]_allVars => IdleInv'
<1>. SUFFICES ASSUME IdleInv, [IdleNext]_allVars PROVE IdleInv'
  OBVIOUS
<1>0. LayoutInv /\ Connected
  BY DEF IdleInv
<1>1. CASE (Next \/ UNCHANGED vars) /\ UNCHANGED idleVars
  <2>1. LayoutInv'
    BY <1>0, <1>1, NextLayout
  <2>2. Connected'
    BY <1>0, <1>1 DEF Connected, idleVars
  <2>. QED
    BY <2>1, <2>2 DEF IdleInv
<1>2. CASE SeatActivity
  <2>1. CASE listening > 0
    <3>1. CreateDpmsTimeout(listening) /\ UNCHANGED <<listening, inhibitors>>
      BY <1>2, <2>1 DEF SeatActivity
    <3>2. LayoutInv'
      BY <1>0, <3>1, CreateTimeoutInv
    <3>3. Connected'
      BY <1>0, <2>1, <3>1 DEF Connected, CreateDpmsTimeout
    <3>. QED
      BY <3>2, <3>3 DEF IdleInv
  <2>2. CASE ~(listening > 0)
    <3>1. UNCHANGED <<isIdle, timer, vars, listening, inhibitors>>
      BY <1>2, <2>2 DEF SeatActivity
    <3>2. LayoutInv'
      BY <1>0, <3>1, MovedInv
    <3>3. Connected'
      BY <1>0, <3>1 DEF Connected
    <3>. QED
      BY <3>2, <3>3 DEF IdleInv
  <2>. QED
    BY <2>1, <2>2
<1>3. CASE DpmsTimeout
  <2>1. LayoutInv'
    BY <1>0, <1>3, SetStateInv DEF DpmsTimeout, Sources
  <2>2. Connected'
    BY <1>0, <1>3 DEF Connected, DpmsTimeout
  <2>. QED
    BY <2>1, <2>2 DEF IdleInv
<1>4. CASE CreateInhibitor
  <2>1. LayoutInv'
    BY <1>0, <1>4, MovedInv DEF CreateInhibitor
  <2>2. inhibitors' = inhibitors + 1 /\ listening' = 0 /\ timer' = FALSE /\ isIdle' = isIdle
    BY <1>4 DEF CreateInhibitor
  <2>3. Connected'
    <3>1. isIdle' \in BOOLEAN /\ timer' \in BOOLEAN
      BY <1>0, <2>2, Zenon DEF Connected
    <3>4. listening' \in Nat /\ inhibitors' \in Nat
      BY <1>0, <2>2 DEF Connected
    <3>2. inhibitors' # 0
      BY <1>0, <2>2 DEF Connected
    <3>3. ~timer' /\ listening' = 0
      BY <2>2
    <3>. QED
      BY <3>1, <3>2, <3>3, <3>4, Zenon DEF Connected
  <2>. QED
    BY <2>1, <2>3 DEF IdleInv
<1>5. CASE DestroyInhibitor
  <2>1. inhibitors > 0 /\ inhibitors' = inhibitors - 1
    BY <1>5 DEF DestroyInhibitor
  <2>2. CASE inhibitors' = 0
    <3>1. listening' = listening + Cardinality(wf) /\ CreateDpmsTimeout(Cardinality(wf))
      BY <1>5, <2>2 DEF DestroyInhibitor
    <3>2. LayoutInv'
      BY <1>0, <3>1, CreateTimeoutInv
    <3>3. Cardinality(wf) \in Nat /\ Cardinality(wf) > 0
      BY <1>0, InstancesCounted
    <3>4. Connected'
      BY <1>0, <2>1, <2>2, <3>1, <3>3 DEF Connected, CreateDpmsTimeout
    <3>. QED
      BY <3>2, <3>4 DEF IdleInv
  <2>3. CASE inhibitors' # 0
    <3>1. UNCHANGED <<isIdle, timer, listening, vars>>
      BY <1>5, <2>3 DEF DestroyInhibitor
    <3>2. LayoutInv'
      BY <1>0, <3>1, MovedInv
    <3>3. Connected'
      BY <1>0, <2>1, <2>3, <3>1 DEF Connected
    <3>. QED
      BY <3>2, <3>3 DEF IdleInv
  <2>. QED
    BY <2>2, <2>3
<1>. QED
  BY <1>1, <1>2, <1>3, <1>4, <1>5 DEF IdleNext, allVars

(* Every step keeps the invariant.                                          *)
LEMMA IdleInductive == IdleSpec => []IdleInv
<1>1. IdleInit => IdleInv
  <2>. SUFFICES ASSUME IdleInit PROVE IdleInv
    OBVIOUS
  <2>1. PICK disableInitially \in BOOLEAN :
          /\ timer = ~disableInitially
          /\ listening = IF disableInitially THEN 0 ELSE 1
    BY DEF IdleInit
  <2>2. isIdle = FALSE /\ inhibitors = 0
    BY DEF IdleInit
  <2>3. timer <=> listening > 0
    <3>1. CASE disableInitially
      <4>1. ~timer
        BY <2>1, <3>1, Zenon
      <4>2. ~(listening > 0)
        BY <2>1, <3>1
      <4>. QED
        BY <4>1, <4>2, Zenon
    <3>2. CASE ~disableInitially
      <4>1. timer
        BY <2>1, <3>2, Zenon
      <4>2. listening > 0
        BY <2>1, <3>2
      <4>. QED
        BY <4>1, <4>2, Zenon
    <3>. QED
      BY <3>1, <3>2
  <2>4. isIdle \in BOOLEAN /\ timer \in BOOLEAN /\ listening \in Nat /\ inhibitors \in Nat
    BY <2>1, <2>2
  <2>5. ~(inhibitors > 0) /\ ~isIdle
    BY <2>2
  <2>6. Connected
    BY <2>3, <2>4, <2>5, Zenon DEF Connected
  <2>. QED
    BY <2>6, InitLayout DEF IdleInit, IdleInv
<1>. QED
  BY <1>1, IdleNextInv, PTL DEF IdleSpec

(* Outputs that the idle plugin put to sleep can be woken: once no         *)
(* inhibitor is left, its input handler is connected, whatever inhibitors, *)
(* outputs and timers did in between.                                      *)
THEOREM SleepersWake == IdleSpec => []CanWake
<1>1. IdleInv => CanWake
  BY DEF IdleInv, Connected, CanWake
<1>. QED
  BY <1>1, IdleInductive, PTL

(* The layout keeps its promises under power saving, too, and rendering    *)
(* stays well typed.                                                       *)
THEOREM PowerSavingStrandsNothing == IdleSpec => [](OutputRemains /\ NothingStranded /\ TypeOK)
<1>1. IdleInv => OutputRemains /\ NothingStranded /\ TypeOK
  BY DEF IdleInv, LayoutInv, OutputRemains, NothingStranded
<1>. QED
  BY <1>1, IdleInductive, PTL

-----------------------------------------------------------------------------
(* Expo: expo.cpp.                                                         *)
ExpoStates ==
  [active : BOOLEAN, pressed : BOOLEAN, zoomIn : BOOLEAN, accepting : BOOLEAN, running : BOOLEAN,
   target : Int, initial : Int, goal : Int, fade : Int, held : SUBSET (Holdings \cup {"repeat"}),
   bound : BOOLEAN, drag : BOOLEAN, cut : BOOLEAN, moved : BOOLEAN]

ExpoTypes ==
  /\ expo \in ExpoStates
  /\ egrid \in 1..MaxExpoGrid
  /\ ecur \in ExpoSpots

ExpoInv == ExpoTypes /\ ExpoRight

(* The invariant holds before expo starts.                                  *)
LEMMA ExpoStarts == ExpoInit => ExpoInv
  BY ExpoAssumption DEF ExpoInit, ExpoInv, ExpoTypes, ExpoStates, ExpoRight, ExpoSpots, Holdings

(* The way out: deactivate() from a state that is right but for the target. *)
LEMMA LeaveKeeps ==
  ASSUME ExpoInv, NEW e \in ExpoStates, e.active, e.target \in ExpoSpots, e.initial = expo.initial,
         e.fade = expo.fade, e.held = expo.held, expo.active, e.cut = expo.cut,
         ExpoLeave(e), egrid' = egrid
  PROVE  ExpoInv'
  BY ExpoAssumption DEF ExpoInv, ExpoTypes, ExpoStates, ExpoRight, ExpoSpots, ExpoLeave

(* Arrow keys wrap around in the grid.                                     *)
LEMMA Wraps ==
  ASSUME NEW n \in Nat \ {0}, NEW t \in 0..(n - 1), NEW dir \in {-1, 1}
  PROVE  (t + dir + n) % n \in 0..(n - 1)
  OBVIOUS

(* What a new target leaves as it was.                                      *)
LEMMA Retargeted ==
  ASSUME NEW e \in ExpoStates, NEW t \in Int, NEW r, r = [e EXCEPT !.target = t]
  PROVE  /\ r \in ExpoStates /\ r.target = t
         /\ r.active = e.active /\ r.initial = e.initial /\ r.fade = e.fade /\ r.held = e.held
         /\ r.goal = e.goal /\ r.zoomIn = e.zoomIn /\ r.moved = e.moved /\ r.bound = e.bound /\ r.cut = e.cut
  BY DEF ExpoStates

(* An arrow key moves the target by one and wraps around the grid.          *)
LEMMA ArrowKeeps ==
  ASSUME ExpoInv, NEW dir \in {-1, 1}, expo.active, expo.accepting, expo' = Arrow(expo, dir),
         UNCHANGED <<ecur, egrid>>
  PROVE  ExpoInv'
<1>1. /\ egrid \in Nat \ {0} /\ expo.target \in 0..(egrid - 1)
  BY ExpoAssumption DEF ExpoInv, ExpoTypes, ExpoRight, ExpoSpots
<1> DEFINE spot == (expo.target + dir + egrid) % egrid
<1>2. spot \in 0..(egrid - 1)
  BY <1>1, Wraps
<1>3. expo' = [expo EXCEPT !.target = spot, !.held = @ \cup {"repeat"}]
  BY DEF Arrow
<1> HIDE DEF spot
<1>4. /\ expo.held \cup {"repeat"} \in SUBSET (Holdings \cup {"repeat"})
      /\ Holdings \subseteq expo.held \cup {"repeat"}
  BY DEF ExpoInv, ExpoTypes, ExpoStates, ExpoRight
<1>5. expo' \in ExpoStates
  <2> DEFINE e == [expo EXCEPT !.held = @ \cup {"repeat"}]
  <2>1. e \in ExpoStates
    BY <1>4 DEF ExpoInv, ExpoTypes, ExpoStates
  <2>2. expo' = [e EXCEPT !.target = spot]
    BY <1>3 DEF ExpoInv, ExpoTypes, ExpoStates
  <2> HIDE DEF e
  <2> QED
    BY <1>1, <1>2, <2>1, <2>2, Retargeted
<1>6. /\ expo'.target = spot /\ expo'.held = expo.held \cup {"repeat"} /\ expo'.active
      /\ expo'.initial = expo.initial /\ expo'.fade = expo.fade /\ expo'.goal = expo.goal
      /\ expo'.zoomIn = expo.zoomIn /\ expo'.moved = expo.moved
  BY <1>3 DEF ExpoInv, ExpoTypes, ExpoStates
<1> QED
  BY <1>1, <1>2, <1>4, <1>5, <1>6 DEF ExpoInv, ExpoTypes, ExpoRight, ExpoSpots

(* Every action keeps the invariant.                                       *)
LEMMA ExpoKeeps == ExpoInv /\ [ExpoNext]_expoVars => ExpoInv'
<1> SUFFICES ASSUME ExpoInv, [ExpoNext]_expoVars PROVE ExpoInv'
  OBVIOUS
<1> USE ExpoAssumption DEF ExpoInv, ExpoTypes, ExpoStates, ExpoRight, ExpoSpots
<1>1. CASE ExpoActivate
<2>1. Holdings \in SUBSET (Holdings \cup {"repeat"})
  OBVIOUS
<2>2. ecur \in Int /\ egrid \in Int
  OBVIOUS
<2>3. expo' \in ExpoStates
  BY <1>1, <2>1, <2>2 DEF ExpoActivate
<2>4. /\ expo'.active /\ expo'.target = ecur /\ expo'.initial = ecur /\ expo'.fade = egrid
      /\ expo'.held = Holdings /\ expo'.zoomIn
  BY <1>1 DEF ExpoActivate
<2> QED
  BY <1>1, <2>3, <2>4 DEF ExpoActivate
<1>2. CASE ExpoToggle
  BY <1>2, LeaveKeeps DEF ExpoToggle
<1>3. ASSUME NEW t \in ExpoSpots, ExpoSelect(t) PROVE ExpoInv'
  BY <1>3, LeaveKeeps DEF ExpoSelect
<1>4. ASSUME NEW spot \in ExpoSpots \cup {NoSpot}, ExpoPress(spot) PROVE ExpoInv'
<2>1. CASE spot = NoSpot
  BY <1>4, <2>1 DEF ExpoPress, OverSpot
<2>2. CASE spot # NoSpot /\ Leaving
  <3>1. CASE spot = expo.target
    BY <1>4, <2>2, <3>1 DEF ExpoPress
  <3>2. CASE spot # expo.target
    <4> DEFINE e == [expo EXCEPT !.goal = spot]
    <4>1. e \in ExpoStates /\ e.goal = spot /\ e.active = expo.active /\ e.initial = expo.initial
          /\ e.fade = expo.fade /\ e.held = expo.held
      BY <2>2
    <4>2. expo' = [e EXCEPT !.target = spot] /\ ecur' = spot /\ egrid' = egrid /\ spot \in Int /\ expo.active
      BY <1>4, <2>2, <3>2 DEF ExpoPress
    <4> HIDE DEF e
    <4> QED
      BY <2>2, <4>1, <4>2, Retargeted
  <3> QED
    BY <3>1, <3>2
<2>3. CASE spot # NoSpot /\ ~Leaving
  <3> DEFINE e == [expo EXCEPT !.pressed = TRUE]
  <3>1. e \in ExpoStates /\ e.goal = expo.goal /\ e.active = expo.active /\ e.initial = expo.initial
        /\ e.fade = expo.fade /\ e.held = expo.held /\ e.zoomIn = expo.zoomIn /\ e.moved = expo.moved
    OBVIOUS
  <3>2. /\ expo' = [e EXCEPT !.target = spot] /\ ecur' = ecur /\ egrid' = egrid
        /\ spot \in Int /\ spot \in ExpoSpots /\ expo.active
    BY <1>4, <2>3 DEF ExpoPress, OverSpot
  <3> HIDE DEF e
  <3> QED
    BY <3>1, <3>2, Retargeted
<2> QED
  BY <2>1, <2>2, <2>3
<1>5. CASE ExpoRelease
<2>1. CASE expo.drag
  BY <1>5, <2>1 DEF ExpoRelease
<2>2. CASE ~expo.drag
  <3> DEFINE e == [expo EXCEPT !.pressed = FALSE]
  <3>1. /\ expo.active /\ ExpoLeave(e) /\ egrid' = egrid
    BY <1>5, <2>2 DEF ExpoRelease
  <3>2. /\ e \in ExpoStates /\ e.active /\ e.target \in ExpoSpots /\ e.initial = expo.initial
        /\ e.fade = expo.fade /\ e.held = expo.held /\ e.cut = expo.cut
    BY <3>1
  <3> HIDE DEF e
  <3> QED
    BY <3>1, <3>2, LeaveKeeps
<2> QED
  BY <2>1, <2>2
<1>6. ASSUME NEW spot \in ExpoSpots \cup {NoSpot}, NEW overView \in BOOLEAN, ExpoMove(spot, overView)
      PROVE ExpoInv'
  BY <1>6 DEF ExpoMove, OverSpot
<1>7. CASE ExpoDragEnters
  BY <1>7 DEF ExpoDragEnters
<1>8. CASE ExpoDragDone
  BY <1>8 DEF ExpoDragDone
<1>9. ASSUME NEW dir \in {-1, 1}, ExpoArrow(dir) PROVE ExpoInv'
<2>1. expo.active
  BY <1>9 DEF ExpoArrow
<2> QED
  BY <1>9, <2>1, ArrowKeeps DEF ExpoArrow, HandlesKeys
<1>10. ASSUME NEW dir \in {-1, 1}, ExpoRepeat(dir) PROVE ExpoInv'
<2>1. expo.active
  BY <1>10 DEF ExpoRepeat
<2>2. CASE HandlesKeys
  BY <1>10, <2>1, <2>2, ArrowKeeps DEF ExpoRepeat, HandlesKeys
<2>3. CASE ~HandlesKeys
  BY <1>10, <2>3, <2>1 DEF ExpoRepeat, Holdings
<2> QED
  BY <2>2, <2>3
<1>11. CASE ExpoKeyUp
  BY <1>11 DEF ExpoKeyUp, Holdings
<1>12. CASE ExpoEnter
  BY <1>12, LeaveKeeps DEF ExpoEnter
<1>13. CASE ExpoEscape
  BY <1>13, LeaveKeeps DEF ExpoEscape
<1>14. CASE ExpoAnimated
  BY <1>14 DEF ExpoAnimated
<1>15. CASE ExpoFrame
  BY <1>15 DEF ExpoFrame, ExpoFinalized
<1>16. CASE ExpoCancel
  BY <1>16 DEF ExpoCancel, ExpoFinalized
<1>17. ASSUME NEW n \in 1..MaxExpoGrid, ExpoGrid(n) PROVE ExpoInv'
<2> DEFINE e == [expo EXCEPT !.moved = @ \/ ecur' # ecur]
<2>1. /\ e \in ExpoStates /\ e.held = expo.held /\ e.active = expo.active /\ e.zoomIn = expo.zoomIn
      /\ e.goal = expo.goal /\ (e.moved \/ (ecur' = ecur /\ e.moved = expo.moved))
      /\ e.target = expo.target /\ e.initial = expo.initial /\ e.bound = expo.bound /\ e.cut = expo.cut
  OBVIOUS
<2>2. /\ egrid' = n /\ ecur' = Least(ecur, n - 1) /\ ecur' \in ExpoSpots'
      /\ expo' = IF "grid" \in expo.held THEN Regrid(e, n) ELSE e
  BY <1>17 DEF ExpoGrid, Least
<2> HIDE DEF e
<2>3. CASE expo.active
  <3>1. expo' = Regrid(e, n)
    BY <2>2, <2>3 DEF Holdings
  <3>2. Least(e.initial, n - 1) \in 0..(n - 1) /\ Least(e.target, n - 1) \in 0..(n - 1)
    BY <2>1, <2>3 DEF Least
  <3> DEFINE g == [e EXCEPT !.fade = n]
             f == [g EXCEPT !.initial = Least(e.initial, n - 1)]
  <3>0. /\ g \in ExpoStates /\ g.fade = n /\ g.held = e.held
        /\ g.active = e.active /\ g.zoomIn = e.zoomIn /\ g.goal = e.goal /\ g.moved = e.moved
    BY <2>1
  <3>3. /\ f \in ExpoStates /\ f.fade = n /\ f.initial = Least(e.initial, n - 1) /\ f.held = e.held
        /\ f.active = e.active /\ f.zoomIn = e.zoomIn /\ f.goal = e.goal /\ f.moved = e.moved
    <4>1. Least(e.initial, n - 1) \in Int
      BY <3>2
    <4> HIDE DEF g
    <4> QED
      BY <3>0, <4>1
  <3>4. expo' = [f EXCEPT !.target = Least(e.target, n - 1)]
    BY <2>1, <3>1 DEF Regrid
  <3> HIDE DEF f
  <3>5. Least(e.target, n - 1) \in Int
    BY <3>2
  <3>6. /\ expo' \in ExpoStates /\ expo'.target = Least(e.target, n - 1) /\ expo'.active
        /\ expo'.initial = Least(e.initial, n - 1) /\ expo'.fade = n /\ expo'.held = expo.held
        /\ expo'.zoomIn = expo.zoomIn /\ expo'.goal = expo.goal
        /\ expo'.moved \/ (ecur' = ecur /\ expo'.moved = expo.moved)
    BY <2>1, <2>3, <3>3, <3>4, <3>5, Retargeted
  <3> HIDE DEF ExpoStates
  <3> QED
    BY <2>2, <2>3, <3>2, <3>6
<2>4. CASE ~expo.active
  BY <2>1, <2>2, <2>4
<2> QED
  BY <2>3, <2>4
<1>18. ASSUME NEW w \in ExpoSpots, ExpoWorkspace(w) PROVE ExpoInv'
  BY <1>18 DEF ExpoWorkspace
<1>19. CASE UNCHANGED expoVars
  BY <1>19 DEF expoVars
<1> QED
  BY <1>1, <1>2, <1>3, <1>4, <1>5, <1>6, <1>7, <1>8, <1>9, <1>10, <1>11, <1>12, <1>13, <1>14, <1>15,
     <1>16, <1>17, <1>18, <1>19 DEF ExpoNext

(* Expo goes to a workspace of the grid and reads ws_fade inside of it     *)
(* whatever changes under it, and keeps nothing after it (ExpoRight), for  *)
(* every grid: resize_ws_fade(), on_workspace_grid_changed and             *)
(* finalize_and_exit().                                                    *)
THEOREM ExpoAlwaysRight == ExpoSpec => []ExpoRight
<1>1. ExpoInv => ExpoRight
  BY DEF ExpoInv
<1> QED
  BY <1>1, ExpoStarts, ExpoKeeps, PTL DEF ExpoSpec

-----------------------------------------------------------------------------
(* Scale: scale.cpp.                                                       *)
ScaleViewRecs ==
  [mapped: BOOLEAN, minimized: BOOLEAN, here: BOOLEAN, ws: ScaleGrid, root: Int, node: Int]
Showing == {"visible", "hiding", "hidden"}
ScaleData == UNION {[D -> Showing] : D \in SUBSET ScaleViews}

(* The types; which view is focused and the order of focus do not matter.  *)
ScaleStates(focus, cur, recent) ==
  [active: BOOLEAN, hook: BOOLEAN, all: BOOLEAN, sigs: BOOLEAN, typing: BOOLEAN, drag: BOOLEAN,
   focus: {focus}, data: ScaleData, was: SUBSET ScaleViews, moving: SUBSET ScaleViews,
   geo: SUBSET ScaleViews, filter: SUBSET ScaleViews, dark: SUBSET ScaleViews, bad: BOOLEAN,
   cur: {cur}, recent: {recent}, v: [ScaleViews -> ScaleViewRecs]]
IsScale(s) == s \in ScaleStates(s.focus, s.cur, s.recent)

(* How often the root node of a view is enabled by the view itself.        *)
Own(x) == One(x.mapped) - One(x.minimized)

(* The counters of the nodes, and what is kept of transformed views only.  *)
Even(s) ==
  \A v \in ScaleViews :
    /\ s.v[v].root = Own(s.v[v]) + One(v \in s.was)
    /\ v \in s.dark \/ s.v[v].node = 1 - One(v \in HiddenViews(s))

Sound(s) ==
  /\ IsScale(s) /\ ~s.bad
  /\ s.was \subseteq DOMAIN s.data /\ s.moving \subseteq DOMAIN s.data
  /\ Even(s)

(* Between handlers: what scale is connected to while it is active.        *)
Wired(s) ==
  /\ s.sigs = s.active
  /\ ~s.hook => ~s.active /\ DOMAIN s.data = {} /\ s.geo = {}

ScaleOK(s) == Sound(s) /\ Wired(s)

(* The fields of scale, by their types.                                    *)
LEMMA ScaleFields ==
  ASSUME NEW s, IsScale(s)
  PROVE  /\ s.active \in BOOLEAN /\ s.hook \in BOOLEAN /\ s.all \in BOOLEAN /\ s.sigs \in BOOLEAN
         /\ s.drag \in BOOLEAN /\ s.bad \in BOOLEAN
         /\ DOMAIN s.data \subseteq ScaleViews /\ s.data \in [DOMAIN s.data -> Showing]
         /\ s.was \subseteq ScaleViews /\ s.moving \subseteq ScaleViews /\ s.geo \subseteq ScaleViews
         /\ s.filter \subseteq ScaleViews /\ s.dark \subseteq ScaleViews
         /\ s.v \in [ScaleViews -> ScaleViewRecs]
         /\ \A v \in ScaleViews :
              /\ s.v[v].mapped \in BOOLEAN /\ s.v[v].minimized \in BOOLEAN
              /\ s.v[v].root \in Int /\ s.v[v].node \in Int
<1>1. PICK d \in ScaleData, V \in [ScaleViews -> ScaleViewRecs] : d = s.data /\ V = s.v
  BY DEF IsScale, ScaleStates
<1>2. DOMAIN d \subseteq ScaleViews /\ d \in [DOMAIN d -> Showing]
  BY DEF ScaleData
<1>3. \A v \in ScaleViews : V[v] \in ScaleViewRecs
  OBVIOUS
<1>. QED
  BY <1>1, <1>2, <1>3 DEF IsScale, ScaleStates, ScaleViewRecs

(* A function on views that have a transformer.                            *)
LEMMA DataOf ==
  ASSUME NEW d, DOMAIN d \subseteq ScaleViews, d \in [DOMAIN d -> Showing]
  PROVE  d \in ScaleData
BY DEF ScaleData

(* AddTo changes one counter of some views.                                *)
LEMMA AddedRoot ==
  ASSUME NEW s, IsScale(s), NEW V, NEW n \in Int, NEW r, r = AddTo(s, V, "root", n)
  PROVE  /\ IsScale(r)
         /\ r.active = s.active /\ r.hook = s.hook /\ r.all = s.all /\ r.sigs = s.sigs
         /\ r.drag = s.drag /\ r.bad = s.bad /\ r.data = s.data /\ r.was = s.was
         /\ r.moving = s.moving /\ r.geo = s.geo /\ r.filter = s.filter /\ r.dark = s.dark
         /\ r.focus = s.focus
         /\ \A v \in ScaleViews :
              /\ r.v[v].mapped = s.v[v].mapped /\ r.v[v].minimized = s.v[v].minimized
              /\ r.v[v].root = s.v[v].root + (IF v \in V THEN n ELSE 0)
              /\ r.v[v].node = s.v[v].node
<1>. DEFINE W == [v \in ScaleViews |-> IF v \in V THEN [s.v[v] EXCEPT !["root"] = @ + n] ELSE s.v[v]]
<1>1. r = [s EXCEPT !.v = W]
  BY DEF AddTo
<1>2. ASSUME NEW v \in ScaleViews
      PROVE  /\ W[v] \in ScaleViewRecs
             /\ W[v].mapped = s.v[v].mapped /\ W[v].minimized = s.v[v].minimized
             /\ W[v].root = s.v[v].root + (IF v \in V THEN n ELSE 0)
             /\ W[v].node = s.v[v].node
  <2>1. PICK x \in ScaleViewRecs : x = s.v[v]
    BY ScaleFields
  <2>2. PICK y : y = [x EXCEPT !.root = @ + n]
    OBVIOUS
  <2>3. y \in ScaleViewRecs /\ y.root = x.root + n /\ y.node = x.node
        /\ y.mapped = x.mapped /\ y.minimized = x.minimized /\ x.root \in Int
    BY <2>2 DEF ScaleViewRecs
  <2>4. W[v] = IF v \in V THEN y ELSE x
    BY <2>1, <2>2
  <2>. HIDE DEF W
  <2>. QED
    BY <2>1, <2>3, <2>4
<1>3. W \in [ScaleViews -> ScaleViewRecs]
  BY <1>2
<1>. HIDE DEF W
<1>. QED
  BY <1>1, <1>2, <1>3 DEF IsScale, ScaleStates

(* ... and of its nodes: a new transformer is visible.                     *)
LEMMA AddedNode ==
  ASSUME NEW s, IsScale(s), NEW V, NEW n \in Int, NEW r, r = AddTo(s, V, "node", n)
  PROVE  /\ IsScale(r)
         /\ r.active = s.active /\ r.hook = s.hook /\ r.all = s.all /\ r.sigs = s.sigs
         /\ r.drag = s.drag /\ r.bad = s.bad /\ r.data = s.data /\ r.was = s.was
         /\ r.moving = s.moving /\ r.geo = s.geo /\ r.filter = s.filter /\ r.dark = s.dark
         /\ r.focus = s.focus
         /\ \A v \in ScaleViews :
              /\ r.v[v].mapped = s.v[v].mapped /\ r.v[v].minimized = s.v[v].minimized
              /\ r.v[v].root = s.v[v].root
              /\ r.v[v].node = s.v[v].node + (IF v \in V /\ v \notin s.dark THEN n ELSE 0)
<1>. DEFINE W == [v \in ScaleViews |-> IF v \in V /\ v \notin s.dark THEN [s.v[v] EXCEPT !["node"] = @ + n] ELSE s.v[v]]
<1>1. r = [s EXCEPT !.v = W]
  BY DEF AddTo
<1>2. ASSUME NEW v \in ScaleViews
      PROVE  /\ W[v] \in ScaleViewRecs
             /\ W[v].mapped = s.v[v].mapped /\ W[v].minimized = s.v[v].minimized
             /\ W[v].root = s.v[v].root
             /\ W[v].node = s.v[v].node + (IF v \in V /\ v \notin s.dark THEN n ELSE 0)
  <2>1. PICK x \in ScaleViewRecs : x = s.v[v]
    BY ScaleFields
  <2>2. PICK y : y = [x EXCEPT !.node = @ + n]
    OBVIOUS
  <2>3. y \in ScaleViewRecs /\ y.root = x.root /\ y.node = x.node + n
        /\ y.mapped = x.mapped /\ y.minimized = x.minimized /\ x.node \in Int
    BY <2>2 DEF ScaleViewRecs
  <2>4. W[v] = IF v \in V /\ v \notin s.dark THEN y ELSE x
    BY <2>1, <2>2
  <2>. HIDE DEF W
  <2>. QED
    BY <2>1, <2>3, <2>4
<1>3. W \in [ScaleViews -> ScaleViewRecs]
  BY <1>2
<1>. HIDE DEF W
<1>. QED
  BY <1>1, <1>2, <1>3 DEF IsScale, ScaleStates

(* What focus_raise_view() and changes of a view leave as they are.        *)
SameCourse(r, s) ==
  /\ r.active = s.active /\ r.hook = s.hook /\ r.sigs = s.sigs /\ r.drag = s.drag /\ r.bad = s.bad
  /\ r.data = s.data /\ r.was = s.was /\ r.moving = s.moving /\ r.geo = s.geo /\ r.dark = s.dark

(* A change of a view that its own counter follows.                        *)
LEMMA Steady ==
  ASSUME NEW s, NEW r, Sound(s), IsScale(r), SameCourse(r, s),
         \A v \in ScaleViews : /\ r.v[v].root - Own(r.v[v]) = s.v[v].root - Own(s.v[v])
                               /\ r.v[v].node = s.v[v].node
  PROVE  Sound(r) /\ (Wired(s) => Wired(r))
<1>1. HiddenViews(r) = HiddenViews(s) /\ r.was = s.was /\ r.dark = s.dark
  BY DEF SameCourse, HiddenViews
<1>2. ASSUME NEW v \in ScaleViews
      PROVE  /\ r.v[v].root = Own(r.v[v]) + One(v \in r.was)
             /\ v \in r.dark \/ r.v[v].node = 1 - One(v \in HiddenViews(r))
  <2>1. /\ s.v[v].root = Own(s.v[v]) + One(v \in s.was)
        /\ v \in s.dark \/ s.v[v].node = 1 - One(v \in HiddenViews(s))
    BY DEF Sound, Even
  <2>2. Own(s.v[v]) \in Int /\ Own(r.v[v]) \in Int /\ One(v \in s.was) \in Int
        /\ s.v[v].root \in Int /\ r.v[v].root \in Int
    BY ScaleFields DEF Own, One, Sound
  <2>3. r.v[v].root = Own(r.v[v]) + One(v \in s.was)
    BY <2>1, <2>2
  <2>. QED
    BY <1>1, <2>1, <2>3
<1>3. Even(r)
  BY <1>2 DEF Even
<1>. QED
  BY <1>3 DEF Sound, SameCourse, Wired

(* The same view is minimized or not, as b says.                           *)
LEMMA ViewSet ==
  ASSUME NEW V \in [ScaleViews -> ScaleViewRecs], NEW v \in ScaleViews, NEW b \in BOOLEAN,
         NEW W, W = [V EXCEPT ![v].minimized = b]
  PROVE  /\ W \in [ScaleViews -> ScaleViewRecs]
         /\ \A u \in ScaleViews :
              /\ W[u].mapped = V[u].mapped /\ W[u].root = V[u].root /\ W[u].node = V[u].node
              /\ W[u].minimized = (IF u = v THEN b ELSE V[u].minimized)
<1>1. PICK x \in ScaleViewRecs : x = V[v]
  OBVIOUS
<1>2. PICK y : y = [x EXCEPT !.minimized = b]
  OBVIOUS
<1>3. y \in ScaleViewRecs /\ y.mapped = x.mapped /\ y.root = x.root /\ y.node = x.node /\ y.minimized = b
  BY <1>2 DEF ScaleViewRecs
<1>4. W = [V EXCEPT ![v] = y]
  BY <1>1, <1>2
<1>. HIDE DEF ScaleViewRecs
<1>. QED
  BY <1>1, <1>3, <1>4

(* Raising a view touches only its root node.                              *)
LEMMA FocusRaised ==
  ASSUME NEW s, Sound(s), NEW v, NEW r, r = FocusRaise(s, v)
  PROVE  Sound(r) /\ SameCourse(r, s) /\ (Wired(s) => Wired(r)) /\ r.filter = s.filter
         /\ r.all = s.all /\ r.focus = s.focus
<1>1. IsScale(s)
  BY DEF Sound
<1>2. CASE v = NoScaleView \/ ~s.v[v].here \/ ~s.v[v].mapped
  <2>1. r = s
    BY <1>2 DEF FocusRaise
  <2>. QED
    BY <2>1 DEF SameCourse
<1>3. CASE ~(v = NoScaleView \/ ~s.v[v].here \/ ~s.v[v].mapped)
  <2>1. PICK q : q = <<v>> \o SelectSeq(s.recent, LAMBDA u : u # v)
    OBVIOUS
  <2>2. PICK V \in [ScaleViews -> ScaleViewRecs] : V = s.v
    BY <1>1, ScaleFields
  <2>3. PICK W : W = [V EXCEPT ![v].minimized = FALSE]
    OBVIOUS
  <2>4. PICK up : up = [s EXCEPT !.recent = q, !.v = W]
    OBVIOUS
  <2>5. r = IF s.v[v].minimized THEN AddTo(up, {v}, "root", 1) ELSE up
    BY <1>3, <2>1, <2>2, <2>3, <2>4 DEF FocusRaise
  <2>6. W \in [ScaleViews -> ScaleViewRecs]
        /\ \A u \in ScaleViews :
              /\ W[u].mapped = V[u].mapped /\ W[u].root = V[u].root /\ W[u].node = V[u].node
              /\ W[u].minimized = (IF u = v THEN FALSE ELSE V[u].minimized)
    <3>1. CASE v \in ScaleViews
      <4>1. PICK b \in BOOLEAN : b = FALSE
        OBVIOUS
      <4>2. W = [V EXCEPT ![v].minimized = b]
        BY <2>3, <4>1
      <4>3. /\ W \in [ScaleViews -> ScaleViewRecs]
            /\ \A u \in ScaleViews :
                 /\ W[u].mapped = V[u].mapped /\ W[u].root = V[u].root /\ W[u].node = V[u].node
                 /\ W[u].minimized = (IF u = v THEN b ELSE V[u].minimized)
        BY <3>1, <4>2, ViewSet
      <4>. QED
        BY <4>1, <4>3, Zenon
    <3>2. CASE v \notin ScaleViews
      <4>1. W = V
        BY <2>3, <3>2
      <4>. QED
        BY <3>2, <4>1
    <3>. QED
      BY <3>1, <3>2
  <2>7. IsScale(up) /\ SameCourse(up, s) /\ up.v = W /\ up.filter = s.filter /\ up.all = s.all
        /\ up.focus = s.focus
    BY <1>1, <2>4, <2>6 DEF IsScale, ScaleStates, SameCourse
  <2>8. CASE v \in ScaleViews /\ s.v[v].minimized
    <3>1. r = AddTo(up, {v}, "root", 1)
      BY <2>5, <2>8
    <3>2. /\ IsScale(r) /\ SameCourse(r, s) /\ r.filter = s.filter /\ r.all = s.all
          /\ r.focus = s.focus
          /\ \A u \in ScaleViews :
               /\ r.v[u].mapped = up.v[u].mapped /\ r.v[u].minimized = up.v[u].minimized
               /\ r.v[u].root = up.v[u].root + (IF u = v THEN 1 ELSE 0)
               /\ r.v[u].node = up.v[u].node
      BY <2>7, <3>1, AddedRoot DEF SameCourse
    <3>3. ASSUME NEW u \in ScaleViews
          PROVE  /\ r.v[u].root - Own(r.v[u]) = s.v[u].root - Own(s.v[u])
                 /\ r.v[u].node = s.v[u].node
      <4>1. /\ r.v[u].mapped = s.v[u].mapped /\ r.v[u].node = s.v[u].node
            /\ r.v[u].minimized = (IF u = v THEN FALSE ELSE s.v[u].minimized)
            /\ r.v[u].root = s.v[u].root + (IF u = v THEN 1 ELSE 0)
        BY <2>2, <2>6, <2>7, <3>2
      <4>2. s.v[u].mapped \in BOOLEAN /\ s.v[u].minimized \in BOOLEAN /\ s.v[u].root \in Int
        BY <1>1, ScaleFields
      <4>. QED
        BY <2>8, <4>1, <4>2 DEF Own, One
    <3>. QED
      BY <3>2, <3>3, Steady
  <2>9. CASE v \notin ScaleViews \/ ~s.v[v].minimized
    <3>1. ASSUME NEW u \in ScaleViews
          PROVE  up.v[u].mapped = s.v[u].mapped /\ up.v[u].minimized = s.v[u].minimized
                 /\ up.v[u].root = s.v[u].root /\ up.v[u].node = s.v[u].node
      <4>1. s.v[u].minimized \in BOOLEAN
        BY <1>1, ScaleFields
      <4>. QED
        BY <2>2, <2>6, <2>7, <2>9, <4>1
    <3>2. Sound(up) /\ (Wired(s) => Wired(up))
      <4>1. \A u \in ScaleViews : /\ up.v[u].root - Own(up.v[u]) = s.v[u].root - Own(s.v[u])
                                  /\ up.v[u].node = s.v[u].node
        BY <3>1 DEF Own
      <4>. QED
        BY <2>7, <4>1, Steady
    <3>3. CASE r = up
      BY <2>7, <3>2, <3>3
    <3>4. CASE v \notin ScaleViews /\ r = AddTo(up, {v}, "root", 1)
      <4>1. /\ IsScale(r) /\ SameCourse(r, up) /\ r.filter = up.filter /\ r.all = up.all
            /\ r.focus = up.focus
            /\ \A u \in ScaleViews :
                 /\ r.v[u].mapped = up.v[u].mapped /\ r.v[u].minimized = up.v[u].minimized
                 /\ r.v[u].root = up.v[u].root + (IF u \in {v} THEN 1 ELSE 0)
                 /\ r.v[u].node = up.v[u].node
        BY <2>7, <3>4, AddedRoot DEF SameCourse
      <4>2. \A u \in ScaleViews : /\ r.v[u].root - Own(r.v[u]) = up.v[u].root - Own(up.v[u])
                                  /\ r.v[u].node = up.v[u].node
        <5>1. TAKE u \in ScaleViews
        <5>2. u \notin {v} /\ up.v[u].root \in Int
          BY <2>7, <3>4, ScaleFields
        <5>. QED
          BY <4>1, <5>2 DEF Own
      <4>3. Sound(r) /\ (Wired(up) => Wired(r))
        BY <3>2, <4>1, <4>2, Steady
      <4>. QED
        BY <2>7, <3>2, <4>1, <4>3 DEF SameCourse
    <3>. QED
      BY <2>5, <2>9, <3>3, <3>4
  <2>. QED
    BY <2>8, <2>9
<1>. QED
  BY <1>2, <1>3

(* add_transformer(): the new ones are visible, and the minimized among    *)
(* them are enabled.                                                       *)
LEMMA TransformedSound ==
  ASSUME NEW s, Sound(s), NEW V \in SUBSET ScaleViews, NEW r, r = Transformed(s, V)
  PROVE  /\ Sound(r) /\ DOMAIN r.data = DOMAIN s.data \cup V
         /\ r.active = s.active /\ r.hook = s.hook /\ r.sigs = s.sigs /\ r.drag = s.drag
         /\ r.all = s.all /\ r.filter = s.filter
<1>. DEFINE new == V \ DOMAIN s.data
            min == {v \in new : s.v[v].minimized}
            d == [v \in DOMAIN s.data \cup new |-> IF v \in new THEN "visible" ELSE s.data[v]]
<1>1. IsScale(s) /\ DOMAIN s.data \subseteq ScaleViews /\ s.data \in [DOMAIN s.data -> Showing]
  BY ScaleFields DEF Sound
<1>2. PICK mid : mid = [s EXCEPT !.data = d, !.was = @ \cup min, !.geo = @ \cup new]
  OBVIOUS
<1>3. r = AddTo(mid, min, "root", 1)
  BY <1>2 DEF Transformed
<1>4. DOMAIN d = DOMAIN s.data \cup V /\ \A v \in DOMAIN d : d[v] = IF v \in new THEN "visible" ELSE s.data[v]
  OBVIOUS
<1>5. d \in ScaleData
  <2>1. d \in [DOMAIN d -> Showing]
    BY <1>1 DEF Showing
  <2>. QED
    BY <1>1, <1>4, <2>1, DataOf
<1>6. new \subseteq ScaleViews /\ min \subseteq new /\ new \cap DOMAIN s.data = {}
  OBVIOUS
<1>7. \A v \in ScaleViews : v \in min <=> v \in new /\ s.v[v].minimized
  OBVIOUS
<1>. HIDE DEF new, min, d
<1>8. IsScale(mid) /\ mid.data = d /\ mid.was = s.was \cup min /\ mid.moving = s.moving
      /\ mid.dark = s.dark /\ mid.v = s.v
      /\ mid.active = s.active /\ mid.hook = s.hook /\ mid.sigs = s.sigs /\ mid.drag = s.drag
      /\ mid.all = s.all /\ mid.filter = s.filter /\ mid.bad = s.bad
  BY <1>1, <1>2, <1>5, <1>6 DEF IsScale, ScaleStates
<1>9. /\ IsScale(r) /\ r.data = d /\ r.was = s.was \cup min /\ r.moving = s.moving
      /\ r.dark = s.dark
      /\ r.active = s.active /\ r.hook = s.hook /\ r.sigs = s.sigs /\ r.drag = s.drag
      /\ r.all = s.all /\ r.filter = s.filter /\ r.bad = s.bad
      /\ \A v \in ScaleViews :
           /\ r.v[v].mapped = s.v[v].mapped /\ r.v[v].minimized = s.v[v].minimized
           /\ r.v[v].root = s.v[v].root + (IF v \in min THEN 1 ELSE 0)
           /\ r.v[v].node = s.v[v].node
  BY <1>3, <1>8, AddedRoot
<1>10. HiddenViews(r) = HiddenViews(s)
  BY <1>1, <1>4, <1>6, <1>9 DEF HiddenViews, new
<1>11. ASSUME NEW v \in ScaleViews
       PROVE  /\ r.v[v].root = Own(r.v[v]) + One(v \in r.was)
              /\ v \in r.dark \/ r.v[v].node = 1 - One(v \in HiddenViews(r))
  <2>1. /\ s.v[v].root = Own(s.v[v]) + One(v \in s.was)
        /\ v \in s.dark \/ s.v[v].node = 1 - One(v \in HiddenViews(s))
    BY DEF Sound, Even
  <2>2. s.v[v].root \in Int /\ Own(s.v[v]) \in Int /\ Own(r.v[v]) = Own(s.v[v])
    BY <1>1, <1>9, ScaleFields DEF Own, One
  <2>3. v \in min => v \notin s.was
    BY <1>6 DEF Sound
  <2>4. r.v[v].root = Own(r.v[v]) + One(v \in r.was)
    BY <1>9, <2>1, <2>2, <2>3 DEF One
  <2>. QED
    BY <1>9, <1>10, <2>1, <2>4
<1>12. r.was \subseteq DOMAIN r.data /\ r.moving \subseteq DOMAIN r.data
  BY <1>4, <1>6, <1>9 DEF Sound, new
<1>. QED
  BY <1>4, <1>9, <1>11, <1>12 DEF Sound, Even

(* deactivate(): what was hidden is shown again, but for what is minimized *)
(* and not focused.                                                        *)
LEMMA DeactivatedOK ==
  ASSUME NEW s, Sound(s), NEW next, NEW r, r = Deactivate(s, next)
  PROVE  ScaleOK(r)
<1>. DEFINE hide == {v \in DOMAIN s.data : s.v[v].minimized /\ v # s.focus}
            d == [v \in DOMAIN s.data |-> IF v \in hide THEN "hiding" ELSE "visible"]
            H == HiddenViews(s)
<1>1. IsScale(s) /\ DOMAIN s.data \subseteq ScaleViews /\ s.data \in [DOMAIN s.data -> Showing]
  BY ScaleFields DEF Sound
<1>2. PICK off : off = [s EXCEPT !.active = FALSE, !.hook = TRUE, !.sigs = FALSE, !.geo = {},
                         !.moving = DOMAIN s.data, !.dark = @ \cup (hide \cap H), !.data = d]
  OBVIOUS
<1>3. PICK shown : shown = AddTo(off, H \ hide, "node", 1)
  OBVIOUS
<1>4. r = ScaleEnd(IF s.focus # NoScaleView
              THEN [FocusRaise(shown, s.focus) EXCEPT !.cur = s.v[s.focus].ws]
              ELSE FocusRaise(shown, next))
  BY <1>2, <1>3 DEF Deactivate
<1>5. d \in ScaleData /\ DOMAIN d = DOMAIN s.data
  <2>1. d \in [DOMAIN d -> Showing] /\ DOMAIN d = DOMAIN s.data
    BY DEF Showing
  <2>. QED
    BY <1>1, <2>1, DataOf
<1>6. \A v \in DOMAIN d : d[v] # "hidden"
  OBVIOUS
<1>7. hide \subseteq ScaleViews
  BY <1>1
<1>8. H \subseteq DOMAIN s.data
  BY DEF HiddenViews
<1>. HIDE DEF hide, d, H
<1>9. IsScale(off) /\ off.data = d /\ off.was = s.was /\ off.moving = DOMAIN s.data
      /\ off.dark = s.dark \cup (hide \cap H) /\ off.v = s.v /\ ~off.active /\ off.hook /\ ~off.sigs
      /\ off.geo = {} /\ off.bad = s.bad
  BY <1>1, <1>2, <1>5, <1>7 DEF IsScale, ScaleStates
<1>10. IsScale(shown) /\ shown.data = d /\ shown.was = s.was /\ shown.moving = DOMAIN s.data
       /\ shown.dark = s.dark \cup (hide \cap H) /\ ~shown.active /\ shown.hook /\ ~shown.sigs
       /\ shown.geo = {} /\ shown.bad = s.bad
       /\ \A v \in ScaleViews :
            /\ shown.v[v].mapped = s.v[v].mapped /\ shown.v[v].minimized = s.v[v].minimized
            /\ shown.v[v].root = s.v[v].root
            /\ shown.v[v].node = s.v[v].node + (IF v \in H \ hide /\ v \notin shown.dark THEN 1 ELSE 0)
  <2>1. PICK A : A = H \ hide
    OBVIOUS
  <2>2. shown = AddTo(off, A, "node", 1)
    BY <1>3, <2>1
  <2>3. IsScale(shown) /\ shown.data = off.data /\ shown.was = off.was /\ shown.moving = off.moving
      /\ shown.dark = off.dark /\ shown.active = off.active /\ shown.hook = off.hook /\ shown.sigs = off.sigs
      /\ shown.geo = off.geo /\ shown.bad = off.bad
      /\ \A v \in ScaleViews :
           /\ shown.v[v].mapped = off.v[v].mapped /\ shown.v[v].minimized = off.v[v].minimized
           /\ shown.v[v].root = off.v[v].root
           /\ shown.v[v].node = off.v[v].node + (IF v \in A /\ v \notin off.dark THEN 1 ELSE 0)
    <3>1. IsScale(off)
      BY <1>9
    <3>. QED
      BY <2>2, <3>1, AddedNode
  <2>. QED
    BY <1>9, <2>1, <2>3
<1>11. HiddenViews(shown) = {}
  BY <1>6, <1>10 DEF HiddenViews
<1>12. ASSUME NEW v \in ScaleViews
       PROVE  /\ shown.v[v].root = Own(shown.v[v]) + One(v \in shown.was)
              /\ v \in shown.dark \/ shown.v[v].node = 1 - One(v \in HiddenViews(shown))
  <2>1. /\ s.v[v].root = Own(s.v[v]) + One(v \in s.was)
        /\ v \in s.dark \/ s.v[v].node = 1 - One(v \in H)
    BY DEF Sound, Even, H
  <2>2. Own(shown.v[v]) = Own(s.v[v]) /\ s.v[v].node \in Int
    BY <1>1, <1>10, ScaleFields DEF Own
  <2>3. v \in shown.dark \/ shown.v[v].node = 1
    BY <1>10, <2>1, <2>2 DEF One
  <2>. QED
    BY <1>10, <1>11, <2>1, <2>2, <2>3 DEF One
<1>13. Sound(shown)
  BY <1>5, <1>10, <1>12 DEF Sound, Even
<1>14. PICK up, w : /\ up = FocusRaise(shown, w)
                    /\ r = ScaleEnd(up) \/ r = ScaleEnd([up EXCEPT !.cur = s.v[s.focus].ws])
  <2>1. CASE s.focus # NoScaleView
    BY <1>4, <2>1
  <2>2. CASE s.focus = NoScaleView
    BY <1>4, <2>2
  <2>. QED
    BY <2>1, <2>2
<1>15. Sound(up) /\ SameCourse(up, shown)
  BY <1>13, <1>14, FocusRaised
<1>16. IsScale(up)
  BY <1>15 DEF Sound
<1>17. IsScale(r) /\ SameCourse(r, up) /\ r.v = up.v
  <2>1. CASE r = ScaleEnd(up)
    BY <1>16, <2>1 DEF IsScale, ScaleStates, SameCourse, ScaleEnd
  <2>2. CASE r = ScaleEnd([up EXCEPT !.cur = s.v[s.focus].ws])
    <3>1. PICK c : c = s.v[s.focus].ws
      OBVIOUS
    <3>2. PICK q : q = [up EXCEPT !.cur = c]
      OBVIOUS
    <3>3. IsScale(q) /\ SameCourse(q, up) /\ q.v = up.v
      BY <1>16, <3>2 DEF IsScale, ScaleStates, SameCourse
    <3>4. r = ScaleEnd(q)
      BY <2>2, <3>1, <3>2
    <3>5. IsScale(r) /\ SameCourse(r, q) /\ r.v = q.v
      BY <3>3, <3>4 DEF IsScale, ScaleStates, SameCourse, ScaleEnd
    <3>. QED
      BY <3>3, <3>5 DEF SameCourse
  <2>. QED
    BY <1>14, <2>1, <2>2
<1>18. Sound(r)
  BY <1>15, <1>17, Steady
<1>19. ~r.active /\ r.hook /\ ~r.sigs /\ r.active \in BOOLEAN /\ r.sigs \in BOOLEAN
  BY <1>10, <1>15, <1>17, ScaleFields DEF SameCourse
<1>. QED
  BY <1>18, <1>19 DEF ScaleOK, Wired

(* A change of anything but the counters and what they depend on.          *)
LEMMA Retuned ==
  ASSUME NEW s, NEW r, Sound(s), IsScale(r), ~r.bad, r.was = s.was, r.v = s.v, r.dark = s.dark,
         HiddenViews(r) = HiddenViews(s), r.was \subseteq DOMAIN r.data,
         r.moving \subseteq DOMAIN r.data
  PROVE  Sound(r)
BY DEF Sound, Even

(* filter_views(): what it hides starts to fade; nothing is hidden yet.    *)
LEMMA FilteredSound ==
  ASSUME NEW s, Sound(s), NEW V \in SUBSET ScaleViews, NEW r, r = Filtered(s, V)
  PROVE  /\ Sound(r)
         /\ r.active = s.active /\ r.hook = s.hook /\ r.sigs = s.sigs /\ r.drag = s.drag
<1>. DEFINE hidden == V \cap s.filter
            t == Transformed([s EXCEPT !.typing = TRUE], hidden)
            now == {v \in hidden : t.data[v] = "visible"}
            d == [v \in DOMAIN t.data |-> IF v \in now THEN "hiding" ELSE t.data[v]]
<1>1. IsScale(s)
  BY DEF Sound
<1>. DEFINE hid == [t EXCEPT !.data = d, !.moving = @ \cup now,
                             !.focus = IF @ \in hidden THEN NoScaleView ELSE @]
            best == SelectSeq(hid.recent, LAMBDA v : v \in V \ s.filter /\ ~hid.v[v].minimized)
                    \o SelectSeq(hid.recent, LAMBDA v : v \in V \ s.filter /\ hid.v[v].minimized)
<1>2. r = IF hid.focus # NoScaleView \/ best = <<>> THEN hid
          ELSE FocusRaise([hid EXCEPT !.focus = Head(best)], Head(best))
  BY Zenon DEF Filtered
<1>. HIDE DEF best
<1>3. PICK foc : hid = [t EXCEPT !.data = d, !.moving = @ \cup now, !.focus = foc]
  OBVIOUS
<1>. HIDE DEF hid
<1>4. r = hid \/ \E w : r = FocusRaise([hid EXCEPT !.focus = w], w)
  BY <1>2, Zenon
<1>5. Sound(t) /\ DOMAIN t.data = DOMAIN s.data \cup hidden
      /\ t.active = s.active /\ t.hook = s.hook /\ t.sigs = s.sigs /\ t.drag = s.drag
  <2>1. PICK s1 : s1 = [s EXCEPT !.typing = TRUE]
    OBVIOUS
  <2>2. IsScale(s1) /\ SameCourse(s1, s) /\ s1.v = s.v
    BY <1>1, <2>1 DEF IsScale, ScaleStates, SameCourse
  <2>3. Sound(s1)
    BY <2>2, Steady
  <2>4. hidden \in SUBSET ScaleViews /\ t = Transformed(s1, hidden)
    BY <2>1
  <2>. HIDE DEF t, hidden
  <2>5. Sound(t) /\ DOMAIN t.data = DOMAIN s1.data \cup hidden
        /\ t.active = s1.active /\ t.hook = s1.hook /\ t.sigs = s1.sigs /\ t.drag = s1.drag
    BY <2>3, <2>4, TransformedSound
  <2>. QED
    BY <2>2, <2>5 DEF SameCourse
<1>6. now \subseteq hidden /\ \A v \in now : t.data[v] = "visible"
  OBVIOUS
<1>7. DOMAIN d = DOMAIN t.data /\ \A v \in DOMAIN d : d[v] = IF v \in now THEN "hiding" ELSE t.data[v]
  OBVIOUS
<1>. HIDE DEF now, t, d, hidden
<1>8. IsScale(t) /\ DOMAIN t.data \subseteq ScaleViews /\ t.data \in [DOMAIN t.data -> Showing]
  BY <1>5, ScaleFields DEF Sound
<1>9. d \in ScaleData
  <2>1. d \in [DOMAIN d -> Showing]
    <3>1. d = [v \in DOMAIN t.data |-> IF v \in now THEN "hiding" ELSE t.data[v]]
      BY DEF d
    <3>. QED
      BY <1>7, <1>8, <3>1 DEF Showing
  <2>. QED
    BY <1>7, <1>8, <2>1, DataOf
<1>10. now \subseteq DOMAIN t.data
  BY <1>5, <1>6
<1>11. IsScale(hid) /\ hid.data = d /\ hid.was = t.was /\ hid.moving = t.moving \cup now
       /\ hid.dark = t.dark /\ hid.v = t.v /\ hid.bad = t.bad
       /\ hid.active = t.active /\ hid.hook = t.hook /\ hid.sigs = t.sigs /\ hid.drag = t.drag
  BY <1>3, <1>8, <1>9, <1>10 DEF IsScale, ScaleStates
<1>12. HiddenViews(hid) = HiddenViews(t)
  BY <1>6, <1>7, <1>11 DEF HiddenViews
<1>13. Sound(hid)
  <2>1. t.was \subseteq DOMAIN t.data /\ t.moving \subseteq DOMAIN t.data /\ ~t.bad
    BY <1>5 DEF Sound
  <2>2. hid.was \subseteq DOMAIN hid.data /\ hid.moving \subseteq DOMAIN hid.data /\ ~hid.bad
    BY <1>7, <1>10, <1>11, <2>1
  <2>. QED
    BY <1>5, <1>11, <1>12, <2>2, Retuned
<1>14. CASE r = hid
  BY <1>5, <1>11, <1>13, <1>14
<1>15. ASSUME NEW w, r = FocusRaise([hid EXCEPT !.focus = w], w)
       PROVE  /\ Sound(r)
              /\ r.active = s.active /\ r.hook = s.hook /\ r.sigs = s.sigs /\ r.drag = s.drag
  <2>1. PICK h : h = [hid EXCEPT !.focus = w]
    OBVIOUS
  <2>2. IsScale(h) /\ SameCourse(h, hid) /\ h.v = hid.v
    BY <1>11, <2>1 DEF IsScale, ScaleStates, SameCourse
  <2>3. Sound(h)
    BY <1>13, <2>2, Steady
  <2>4. Sound(r) /\ SameCourse(r, h)
    BY <1>15, <2>1, <2>3, FocusRaised
  <2>. QED
    BY <1>5, <1>11, <2>2, <2>4 DEF SameCourse
<1>. QED
  BY <1>4, <1>14, <1>15

(* layout_slots(): while scale or its exit animation runs.  With views to  *)
(* show, the animation runs after it.                                      *)
LEMMA LaidOut ==
  ASSUME NEW s, Sound(s), s.active \/ s.hook, NEW r, r = LayoutSlots(s)
  PROVE  /\ Sound(r)
         /\ Wired(s) => Wired(r)
         /\ GetViews(s) # {} => r.active = s.active /\ r.hook
<1>1. IsScale(s)
  BY DEF Sound
<1>. DEFINE s1 == [s EXCEPT !.bad = @ \/ (~s.active /\ ~s.hook)]
<1>2. r = LET views == GetViews(s1)
              shown == views \ s1.filter
              t == Transformed(Filtered(s1, views), shown)
          IN IF views = {} THEN IF ~s1.all /\ s1.active THEN Deactivate(s1, NoScaleView) ELSE s1
             ELSE AddTo([t EXCEPT !.data = [v \in DOMAIN t.data |-> IF v \in shown THEN "visible" ELSE t.data[v]],
                                  !.moving = @ \cup shown, !.hook = TRUE],
                        HiddenViews(t) \cap shown, "node", 1)
  BY Zenon DEF LayoutSlots
<1>3. s1 = s
  <2>1. (s.bad \/ (~s.active /\ ~s.hook)) = s.bad
    BY <1>1, ScaleFields DEF Sound
  <2>2. s1 = [s EXCEPT !.bad = s.bad]
    BY <2>1
  <2>. QED
    BY <1>1, <2>2 DEF IsScale, ScaleStates
<1>. HIDE DEF s1
<1>. DEFINE views == GetViews(s)
            shown == views \ s.filter
            t == Transformed(Filtered(s, views), shown)
            d == [v \in DOMAIN t.data |-> IF v \in shown THEN "visible" ELSE t.data[v]]
            q == [t EXCEPT !.data = d, !.moving = @ \cup shown, !.hook = TRUE]
<1>4. r = IF views = {} THEN IF ~s.all /\ s.active THEN Deactivate(s, NoScaleView) ELSE s
          ELSE AddTo(q, HiddenViews(t) \cap shown, "node", 1)
  BY <1>2, <1>3, Zenon
<1>. HIDE DEF q
<1>5. views \in SUBSET ScaleViews
  BY DEF GetViews, AllViews, CurrentViews
<1>6. CASE views = {}
  <2>1. CASE r = s
    BY <1>6, <2>1
  <2>2. CASE r = Deactivate(s, NoScaleView)
    <3>1. ScaleOK(r)
      BY <2>2, DeactivatedOK
    <3>. QED
      BY <1>6, <3>1 DEF ScaleOK
  <2>. QED
    BY <1>4, <1>6, <2>1, <2>2
<1>7. CASE views # {}
  <2>1. Sound(t) /\ shown \subseteq DOMAIN t.data
        /\ t.active = s.active /\ t.hook = s.hook /\ t.sigs = s.sigs
    <3>1. PICK f : f = Filtered(s, views)
      OBVIOUS
    <3>2. Sound(f) /\ f.active = s.active /\ f.hook = s.hook /\ f.sigs = s.sigs
      BY <1>5, <3>1, FilteredSound
    <3>3. t = Transformed(f, shown) /\ shown \in SUBSET ScaleViews
      BY <1>5, <3>1
    <3>4. Sound(t) /\ DOMAIN t.data = DOMAIN f.data \cup shown
          /\ t.active = f.active /\ t.hook = f.hook /\ t.sigs = f.sigs
      <4>. HIDE DEF t, shown
      <4>. QED
        BY <3>2, <3>3, TransformedSound
    <3>. QED
      BY <3>2, <3>4
  <2>2. DOMAIN d = DOMAIN t.data /\ \A v \in DOMAIN d : d[v] = IF v \in shown THEN "visible" ELSE t.data[v]
    OBVIOUS
  <2>3. PICK A : A = HiddenViews(t) \cap shown
    OBVIOUS
  <2>4. r = AddTo(q, A, "node", 1)
    BY <1>4, <1>7, <2>3
  <2>5. shown \subseteq ScaleViews
    BY <1>5
  <2>. HIDE DEF d, t, shown, views
  <2>6. IsScale(t) /\ DOMAIN t.data \subseteq ScaleViews /\ t.data \in [DOMAIN t.data -> Showing]
    BY <2>1, ScaleFields DEF Sound
  <2>7. d \in ScaleData
    <3>1. d = [v \in DOMAIN t.data |-> IF v \in shown THEN "visible" ELSE t.data[v]]
      BY DEF d
    <3>2. d \in [DOMAIN d -> Showing]
      BY <2>2, <2>6, <3>1 DEF Showing
    <3>. QED
      BY <2>2, <2>6, <3>2, DataOf
  <2>8. IsScale(q) /\ q.data = d /\ q.was = t.was /\ q.moving = t.moving \cup shown
        /\ q.dark = t.dark /\ q.v = t.v /\ q.bad = t.bad /\ q.active = t.active /\ q.hook
        /\ q.sigs = t.sigs
    BY <2>5, <2>6, <2>7 DEF IsScale, ScaleStates, q
  <2>9. /\ IsScale(r) /\ r.data = d /\ r.was = t.was /\ r.moving = t.moving \cup shown
        /\ r.dark = t.dark /\ r.bad = t.bad /\ r.active = t.active /\ r.hook = q.hook /\ r.sigs = t.sigs
        /\ \A v \in ScaleViews :
             /\ r.v[v].mapped = t.v[v].mapped /\ r.v[v].minimized = t.v[v].minimized
             /\ r.v[v].root = t.v[v].root
             /\ r.v[v].node = t.v[v].node + (IF v \in A /\ v \notin t.dark THEN 1 ELSE 0)
    <3>1. IsScale(q)
      BY <2>8
    <3>2. /\ IsScale(r) /\ r.data = q.data /\ r.was = q.was /\ r.moving = q.moving
          /\ r.dark = q.dark /\ r.bad = q.bad /\ r.active = q.active /\ r.hook = q.hook /\ r.sigs = q.sigs
          /\ \A v \in ScaleViews :
             /\ r.v[v].mapped = q.v[v].mapped /\ r.v[v].minimized = q.v[v].minimized
             /\ r.v[v].root = q.v[v].root
             /\ r.v[v].node = q.v[v].node + (IF v \in A /\ v \notin q.dark THEN 1 ELSE 0)
      BY <2>4, <3>1, AddedNode
    <3>. QED
      BY <2>8, <3>2
  <2>10. HiddenViews(r) = HiddenViews(t) \ shown
    BY <2>1, <2>2, <2>9 DEF HiddenViews
  <2>11. ASSUME NEW v \in ScaleViews
         PROVE  /\ r.v[v].root = Own(r.v[v]) + One(v \in r.was)
                /\ v \in r.dark \/ r.v[v].node = 1 - One(v \in HiddenViews(r))
    <3>1. /\ t.v[v].root = Own(t.v[v]) + One(v \in t.was)
          /\ v \in t.dark \/ t.v[v].node = 1 - One(v \in HiddenViews(t))
      BY <2>1 DEF Sound, Even
    <3>2. Own(r.v[v]) = Own(t.v[v]) /\ t.v[v].node \in Int
      BY <2>6, <2>9, ScaleFields DEF Own
    <3>3. v \in r.dark \/ r.v[v].node = 1 - One(v \in HiddenViews(r))
      BY <2>3, <2>9, <2>10, <3>1, <3>2 DEF One
    <3>. QED
      BY <2>9, <3>1, <3>2, <3>3
  <2>12. Sound(r)
    <3>1. t.was \subseteq DOMAIN t.data /\ t.moving \subseteq DOMAIN t.data /\ ~t.bad
      BY <2>1 DEF Sound
    <3>2. r.was \subseteq DOMAIN r.data /\ r.moving \subseteq DOMAIN r.data /\ ~r.bad
      BY <2>1, <2>2, <2>9, <3>1
    <3>. QED
      BY <2>9, <2>11, <3>2 DEF Sound, Even
  <2>. QED
    BY <2>1, <2>8, <2>9, <2>12 DEF Wired
<1>. QED
  BY <1>6, <1>7

(* finalize(): all that was done to the nodes is undone.                   *)
LEMMA FinalizedOK ==
  ASSUME NEW s, Sound(s), NEW r, r = Finalized(s)
  PROVE  ScaleOK(r)
<1>1. IsScale(s)
  BY DEF Sound
<1>2. PICK a : a = AddTo(s, s.was, "root", -1)
  OBVIOUS
<1>3. PICK H : H = HiddenViews(s)
  OBVIOUS
<1>4. PICK b : b = AddTo(a, H, "node", 1)
  OBVIOUS
<1>5. PICK none : none = <<>>
  OBVIOUS
<1>6. r = [b EXCEPT !.active = FALSE, !.hook = FALSE, !.sigs = FALSE, !.geo = {}, !.data = none,
             !.was = {}, !.moving = {}]
  BY <1>2, <1>3, <1>4, <1>5 DEF Finalized
<1>7. DOMAIN none = {} /\ none \in ScaleData
  <2>1. DOMAIN none = {} /\ none \in [{} -> Showing]
    BY <1>5
  <2>. QED
    BY <2>1, DataOf
<1>8. PICK m \in Int : m = -1
  OBVIOUS
<1>9. /\ IsScale(a) /\ a.dark = s.dark /\ a.bad = s.bad
      /\ \A v \in ScaleViews :
           /\ a.v[v].mapped = s.v[v].mapped /\ a.v[v].minimized = s.v[v].minimized
           /\ a.v[v].root = s.v[v].root + (IF v \in s.was THEN m ELSE 0)
           /\ a.v[v].node = s.v[v].node
  <2>1. a = AddTo(s, s.was, "root", m)
    BY <1>2, <1>8
  <2>. QED
    BY <1>1, <2>1, AddedRoot
<1>10. /\ IsScale(b) /\ b.dark = a.dark /\ b.bad = a.bad
       /\ \A v \in ScaleViews :
            /\ b.v[v].mapped = a.v[v].mapped /\ b.v[v].minimized = a.v[v].minimized
            /\ b.v[v].root = a.v[v].root
            /\ b.v[v].node = a.v[v].node + (IF v \in H /\ v \notin a.dark THEN 1 ELSE 0)
  BY <1>4, <1>9, AddedNode
<1>11. IsScale(r) /\ r.data = none /\ r.was = {} /\ r.moving = {} /\ r.geo = {}
       /\ r.dark = b.dark /\ r.v = b.v /\ r.bad = b.bad /\ r.active = FALSE /\ r.sigs = FALSE
  BY <1>6, <1>7, <1>10 DEF IsScale, ScaleStates
<1>12. HiddenViews(r) = {}
  BY <1>7, <1>11 DEF HiddenViews
<1>13. ASSUME NEW v \in ScaleViews
       PROVE  /\ r.v[v].root = Own(r.v[v]) + One(v \in r.was)
              /\ v \in r.dark \/ r.v[v].node = 1 - One(v \in HiddenViews(r))
  <2>1. /\ s.v[v].root = Own(s.v[v]) + One(v \in s.was)
        /\ v \in s.dark \/ s.v[v].node = 1 - One(v \in H)
    BY <1>3 DEF Sound, Even
  <2>2. s.v[v].root \in Int /\ s.v[v].node \in Int /\ Own(s.v[v]) \in Int
    BY <1>1, ScaleFields DEF Own, One
  <2>3. /\ r.v[v].mapped = s.v[v].mapped /\ r.v[v].minimized = s.v[v].minimized
        /\ r.v[v].root = s.v[v].root + (IF v \in s.was THEN m ELSE 0)
        /\ r.v[v].node = s.v[v].node + (IF v \in H /\ v \notin s.dark THEN 1 ELSE 0)
    BY <1>9, <1>10, <1>11
  <2>4. Own(r.v[v]) = Own(s.v[v])
    BY <2>3 DEF Own
  <2>5. r.v[v].root = Own(r.v[v])
    BY <1>8, <2>1, <2>2, <2>3, <2>4 DEF One
  <2>6. v \in r.dark \/ r.v[v].node = 1
    BY <1>9, <1>10, <1>11, <2>1, <2>2, <2>3 DEF One
  <2>7. v \notin r.was /\ v \notin HiddenViews(r)
    BY <1>11, <1>12
  <2>8. Own(r.v[v]) \in Int
    BY <2>2, <2>4
  <2>. QED
    BY <2>5, <2>6, <2>7, <2>8 DEF One
<1>14. Sound(r)
  <2>1. ~r.bad
    BY <1>9, <1>10, <1>11 DEF Sound
  <2>. QED
    BY <1>11, <1>13, <2>1 DEF Sound, Even
<1>. QED
  BY <1>7, <1>11, <1>14 DEF ScaleOK, Wired

(* finalize() leaves no data and no connection.                            *)
LEMMA FinalizeOK ==
  ASSUME NEW s, Sound(s), NEW r, r = Finalize(s)
  PROVE  ScaleOK(r)
<1>1. IsScale(s)
  BY DEF Sound
<1>2. PICK e : e = ScaleEnd(s)
  OBVIOUS
<1>3. PICK d : d = [e EXCEPT !.drag = FALSE]
  OBVIOUS
<1>4. PICK x : x = IF ~s.active THEN s ELSE IF s.drag THEN LayoutSlots(d) ELSE e
  OBVIOUS
<1>5. r = Finalized(x)
  BY <1>2, <1>3, <1>4 DEF Finalize
<1>6. IsScale(e) /\ SameCourse(e, s) /\ e.v = s.v
  BY <1>1, <1>2 DEF IsScale, ScaleStates, SameCourse, ScaleEnd
<1>7. Sound(e)
  BY <1>6, Steady
<1>8. IsScale(d) /\ d.active = e.active /\ d.bad = e.bad /\ d.was = e.was /\ d.v = e.v
      /\ d.data = e.data /\ d.dark = e.dark /\ d.moving = e.moving
  BY <1>3, <1>6 DEF IsScale, ScaleStates
<1>9. Sound(d)
  BY <1>7, <1>8 DEF Sound, Even, HiddenViews
<1>10. Sound(x)
  <2>1. CASE ~s.active
    BY <1>4, <2>1
  <2>2. CASE s.active /\ ~s.drag
    BY <1>4, <1>7, <2>2
  <2>3. CASE s.active /\ s.drag
    <3>1. x = LayoutSlots(d) /\ d.active
      BY <1>4, <1>6, <1>8, <2>3 DEF SameCourse
    <3>. QED
      BY <1>9, <3>1, LaidOut
  <2>. QED
    BY <2>1, <2>2, <2>3
<1>. QED
  BY <1>5, <1>10, FinalizedOK

(* remove_view(): a view that is not there any more takes its share of the *)
(* counters with it.                                                       *)
LEMMA RemovedOK ==
  ASSUME NEW s, ScaleOK(s), NEW w \in ScaleViews, NEW r, r = RemoveView(s, w)
  PROVE  ScaleOK(r)
<1>. DEFINE left == {v \in DOMAIN s.data : v # w}
            d == [v \in left |-> s.data[v]]
<1>1. IsScale(s) /\ DOMAIN s.data \subseteq ScaleViews /\ s.data \in [DOMAIN s.data -> Showing]
  BY ScaleFields DEF Sound, ScaleOK
<1>2. PICK foc : foc = IF s.focus = w THEN NoScaleView ELSE s.focus
  OBVIOUS
<1>3. PICK H : H = HiddenViews(s)
  OBVIOUS
<1>4. PICK q : q = [s EXCEPT !.data = d, !.was = @ \ {w}, !.moving = @ \ {w},
                             !.dark = @ \cup (H \cap {w}), !.focus = foc]
  OBVIOUS
<1>5. r = AddTo(q, s.was \cap {w}, "root", -1)
  BY <1>2, <1>3, <1>4 DEF RemoveView
<1>6. DOMAIN d = DOMAIN s.data \ {w} /\ \A v \in DOMAIN d : d[v] = s.data[v]
  OBVIOUS
<1>7. d \in ScaleData
  <2>1. d \in [DOMAIN d -> Showing]
    BY <1>1
  <2>. QED
    BY <1>1, <1>6, <2>1, DataOf
<1>. HIDE DEF left, d
<1>8. /\ IsScale(q) /\ q.data = d /\ q.was = s.was \ {w} /\ q.moving = s.moving \ {w}
      /\ q.dark = s.dark \cup (H \cap {w}) /\ q.v = s.v /\ q.bad = s.bad /\ q.geo = s.geo
      /\ q.active = s.active /\ q.hook = s.hook /\ q.sigs = s.sigs
  BY <1>1, <1>4, <1>7 DEF IsScale, ScaleStates
<1>9. PICK m \in Int : m = -1
  OBVIOUS
<1>10. PICK A : A = s.was \cap {w}
  OBVIOUS
<1>11. /\ IsScale(r) /\ r.data = q.data /\ r.was = q.was /\ r.moving = q.moving
       /\ r.dark = q.dark /\ r.bad = q.bad /\ r.geo = q.geo
       /\ r.active = q.active /\ r.hook = q.hook /\ r.sigs = q.sigs
       /\ \A v \in ScaleViews :
            /\ r.v[v].mapped = q.v[v].mapped /\ r.v[v].minimized = q.v[v].minimized
            /\ r.v[v].root = q.v[v].root + (IF v \in A THEN m ELSE 0)
            /\ r.v[v].node = q.v[v].node
  <2>1. r = AddTo(q, A, "root", m)
    BY <1>5, <1>9, <1>10
  <2>2. IsScale(q)
    BY <1>8
  <2>. QED
    BY <2>1, <2>2, AddedRoot
<1>12. HiddenViews(r) = H \ {w}
  BY <1>3, <1>6, <1>8, <1>11 DEF HiddenViews
<1>13. ASSUME NEW v \in ScaleViews
       PROVE  /\ r.v[v].root = Own(r.v[v]) + One(v \in r.was)
              /\ v \in r.dark \/ r.v[v].node = 1 - One(v \in HiddenViews(r))
  <2>1. /\ s.v[v].root = Own(s.v[v]) + One(v \in s.was)
        /\ v \in s.dark \/ s.v[v].node = 1 - One(v \in H)
    BY <1>3 DEF Sound, Even, ScaleOK
  <2>2. s.v[v].root \in Int /\ s.v[v].node \in Int /\ Own(s.v[v]) \in Int
    BY <1>1, ScaleFields DEF Own, One
  <2>3. /\ r.v[v].mapped = s.v[v].mapped /\ r.v[v].minimized = s.v[v].minimized
        /\ r.v[v].root = s.v[v].root + (IF v \in A THEN m ELSE 0)
        /\ r.v[v].node = s.v[v].node
    BY <1>8, <1>11
  <2>4. Own(r.v[v]) = Own(s.v[v])
    BY <2>3 DEF Own
  <2>5. r.v[v].root = Own(r.v[v]) + One(v \in r.was)
    BY <1>8, <1>9, <1>10, <1>11, <2>1, <2>2, <2>3, <2>4 DEF One
  <2>6. v \in r.dark \/ r.v[v].node = 1 - One(v \in HiddenViews(r))
    BY <1>8, <1>11, <1>12, <2>1, <2>3 DEF One
  <2>. QED
    BY <2>5, <2>6
<1>14. Sound(r)
  <2>1. s.was \subseteq DOMAIN s.data /\ s.moving \subseteq DOMAIN s.data /\ ~s.bad
    BY DEF Sound, ScaleOK
  <2>2. r.was \subseteq DOMAIN r.data /\ r.moving \subseteq DOMAIN r.data /\ ~r.bad
    BY <1>6, <1>8, <1>11, <2>1
  <2>. QED
    BY <1>11, <1>13, <2>2 DEF Sound, Even
<1>15. Wired(r)
  <2>1. Wired(s)
    BY DEF ScaleOK
  <2>. QED
    BY <1>6, <1>8, <1>11, <2>1 DEF Wired
<1>. QED
  BY <1>14, <1>15 DEF ScaleOK

(* What handle_view_disappeared() leaves.                                  *)
LEMMA HandledOK ==
  ASSUME NEW s, ScaleOK(s), NEW w \in ScaleViews, NEW r, r = HandleUnmapped(s, w)
  PROVE  ScaleOK(r)
<1>1. PICK q : q = RemoveView(s, w)
  OBVIOUS
<1>2. ScaleOK(q)
  BY <1>1, RemovedOK
<1>3. r = IF DOMAIN q.data = {} THEN Finalize(q) ELSE LayoutSlots(q)
  BY <1>1 DEF HandleUnmapped
<1>4. CASE DOMAIN q.data = {}
  BY <1>2, <1>3, <1>4, FinalizeOK DEF ScaleOK
<1>5. CASE DOMAIN q.data # {}
  <2>1. q.hook
    BY <1>2, <1>5 DEF ScaleOK, Wired
  <2>. QED
    BY <1>2, <1>3, <1>5, <2>1, LaidOut DEF ScaleOK
<1>. QED
  BY <1>4, <1>5

(* A change of what the counters do not depend on.                         *)
LEMMA Aside ==
  ASSUME NEW s, NEW r, Sound(s), IsScale(r), r.active = s.active, r.hook = s.hook, r.sigs = s.sigs,
         r.bad = s.bad, r.data = s.data, r.was = s.was, r.geo = s.geo, r.dark = s.dark, r.v = s.v,
         r.moving \subseteq DOMAIN s.data
  PROVE  Sound(r) /\ (Wired(s) => Wired(r))
<1>1. HiddenViews(r) = HiddenViews(s)
  BY DEF HiddenViews
<1>. QED
  BY <1>1 DEF Sound, Even, Wired

(* A view is mapped, unmapped, minimized or restored, and its root node is *)
(* enabled or disabled with it.                                            *)
LEMMA Turned ==
  ASSUME NEW s, ScaleOK(s), NEW v \in ScaleViews, NEW n \in Int, NEW q, IsScale(q), SameCourse(q, s),
         \A u \in ScaleViews \ {v} : q.v[u] = s.v[u],
         q.v[v].root = s.v[v].root, q.v[v].node = s.v[v].node, Own(q.v[v]) = Own(s.v[v]) + n,
         NEW r, r = AddTo(q, {v}, "root", n)
  PROVE  ScaleOK(r) /\ SameCourse(r, s)
         /\ \A u \in ScaleViews : /\ r.v[u].mapped = q.v[u].mapped
                                  /\ r.v[u].minimized = q.v[u].minimized
<1>1. IsScale(s)
  BY DEF ScaleOK, Sound
<1>2. /\ IsScale(r) /\ SameCourse(r, q)
      /\ \A u \in ScaleViews :
           /\ r.v[u].mapped = q.v[u].mapped /\ r.v[u].minimized = q.v[u].minimized
           /\ r.v[u].root = q.v[u].root + (IF u \in {v} THEN n ELSE 0)
           /\ r.v[u].node = q.v[u].node
  BY AddedRoot DEF SameCourse
<1>3. SameCourse(r, s)
  BY <1>2 DEF SameCourse
<1>4. ASSUME NEW u \in ScaleViews
      PROVE  /\ r.v[u].root - Own(r.v[u]) = s.v[u].root - Own(s.v[u])
             /\ r.v[u].node = s.v[u].node
  <2>1. Own(r.v[u]) = Own(q.v[u])
    BY <1>2 DEF Own
  <2>2. s.v[u].root \in Int /\ Own(s.v[u]) \in Int
    BY <1>1, ScaleFields DEF Own, One
  <2>3. CASE u = v
    <3>1. r.v[u].root = s.v[u].root + n /\ Own(r.v[u]) = Own(s.v[u]) + n /\ r.v[u].node = s.v[u].node
      BY <1>2, <2>1, <2>3
    <3>. QED
      BY <2>2, <3>1
  <2>4. CASE u # v
    <3>1. r.v[u].root = s.v[u].root + 0 /\ Own(r.v[u]) = Own(s.v[u]) /\ r.v[u].node = s.v[u].node
      BY <1>2, <2>1, <2>4
    <3>. QED
      BY <2>2, <3>1
  <2>. QED
    BY <2>3, <2>4
<1>5. Sound(r) /\ (Wired(s) => Wired(r))
  BY <1>2, <1>3, <1>4, Steady DEF ScaleOK
<1>. QED
  BY <1>2, <1>3, <1>5 DEF ScaleOK

(* A view changes, and the order of focus.                                 *)
WithView(s, v, y, z) == [s EXCEPT !.v = [s.v EXCEPT ![v] = y], !.recent = z]

(* The fields of a view of scale, by their types.                          *)
LEMMA ViewFields ==
  ASSUME NEW s, IsScale(s), NEW v \in ScaleViews, NEW y \in ScaleViewRecs, NEW z,
         NEW q, q = WithView(s, v, y, z)
  PROVE  /\ IsScale(q) /\ SameCourse(q, s) /\ q.v[v] = y
         /\ \A u \in ScaleViews \ {v} : q.v[u] = s.v[u]
<1>1. PICK V \in [ScaleViews -> ScaleViewRecs] : V = s.v
  BY ScaleFields
<1>2. PICK W : W = [V EXCEPT ![v] = y]
  OBVIOUS
<1>3. W \in [ScaleViews -> ScaleViewRecs] /\ W[v] = y /\ \A u \in ScaleViews \ {v} : W[u] = V[u]
  BY <1>2
<1>4. q = [s EXCEPT !.v = W, !.recent = z]
  BY <1>1, <1>2 DEF WithView
<1>. QED
  BY <1>1, <1>3, <1>4 DEF IsScale, ScaleStates, SameCourse

(* What a new view record is made of.                                      *)
LEMMA ViewRec ==
  ASSUME NEW s, IsScale(s), NEW v \in ScaleViews
  PROVE  s.v[v] \in ScaleViewRecs
BY ScaleFields

(* A view is mapped.                                                       *)
LEMMA ScaleMapOK ==
  ASSUME ScaleOK(scale), NEW v \in ScaleViews, NEW ws0 \in ScaleGrid, NEW close \in BOOLEAN,
         NEW focused \in BOOLEAN, ScaleMap(v, ws0, close, focused)
  PROVE  ScaleOK(scale')
<1>1. IsScale(scale) /\ scale.v[v] \in ScaleViewRecs
  BY ViewRec DEF ScaleOK, Sound
<1>2. PICK z : z = IF focused THEN <<v>> \o SelectSeq(scale.recent, LAMBDA u : u # v)
                   ELSE Append(SelectSeq(scale.recent, LAMBDA u : u # v), v)
  OBVIOUS
<1>3. PICK q : q = [scale EXCEPT !.v[v].mapped = TRUE, !.v[v].here = TRUE, !.v[v].ws = ws0, !.recent = z]
  OBVIOUS
<1>4. PICK s : s = AddTo(q, {v}, "root", 1)
  OBVIOUS
<1>5. /\ ~scale.v[v].mapped
      /\ scale' = IF ~s.sigs \/ v \notin GetViews(s) THEN s
                  ELSE IF close THEN Deactivate(s, NoScaleView) ELSE LayoutSlots(s)
  BY <1>2, <1>3, <1>4 DEF ScaleMap
<1>6. PICK x \in ScaleViewRecs : x = scale.v[v]
  BY <1>1
<1>7. PICK y : y = [x EXCEPT !.mapped = TRUE, !.here = TRUE, !.ws = ws0]
  OBVIOUS
<1>8. y \in ScaleViewRecs /\ y.mapped = TRUE /\ y.minimized = x.minimized /\ y.root = x.root
      /\ y.node = x.node
  BY <1>7 DEF ScaleViewRecs
<1>9. q = WithView(scale, v, y, z)
  BY <1>1, <1>3, <1>6, <1>7 DEF WithView
<1>10. /\ IsScale(q) /\ SameCourse(q, scale) /\ q.v[v] = y
       /\ \A u \in ScaleViews \ {v} : q.v[u] = scale.v[u]
  <2>1. IsScale(scale)
    BY <1>1
  <2>2. y \in ScaleViewRecs
    BY <1>8
  <2>. QED
    BY <2>1, <2>2, <1>9, ViewFields
<1>11. Own(q.v[v]) = Own(scale.v[v]) + 1
  <2>1. x.minimized \in BOOLEAN
    BY DEF ScaleViewRecs
  <2>. QED
    BY <1>5, <1>6, <1>8, <1>10, <2>1 DEF Own, One
<1>12. ScaleOK(s)
  <2>1. q.v[v].root = scale.v[v].root /\ q.v[v].node = scale.v[v].node
    BY <1>6, <1>8, <1>10
  <2>. QED
    BY <1>4, <1>10, <1>11, <2>1, Turned
<1>13. ASSUME s.sigs PROVE s.active
  BY <1>12, <1>13 DEF ScaleOK, Wired
<1>14. CASE scale' = s
  BY <1>12, <1>14
<1>15. CASE scale' = Deactivate(s, NoScaleView)
  BY <1>12, <1>15, DeactivatedOK DEF ScaleOK
<1>16. CASE s.sigs /\ scale' = LayoutSlots(s)
  BY <1>12, <1>13, <1>16, LaidOut DEF ScaleOK
<1>. QED
  BY <1>5, <1>14, <1>15, <1>16

(* A change that no counter depends on.                                    *)
LEMMA SameCounts ==
  ASSUME NEW s, ScaleOK(s), NEW v \in ScaleViews, NEW y \in ScaleViewRecs,
         y.mapped = s.v[v].mapped, y.minimized = s.v[v].minimized, y.root = s.v[v].root,
         y.node = s.v[v].node,
         NEW q, q = WithView(s, v, y, s.recent)
  PROVE  ScaleOK(q)
<1>1. IsScale(s)
  BY DEF ScaleOK, Sound
<1>2. /\ IsScale(q) /\ SameCourse(q, s) /\ q.v[v] = y
      /\ \A u \in ScaleViews \ {v} : q.v[u] = s.v[u]
  BY <1>1, ViewFields
<1>3. \A u \in ScaleViews : /\ q.v[u].root - Own(q.v[u]) = s.v[u].root - Own(s.v[u])
                            /\ q.v[u].node = s.v[u].node
  BY <1>2 DEF Own
<1>4. Sound(q) /\ (Wired(s) => Wired(q))
  BY <1>2, <1>3, Steady DEF ScaleOK
<1>. QED
  BY <1>4 DEF ScaleOK

(* A view is unmapped.                                                     *)
LEMMA ScaleUnmapOK ==
  ASSUME ScaleOK(scale), NEW v \in ScaleViews, ScaleUnmap(v)
  PROVE  ScaleOK(scale')
<1>1. IsScale(scale) /\ scale.v[v] \in ScaleViewRecs
  BY ViewRec DEF ScaleOK, Sound
<1>2. PICK z : z = SelectSeq(scale.recent, LAMBDA u : u # v)
  OBVIOUS
<1>3. PICK q : q = [scale EXCEPT !.v[v].mapped = FALSE, !.recent = z]
  OBVIOUS
<1>4. PICK n \in Int : n = -1
  OBVIOUS
<1>5. PICK s : s = AddTo(q, {v}, "root", n)
  OBVIOUS
<1>6. /\ scale.v[v].mapped
      /\ scale' = IF v \in DOMAIN s.data THEN HandleUnmapped(s, v) ELSE s
  BY <1>2, <1>3, <1>4, <1>5 DEF ScaleUnmap
<1>7. PICK x \in ScaleViewRecs : x = scale.v[v]
  BY <1>1
<1>8. PICK y : y = [x EXCEPT !.mapped = FALSE]
  OBVIOUS
<1>9. y \in ScaleViewRecs /\ y.mapped = FALSE /\ y.minimized = x.minimized /\ y.root = x.root
      /\ y.node = x.node
  BY <1>8 DEF ScaleViewRecs
<1>10. q = WithView(scale, v, y, z)
  BY <1>1, <1>3, <1>7, <1>8 DEF WithView
<1>11. /\ IsScale(q) /\ SameCourse(q, scale) /\ q.v[v] = y
       /\ \A u \in ScaleViews \ {v} : q.v[u] = scale.v[u]
  <2>1. IsScale(scale)
    BY <1>1
  <2>2. y \in ScaleViewRecs
    BY <1>9
  <2>. QED
    BY <2>1, <2>2, <1>10, ViewFields
<1>12. Own(q.v[v]) = Own(scale.v[v]) + n
  <2>1. x.minimized \in BOOLEAN
    BY DEF ScaleViewRecs
  <2>. QED
    BY <1>4, <1>6, <1>7, <1>9, <1>11, <2>1 DEF Own, One
<1>13. ScaleOK(s)
  <2>1. q.v[v].root = scale.v[v].root /\ q.v[v].node = scale.v[v].node
    BY <1>7, <1>9, <1>11
  <2>. QED
    BY <1>5, <1>11, <1>12, <2>1, Turned
<1>. QED
  BY <1>6, <1>13, HandledOK

(* A minimized view that scale shows stays enabled by it.                  *)
LEMMA ScaleMinimizeOK ==
  ASSUME ScaleOK(scale), NEW v \in ScaleViews, ScaleMinimize(v)
  PROVE  ScaleOK(scale')
<1>1. IsScale(scale) /\ scale.v[v] \in ScaleViewRecs
  BY ViewRec DEF ScaleOK, Sound
<1>2. PICK q : q = [scale EXCEPT !.v[v].minimized = TRUE]
  OBVIOUS
<1>3. PICK n \in Int : n = -1
  OBVIOUS
<1>4. PICK s : s = AddTo(q, {v}, "root", n)
  OBVIOUS
<1>5. PICK k : k = [s EXCEPT !.was = @ \cup {v}, !.moving = @ \cup {v}]
  OBVIOUS
<1>6. /\ ~scale.v[v].minimized
      /\ scale' = IF ~(s.sigs /\ s.v[v].here /\ IncludeMinimized /\ v \in DOMAIN s.data) THEN s
                  ELSE AddTo(k, {v} \ s.was, "root", 1)
  BY <1>2, <1>3, <1>4, <1>5 DEF ScaleMinimize
<1>7. PICK x \in ScaleViewRecs : x = scale.v[v]
  BY <1>1
<1>8. PICK y : y = [x EXCEPT !.minimized = TRUE]
  OBVIOUS
<1>9. y \in ScaleViewRecs /\ y.mapped = x.mapped /\ y.minimized = TRUE /\ y.root = x.root
      /\ y.node = x.node
  BY <1>8 DEF ScaleViewRecs
<1>10. q = WithView(scale, v, y, scale.recent)
  BY <1>1, <1>2, <1>7, <1>8 DEF IsScale, ScaleStates, WithView
<1>11. /\ IsScale(q) /\ SameCourse(q, scale) /\ q.v[v] = y
       /\ \A u \in ScaleViews \ {v} : q.v[u] = scale.v[u]
  <2>1. IsScale(scale)
    BY <1>1
  <2>2. y \in ScaleViewRecs
    BY <1>9
  <2>. QED
    BY <2>1, <2>2, <1>10, ViewFields
<1>12. Own(q.v[v]) = Own(scale.v[v]) + n
  <2>1. x.mapped \in BOOLEAN
    BY DEF ScaleViewRecs
  <2>. QED
    BY <1>3, <1>6, <1>7, <1>9, <1>11, <2>1 DEF Own, One
<1>13. ScaleOK(s)
  <2>1. q.v[v].root = scale.v[v].root /\ q.v[v].node = scale.v[v].node
    BY <1>7, <1>9, <1>11
  <2>. QED
    BY <1>4, <1>11, <1>12, <2>1, Turned
<1>14. CASE scale' = s
  BY <1>13, <1>14
<1>15. CASE v \in DOMAIN s.data /\ scale' = AddTo(k, {v} \ s.was, "root", 1)
  <2>1. Sound(s) /\ Wired(s) /\ IsScale(s)
    BY <1>13 DEF ScaleOK, Sound
  <2>2. s.was \subseteq DOMAIN s.data /\ s.moving \subseteq DOMAIN s.data /\ ~s.bad
    BY <2>1 DEF Sound
  <2>3. /\ IsScale(k) /\ k.was = s.was \cup {v} /\ k.moving = s.moving \cup {v} /\ k.data = s.data
        /\ k.dark = s.dark /\ k.bad = s.bad /\ k.geo = s.geo /\ k.v = s.v
        /\ k.active = s.active /\ k.hook = s.hook /\ k.sigs = s.sigs
    BY <1>5, <2>1 DEF IsScale, ScaleStates
  <2>4. PICK r : r = scale'
    OBVIOUS
  <2>5. PICK A : A = {v} \ s.was
    OBVIOUS
  <2>6. /\ IsScale(r) /\ r.was = k.was /\ r.moving = k.moving /\ r.data = k.data
        /\ r.dark = k.dark /\ r.bad = k.bad /\ r.geo = k.geo
        /\ r.active = k.active /\ r.hook = k.hook /\ r.sigs = k.sigs
        /\ \A u \in ScaleViews :
             /\ r.v[u].mapped = k.v[u].mapped /\ r.v[u].minimized = k.v[u].minimized
             /\ r.v[u].root = k.v[u].root + (IF u \in A THEN 1 ELSE 0)
             /\ r.v[u].node = k.v[u].node
    <3>1. IsScale(k)
      BY <2>3
    <3>2. r = AddTo(k, A, "root", 1)
      BY <1>15, <2>4, <2>5
    <3>. QED
      BY <3>1, <3>2, AddedRoot
  <2>7. HiddenViews(r) = HiddenViews(s)
    BY <2>3, <2>6 DEF HiddenViews
  <2>8. ASSUME NEW u \in ScaleViews
        PROVE  /\ r.v[u].root = Own(r.v[u]) + One(u \in r.was)
               /\ u \in r.dark \/ r.v[u].node = 1 - One(u \in HiddenViews(r))
    <3>1. /\ s.v[u].root = Own(s.v[u]) + One(u \in s.was)
          /\ u \in s.dark \/ s.v[u].node = 1 - One(u \in HiddenViews(s))
      BY <2>1 DEF Sound, Even
    <3>2. s.v[u].root \in Int /\ Own(s.v[u]) \in Int /\ Own(r.v[u]) = Own(s.v[u])
      BY <2>1, <2>3, <2>6, ScaleFields DEF Own, One
    <3>3. r.v[u].root = s.v[u].root + (IF u \in A THEN 1 ELSE 0) /\ r.v[u].node = s.v[u].node
      BY <2>3, <2>6
    <3>4. r.v[u].root = Own(r.v[u]) + One(u \in r.was)
      BY <2>3, <2>5, <2>6, <3>1, <3>2, <3>3 DEF One
    <3>. QED
      BY <2>3, <2>6, <2>7, <3>1, <3>3, <3>4
  <2>9. Sound(r)
    <3>1. r.was \subseteq DOMAIN r.data /\ r.moving \subseteq DOMAIN r.data /\ ~r.bad
      BY <1>15, <2>2, <2>3, <2>6
    <3>. QED
      BY <2>6, <2>8, <3>1 DEF Sound, Even
  <2>10. Wired(r)
    BY <2>1, <2>3, <2>6 DEF Wired
  <2>. QED
    BY <2>4, <2>9, <2>10 DEF ScaleOK
<1>. QED
  BY <1>6, <1>14, <1>15

(* A view is restored, by whomever.                                        *)
LEMMA ScaleRestoreOK ==
  ASSUME ScaleOK(scale), NEW v \in ScaleViews, ScaleRestore(v)
  PROVE  ScaleOK(scale')
<1>1. IsScale(scale) /\ scale.v[v] \in ScaleViewRecs
  BY ViewRec DEF ScaleOK, Sound
<1>2. PICK q : q = [scale EXCEPT !.v[v].minimized = FALSE]
  OBVIOUS
<1>3. PICK s : s = AddTo(q, {v}, "root", 1)
  OBVIOUS
<1>4. /\ scale.v[v].minimized
      /\ scale' = IF s.sigs /\ s.v[v].here THEN LayoutSlots(s) ELSE s
  BY <1>2, <1>3 DEF ScaleRestore
<1>5. PICK x \in ScaleViewRecs : x = scale.v[v]
  BY <1>1
<1>6. PICK y : y = [x EXCEPT !.minimized = FALSE]
  OBVIOUS
<1>7. y \in ScaleViewRecs /\ y.mapped = x.mapped /\ y.minimized = FALSE /\ y.root = x.root
      /\ y.node = x.node
  BY <1>6 DEF ScaleViewRecs
<1>8. q = WithView(scale, v, y, scale.recent)
  BY <1>1, <1>2, <1>5, <1>6 DEF IsScale, ScaleStates, WithView
<1>9. /\ IsScale(q) /\ SameCourse(q, scale) /\ q.v[v] = y
      /\ \A u \in ScaleViews \ {v} : q.v[u] = scale.v[u]
  <2>1. IsScale(scale)
    BY <1>1
  <2>2. y \in ScaleViewRecs
    BY <1>7
  <2>. QED
    BY <2>1, <2>2, <1>8, ViewFields
<1>10. Own(q.v[v]) = Own(scale.v[v]) + 1
  <2>1. x.mapped \in BOOLEAN
    BY DEF ScaleViewRecs
  <2>. QED
    BY <1>4, <1>5, <1>7, <1>9, <2>1 DEF Own, One
<1>11. ScaleOK(s)
  <2>1. q.v[v].root = scale.v[v].root /\ q.v[v].node = scale.v[v].node
    BY <1>5, <1>7, <1>9
  <2>2. IsScale(q) /\ SameCourse(q, scale)
    BY <1>9
  <2>3. \A u \in ScaleViews \ {v} : q.v[u] = scale.v[u]
    BY <1>9
  <2>. QED
    BY <1>3, <1>10, <2>1, <2>2, <2>3, Turned
<1>12. CASE s.sigs /\ scale' = LayoutSlots(s)
  <2>1. s.active
    BY <1>11, <1>12 DEF ScaleOK, Wired
  <2>. QED
    BY <1>11, <1>12, <2>1, LaidOut DEF ScaleOK
<1>. QED
  BY <1>4, <1>11, <1>12

(* A view goes to another output.                                          *)
LEMMA ScaleLeaveOK ==
  ASSUME ScaleOK(scale), NEW v \in ScaleViews, ScaleLeave(v)
  PROVE  ScaleOK(scale')
<1>1. PICK x \in ScaleViewRecs : x = scale.v[v]
  BY ViewRec DEF ScaleOK, Sound
<1>2. PICK y : y = [x EXCEPT !.here = FALSE]
  OBVIOUS
<1>3. PICK q : q = WithView(scale, v, y, scale.recent)
  OBVIOUS
<1>4. scale' = HandleUnmapped(q, v)
  <2>1. IsScale(scale)
    BY DEF ScaleOK, Sound
  <2>2. q = [scale EXCEPT !.v[v].here = FALSE]
    BY <1>1, <1>2, <1>3, <2>1 DEF WithView, IsScale, ScaleStates
  <2>. QED
    BY <2>2 DEF ScaleLeave
<1>5. y \in ScaleViewRecs /\ y.mapped = x.mapped /\ y.minimized = x.minimized /\ y.root = x.root
      /\ y.node = x.node
  BY <1>2 DEF ScaleViewRecs
<1>6. ScaleOK(q)
  BY <1>1, <1>3, <1>5, SameCounts
<1>. QED
  BY <1>4, <1>6, HandledOK

(* A view comes from another output.                                       *)
LEMMA ScaleArriveOK ==
  ASSUME ScaleOK(scale), NEW v \in ScaleViews, ScaleArrive(v)
  PROVE  ScaleOK(scale')
<1>1. PICK x \in ScaleViewRecs : x = scale.v[v]
  BY ViewRec DEF ScaleOK, Sound
<1>2. PICK y : y = [x EXCEPT !.here = TRUE]
  OBVIOUS
<1>3. PICK q : q = WithView(scale, v, y, scale.recent)
  OBVIOUS
<1>4. scale' = IF q.active /\ v \in GetViews(q) THEN LayoutSlots(q) ELSE q
  <2>1. IsScale(scale)
    BY DEF ScaleOK, Sound
  <2>2. q = [scale EXCEPT !.v[v].here = TRUE]
    BY <1>1, <1>2, <1>3, <2>1 DEF WithView, IsScale, ScaleStates
  <2>. QED
    BY <2>2 DEF ScaleArrive
<1>5. y \in ScaleViewRecs /\ y.mapped = x.mapped /\ y.minimized = x.minimized /\ y.root = x.root
      /\ y.node = x.node
  BY <1>2 DEF ScaleViewRecs
<1>6. ScaleOK(q)
  BY <1>1, <1>3, <1>5, SameCounts
<1>7. CASE q.active /\ scale' = LayoutSlots(q)
  BY <1>6, <1>7, LaidOut DEF ScaleOK
<1>. QED
  BY <1>4, <1>6, <1>7

(* A view has another geometry.                                            *)
LEMMA ScaleGeometryOK ==
  ASSUME ScaleOK(scale), NEW v \in ScaleViews, NEW to \in ScaleGrid, ScaleGeometry(v, to)
  PROVE  ScaleOK(scale')
<1>1. PICK x \in ScaleViewRecs : x = scale.v[v]
  BY ViewRec DEF ScaleOK, Sound
<1>2. PICK y : y = [x EXCEPT !.ws = to]
  OBVIOUS
<1>3. PICK q : q = WithView(scale, v, y, scale.recent)
  OBVIOUS
<1>4. scale' = IF v \notin q.geo THEN q
               ELSE IF GetViews(q) = {} THEN Deactivate(q, NoScaleView) ELSE LayoutSlots(q)
  <2>1. IsScale(scale)
    BY DEF ScaleOK, Sound
  <2>2. q = [scale EXCEPT !.v[v].ws = to]
    BY <1>1, <1>2, <1>3, <2>1 DEF WithView, IsScale, ScaleStates
  <2>. QED
    BY <2>2 DEF ScaleGeometry
<1>5. y \in ScaleViewRecs /\ y.mapped = x.mapped /\ y.minimized = x.minimized /\ y.root = x.root
      /\ y.node = x.node
  BY <1>2 DEF ScaleViewRecs
<1>6. ScaleOK(q)
  BY <1>1, <1>3, <1>5, SameCounts
<1>7. CASE scale' = q
  BY <1>6, <1>7
<1>8. CASE scale' = Deactivate(q, NoScaleView)
  BY <1>6, <1>8, DeactivatedOK DEF ScaleOK
<1>9. CASE v \in q.geo /\ scale' = LayoutSlots(q)
  <2>1. q.hook
    BY <1>6, <1>9 DEF ScaleOK, Wired
  <2>. QED
    BY <1>6, <1>9, <2>1, LaidOut DEF ScaleOK
<1>. QED
  BY <1>4, <1>7, <1>8, <1>9

(* The workspace changes under scale, which raises its focus there.        *)
LEMMA ScaleWorkspaceOK ==
  ASSUME ScaleOK(scale), NEW to \in ScaleGrid, ScaleWorkspace(to)
  PROVE  ScaleOK(scale')
<1>1. PICK q : q = [scale EXCEPT !.cur = to]
  OBVIOUS
<1>2. PICK w : w = FocusRaise(q, q.focus)
  OBVIOUS
<1>3. scale' = IF q.sigs THEN LayoutSlots(w) ELSE q
  BY <1>1, <1>2 DEF ScaleWorkspace
<1>4. IsScale(q) /\ SameCourse(q, scale) /\ q.v = scale.v
  BY <1>1 DEF ScaleOK, Sound, IsScale, ScaleStates, SameCourse
<1>5. Sound(q) /\ Wired(q)
  BY <1>4, Steady DEF ScaleOK
<1>6. Sound(w) /\ SameCourse(w, q) /\ Wired(w)
  BY <1>2, <1>5, FocusRaised
<1>7. CASE q.sigs /\ scale' = LayoutSlots(w)
  <2>1. w.active
    BY <1>5, <1>6, <1>7 DEF Wired, SameCourse
  <2>. QED
    BY <1>6, <1>7, <2>1, LaidOut DEF ScaleOK
<1>. QED
  BY <1>3, <1>5, <1>7 DEF ScaleOK

(* Animations end; the filter's views are hidden by it.                    *)
LEMMA ScaleFrameOK ==
  ASSUME ScaleOK(scale), NEW ended \in SUBSET scale.moving, ScaleFrame(ended)
  PROVE  ScaleOK(scale')
<1>. DEFINE hidden == {v \in ended : scale.data[v] = "hiding"}
            d == [v \in DOMAIN scale.data |-> IF v \in hidden THEN "hidden" ELSE scale.data[v]]
<1>1. IsScale(scale) /\ DOMAIN scale.data \subseteq ScaleViews
      /\ scale.data \in [DOMAIN scale.data -> Showing]
      /\ scale.was \subseteq DOMAIN scale.data /\ scale.moving \subseteq DOMAIN scale.data
      /\ ~scale.bad
  BY ScaleFields DEF Sound, ScaleOK
<1>2. PICK q : q = [scale EXCEPT !.moving = @ \ ended, !.data = d]
  OBVIOUS
<1>3. PICK n \in Int : n = -1
  OBVIOUS
<1>4. PICK s : s = AddTo(q, hidden, "node", n)
  OBVIOUS
<1>5. scale.hook /\ scale' = IF ~s.active /\ s.moving = {} THEN Finalize(s) ELSE s
  BY <1>2, <1>3, <1>4 DEF ScaleFrame
<1>6. DOMAIN d = DOMAIN scale.data
      /\ \A v \in DOMAIN d : d[v] = IF v \in hidden THEN "hidden" ELSE scale.data[v]
  OBVIOUS
<1>7. d \in ScaleData
  <2>1. d \in [DOMAIN d -> Showing]
    BY <1>1 DEF Showing
  <2>. QED
    BY <1>1, <1>6, <2>1, DataOf
<1>8. hidden \subseteq DOMAIN scale.data /\ \A v \in hidden : scale.data[v] = "hiding"
  BY <1>1
<1>. HIDE DEF d, hidden
<1>9. /\ IsScale(q) /\ q.data = d /\ q.was = scale.was /\ q.moving = scale.moving \ ended
      /\ q.dark = scale.dark /\ q.v = scale.v /\ q.bad = scale.bad /\ q.geo = scale.geo
      /\ q.active = scale.active /\ q.hook = scale.hook /\ q.sigs = scale.sigs
  BY <1>1, <1>2, <1>7 DEF IsScale, ScaleStates
<1>10. /\ IsScale(s) /\ s.data = q.data /\ s.was = q.was /\ s.moving = q.moving
       /\ s.dark = q.dark /\ s.bad = q.bad /\ s.geo = q.geo
       /\ s.active = q.active /\ s.hook = q.hook /\ s.sigs = q.sigs
       /\ \A v \in ScaleViews :
            /\ s.v[v].mapped = q.v[v].mapped /\ s.v[v].minimized = q.v[v].minimized
            /\ s.v[v].root = q.v[v].root
            /\ s.v[v].node = q.v[v].node + (IF v \in hidden /\ v \notin q.dark THEN n ELSE 0)
  <2>1. IsScale(q)
    BY <1>9
  <2>. QED
    BY <1>4, <2>1, AddedNode
<1>11. HiddenViews(s) = HiddenViews(scale) \cup hidden /\ HiddenViews(scale) \cap hidden = {}
  <2>1. s.data = d
    BY <1>9, <1>10
  <2>. QED
    BY <1>6, <1>8, <2>1 DEF HiddenViews
<1>12. ASSUME NEW v \in ScaleViews
       PROVE  /\ s.v[v].root = Own(s.v[v]) + One(v \in s.was)
              /\ v \in s.dark \/ s.v[v].node = 1 - One(v \in HiddenViews(s))
  <2>1. /\ scale.v[v].root = Own(scale.v[v]) + One(v \in scale.was)
        /\ v \in scale.dark \/ scale.v[v].node = 1 - One(v \in HiddenViews(scale))
    BY DEF Sound, Even, ScaleOK
  <2>2. Own(s.v[v]) = Own(scale.v[v]) /\ scale.v[v].node \in Int
    BY <1>1, <1>9, <1>10, ScaleFields DEF Own
  <2>3. s.v[v].node = scale.v[v].node + (IF v \in hidden /\ v \notin scale.dark THEN n ELSE 0)
        /\ s.v[v].root = scale.v[v].root
    BY <1>9, <1>10
  <2>4. v \in s.dark \/ s.v[v].node = 1 - One(v \in HiddenViews(s))
    BY <1>3, <1>9, <1>10, <1>11, <2>1, <2>2, <2>3 DEF One
  <2>. QED
    BY <1>9, <1>10, <2>1, <2>2, <2>3, <2>4
<1>13. Sound(s)
  <2>1. s.was \subseteq DOMAIN s.data /\ s.moving \subseteq DOMAIN s.data /\ ~s.bad
    BY <1>1, <1>6, <1>9, <1>10
  <2>. QED
    BY <1>10, <1>12, <2>1 DEF Sound, Even
<1>14. Wired(s)
  BY <1>5, <1>9, <1>10 DEF Wired, ScaleOK
<1>15. CASE scale' = Finalize(s)
  BY <1>13, <1>15, FinalizeOK
<1>. QED
  BY <1>5, <1>13, <1>14, <1>15 DEF ScaleOK

(* activate(): there is something to show, so that the hook runs after it. *)
LEMMA ActivatedOK ==
  ASSUME NEW s, ScaleOK(s), GetViews(s) # {}, NEW view, NEW r, r = Activated(s, view)
  PROVE  ScaleOK(r)
<1>1. IsScale(s) /\ Sound(s)
  BY DEF ScaleOK, Sound
<1>2. PICK foc : foc = IF view \in GetViews(s) THEN view ELSE NoScaleView
  OBVIOUS
<1>3. PICK a : a = [s EXCEPT !.active = TRUE, !.focus = foc]
  OBVIOUS
<1>4. PICK l : l = LayoutSlots(a)
  OBVIOUS
<1>5. r = [l EXCEPT !.sigs = TRUE]
  BY <1>2, <1>3, <1>4 DEF Activated
<1>6. /\ IsScale(a) /\ a.active /\ a.bad = s.bad /\ a.was = s.was /\ a.v = s.v
      /\ a.data = s.data /\ a.dark = s.dark /\ a.moving = s.moving /\ a.all = s.all /\ a.cur = s.cur
  BY <1>1, <1>3 DEF IsScale, ScaleStates
<1>7. Sound(a)
  BY <1>1, <1>6 DEF Sound, Even, HiddenViews
<1>8. GetViews(a) # {}
  BY <1>6 DEF GetViews, AllViews, CurrentViews
<1>9. Sound(l) /\ l.active = a.active /\ l.hook
  BY <1>4, <1>6, <1>7, <1>8, LaidOut
<1>10. IsScale(l)
  BY <1>9 DEF Sound
<1>11. /\ IsScale(r) /\ r.sigs = TRUE /\ r.active = l.active /\ r.hook = l.hook /\ r.bad = l.bad
       /\ r.was = l.was /\ r.v = l.v /\ r.data = l.data /\ r.dark = l.dark /\ r.moving = l.moving
  BY <1>5, <1>10 DEF IsScale, ScaleStates
<1>12. Sound(r)
  BY <1>9, <1>11 DEF Sound, Even, HiddenViews
<1>13. r.active = TRUE
  BY <1>6, <1>9, <1>11, ScaleFields
<1>. QED
  BY <1>9, <1>11, <1>12, <1>13 DEF ScaleOK, Wired

(* activate(), in one of its modes or the other, and its way back.         *)
LEMMA ToggleOK ==
  ASSUME ScaleOK(scale), NEW all \in BOOLEAN, NEW view, NEW next, Toggle(all, view, next)
  PROVE  ScaleOK(scale')
<1>1. IsScale(scale) /\ Sound(scale) /\ Wired(scale)
  BY DEF ScaleOK, Sound
<1>2. PICK q : q = [scale EXCEPT !.all = all]
  OBVIOUS
<1>3. PICK m : m = [q EXCEPT !.moving = DOMAIN scale.data]
  OBVIOUS
<1>4. \/ scale' = Deactivate(scale, next)
      \/ scale.active /\ scale' = LayoutSlots(m)
      \/ GetViews(q) # {} /\ scale' = Activated(q, view)
      \/ scale' = q
  BY <1>2, <1>3 DEF Toggle
<1>5. /\ IsScale(q) /\ q.active = scale.active /\ q.hook = scale.hook /\ q.sigs = scale.sigs
      /\ q.bad = scale.bad /\ q.data = scale.data /\ q.was = scale.was /\ q.geo = scale.geo
      /\ q.dark = scale.dark /\ q.v = scale.v /\ q.moving = scale.moving
  BY <1>1, <1>2 DEF IsScale, ScaleStates
<1>6. scale.moving \subseteq DOMAIN scale.data /\ DOMAIN scale.data \subseteq ScaleViews
  BY <1>1, ScaleFields DEF Sound
<1>7. Sound(q) /\ Wired(q)
  BY <1>1, <1>5, <1>6, Aside
<1>8. /\ IsScale(m) /\ m.active = scale.active /\ m.hook = scale.hook /\ m.sigs = scale.sigs
      /\ m.bad = scale.bad /\ m.data = scale.data /\ m.was = scale.was /\ m.geo = scale.geo
      /\ m.dark = scale.dark /\ m.v = scale.v /\ m.moving = DOMAIN scale.data
  BY <1>3, <1>5, <1>6 DEF IsScale, ScaleStates
<1>9. Sound(m) /\ Wired(m)
  BY <1>1, <1>8, Aside
<1>10. CASE scale' = Deactivate(scale, next)
  BY <1>1, <1>10, DeactivatedOK
<1>11. CASE scale.active /\ scale' = LayoutSlots(m)
  BY <1>8, <1>9, <1>11, LaidOut DEF ScaleOK
<1>12. CASE GetViews(q) # {} /\ scale' = Activated(q, view)
  BY <1>7, <1>12, ActivatedOK DEF ScaleOK
<1>13. CASE scale' = q
  BY <1>7, <1>13 DEF ScaleOK
<1>. QED
  BY <1>4, <1>10, <1>11, <1>12, <1>13

(* Escape, with and without a filter.                                      *)
LEMMA ScaleEscapeOK ==
  ASSUME ScaleOK(scale), NEW next, NEW first, NEW from, ScaleEscape(next, first, from)
  PROVE  ScaleOK(scale')
<1>1. PICK d : d = Deactivate(scale, next)
  OBVIOUS
<1>2. PICK q : q = [d EXCEPT !.cur = from]
  OBVIOUS
<1>3. scale' = FocusRaise(q, first)
  BY <1>1, <1>2 DEF ScaleEscape
<1>4. ScaleOK(d)
  BY <1>1, DeactivatedOK DEF ScaleOK
<1>5. IsScale(q) /\ SameCourse(q, d) /\ q.v = d.v
  BY <1>2, <1>4 DEF ScaleOK, Sound, IsScale, ScaleStates, SameCourse
<1>6. Sound(q) /\ Wired(q)
  BY <1>4, <1>5, Steady DEF ScaleOK
<1>. QED
  BY <1>3, <1>6, FocusRaised DEF ScaleOK

(* The pointer and the keyboard, and all that lays the views out again.    *)
LEMMA ScaleInputOK ==
  ASSUME ScaleOK(scale),
         \/ \E v \in ScaleViews : ScaleClick(v) \/ ScaleArrow(v)
         \/ \E next : ScaleEnter(next)
         \/ ScaleDrag \/ ScaleDrop \/ ScaleCancel \/ ScaleRearrange
         \/ \E hides \in SUBSET ScaleViews : ScaleType(hides)
  PROVE  ScaleOK(scale')
<1>1. IsScale(scale) /\ Sound(scale) /\ Wired(scale)
  BY DEF ScaleOK, Sound
<1>2. scale.moving \subseteq DOMAIN scale.data /\ DOMAIN scale.data \subseteq ScaleViews
  BY <1>1, ScaleFields DEF Sound
<1>3. ASSUME NEW v \in ScaleViews, ScaleClick(v) PROVE ScaleOK(scale')
  <2>1. PICK q : q = [scale EXCEPT !.focus = v]
    OBVIOUS
  <2>2. /\ IsScale(q) /\ q.active = scale.active /\ q.hook = scale.hook /\ q.sigs = scale.sigs
        /\ q.bad = scale.bad /\ q.data = scale.data /\ q.was = scale.was /\ q.geo = scale.geo
        /\ q.dark = scale.dark /\ q.v = scale.v /\ q.moving = scale.moving
    BY <1>1, <2>1 DEF IsScale, ScaleStates
  <2>3. Sound(q)
    BY <1>1, <1>2, <2>2, Aside
  <2>. QED
    BY <1>3, <2>1, <2>3, DeactivatedOK DEF ScaleClick
<1>4. ASSUME NEW v \in ScaleViews, ScaleArrow(v) PROVE ScaleOK(scale')
  <2>1. PICK z : z = <<v>> \o SelectSeq(scale.recent, LAMBDA u : u # v)
    OBVIOUS
  <2>2. PICK q : q = [scale EXCEPT !.focus = v, !.moving = DOMAIN scale.data, !.recent = z]
    OBVIOUS
  <2>3. /\ IsScale(q) /\ q.active = scale.active /\ q.hook = scale.hook /\ q.sigs = scale.sigs
        /\ q.bad = scale.bad /\ q.data = scale.data /\ q.was = scale.was /\ q.geo = scale.geo
        /\ q.dark = scale.dark /\ q.v = scale.v /\ q.moving = DOMAIN scale.data
    BY <1>1, <1>2, <2>2 DEF IsScale, ScaleStates
  <2>4. Sound(q) /\ Wired(q)
    BY <1>1, <2>3, Aside
  <2>. QED
    BY <1>4, <2>1, <2>2, <2>4 DEF ScaleArrow, ScaleOK
<1>5. ASSUME NEW next, ScaleEnter(next) PROVE ScaleOK(scale')
  BY <1>1, <1>5, DeactivatedOK DEF ScaleEnter
<1>6. ASSUME NEW b \in BOOLEAN, NEW q, q = [scale EXCEPT !.drag = b]
      PROVE  Sound(q) /\ Wired(q) /\ q.active = scale.active
  <2>1. /\ IsScale(q) /\ q.active = scale.active /\ q.hook = scale.hook /\ q.sigs = scale.sigs
        /\ q.bad = scale.bad /\ q.data = scale.data /\ q.was = scale.was /\ q.geo = scale.geo
        /\ q.dark = scale.dark /\ q.v = scale.v /\ q.moving = scale.moving
    BY <1>1, <1>6 DEF IsScale, ScaleStates
  <2>. QED
    BY <1>1, <1>2, <2>1, Aside
<1>7. CASE ScaleDrag
  BY <1>6, <1>7 DEF ScaleDrag, ScaleOK
<1>8. CASE ScaleDrop
  <2>1. PICK q : q = [scale EXCEPT !.drag = FALSE]
    OBVIOUS
  <2>2. Sound(q) /\ Wired(q)
    BY <1>6, <2>1
  <2>3. scale' = IF q.active THEN LayoutSlots(q) ELSE q
    BY <1>8, <2>1 DEF ScaleDrop
  <2>. QED
    BY <2>2, <2>3, LaidOut DEF ScaleOK
<1>9. CASE ScaleCancel
  BY <1>1, <1>9, FinalizeOK DEF ScaleCancel
<1>10. CASE ScaleRearrange
  BY <1>1, <1>10, LaidOut DEF ScaleRearrange, ScaleOK
<1>11. ASSUME NEW hides \in SUBSET ScaleViews, ScaleType(hides) PROVE ScaleOK(scale')
  <2>1. PICK q : q = [scale EXCEPT !.filter = hides]
    OBVIOUS
  <2>2. /\ IsScale(q) /\ q.active = scale.active /\ q.hook = scale.hook /\ q.sigs = scale.sigs
        /\ q.bad = scale.bad /\ q.data = scale.data /\ q.was = scale.was /\ q.geo = scale.geo
        /\ q.dark = scale.dark /\ q.v = scale.v /\ q.moving = scale.moving
    BY <1>1, <2>1 DEF IsScale, ScaleStates
  <2>3. Sound(q) /\ Wired(q)
    BY <1>1, <1>2, <2>2, Aside
  <2>. QED
    BY <1>11, <2>1, <2>3 DEF ScaleType, ScaleOK
<1>. QED
  BY <1>3, <1>4, <1>5, <1>7, <1>8, <1>9, <1>10, <1>11

(* The invariant of scale holds before it runs.                            *)
LEMMA ScaleStarts == ScaleInit => ScaleOK(scale)
<1>. SUFFICES ASSUME ScaleInit PROVE ScaleOK(scale)
  OBVIOUS
<1>1. PICK y : y = [mapped |-> FALSE, minimized |-> FALSE, here |-> TRUE, ws |-> 1, root |-> 0, node |-> 1]
  OBVIOUS
<1>2. y \in ScaleViewRecs /\ y.mapped = FALSE /\ y.minimized = FALSE /\ y.root = 0 /\ y.node = 1
  BY <1>1 DEF ScaleViewRecs, ScaleGrid
<1>3. PICK V : V = [w \in ScaleViews |-> y]
  OBVIOUS
<1>4. V \in [ScaleViews -> ScaleViewRecs] /\ \A w \in ScaleViews : V[w] = y
  BY <1>2, <1>3
<1>5. PICK none : none = <<>>
  OBVIOUS
<1>6. DOMAIN none = {} /\ none \in ScaleData
  <2>1. DOMAIN none = {} /\ none \in [{} -> Showing]
    BY <1>5
  <2>. QED
    BY <2>1, DataOf
<1>7. scale = [active |-> FALSE, hook |-> FALSE, all |-> FALSE, sigs |-> FALSE, typing |-> FALSE,
           drag |-> FALSE, focus |-> NoScaleView, data |-> none,
           was |-> {}, moving |-> {}, geo |-> {}, filter |-> {}, dark |-> {}, bad |-> FALSE,
           cur |-> 1, recent |-> <<>>, v |-> V]
  BY <1>1, <1>3, <1>5 DEF ScaleInit
<1>8. /\ IsScale(scale) /\ scale.v = V /\ scale.data = none /\ scale.was = {} /\ scale.moving = {}
      /\ scale.geo = {} /\ ~scale.bad /\ scale.active = FALSE /\ scale.sigs = FALSE
  BY <1>4, <1>6, <1>7 DEF IsScale, ScaleStates
<1>9. HiddenViews(scale) = {}
  BY <1>6, <1>8 DEF HiddenViews
<1>10. Even(scale)
  BY <1>2, <1>4, <1>8, <1>9 DEF Even, Own, One
<1>. QED
  BY <1>6, <1>8, <1>10 DEF ScaleOK, Sound, Wired

(* Every step of scale keeps its invariant.                                *)
LEMMA ScaleMoves ==
  ASSUME ScaleOK(scale), ScaleNext
  PROVE  ScaleOK(scale')
<1>1. CASE ScaleToggle
  BY <1>1, ToggleOK DEF ScaleToggle
<1>2. ASSUME NEW next, ScaleEnter(next) PROVE ScaleOK(scale')
  BY <1>2, ScaleInputOK
<1>3. ASSUME NEW next, NEW first, NEW from, ScaleEscape(next, first, from) PROVE ScaleOK(scale')
  BY <1>3, ScaleEscapeOK
<1>4. CASE ScaleDrag \/ ScaleDrop \/ ScaleCancel \/ ScaleRearrange
  BY <1>4, ScaleInputOK
<1>5. ASSUME NEW ended \in SUBSET scale.moving, ScaleFrame(ended) PROVE ScaleOK(scale')
  BY <1>5, ScaleFrameOK
<1>6. ASSUME NEW hides \in SUBSET ScaleViews, ScaleType(hides) PROVE ScaleOK(scale')
  BY <1>6, ScaleInputOK
<1>7. ASSUME NEW v \in ScaleViews, ScaleClick(v) \/ ScaleArrow(v) PROVE ScaleOK(scale')
  BY <1>7, ScaleInputOK
<1>8. ASSUME NEW v \in ScaleViews,
             ScaleUnmap(v) \/ ScaleLeave(v) \/ ScaleArrive(v) \/ ScaleMinimize(v) \/ ScaleRestore(v)
      PROVE  ScaleOK(scale')
  BY <1>8, ScaleUnmapOK, ScaleLeaveOK, ScaleArriveOK, ScaleMinimizeOK, ScaleRestoreOK
<1>9. ASSUME NEW v \in ScaleViews, NEW to \in ScaleGrid, ScaleGeometry(v, to) PROVE ScaleOK(scale')
  BY <1>9, ScaleGeometryOK
<1>10. ASSUME NEW v \in ScaleViews, NEW to \in ScaleGrid, NEW close \in BOOLEAN,
              NEW focused \in BOOLEAN, ScaleMap(v, to, close, focused)
       PROVE  ScaleOK(scale')
  BY <1>10, ScaleMapOK
<1>11. ASSUME NEW to \in ScaleGrid, ScaleWorkspace(to) PROVE ScaleOK(scale')
  BY <1>11, ScaleWorkspaceOK
<1>. QED
  BY <1>1, <1>2, <1>3, <1>4, <1>5, <1>6, <1>7, <1>8, <1>9, <1>10, <1>11 DEF ScaleNext

(* What ScaleUndoes asks for.                                              *)
LEMMA ScaleRight == ScaleOK(scale) => ScaleUndoes
<1>. SUFFICES ASSUME ScaleOK(scale) PROVE ScaleUndoes
  OBVIOUS
<1>1. ~scale.bad /\ scale.sigs = scale.active
      /\ (~scale.hook => ~scale.active /\ DOMAIN scale.data = {})
  BY DEF ScaleOK, Sound, Wired
<1>2. ASSUME NEW v \in ScaleViews
      PROVE  /\ scale.v[v].root = One(scale.v[v].mapped) - One(scale.v[v].minimized) + One(v \in scale.was)
             /\ v \in scale.dark \/ scale.v[v].node = 1 - One(v \in HiddenViews(scale))
  BY DEF ScaleOK, Sound, Even, Own
<1>. QED
  BY <1>1, <1>2 DEF ScaleUndoes

-----------------------------------------------------------------------------
(* The switchers: switcher.cpp and fast-switcher.cpp.                      *)
SwitchViewRecs == [mapped: BOOLEAN, minimized: BOOLEAN, place: Places, root: Int]
SwitchStates(list) ==
  [plugin: BOOLEAN, active: BOOLEAN, grab: BOOLEAN, views: {list}, tr: SUBSET SwitchViews,
   shown: SUBSET SwitchViews, ring: SUBSET SwitchViews, lost: SUBSET SwitchViews]
FastStates ==
  [active: BOOLEAN, views: Seq(SwitchViews), index: Int, tr: SUBSET SwitchViews,
   opaque: SUBSET SwitchViews, lost: SUBSET SwitchViews]

(* Root nodes count what their view does and what the switcher does.       *)
Rooted(vs, shown) ==
  \A v \in SwitchViews : vs[v].root = Own(vs[v]) + One(v \in shown)

SwitchTypes(s, vs) ==
  s \in SwitchStates(s.views) /\ vs \in [SwitchViews -> SwitchViewRecs]

SwitchOK(s, vs) ==
  /\ SwitchTypes(s, vs) /\ Rooted(vs, s.shown)
  /\ ~s.plugin => s.tr \cup s.shown \subseteq s.lost

(* While the fast switcher is active, its list has no view twice, and has  *)
(* all that have its transformer but for what is lost.                     *)
FastOK(f) ==
  /\ f \in FastStates
  /\ ~f.active => f.tr \subseteq f.lost
  /\ f.active =>
       /\ f.tr \subseteq ToSet(f.views) \cup f.lost
       /\ \A i, j \in DOMAIN f.views : i # j => f.views[i] # f.views[j]
       /\ f.index \in DOMAIN f.views /\ f.opaque = {f.views[f.index]}

SwitchersOK == SwitchOK(sw, swv) /\ FastOK(fs)

(* The fields of the switcher and of its views.                            *)
LEMMA SwitchFields ==
  ASSUME NEW s, NEW vs, SwitchTypes(s, vs)
  PROVE  /\ s.plugin \in BOOLEAN /\ s.active \in BOOLEAN /\ s.grab \in BOOLEAN
         /\ s.tr \subseteq SwitchViews /\ s.shown \subseteq SwitchViews
         /\ s.ring \subseteq SwitchViews /\ s.lost \subseteq SwitchViews
         /\ \A v \in SwitchViews :
              /\ vs[v] \in SwitchViewRecs
              /\ vs[v].mapped \in BOOLEAN /\ vs[v].minimized \in BOOLEAN
              /\ vs[v].place \in Places /\ vs[v].root \in Int
BY DEF SwitchTypes, SwitchStates, SwitchViewRecs

(* RootsAfter changes nothing but the counters.                            *)
LEMMA RootsChange ==
  ASSUME NEW vs \in [SwitchViews -> SwitchViewRecs], NEW more, NEW less,
         NEW r, r = RootsAfter(vs, more, less)
  PROVE  /\ r \in [SwitchViews -> SwitchViewRecs]
         /\ \A v \in SwitchViews :
              /\ r[v].mapped = vs[v].mapped /\ r[v].minimized = vs[v].minimized
              /\ r[v].place = vs[v].place
              /\ r[v].root = vs[v].root + One(v \in more) - One(v \in less)
<1>1. ASSUME NEW v \in SwitchViews
      PROVE  /\ r[v] \in SwitchViewRecs
             /\ r[v].mapped = vs[v].mapped /\ r[v].minimized = vs[v].minimized
             /\ r[v].place = vs[v].place
             /\ r[v].root = vs[v].root + One(v \in more) - One(v \in less)
  <2>1. PICK x \in SwitchViewRecs : x = vs[v]
    OBVIOUS
  <2>2. PICK n \in Int : n = One(v \in more) - One(v \in less)
    BY DEF One
  <2>3. x.root \in Int
    BY DEF SwitchViewRecs
  <2>4. PICK m \in Int : m = x.root + n
    BY <2>3
  <2>5. PICK y : y = [x EXCEPT !.root = m]
    OBVIOUS
  <2>6. r[v] = y
    <3>1. x.root + (IF v \in more THEN 1 ELSE 0) - (IF v \in less THEN 1 ELSE 0) = m
      BY <2>2, <2>3, <2>4 DEF One
    <3>2. r[v] = [x EXCEPT !.root = x.root + (IF v \in more THEN 1 ELSE 0) - (IF v \in less THEN 1 ELSE 0)]
      BY <2>1 DEF RootsAfter
    <3>. QED
      BY <2>5, <3>1, <3>2
  <2>7. y \in SwitchViewRecs /\ y.mapped = x.mapped /\ y.minimized = x.minimized
        /\ y.place = x.place /\ y.root = m
    BY <2>5 DEF SwitchViewRecs
  <2>. QED
    BY <2>1, <2>2, <2>3, <2>4, <2>6, <2>7 DEF One
<1>2. r = [v \in SwitchViews |-> r[v]]
  BY DEF RootsAfter
<1>. QED
  BY <1>1, <1>2

(* What the switcher shows anew, and what it stops to show.                *)
LEMMA RootsFollow ==
  ASSUME NEW vs \in [SwitchViews -> SwitchViewRecs], NEW A, NEW B, Rooted(vs, A),
         NEW P, NEW Q, \A v \in SwitchViews : (v \in B <=> (v \in A /\ v \notin Q) \/ v \in P),
         \A v \in SwitchViews : (v \in P => v \notin A /\ v \notin Q) /\ (v \in Q => v \in A),
         NEW r, r = RootsAfter(vs, P, Q)
  PROVE  Rooted(r, B) /\ r \in [SwitchViews -> SwitchViewRecs]
<1>1. /\ r \in [SwitchViews -> SwitchViewRecs]
      /\ \A v \in SwitchViews :
           /\ r[v].mapped = vs[v].mapped /\ r[v].minimized = vs[v].minimized
           /\ r[v].root = vs[v].root + One(v \in P) - One(v \in Q)
  BY RootsChange
<1>2. ASSUME NEW v \in SwitchViews PROVE r[v].root = Own(r[v]) + One(v \in B)
  <2>1. vs[v].root = Own(vs[v]) + One(v \in A) /\ Own(r[v]) = Own(vs[v])
    BY <1>1 DEF Rooted, Own
  <2>2. PICK o \in Int : o = Own(vs[v])
    <3>1. PICK x \in SwitchViewRecs : x = vs[v]
      OBVIOUS
    <3>2. Own(x) \in Int
      BY <3>1 DEF Own, One, SwitchViewRecs
    <3>. QED
      BY <3>1, <3>2
  <2>3. r[v].root = o + One(v \in A) + One(v \in P) - One(v \in Q)
    BY <1>1, <2>1, <2>2
  <2>4. /\ v \in B <=> (v \in A /\ v \notin Q) \/ v \in P
        /\ v \in P => v \notin A /\ v \notin Q
        /\ v \in Q => v \in A
    OBVIOUS
  <2>. QED
    BY <2>1, <2>2, <2>3, <2>4 DEF One
<1>. QED
  BY <1>1, <1>2 DEF Rooted

(* A view is mapped, unmapped, minimized or restored: x becomes y.         *)
LEMMA Recounted ==
  ASSUME NEW vs \in [SwitchViews -> SwitchViewRecs], NEW A, Rooted(vs, A),
         NEW v \in SwitchViews, NEW y \in SwitchViewRecs, y.root = vs[v].root,
         NEW q \in [SwitchViews -> SwitchViewRecs], q[v] = y,
         \A u \in SwitchViews \ {v} : q[u] = vs[u], NEW P, NEW Q,
         NEW o, o = One(v \in P) - One(v \in Q), Own(y) = Own(vs[v]) + o, P \subseteq {v}, Q \subseteq {v},
         NEW r, r = RootsAfter(q, P, Q)
  PROVE  Rooted(r, A) /\ r \in [SwitchViews -> SwitchViewRecs]
<1>1. q[v] = y /\ \A u \in SwitchViews \ {v} : q[u] = vs[u]
  OBVIOUS
<1>2. /\ r \in [SwitchViews -> SwitchViewRecs]
      /\ \A u \in SwitchViews :
           /\ r[u].mapped = q[u].mapped /\ r[u].minimized = q[u].minimized
           /\ r[u].root = q[u].root + One(u \in P) - One(u \in Q)
  BY RootsChange
<1>3. ASSUME NEW u \in SwitchViews PROVE r[u].root = Own(r[u]) + One(u \in A)
  <2>1. vs[u].root = Own(vs[u]) + One(u \in A) /\ Own(r[u]) = Own(q[u])
    BY <1>2 DEF Rooted, Own
  <2>2. PICK w \in Int : w = Own(vs[u])
    <3>1. PICK x \in SwitchViewRecs : x = vs[u]
      OBVIOUS
    <3>2. Own(x) \in Int
      BY <3>1 DEF Own, One, SwitchViewRecs
    <3>. QED
      BY <3>1, <3>2
  <2>3. CASE u = v
    <3>1. r[u].root = w + One(u \in A) + One(v \in P) - One(v \in Q)
      BY <1>1, <1>2, <2>1, <2>2, <2>3
    <3>2. Own(r[u]) = w + (One(v \in P) - One(v \in Q))
      BY <1>1, <2>1, <2>2, <2>3
    <3>3. One(u \in A) \in Int /\ One(v \in P) \in Int /\ One(v \in Q) \in Int
      BY DEF One
    <3>. QED
      BY <2>2, <3>1, <3>2, <3>3
  <2>4. CASE u # v
    <3>1. u \notin P /\ u \notin Q /\ q[u] = vs[u]
      BY <1>1, <2>4
    <3>2. r[u].root = w + One(u \in A) + One(u \in P) - One(u \in Q) /\ Own(r[u]) = w
      BY <1>2, <2>1, <2>2, <3>1
    <3>3. r[u].root = w + One(u \in A)
      BY <2>2, <3>1, <3>2 DEF One
    <3>. QED
      BY <3>2, <3>3
  <2>. QED
    BY <2>3, <2>4
<1>. QED
  BY <1>2, <1>3 DEF Rooted

(* arrange(): more views have a transformer, and more are shown.           *)
LEMMA ArrangedMore ==
  ASSUME NEW s, NEW vs, SwitchTypes(s, vs), NEW order, NEW twice, NEW r, r = Arrange(s, vs, order, twice)
  PROVE  r \in SwitchStates(r.views) /\ s.shown \subseteq r.shown /\ r.plugin = s.plugin
<1>. DEFINE new == OnWorkspace(vs) \ s.tr
            more == {v \in new : vs[v].minimized}
<1>1. PICK list : list = IF order = <<>> THEN <<>> ELSE Arranged(order, twice)
  OBVIOUS
<1>2. r = [s EXCEPT !.views = list, !.ring = OnWorkspace(vs), !.tr = @ \cup new, !.shown = @ \cup more]
  BY <1>1 DEF Arrange
<1>3. OnWorkspace(vs) \subseteq SwitchViews /\ new \subseteq SwitchViews /\ more \subseteq SwitchViews
  BY DEF OnWorkspace
<1>. HIDE DEF new, more
<1>. QED
  BY <1>2, <1>3 DEF SwitchTypes, SwitchStates

(* deinit_switcher(): what it leaves is lost.                              *)
LEMMA DeinitLess ==
  ASSUME NEW s, SwitchTypes(s, swv), NEW r, r = Deinit(s)
  PROVE  /\ r \in SwitchStates(r.views) /\ r.shown \subseteq s.shown
         /\ r.tr \cup r.shown \subseteq r.lost
<1>. DEFINE left == {v \in s.tr : swv[v].place = "away"}
<1>1. r = [s EXCEPT !.plugin = FALSE, !.views = <<>>, !.ring = {}, !.tr = left, !.lost = left,
                    !.shown = @ \cap left]
  BY DEF Deinit
<1>2. left \subseteq s.tr
  OBVIOUS
<1>. HIDE DEF left
<1>3. PICK none : none = <<>>
  OBVIOUS
<1>4. r = [s EXCEPT !.plugin = FALSE, !.views = none, !.ring = {}, !.tr = left, !.lost = left,
                    !.shown = @ \cap left]
  BY <1>1, <1>3
<1>. QED
  BY <1>2, <1>4 DEF SwitchTypes, SwitchStates

(* An order of a set of views has each of them once.                       *)
LEMMA OrdersAll ==
  ASSUME NEW S \in SUBSET SwitchViews, S # {}, NEW order \in Orders(S)
  PROVE  /\ order \in Seq(SwitchViews) /\ Len(order) >= 1
         /\ \A i, j \in DOMAIN order : i # j => order[i] # order[j]
         /\ S = ToSet(order)
<1>1. IsFiniteSet(S)
  BY SwitcherAssumption, FS_Subset
<1>2. Cardinality(S) \in Nat /\ Cardinality(S) # 0
  BY <1>1, FS_CardinalityType, FS_EmptySet
<1>3. PICK n \in Nat \ {0} : n = Cardinality(S)
  BY <1>2
<1>4. order \in [1..n -> S] /\ \A i, j \in DOMAIN order : i # j => order[i] # order[j]
  BY <1>3 DEF Orders
<1>5. order \in Seq(SwitchViews) /\ Len(order) = n /\ DOMAIN order = 1..n
  BY <1>4
<1>6. order \in Injection(1..n, S)
  BY <1>4 DEF Injection, IsInjective
<1>7. Cardinality(1..n) = n
  BY FS_Interval
<1>8. order \in Surjection(1..n, S)
  BY <1>1, <1>3, <1>6, <1>7, FS_Injection
<1>9. S = ToSet(order)
  BY <1>4, <1>5, <1>8 DEF Surjection, ToSet
<1>. QED
  BY <1>4, <1>5, <1>9

(* A list of views without one of them.                                    *)
LEMMA OneRemoved ==
  ASSUME NEW list \in Seq(SwitchViews), NEW i \in DOMAIN list,
         \A j, k \in DOMAIN list : j # k => list[j] # list[k],
         NEW r, r = RemoveAt(list, i)
  PROVE  /\ r \in Seq(SwitchViews) /\ Len(r) = Len(list) - 1
         /\ \A j \in DOMAIN r : r[j] = IF j < i THEN list[j] ELSE list[j + 1]
         /\ \A j, k \in DOMAIN r : j # k => r[j] # r[k]
         /\ ToSet(list) \subseteq ToSet(r) \cup {list[i]}
<1>1. i \in 1..Len(list) /\ Len(list) \in Nat
  OBVIOUS
<1>2. /\ SubSeq(list, 1, i - 1) \in Seq(SwitchViews) /\ Len(SubSeq(list, 1, i - 1)) = i - 1
      /\ \A j \in 1..(i - 1) : SubSeq(list, 1, i - 1)[j] = list[j]
  <2>1. /\ SubSeq(list, 1, i - 1) \in Seq(SwitchViews)
        /\ Len(SubSeq(list, 1, i - 1)) = IF 1 <= i - 1 THEN (i - 1) - 1 + 1 ELSE 0
        /\ \A j \in 1..((i - 1) - 1 + 1) : SubSeq(list, 1, i - 1)[j] = list[1 + j - 1]
    <3>1. \A j \in 1..(i - 1) : list[j] \in SwitchViews
      BY <1>1
    <3>2. 1 \in Int /\ i - 1 \in Int
      BY <1>1
    <3>. QED
      BY <3>1, <3>2, SubSeqProperties
  <2>. QED
    BY <1>1, <2>1
<1>3. /\ SubSeq(list, i + 1, Len(list)) \in Seq(SwitchViews)
      /\ Len(SubSeq(list, i + 1, Len(list))) = Len(list) - i
      /\ \A j \in 1..(Len(list) - i) : SubSeq(list, i + 1, Len(list))[j] = list[j + i]
  <2>1. /\ SubSeq(list, i + 1, Len(list)) \in Seq(SwitchViews)
        /\ Len(SubSeq(list, i + 1, Len(list))) = IF i + 1 <= Len(list) THEN Len(list) - (i + 1) + 1 ELSE 0
        /\ \A j \in 1..(Len(list) - (i + 1) + 1) : SubSeq(list, i + 1, Len(list))[j] = list[i + 1 + j - 1]
    <3>1. \A j \in (i + 1)..Len(list) : list[j] \in SwitchViews
      BY <1>1
    <3>2. i + 1 \in Int /\ Len(list) \in Int
      BY <1>1
    <3>. QED
      BY <3>1, <3>2, SubSeqProperties
  <2>2. \A j \in 1..(Len(list) - i) : i + 1 + j - 1 = j + i
    BY <1>1
  <2>3. Len(list) - (i + 1) + 1 = Len(list) - i
    BY <1>1
  <2>4. (IF i + 1 <= Len(list) THEN Len(list) - i ELSE 0) = Len(list) - i
    BY <1>1
  <2>. QED
    BY <2>1, <2>2, <2>3, <2>4
<1>4. PICK a \in Seq(SwitchViews) : a = SubSeq(list, 1, i - 1) /\ Len(a) = i - 1
                                     /\ \A j \in 1..(i - 1) : a[j] = list[j]
  BY <1>2
<1>5. PICK b \in Seq(SwitchViews) : b = SubSeq(list, i + 1, Len(list)) /\ Len(b) = Len(list) - i
                                     /\ \A j \in 1..(Len(list) - i) : b[j] = list[j + i]
  BY <1>3
<1>6. r = a \o b
  BY <1>4, <1>5 DEF RemoveAt
<1>7. /\ r \in Seq(SwitchViews) /\ Len(r) = Len(a) + Len(b)
      /\ \A j \in 1..(Len(a) + Len(b)) : r[j] = IF j <= Len(a) THEN a[j] ELSE b[j - Len(a)]
  BY <1>6, ConcatProperties
<1>8. r \in Seq(SwitchViews) /\ Len(r) = Len(list) - 1
  BY <1>1, <1>4, <1>5, <1>7
<1>9. ASSUME NEW j \in DOMAIN r PROVE r[j] = IF j < i THEN list[j] ELSE list[j + 1]
  <2>1. j \in 1..(Len(list) - 1)
    BY <1>8
  <2>2. CASE j < i
    <3>1. j \in 1..(Len(a) + Len(b)) /\ j <= Len(a) /\ j \in 1..(i - 1)
      BY <1>1, <1>4, <1>5, <2>1, <2>2
    <3>. QED
      BY <1>4, <1>7, <2>2, <3>1
  <2>3. CASE ~(j < i)
    <3>1. r[j] = b[j - (i - 1)]
      <4>1. j \in 1..(Len(a) + Len(b)) /\ ~(j <= Len(a)) /\ Len(a) = i - 1
        BY <1>1, <1>4, <1>5, <2>1, <2>3
      <4>. QED
        BY <1>7, <4>1
    <3>2. j - (i - 1) \in 1..(Len(list) - i) /\ (j - (i - 1)) + i = j + 1
      BY <1>1, <2>1, <2>3
    <3>. QED
      BY <1>5, <2>3, <3>1, <3>2
  <2>. QED
    BY <2>2, <2>3
<1>10. ASSUME NEW j \in DOMAIN r, NEW k \in DOMAIN r, j # k PROVE r[j] # r[k]
  <2>1. j \in 1..(Len(list) - 1) /\ k \in 1..(Len(list) - 1)
    BY <1>8
  <2>2. PICK p \in DOMAIN list : p = IF j < i THEN j ELSE j + 1
    BY <1>1, <2>1
  <2>3. PICK q \in DOMAIN list : q = IF k < i THEN k ELSE k + 1
    BY <1>1, <2>1
  <2>4. p # q
    BY <1>1, <1>10, <2>1, <2>2, <2>3
  <2>5. r[j] = list[p] /\ r[k] = list[q]
    BY <1>9, <2>2, <2>3
  <2>. QED
    BY <2>4, <2>5
<1>11. ASSUME NEW v \in ToSet(list), v # list[i] PROVE v \in ToSet(r)
  <2>1. PICK p \in DOMAIN list : v = list[p]
    BY DEF ToSet
  <2>2. p # i /\ p \in 1..Len(list)
    BY <1>11, <2>1
  <2>3. PICK j \in 1..(Len(list) - 1) : p = IF j < i THEN j ELSE j + 1
    <3>1. CASE p < i
      BY <1>1, <2>2, <3>1
    <3>2. CASE p > i
      <4>1. p - 1 \in 1..(Len(list) - 1) /\ ~(p - 1 < i) /\ p = (p - 1) + 1
        BY <1>1, <2>2, <3>2
      <4>. QED
        BY <4>1
    <3>. QED
      BY <1>1, <2>2, <3>1, <3>2
  <2>4. j \in DOMAIN r
    BY <1>8
  <2>5. r[j] = v
    BY <1>9, <2>1, <2>3, <2>4
  <2>. QED
    BY <2>4, <2>5 DEF ToSet
<1>. QED
  BY <1>8, <1>9, <1>10, <1>11

-----------------------------------------------------------------------------
(* The fields of the fast switcher.                                        *)
LEMMA FastFields ==
  ASSUME NEW f \in FastStates
  PROVE  /\ f.active \in BOOLEAN /\ f.views \in Seq(SwitchViews) /\ f.index \in Int
         /\ f.tr \subseteq SwitchViews /\ f.opaque \subseteq SwitchViews /\ f.lost \subseteq SwitchViews
BY DEF FastStates

(* view_chosen(): of a view that is there.                                 *)
LEMMA ChosenFields ==
  ASSUME NEW f \in FastStates, NEW i, i \in DOMAIN f.views, NEW r, r = Chosen(f, i)
  PROVE  /\ r \in FastStates
         /\ r.active = f.active /\ r.views = f.views /\ r.lost = f.lost /\ r.index = i
         /\ r.tr = f.tr \cup {f.views[i]} /\ r.opaque = f.opaque \cup {f.views[i]}
<1>1. f.views \in Seq(SwitchViews)
  BY FastFields
<1>2. f.views[i] \in SwitchViews /\ i \in Int
  BY <1>1
<1>3. r = [f EXCEPT !.index = i, !.tr = @ \cup {f.views[i]}, !.opaque = @ \cup {f.views[i]}]
  BY DEF Chosen
<1>4. PICK x \in SwitchViews : x = f.views[i]
  BY <1>2
<1>5. r = [f EXCEPT !.index = i, !.tr = @ \cup {x}, !.opaque = @ \cup {x}]
  BY <1>3, <1>4
<1>6. PICK T \in SUBSET SwitchViews, O \in SUBSET SwitchViews : T = f.tr \cup {x} /\ O = f.opaque \cup {x}
  BY FastFields
<1>7. r = [f EXCEPT !.index = i, !.tr = T, !.opaque = O]
  BY <1>5, <1>6
<1>8. r \in FastStates
  BY <1>2, <1>7 DEF FastStates
<1>9. /\ r.active = f.active /\ r.views = f.views /\ r.lost = f.lost /\ r.index = i
      /\ r.tr = f.tr \cup {x} /\ r.opaque = f.opaque \cup {x}
  BY <1>5 DEF FastStates
<1>. QED
  BY <1>4, <1>8, <1>9

(* An active fast switcher with a list, whose views are all translucent    *)
(* but for the one that is chosen now.                                     *)
LEMMA ChosenOK ==
  ASSUME NEW f \in FastStates, f.active = TRUE, NEW i, i \in DOMAIN f.views,
         f.tr \subseteq ToSet(f.views) \cup f.lost,
         \A j, k \in DOMAIN f.views : j # k => f.views[j] # f.views[k],
         f.opaque \subseteq {f.views[i]}, NEW r, r = Chosen(f, i)
  PROVE  FastOK(r)
<1>1. /\ r \in FastStates
      /\ r.active = f.active /\ r.views = f.views /\ r.lost = f.lost /\ r.index = i
      /\ r.tr = f.tr \cup {f.views[i]} /\ r.opaque = f.opaque \cup {f.views[i]}
  BY ChosenFields
<1>2. f.views[i] \in ToSet(f.views)
  BY DEF ToSet
<1>. QED
  BY <1>1, <1>2 DEF FastOK

(* switch_next().                                                          *)
LEMMA FastNextOK ==
  ASSUME NEW f \in FastStates, f.active = TRUE, f.index \in DOMAIN f.views,
         f.tr \subseteq ToSet(f.views) \cup f.lost,
         \A j, k \in DOMAIN f.views : j # k => f.views[j] # f.views[k],
         f.opaque \subseteq {f.views[f.index]}, NEW forward, NEW r, r = FastNext(f, forward)
  PROVE  FastOK(r)
<1>1. f.views \in Seq(SwitchViews) /\ f.index \in Int /\ f.opaque \subseteq SwitchViews
  BY FastFields
<1>2. PICK n \in Nat : n = Len(f.views)
  BY <1>1
<1>3. DOMAIN f.views = 1..n /\ f.index \in 1..n
  BY <1>1, <1>2
<1>4. PICK i \in 1..n :
        i = IF forward THEN (f.index % n) + 1 ELSE IF f.index > 1 THEN f.index - 1 ELSE n
  <2>1. f.index % n \in 0..(n - 1)
    BY <1>3
  <2>. QED
    BY <1>3, <2>1
<1>5. PICK g : g = [f EXCEPT !.opaque = @ \ {f.views[f.index]}]
  OBVIOUS
<1>6. r = Chosen(g, i)
  BY <1>2, <1>4, <1>5 DEF FastNext
<1>7. PICK x : x = f.views[f.index]
  OBVIOUS
<1>8. g = [f EXCEPT !.opaque = @ \ {x}]
  BY <1>5, <1>7
<1>9. g \in FastStates
  BY <1>8 DEF FastStates
<1>10. /\ g.active = f.active /\ g.views = f.views /\ g.lost = f.lost /\ g.index = f.index
       /\ g.tr = f.tr /\ g.opaque = f.opaque \ {x}
  BY <1>8 DEF FastStates
<1>11. g.opaque = {}
  BY <1>7, <1>10
<1>12. /\ g.active = TRUE /\ i \in DOMAIN g.views /\ g.tr \subseteq ToSet(g.views) \cup g.lost
       /\ \A j, k \in DOMAIN g.views : j # k => g.views[j] # g.views[k]
       /\ g.opaque \subseteq {g.views[i]}
  BY <1>3, <1>10, <1>11
<1>. QED
  BY <1>6, <1>9, <1>12, ChosenOK

(* switch_terminate(), of a list from which all views with a transformer   *)
(* can be reached.                                                         *)
LEMMA TerminatedOK ==
  ASSUME NEW f \in FastStates, f.tr \subseteq ToSet(f.views) \cup f.lost, NEW r, r = Terminated(f)
  PROVE  FastOK(r) /\ ~r.active
<1>1. PICK ch : ch = Chosen(f, f.index)
  OBVIOUS
<1>2. /\ ch \in FastStates /\ ch.lost = f.lost
      /\ ch.tr \subseteq ToSet(f.views) \cup f.lost
  <2>1. CASE f.index \in DOMAIN f.views
    <3>1. ch \in FastStates /\ ch.lost = f.lost /\ ch.tr = f.tr \cup {f.views[f.index]}
      BY <1>1, <2>1, ChosenFields
    <3>2. f.views[f.index] \in ToSet(f.views)
      BY <2>1 DEF ToSet
    <3>. QED
      BY <3>1, <3>2
  <2>2. CASE f.index \notin DOMAIN f.views
    BY <1>1, <2>2 DEF Chosen
  <2>. QED
    BY <2>1, <2>2
<1>3. PICK S : S = ToSet(f.views)
  OBVIOUS
<1>4. PICK none \in Seq(SwitchViews) : none = <<>>
  <2>1. <<>> \in Seq(SwitchViews)
    OBVIOUS
  <2>. QED
    BY <2>1
<1>5. r = [ch EXCEPT !.active = FALSE, !.views = none, !.index = 1, !.opaque = {},
                     !.lost = @ \ S, !.tr = @ \ S]
  BY <1>1, <1>3, <1>4 DEF Terminated
<1>6. PICK T \in SUBSET SwitchViews, L \in SUBSET SwitchViews : T = ch.tr \ S /\ L = ch.lost \ S
  BY <1>2, FastFields
<1>7. PICK b \in BOOLEAN, O \in SUBSET SwitchViews : b = FALSE /\ O = {}
  OBVIOUS
<1>8. r = [ch EXCEPT !.active = b, !.views = none, !.index = 1, !.opaque = O, !.lost = L, !.tr = T]
  BY <1>5, <1>6, <1>7
<1>9. none \in Seq(SwitchViews) /\ b \in BOOLEAN /\ 1 \in Int /\ ch \in FastStates
  BY <1>2, <1>4, <1>7
<1>10. r \in FastStates
  BY <1>8, <1>9 DEF FastStates
<1>11. r.active = FALSE /\ r.tr = ch.tr \ S /\ r.lost = ch.lost \ S
  BY <1>2, <1>5 DEF FastStates
<1>. QED
  BY <1>2, <1>3, <1>10, <1>11 DEF FastOK

(* cleanup_view, of a view of the list: the index moves with the views.    *)
LEMMA FastWithoutOK ==
  ASSUME NEW f, FastOK(f), f.active = TRUE, NEW v, NEW r, r = FastWithout(f, v)
  PROVE  FastOK(r)
<1>1. CASE v \notin ToSet(f.views)
  BY <1>1 DEF FastWithout
<1>2. CASE v \in ToSet(f.views)
  <2>1. /\ f \in FastStates /\ f.index \in DOMAIN f.views /\ f.opaque = {f.views[f.index]}
        /\ f.tr \subseteq ToSet(f.views) \cup f.lost
        /\ \A j, k \in DOMAIN f.views : j # k => f.views[j] # f.views[k]
    BY DEF FastOK
  <2>2. f.views \in Seq(SwitchViews) /\ f.index \in Int /\ f.lost \subseteq SwitchViews
    BY <2>1, FastFields
  <2>3. PICK i \in DOMAIN f.views : i = (CHOOSE j \in DOMAIN f.views : f.views[j] = v) /\ f.views[i] = v
    <3>1. \E j \in DOMAIN f.views : f.views[j] = v
      BY <1>2 DEF ToSet
    <3>. QED
      BY <3>1
  <2>4. PICK list : list = RemoveAt(f.views, i)
    OBVIOUS
  <2>5. /\ list \in Seq(SwitchViews) /\ Len(list) = Len(f.views) - 1
        /\ \A j \in DOMAIN list : list[j] = IF j < i THEN f.views[j] ELSE f.views[j + 1]
        /\ \A j, k \in DOMAIN list : j # k => list[j] # list[k]
        /\ ToSet(f.views) \subseteq ToSet(list) \cup {f.views[i]}
    <3>1. PICK list0 \in Seq(SwitchViews) : list0 = f.views
      BY <2>2
    <3>2. i \in DOMAIN list0 /\ (\A j, k \in DOMAIN list0 : j # k => list0[j] # list0[k])
      BY <2>1, <2>3, <3>1
    <3>3. list = RemoveAt(list0, i)
      BY <2>4, <3>1
    <3>4. /\ list \in Seq(SwitchViews) /\ Len(list) = Len(list0) - 1
          /\ \A j \in DOMAIN list : list[j] = IF j < i THEN list0[j] ELSE list0[j + 1]
          /\ \A j, k \in DOMAIN list : j # k => list[j] # list[k]
          /\ ToSet(list0) \subseteq ToSet(list) \cup {list0[i]}
      BY <3>2, <3>3, OneRemoved
    <3>. QED
      BY <3>1, <3>4
  <2>6. PICK left : left = [f EXCEPT !.views = list, !.opaque = @ \ {v}, !.lost = @ \cup {v}]
    OBVIOUS
  <2>7. v \in SwitchViews
    <3>1. \A list0 \in Seq(SwitchViews) : \A j \in DOMAIN list0 : list0[j] \in SwitchViews
      OBVIOUS
    <3>. QED
      BY <2>2, <2>3, <3>1
  <2>8. left \in FastStates
    BY <2>1, <2>5, <2>6, <2>7 DEF FastStates
  <2>9. /\ left.active = TRUE /\ left.views = list /\ left.index = f.index /\ left.tr = f.tr
        /\ left.opaque = f.opaque \ {v} /\ left.lost = f.lost \cup {v}
    BY <2>1, <2>6 DEF FastStates
  <2>10. left.tr \subseteq ToSet(left.views) \cup left.lost
    BY <2>1, <2>3, <2>5, <2>9
  <2>11. PICK n \in Nat : n = Len(list)
    BY <2>5
  <2>12. DOMAIN list = 1..n /\ DOMAIN f.views = 1..(n + 1)
    BY <2>2, <2>5, <2>11
  <2>13. i \in 1..(n + 1) /\ f.index \in 1..(n + 1)
    BY <2>1, <2>12
  <2>14. r = IF list = <<>> THEN Terminated(left)
             ELSE IF i <= f.index THEN Chosen(left, ((f.index + n - 2) % n) + 1) ELSE left
    <3>1. left = [f EXCEPT !.views = RemoveAt(@, i), !.opaque = @ \ {v}, !.lost = @ \cup {v}]
      BY <2>4, <2>6
    <3>. QED
      BY <1>2, <2>3, <2>9, <2>11, <3>1 DEF FastWithout
  <2>15. CASE list = <<>>
    <3>1. r = Terminated(left)
      BY <2>14, <2>15
    <3>. QED
      BY <2>8, <2>10, <3>1, TerminatedOK
  <2>16. CASE list # <<>> /\ i <= f.index
    <3>1. n >= 1
      BY <2>5, <2>11, <2>16
    <3>2. PICK k \in 1..n : /\ k = ((f.index + n - 2) % n) + 1
                            /\ k = IF f.index > 1 THEN f.index - 1 ELSE n
      <4>1. CASE f.index > 1
        <5>1. f.index - 2 \in 0..(n - 1)
          BY <2>13, <4>1
        <5>2. ((f.index - 2) + n) % n = f.index - 2
          BY <3>1, <5>1
        <5>3. f.index + n - 2 = (f.index - 2) + n
          BY <2>13
        <5>. QED
          BY <2>13, <3>1, <4>1, <5>1, <5>2, <5>3
      <4>2. CASE ~(f.index > 1)
        <5>1. f.index = 1
          BY <2>13, <4>2
        <5>2. (n - 1) % n = n - 1
          BY <3>1
        <5>3. f.index + n - 2 = n - 1
          BY <5>1
        <5>. QED
          BY <3>1, <5>1, <5>2, <5>3
      <4>. QED
        BY <4>1, <4>2
    <3>3. r = Chosen(left, k)
      BY <2>14, <2>16, <3>2
    <3>4. left.opaque \subseteq {left.views[k]}
      <4>1. CASE i = f.index
        BY <2>1, <2>3, <2>9, <4>1
      <4>2. CASE i # f.index
        <5>1. i < f.index /\ f.index > 1 /\ k = f.index - 1 /\ ~(k < i) /\ k + 1 = f.index
          BY <2>13, <2>16, <3>2, <4>2
        <5>2. list[k] = f.views[f.index]
          BY <2>5, <2>12, <5>1
        <5>. QED
          BY <2>1, <2>9, <5>2
      <4>. QED
        BY <4>1, <4>2
    <3>5. /\ left.active = TRUE /\ k \in DOMAIN left.views
          /\ \A j, m \in DOMAIN left.views : j # m => left.views[j] # left.views[m]
      BY <2>5, <2>9, <2>12
    <3>. QED
      BY <2>8, <2>10, <3>3, <3>4, <3>5, ChosenOK
  <2>17. CASE list # <<>> /\ ~(i <= f.index)
    <3>1. r = left
      BY <2>14, <2>17
    <3>2. f.index \in 1..n /\ f.index < i
      BY <2>13, <2>17
    <3>3. list[f.index] = f.views[f.index] /\ f.index # i
      BY <2>5, <2>12, <3>2
    <3>4. f.views[f.index] # v
      BY <2>1, <2>3, <3>3
    <3>5. left.opaque = {left.views[left.index]} /\ left.index \in DOMAIN left.views
      BY <2>1, <2>9, <2>12, <3>2, <3>3, <3>4
    <3>6. \A j, m \in DOMAIN left.views : j # m => left.views[j] # left.views[m]
      BY <2>5, <2>9
    <3>. QED
      BY <2>8, <2>9, <2>10, <3>1, <3>5, <3>6 DEF FastOK
  <2>. QED
    BY <2>15, <2>16, <2>17
<1>. QED
  BY <1>1, <1>2

-----------------------------------------------------------------------------
(* The switcher with another list, or with other flags.                    *)
Relisted(s, list, p, a, g) ==
  [s EXCEPT !.views = list, !.plugin = p, !.active = a, !.grab = g]

(* Nothing but the list and the flags changes.                             *)
LEMMA SwitchRelisted ==
  ASSUME NEW s, NEW vs, SwitchTypes(s, vs), NEW list, NEW p \in BOOLEAN, NEW a \in BOOLEAN,
         NEW g \in BOOLEAN, NEW r, r = Relisted(s, list, p, a, g)
  PROVE  SwitchTypes(r, vs) /\ r.shown = s.shown /\ r.tr = s.tr /\ r.lost = s.lost /\ r.plugin = p
<1>1. s \in SwitchStates(s.views) /\ vs \in [SwitchViews -> SwitchViewRecs]
  BY DEF SwitchTypes
<1>2. /\ s.plugin \in BOOLEAN /\ s.active \in BOOLEAN /\ s.grab \in BOOLEAN
      /\ s.tr \subseteq SwitchViews /\ s.shown \subseteq SwitchViews
      /\ s.ring \subseteq SwitchViews /\ s.lost \subseteq SwitchViews
  BY SwitchFields
<1>3. /\ r.views = list /\ r.plugin = p /\ r.active = a /\ r.grab = g /\ r.tr = s.tr
      /\ r.shown = s.shown /\ r.ring = s.ring /\ r.lost = s.lost
  BY <1>1 DEF SwitchStates, Relisted
<1>4. r \in SwitchStates(list)
  BY <1>1, <1>2 DEF SwitchStates, Relisted
<1>. QED
  BY <1>1, <1>3, <1>4 DEF SwitchTypes

(* arrange(), and what it enables.                                         *)
LEMMA ArrangeOK ==
  ASSUME NEW s, NEW vs, SwitchTypes(s, vs), Rooted(vs, s.shown), s.plugin = TRUE,
         NEW order, NEW twice, NEW r, r = Arrange(s, vs, order, twice),
         NEW P, P = r.shown \ s.shown, NEW Q, Q = {}, NEW ws, ws = RootsAfter(vs, P, Q)
  PROVE  SwitchOK(r, ws)
<1>1. r \in SwitchStates(r.views) /\ s.shown \subseteq r.shown /\ r.plugin = s.plugin
  BY ArrangedMore
<1>2. vs \in [SwitchViews -> SwitchViewRecs] /\ s.shown \in SUBSET SwitchViews
  BY SwitchFields DEF SwitchTypes
<1>3. PICK B \in SUBSET SwitchViews : B = r.shown
  <2>1. r.shown \subseteq SwitchViews
    BY <1>1 DEF SwitchStates
  <2>. QED
    BY <2>1
<1>4. PICK A \in SUBSET SwitchViews : A = s.shown
  BY <1>2
<1>5. A \subseteq B /\ P = B \ A /\ Q = {} /\ Rooted(vs, A)
  BY <1>1, <1>3, <1>4
<1>6. \A v \in SwitchViews : (v \in B <=> (v \in A /\ v \notin Q) \/ v \in P)
  BY <1>5
<1>7. \A v \in SwitchViews : (v \in P => v \notin A /\ v \notin Q) /\ (v \in Q => v \in A)
  BY <1>5
<1>8. Rooted(ws, B) /\ ws \in [SwitchViews -> SwitchViewRecs]
  BY <1>2, <1>5, <1>6, <1>7, RootsFollow
<1>. QED
  BY <1>1, <1>3, <1>8 DEF SwitchOK, SwitchTypes

(* deinit_switcher(), and what it no longer enables.                       *)
LEMMA DeinitOK ==
  ASSUME NEW s, SwitchTypes(s, swv), Rooted(swv, s.shown), NEW r, r = Deinit(s),
         NEW P, P = {}, NEW Q, Q = s.shown \ r.shown, NEW ws, ws = RootsAfter(swv, P, Q)
  PROVE  SwitchOK(r, ws)
<1>1. r \in SwitchStates(r.views) /\ r.shown \subseteq s.shown /\ r.tr \cup r.shown \subseteq r.lost
  BY DeinitLess
<1>2. swv \in [SwitchViews -> SwitchViewRecs] /\ s.shown \in SUBSET SwitchViews
  BY SwitchFields DEF SwitchTypes
<1>3. PICK A \in SUBSET SwitchViews : A = s.shown
  BY <1>2
<1>4. PICK B \in SUBSET SwitchViews : B = r.shown
  BY <1>1, <1>2
<1>5. B \subseteq A /\ P = {} /\ Q = A \ B /\ Rooted(swv, A)
  BY <1>1, <1>3, <1>4
<1>6. \A v \in SwitchViews : (v \in B <=> (v \in A /\ v \notin Q) \/ v \in P)
  BY <1>5
<1>7. \A v \in SwitchViews : (v \in P => v \notin A /\ v \notin Q) /\ (v \in Q => v \in A)
  BY <1>5
<1>8. Rooted(ws, B) /\ ws \in [SwitchViews -> SwitchViewRecs]
  BY <1>2, <1>5, <1>6, <1>7, RootsFollow
<1>. QED
  BY <1>1, <1>4, <1>8 DEF SwitchOK, SwitchTypes

(* What focus_raise_view() does leaves the counters right.                 *)
LEMMA RaisedOK ==
  ASSUME NEW vs \in [SwitchViews -> SwitchViewRecs], NEW A, Rooted(vs, A), NEW v
  PROVE  /\ Rooted(Raised(vs, v), A)
         /\ Raised(vs, v) \in [SwitchViews -> SwitchViewRecs]
<1>1. CASE v \in SwitchViews /\ vs[v].mapped /\ vs[v].minimized
  <2>1. PICK x \in SwitchViewRecs : x = vs[v]
    BY <1>1
  <2>2. PICK y : y = [x EXCEPT !.minimized = FALSE]
    OBVIOUS
  <2>3. y \in SwitchViewRecs /\ y.root = x.root /\ y.mapped = x.mapped /\ y.minimized = FALSE
    BY <2>2 DEF SwitchViewRecs
  <2>4. PICK q : q = [vs EXCEPT ![v].minimized = FALSE]
    OBVIOUS
  <2>5. q = [vs EXCEPT ![v] = y]
    BY <2>1, <2>2, <2>4
  <2>6. /\ q \in [SwitchViews -> SwitchViewRecs] /\ q[v] = y
        /\ \A u \in SwitchViews \ {v} : q[u] = vs[u]
    BY <1>1, <2>3, <2>5
  <2>7. PICK P, Q : P = {v} /\ Q = {}
    OBVIOUS
  <2>8. PICK r : r = RootsAfter(q, P, Q)
    OBVIOUS
  <2>9. r = Raised(vs, v)
    BY <1>1, <2>4, <2>7, <2>8 DEF Raised
  <2>10. PICK o \in Int : o = One(v \in P) - One(v \in Q)
    BY DEF One
  <2>11. o = 1
    BY <2>7, <2>10 DEF One
  <2>12. Own(y) = Own(vs[v]) + o
    <3>1. Own(y) = One(x.mapped) /\ Own(x) = One(x.mapped) - 1
      BY <1>1, <2>1, <2>3 DEF Own, One
    <3>2. One(x.mapped) \in Int
      BY DEF One
    <3>. QED
      BY <2>1, <2>11, <3>1, <3>2
  <2>13. P \subseteq {v} /\ Q \subseteq {v} /\ y.root = vs[v].root
    BY <2>1, <2>3, <2>7
  <2>14. Rooted(r, A) /\ r \in [SwitchViews -> SwitchViewRecs]
    BY <1>1, <2>3, <2>6, <2>8, <2>10, <2>12, <2>13, Recounted
  <2>. QED
    BY <2>9, <2>14
<1>2. CASE v \in SwitchViews /\ ~(vs[v].mapped /\ vs[v].minimized)
  BY <1>2 DEF Raised
<1>3. CASE v \notin SwitchViews
  <2>1. [vs EXCEPT ![v].minimized = FALSE] = vs
    BY <1>3
  <2>2. PICK P, Q : P = {v} /\ Q = {}
    OBVIOUS
  <2>3. PICK r : r = RootsAfter(vs, P, Q)
    OBVIOUS
  <2>4. \A u \in SwitchViews : (u \in A <=> (u \in A /\ u \notin Q) \/ u \in P)
    BY <1>3, <2>2
  <2>5. \A u \in SwitchViews : (u \in P => u \notin A /\ u \notin Q) /\ (u \in Q => u \in A)
    BY <1>3, <2>2
  <2>6. Rooted(r, A) /\ r \in [SwitchViews -> SwitchViewRecs]
    BY <2>3, <2>4, <2>5, RootsFollow
  <2>7. RootsAfter(vs, {v}, {}) = r
    BY <2>2, <2>3
  <2>8. Raised(vs, v) = r \/ Raised(vs, v) = vs
    BY <2>1, <2>7 DEF Raised
  <2>. QED
    BY <2>6, <2>8
<1>. QED
  BY <1>1, <1>2, <1>3

(* view_disappeared, of a view that the counters already follow.           *)
LEMMA DisappearedOK ==
  ASSUME SwitchersOK, NEW v \in SwitchViews, NEW vs \in [SwitchViews -> SwitchViewRecs],
         Rooted(vs, sw.shown), Disappeared(v, vs)
  PROVE  SwitchersOK'
<1>1. SwitchTypes(sw, swv) /\ (~sw.plugin => sw.tr \cup sw.shown \subseteq sw.lost) /\ FastOK(fs)
  BY DEF SwitchersOK, SwitchOK
<1>2. SwitchTypes(sw, vs)
  BY <1>1 DEF SwitchTypes
<1>3. FastOK(fs')
  <2>1. fs' = IF fs.active THEN FastWithout(fs, v) ELSE fs
    BY DEF Disappeared
  <2>2. CASE fs.active
    <3>1. fs.active = TRUE
      BY <1>1, <2>2, FastFields DEF FastOK
    <3>2. fs' = FastWithout(fs, v)
      BY <2>1, <2>2
    <3>. QED
      BY <1>1, <3>1, <3>2, FastWithoutOK
  <2>. QED
    BY <1>1, <2>1, <2>2
<1>4. SwitchOK(sw', swv')
  <2>1. CASE ~sw.plugin \/ v \notin Distinct(sw.views)
    <3>1. sw' = sw /\ swv' = vs
      BY <2>1 DEF Disappeared
    <3>. QED
      BY <1>1, <1>2, <3>1 DEF SwitchOK
  <2>2. CASE ~(~sw.plugin \/ v \notin Distinct(sw.views)) /\ ~sw.active
    <3>1. sw' = [sw EXCEPT !.views = SelectSeq(@, LAMBDA t : t.view # v)] /\ swv' = vs
      BY <2>2 DEF Disappeared
    <3>2. PICK list : list = SelectSeq(sw.views, LAMBDA t : t.view # v)
      OBVIOUS
    <3>3. sw' = [sw EXCEPT !.views = list]
      BY <3>1, <3>2
    <3>4. PICK p \in BOOLEAN, a \in BOOLEAN, g \in BOOLEAN :
            p = sw.plugin /\ a = sw.active /\ g = sw.grab
      BY <1>1, SwitchFields
    <3>5. sw' = Relisted(sw, list, p, a, g)
      BY <1>1, <3>3, <3>4 DEF SwitchTypes, SwitchStates, Relisted
    <3>6. /\ SwitchTypes(sw', vs) /\ sw'.shown = sw.shown /\ sw'.tr = sw.tr
          /\ sw'.lost = sw.lost /\ sw'.plugin = p
      BY <1>2, <3>4, <3>5, SwitchRelisted
    <3>. QED
      BY <1>1, <3>1, <3>4, <3>6 DEF SwitchOK
  <2>3. CASE ~(~sw.plugin \/ v \notin Distinct(sw.views)) /\ sw.active
    <3>1. PICK order, twice : /\ sw' = Arrange(sw, vs, order, twice)
                              /\ swv' = RootsAfter(vs, sw'.shown \ sw.shown, {})
      BY <2>3 DEF Disappeared
    <3>2. sw.plugin = TRUE
      BY <1>1, <2>3, SwitchFields
    <3>3. PICK P, Q : P = sw'.shown \ sw.shown /\ Q = {}
      OBVIOUS
    <3>4. swv' = RootsAfter(vs, P, Q)
      BY <3>1, <3>3
    <3>5. sw' = Arrange(sw, vs, order, twice)
      BY <3>1
    <3>. QED
      BY <1>2, <3>2, <3>3, <3>4, <3>5, ArrangeOK
  <2>. QED
    BY <2>1, <2>2, <2>3
<1>. QED
  BY <1>3, <1>4 DEF SwitchersOK

-----------------------------------------------------------------------------
(* What SwitchersOK says of each part.                                     *)
LEMMA SwitchersParts ==
  ASSUME SwitchersOK
  PROVE  /\ SwitchTypes(sw, swv) /\ Rooted(swv, sw.shown) /\ FastOK(fs)
         /\ ~sw.plugin => sw.tr \cup sw.shown \subseteq sw.lost
         /\ swv \in [SwitchViews -> SwitchViewRecs]
         /\ sw.plugin \in BOOLEAN /\ sw.active \in BOOLEAN /\ sw.grab \in BOOLEAN
BY SwitchFields DEF SwitchersOK, SwitchOK, SwitchTypes

(* handle_switch_request(), the first one or a later one.                  *)
LEMMA SwitchRequestOK ==
  ASSUME SwitchersOK, NEW dir, SwitchRequest(dir)
  PROVE  SwitchersOK'
<1>1. /\ SwitchTypes(sw, swv) /\ Rooted(swv, sw.shown) /\ FastOK(fs)
      /\ sw.plugin \in BOOLEAN /\ sw.active \in BOOLEAN /\ sw.grab \in BOOLEAN
  BY SwitchersParts
<1>2. fs' = fs
  BY DEF SwitchRequest
<1>3. PICK yes \in BOOLEAN : yes = TRUE
  OBVIOUS
<1>4. yes \in BOOLEAN
  BY <1>3
<1>5. CASE sw.active
  <2>1. sw' = [sw EXCEPT !.views = NextView(@, dir), !.plugin = TRUE] /\ swv' = swv
    BY <1>5 DEF SwitchRequest
  <2>2. PICK a \in BOOLEAN, g \in BOOLEAN : a = sw.active /\ g = sw.grab
    BY <1>1
  <2>3. PICK list : list = NextView(sw.views, dir)
    OBVIOUS
  <2>4. sw' = Relisted(sw, list, yes, a, g)
    BY <1>1, <1>3, <2>1, <2>2, <2>3 DEF Relisted, SwitchTypes, SwitchStates
  <2>5. SwitchTypes(sw', swv) /\ sw'.shown = sw.shown /\ sw'.plugin = yes
    BY <1>1, <1>4, <2>2, <2>4, SwitchRelisted
  <2>6. SwitchOK(sw', swv')
    BY <1>1, <1>3, <2>1, <2>5 DEF SwitchOK
  <2>. QED
    BY <1>1, <1>2, <2>6 DEF SwitchersOK
<1>6. CASE ~sw.active
  <2>1. PICK order, twice :
          /\ sw' = Arrange([sw EXCEPT !.plugin = TRUE, !.active = TRUE, !.grab = TRUE], swv, order, twice)
          /\ swv' = RootsAfter(swv, sw'.shown \ sw.shown, {})
    BY <1>6 DEF SwitchRequest
  <2>2. PICK list : list = sw.views
    OBVIOUS
  <2>3. PICK s : s = Relisted(sw, list, yes, yes, yes)
    OBVIOUS
  <2>4. s = [sw EXCEPT !.plugin = TRUE, !.active = TRUE, !.grab = TRUE]
    BY <1>1, <1>3, <2>2, <2>3 DEF Relisted, SwitchTypes, SwitchStates
  <2>5. SwitchTypes(s, swv) /\ s.shown = sw.shown /\ s.plugin = yes
    BY <1>1, <1>4, <2>3, SwitchRelisted
  <2>6. sw' = Arrange(s, swv, order, twice)
    BY <2>1, <2>4
  <2>7. PICK P, Q : P = sw'.shown \ s.shown /\ Q = {}
    OBVIOUS
  <2>8. swv' = RootsAfter(swv, P, Q)
    BY <2>1, <2>5, <2>7
  <2>9. Rooted(swv, s.shown) /\ s.plugin = TRUE
    BY <1>1, <1>3, <2>5
  <2>10. SwitchOK(sw', swv')
    BY <2>5, <2>6, <2>7, <2>8, <2>9, ArrangeOK
  <2>. QED
    BY <1>1, <1>2, <2>10 DEF SwitchersOK
<1>. QED
  BY <1>5, <1>6

(* handle_done() raises the view in front.                                 *)
LEMMA SwitchDoneOK ==
  ASSUME SwitchersOK, SwitchDone
  PROVE  SwitchersOK'
<1>1. /\ SwitchTypes(sw, swv) /\ Rooted(swv, sw.shown) /\ FastOK(fs)
      /\ ~sw.plugin => sw.tr \cup sw.shown \subseteq sw.lost
      /\ swv \in [SwitchViews -> SwitchViewRecs]
      /\ sw.plugin \in BOOLEAN /\ sw.active \in BOOLEAN /\ sw.grab \in BOOLEAN
  BY SwitchersParts
<1>2. PICK list : list = Fresh(sw.views)
  OBVIOUS
<1>3. PICK p \in BOOLEAN, no \in BOOLEAN : p = sw.plugin /\ no = FALSE
  BY <1>1
<1>4. sw' = [sw EXCEPT !.views = list, !.active = FALSE, !.grab = FALSE]
  BY <1>2 DEF SwitchDone
<1>5. sw' = Relisted(sw, list, p, no, no)
  BY <1>1, <1>3, <1>4 DEF Relisted, SwitchTypes, SwitchStates
<1>6. /\ SwitchTypes(sw', swv) /\ sw'.shown = sw.shown /\ sw'.tr = sw.tr
      /\ sw'.lost = sw.lost /\ sw'.plugin = p
  BY <1>1, <1>3, <1>5, SwitchRelisted
<1>7. Rooted(swv', sw.shown) /\ swv' \in [SwitchViews -> SwitchViewRecs]
  <2>1. PICK v : v = Fresh(sw.views)[1].view
    OBVIOUS
  <2>2. swv' = swv \/ swv' = Raised(swv, v)
    BY <2>1 DEF SwitchDone
  <2>3. Rooted(Raised(swv, v), sw.shown) /\ Raised(swv, v) \in [SwitchViews -> SwitchViewRecs]
    BY <1>1, RaisedOK
  <2>. QED
    BY <1>1, <2>2, <2>3
<1>8. fs' = fs
  BY DEF SwitchDone
<1>9. SwitchOK(sw', swv')
  BY <1>1, <1>3, <1>6, <1>7 DEF SwitchOK, SwitchTypes
<1>. QED
  BY <1>1, <1>8, <1>9 DEF SwitchersOK

(* The animation goes on or ends, or something cancels the switcher.       *)
LEMMA SwitchEndOK ==
  ASSUME SwitchersOK, SwitchFrame \/ SwitchCancel
  PROVE  SwitchersOK'
<1>1. /\ SwitchTypes(sw, swv) /\ Rooted(swv, sw.shown) /\ FastOK(fs)
      /\ swv \in [SwitchViews -> SwitchViewRecs]
      /\ sw.plugin \in BOOLEAN /\ sw.active \in BOOLEAN /\ sw.grab \in BOOLEAN
  BY SwitchersParts
<1>2. fs' = fs /\ swv' = RootsAfter(swv, {}, sw.shown \ sw'.shown)
  BY DEF SwitchFrame, SwitchCancel
<1>3. PICK list : list = Fresh(sw.views)
  OBVIOUS
<1>4. PICK p \in BOOLEAN, a \in BOOLEAN, g \in BOOLEAN : p = sw.plugin /\ a = sw.active /\ g = sw.grab
  BY <1>1
<1>5. PICK s : s = Relisted(sw, list, p, a, g)
  OBVIOUS
<1>6. s = [sw EXCEPT !.views = Fresh(@)]
  BY <1>1, <1>4, <1>5, <1>3 DEF Relisted, SwitchTypes, SwitchStates
<1>7. SwitchTypes(s, swv) /\ s.shown = sw.shown /\ s.plugin = p
  BY <1>1, <1>4, <1>5, SwitchRelisted
<1>8. \/ sw' = s /\ sw.plugin
      \/ sw' = Deinit(s)
      \/ sw' = Deinit(sw)
  BY <1>6 DEF SwitchFrame, SwitchCancel
<1>9. PICK P, Q : P = {} /\ Q = sw.shown \ sw'.shown
  OBVIOUS
<1>10. swv' = RootsAfter(swv, P, Q)
  BY <1>2, <1>9
<1>11. SwitchOK(sw', swv')
  <2>1. CASE sw' = s /\ sw.plugin
    <3>1. Q = {}
      BY <1>7, <1>9, <2>1
    <3>2. PICK A, r : A = sw.shown /\ r = RootsAfter(swv, P, Q)
      OBVIOUS
    <3>3. \A u \in SwitchViews : (u \in A <=> (u \in A /\ u \notin Q) \/ u \in P)
      BY <1>9, <3>1
    <3>4. \A u \in SwitchViews : (u \in P => u \notin A /\ u \notin Q) /\ (u \in Q => u \in A)
      BY <1>9, <3>1
    <3>5. Rooted(swv, A) /\ r = RootsAfter(swv, P, Q)
      BY <1>1, <3>2
    <3>6. Rooted(r, A) /\ r \in [SwitchViews -> SwitchViewRecs]
      BY <1>1, <3>3, <3>4, <3>5, RootsFollow
    <3>7. Rooted(swv', sw.shown) /\ swv' \in [SwitchViews -> SwitchViewRecs]
      BY <1>10, <3>2, <3>6
    <3>. QED
      BY <1>4, <1>7, <2>1, <3>7 DEF SwitchOK, SwitchTypes
  <2>2. CASE sw' = Deinit(s)
    <3>1. Q = s.shown \ sw'.shown /\ P = {} /\ Rooted(swv, s.shown)
      BY <1>1, <1>7, <1>9
    <3>. QED
      BY <1>7, <1>10, <2>2, <3>1, DeinitOK
  <2>3. CASE sw' = Deinit(sw)
    <3>1. Q = sw.shown \ sw'.shown /\ P = {}
      BY <1>9
    <3>. QED
      BY <1>1, <1>10, <2>3, <3>1, DeinitOK
  <2>. QED
    BY <1>8, <2>1, <2>2, <2>3
<1>. QED
  BY <1>1, <1>2, <1>11 DEF SwitchersOK

(* The fast switcher starts, goes on or terminates.                        *)
LEMMA FastSwitchOK ==
  ASSUME SwitchersOK, NEW forward, FastSwitch(forward) \/ FastDone
  PROVE  SwitchersOK'
<1>1. SwitchOK(sw, swv) /\ FastOK(fs)
  BY DEF SwitchersOK
<1>2. sw' = sw /\ swv' = swv
  BY DEF FastSwitch, FastDone
<1>3. fs \in FastStates /\ fs.active \in BOOLEAN
  BY <1>1, FastFields DEF FastOK
<1>4. CASE fs.active
  <2>1. fs.active = TRUE
    BY <1>3, <1>4
  <2>2. /\ fs.index \in DOMAIN fs.views /\ fs.tr \subseteq ToSet(fs.views) \cup fs.lost
        /\ \A j, k \in DOMAIN fs.views : j # k => fs.views[j] # fs.views[k]
        /\ fs.opaque \subseteq {fs.views[fs.index]}
    BY <1>1, <1>4 DEF FastOK
  <2>3. fs' = FastNext(fs, forward) \/ fs' = Terminated(fs)
    BY <1>4 DEF FastSwitch, FastDone
  <2>4. FastOK(fs')
    <3>1. CASE fs' = FastNext(fs, forward)
      BY <1>3, <2>1, <2>2, <3>1, FastNextOK
    <3>2. CASE fs' = Terminated(fs)
      BY <1>3, <2>2, <3>2, TerminatedOK
    <3>. QED
      BY <2>3, <3>1, <3>2
  <2>. QED
    BY <1>1, <1>2, <2>4 DEF SwitchersOK
<1>5. CASE ~fs.active
  <2>1. PICK order \in Orders(FastViews) :
          fs' = FastNext([fs EXCEPT !.active = TRUE, !.views = order, !.index = 1,
                                    !.tr = @ \cup FastViews, !.opaque = {}], forward)
    BY <1>5 DEF FastSwitch, FastDone
  <2>2. PICK S \in SUBSET SwitchViews : S = FastViews
    BY DEF FastViews, OnWorkspace
  <2>3. S # {}
    BY <1>5, <2>2 DEF FastSwitch, FastDone
  <2>4. order \in Orders(S)
    BY <2>1, <2>2
  <2>5. /\ order \in Seq(SwitchViews) /\ Len(order) >= 1
        /\ \A i, j \in DOMAIN order : i # j => order[i] # order[j]
        /\ S = ToSet(order)
    BY <2>2, <2>3, <2>4, OrdersAll
  <2>6. PICK T \in SUBSET SwitchViews : T = fs.tr \cup S
    BY <1>3, <2>2, FastFields
  <2>7. PICK yes \in BOOLEAN, none \in SUBSET SwitchViews : yes = TRUE /\ none = {}
    OBVIOUS
  <2>8. PICK f : f = [fs EXCEPT !.active = yes, !.views = order, !.index = 1, !.tr = T, !.opaque = none]
    OBVIOUS
  <2>9. fs' = FastNext(f, forward)
    BY <2>1, <2>2, <2>6, <2>7, <2>8
  <2>10. /\ order \in Seq(SwitchViews) /\ yes \in BOOLEAN /\ 1 \in Int
         /\ T \in SUBSET SwitchViews /\ none \in SUBSET SwitchViews
    BY <2>5, <2>6, <2>7
  <2>11. f \in FastStates
    BY <1>3, <2>8, <2>10 DEF FastStates
  <2>12. /\ f.active = TRUE /\ f.views = order /\ f.index = 1 /\ f.tr = T /\ f.opaque = {} /\ f.lost = fs.lost
    BY <1>3, <2>7, <2>8 DEF FastStates
  <2>13. f.tr \subseteq ToSet(f.views) \cup f.lost
    <3>1. fs.tr \subseteq fs.lost
      BY <1>1, <1>5 DEF FastOK
    <3>. QED
      BY <2>5, <2>6, <2>12, <3>1
  <2>14. /\ f.index \in DOMAIN f.views /\ f.opaque \subseteq {f.views[f.index]}
         /\ \A j, k \in DOMAIN f.views : j # k => f.views[j] # f.views[k]
    <3>1. 1 \in DOMAIN order
      BY <2>5
    <3>. QED
      BY <2>5, <2>12, <3>1
  <2>15. f.active = TRUE
    BY <2>12
  <2>16. FastOK(fs')
    BY <2>9, <2>11, <2>13, <2>14, <2>15, FastNextOK
  <2>. QED
    BY <1>1, <1>2, <2>16 DEF SwitchersOK
<1>. QED
  BY <1>4, <1>5

-----------------------------------------------------------------------------
(* One view that is mapped or not, minimized or not, and somewhere.        *)
Reviewed(vs, v, m, z, p) ==
  [vs EXCEPT ![v] = [@ EXCEPT !.mapped = m, !.minimized = z, !.place = p]]

(* Such a change keeps the counters right if the root node follows.        *)
LEMMA ReviewedOK ==
  ASSUME NEW vs \in [SwitchViews -> SwitchViewRecs], NEW A, Rooted(vs, A),
         NEW v \in SwitchViews, NEW m \in BOOLEAN, NEW z \in BOOLEAN, NEW p \in Places,
         NEW P, NEW Q, P \subseteq {v}, Q \subseteq {v}, NEW o, o = One(v \in P) - One(v \in Q),
         One(m) - One(z) = Own(vs[v]) + o,
         NEW r, r = RootsAfter(Reviewed(vs, v, m, z, p), P, Q)
  PROVE  Rooted(r, A) /\ r \in [SwitchViews -> SwitchViewRecs]
<1>1. PICK x \in SwitchViewRecs : x = vs[v]
  OBVIOUS
<1>2. PICK y : y = [x EXCEPT !.mapped = m, !.minimized = z, !.place = p]
  OBVIOUS
<1>3. y \in SwitchViewRecs /\ y.mapped = m /\ y.minimized = z /\ y.root = x.root
  BY <1>1, <1>2 DEF SwitchViewRecs
<1>4. PICK q : q = Reviewed(vs, v, m, z, p)
  OBVIOUS
<1>5. q = [vs EXCEPT ![v] = y]
  BY <1>1, <1>2, <1>4 DEF Reviewed
<1>6. /\ q \in [SwitchViews -> SwitchViewRecs] /\ q[v] = y
      /\ \A u \in SwitchViews \ {v} : q[u] = vs[u]
  BY <1>3, <1>5
<1>7. PICK r1 : r1 = RootsAfter(q, P, Q)
  OBVIOUS
<1>8. Own(y) = Own(vs[v]) + o /\ y.root = vs[v].root
  BY <1>1, <1>3 DEF Own
<1>9. y \in SwitchViewRecs
  BY <1>3
<1>10. Rooted(r1, A) /\ r1 \in [SwitchViews -> SwitchViewRecs]
  BY <1>6, <1>7, <1>8, <1>9, Recounted
<1>. QED
  BY <1>4, <1>7, <1>10

(* The fields of one view, and what its own counter is.                    *)
LEMMA ViewPicked ==
  ASSUME SwitchersOK, NEW v \in SwitchViews
  PROVE  \E m \in BOOLEAN, z \in BOOLEAN, p \in Places :
           /\ m = swv[v].mapped /\ z = swv[v].minimized /\ p = swv[v].place
           /\ Own(swv[v]) = One(m) - One(z)
           /\ \A b \in BOOLEAN : /\ [swv EXCEPT ![v].mapped = b] = Reviewed(swv, v, b, z, p)
                                 /\ [swv EXCEPT ![v].minimized = b] = Reviewed(swv, v, m, b, p)
           /\ \A place \in Places : [swv EXCEPT ![v].place = place] = Reviewed(swv, v, m, z, place)
<1>1. swv \in [SwitchViews -> SwitchViewRecs]
  BY SwitchersParts
<1>2. PICK x \in SwitchViewRecs : x = swv[v]
  BY <1>1
<1>3. PICK m \in BOOLEAN, z \in BOOLEAN, p \in Places : m = x.mapped /\ z = x.minimized /\ p = x.place
  BY <1>2 DEF SwitchViewRecs
<1>4. Own(swv[v]) = One(m) - One(z)
  BY <1>2, <1>3 DEF Own
<1>5. ASSUME NEW b \in BOOLEAN
      PROVE  /\ [swv EXCEPT ![v].mapped = b] = Reviewed(swv, v, b, z, p)
             /\ [swv EXCEPT ![v].minimized = b] = Reviewed(swv, v, m, b, p)
  <2>1. [x EXCEPT !.mapped = b] = [x EXCEPT !.mapped = b, !.minimized = z, !.place = p]
    BY <1>2, <1>3 DEF SwitchViewRecs
  <2>2. [x EXCEPT !.minimized = b] = [x EXCEPT !.mapped = m, !.minimized = b, !.place = p]
    BY <1>2, <1>3 DEF SwitchViewRecs
  <2>. QED
    BY <1>2, <2>1, <2>2 DEF Reviewed
<1>6. ASSUME NEW place \in Places
      PROVE  [swv EXCEPT ![v].place = place] = Reviewed(swv, v, m, z, place)
  <2>1. [x EXCEPT !.place = place] = [x EXCEPT !.mapped = m, !.minimized = z, !.place = place]
    BY <1>2, <1>3 DEF SwitchViewRecs
  <2>. QED
    BY <1>2, <2>1 DEF Reviewed
<1>7. m = swv[v].mapped /\ z = swv[v].minimized /\ p = swv[v].place
  BY <1>2, <1>3
<1>8. m \in BOOLEAN /\ z \in BOOLEAN /\ p \in Places
  BY <1>3
<1>. WITNESS m \in BOOLEAN, z \in BOOLEAN, p \in Places
<1>. QED
  BY <1>4, <1>5, <1>6, <1>7

(* A view is mapped.                                                       *)
LEMMA SwitchMapOK ==
  ASSUME SwitchersOK, NEW v \in SwitchViews, SwitchMap(v)
  PROVE  SwitchersOK'
<1>1. swv \in [SwitchViews -> SwitchViewRecs] /\ Rooted(swv, sw.shown)
  BY SwitchersParts
<1>2. PICK m \in BOOLEAN, z \in BOOLEAN, p \in Places :
        /\ m = swv[v].mapped /\ Own(swv[v]) = One(m) - One(z)
        /\ \A b \in BOOLEAN : [swv EXCEPT ![v].mapped = b] = Reviewed(swv, v, b, z, p)
  BY ViewPicked
<1>3. PICK b \in BOOLEAN : b = TRUE
  OBVIOUS
<1>4. PICK P, Q, o : P = {v} /\ Q = {} /\ o = One(v \in P) - One(v \in Q)
  OBVIOUS
<1>5. swv' = RootsAfter([swv EXCEPT ![v].mapped = TRUE], {v}, {}) /\ sw' = sw /\ fs' = fs /\ ~swv[v].mapped
  BY DEF SwitchMap
<1>6. Reviewed(swv, v, b, z, p) = [swv EXCEPT ![v].mapped = TRUE]
  BY <1>2, <1>3
<1>7. swv' = RootsAfter(Reviewed(swv, v, b, z, p), P, Q)
  BY <1>4, <1>5, <1>6
<1>8. One(b) - One(z) = Own(swv[v]) + o
  BY <1>2, <1>3, <1>4, <1>5 DEF One
<1>9. P \subseteq {v} /\ Q \subseteq {v} /\ o = One(v \in P) - One(v \in Q)
  BY <1>4
<1>10. b \in BOOLEAN /\ z \in BOOLEAN /\ p \in Places
  BY <1>2, <1>3
<1>11. Rooted(swv', sw.shown) /\ swv' \in [SwitchViews -> SwitchViewRecs]
  BY <1>1, <1>7, <1>8, <1>9, <1>10, ReviewedOK
<1>. QED
  BY <1>5, <1>11, SwitchersParts DEF SwitchersOK, SwitchOK, SwitchTypes

(* A view is unmapped, and disappears.                                     *)
LEMMA SwitchUnmapOK ==
  ASSUME SwitchersOK, NEW v \in SwitchViews, SwitchUnmap(v)
  PROVE  SwitchersOK'
<1>1. swv \in [SwitchViews -> SwitchViewRecs] /\ Rooted(swv, sw.shown)
  BY SwitchersParts
<1>2. PICK m \in BOOLEAN, z \in BOOLEAN, p \in Places :
        /\ m = swv[v].mapped /\ Own(swv[v]) = One(m) - One(z)
        /\ \A b \in BOOLEAN : [swv EXCEPT ![v].mapped = b] = Reviewed(swv, v, b, z, p)
  BY ViewPicked
<1>3. PICK b \in BOOLEAN : b = FALSE
  OBVIOUS
<1>4. PICK P, Q, o : P = {} /\ Q = {v} /\ o = One(v \in P) - One(v \in Q)
  OBVIOUS
<1>5. Disappeared(v, RootsAfter([swv EXCEPT ![v].mapped = FALSE], {}, {v})) /\ swv[v].mapped
  BY DEF SwitchUnmap
<1>6. Reviewed(swv, v, b, z, p) = [swv EXCEPT ![v].mapped = FALSE]
  BY <1>2, <1>3
<1>7. PICK vs : vs = RootsAfter(Reviewed(swv, v, b, z, p), P, Q)
  OBVIOUS
<1>8. One(b) - One(z) = Own(swv[v]) + o
  BY <1>2, <1>3, <1>4, <1>5 DEF One
<1>9. P \subseteq {v} /\ Q \subseteq {v} /\ o = One(v \in P) - One(v \in Q)
  BY <1>4
<1>10. b \in BOOLEAN /\ z \in BOOLEAN /\ p \in Places
  BY <1>2, <1>3
<1>11. Rooted(vs, sw.shown) /\ vs \in [SwitchViews -> SwitchViewRecs]
  BY <1>1, <1>7, <1>8, <1>9, <1>10, ReviewedOK
<1>12. Disappeared(v, vs)
  BY <1>4, <1>5, <1>6, <1>7
<1>. QED
  BY <1>11, <1>12, DisappearedOK

(* A view is minimized, and disappears.                                    *)
LEMMA SwitchMinimizeOK ==
  ASSUME SwitchersOK, NEW v \in SwitchViews, SwitchMinimize(v)
  PROVE  SwitchersOK'
<1>1. swv \in [SwitchViews -> SwitchViewRecs] /\ Rooted(swv, sw.shown)
  BY SwitchersParts
<1>2. PICK m \in BOOLEAN, z \in BOOLEAN, p \in Places :
        /\ z = swv[v].minimized /\ Own(swv[v]) = One(m) - One(z)
        /\ \A b \in BOOLEAN : [swv EXCEPT ![v].minimized = b] = Reviewed(swv, v, m, b, p)
  BY ViewPicked
<1>3. PICK b \in BOOLEAN : b = TRUE
  OBVIOUS
<1>4. PICK P, Q, o : P = {} /\ Q = {v} /\ o = One(v \in P) - One(v \in Q)
  OBVIOUS
<1>5. Disappeared(v, RootsAfter([swv EXCEPT ![v].minimized = TRUE], {}, {v})) /\ ~swv[v].minimized
  BY DEF SwitchMinimize
<1>6. Reviewed(swv, v, m, b, p) = [swv EXCEPT ![v].minimized = TRUE]
  BY <1>2, <1>3
<1>7. PICK vs : vs = RootsAfter(Reviewed(swv, v, m, b, p), P, Q)
  OBVIOUS
<1>8. One(m) - One(b) = Own(swv[v]) + o
  BY <1>2, <1>3, <1>4, <1>5 DEF One
<1>9. P \subseteq {v} /\ Q \subseteq {v} /\ o = One(v \in P) - One(v \in Q)
  BY <1>4
<1>10. b \in BOOLEAN /\ m \in BOOLEAN /\ p \in Places
  BY <1>2, <1>3
<1>11. Rooted(vs, sw.shown) /\ vs \in [SwitchViews -> SwitchViewRecs]
  BY <1>1, <1>7, <1>8, <1>9, <1>10, ReviewedOK
<1>12. Disappeared(v, vs)
  BY <1>4, <1>5, <1>6, <1>7
<1>. QED
  BY <1>11, <1>12, DisappearedOK

(* A view that goes elsewhere keeps its counters.                          *)
LEMMA SwitchMoveOK ==
  ASSUME SwitchersOK, NEW v \in SwitchViews, NEW place \in Places, SwitchMove(v, place)
  PROVE  SwitchersOK'
<1>1. swv \in [SwitchViews -> SwitchViewRecs] /\ Rooted(swv, sw.shown)
  BY SwitchersParts
<1>2. PICK x \in SwitchViewRecs : x = swv[v]
  BY <1>1
<1>3. PICK y : y = [x EXCEPT !.place = place]
  OBVIOUS
<1>4. /\ y \in SwitchViewRecs /\ y.mapped = x.mapped /\ y.minimized = x.minimized /\ y.root = x.root
  BY <1>2, <1>3 DEF SwitchViewRecs
<1>5. PICK moved : moved = [swv EXCEPT ![v].place = place]
  OBVIOUS
<1>6. moved = [swv EXCEPT ![v] = y]
  BY <1>2, <1>3, <1>5
<1>7. /\ moved \in [SwitchViews -> SwitchViewRecs] /\ moved[v] = y
      /\ \A u \in SwitchViews : u # v => moved[u] = swv[u]
  BY <1>1, <1>4, <1>6
<1>8. Rooted(moved, sw.shown)
  <2>1. ASSUME NEW u \in SwitchViews PROVE moved[u].root = Own(moved[u]) + One(u \in sw.shown)
    <3>1. swv[u].root = Own(swv[u]) + One(u \in sw.shown)
      BY <1>1 DEF Rooted
    <3>2. moved[u].root = swv[u].root /\ Own(moved[u]) = Own(swv[u])
      BY <1>2, <1>4, <1>7 DEF Own
    <3>. QED
      BY <3>1, <3>2
  <2>. QED
    BY <2>1 DEF Rooted
<1>9. CASE place = "away"
  <2>1. Disappeared(v, moved)
    BY <1>5, <1>9 DEF SwitchMove
  <2>. QED
    BY <1>7, <1>8, <2>1, DisappearedOK
<1>10. CASE place # "away"
  <2>1. swv' = moved /\ sw' = sw /\ fs' = fs
    BY <1>5, <1>10 DEF SwitchMove
  <2>. QED
    BY <1>7, <1>8, <2>1, SwitchersParts DEF SwitchersOK, SwitchOK, SwitchTypes
<1>. QED
  BY <1>9, <1>10

(* A view is restored.                                                     *)
LEMMA SwitchRestoreOK ==
  ASSUME SwitchersOK, NEW v \in SwitchViews, SwitchRestore(v)
  PROVE  SwitchersOK'
<1>1. swv \in [SwitchViews -> SwitchViewRecs] /\ Rooted(swv, sw.shown)
  BY SwitchersParts
<1>2. swv' = Raised(swv, v) /\ sw' = sw /\ fs' = fs
  BY DEF SwitchRestore
<1>3. Rooted(Raised(swv, v), sw.shown) /\ Raised(swv, v) \in [SwitchViews -> SwitchViewRecs]
  BY <1>1, RaisedOK
<1>. QED
  BY <1>2, <1>3, SwitchersParts DEF SwitchersOK, SwitchOK, SwitchTypes

(* Every step of the switchers keeps their invariant.                      *)
LEMMA SwitchersMove ==
  ASSUME SwitchersOK, SwitchNext
  PROVE  SwitchersOK'
<1>1. CASE \E dir \in {-1, 1} : SwitchRequest(dir)
  BY <1>1, SwitchRequestOK
<1>2. CASE SwitchDone
  BY <1>2, SwitchDoneOK
<1>3. CASE SwitchFrame \/ SwitchCancel
  BY <1>3, SwitchEndOK
<1>4. CASE FastDone \/ \E forward \in BOOLEAN : FastSwitch(forward)
  BY <1>4, FastSwitchOK
<1>5. CASE \E v \in SwitchViews :
             \/ SwitchMap(v) \/ SwitchUnmap(v) \/ SwitchMinimize(v) \/ SwitchRestore(v)
             \/ \E place \in Places : SwitchMove(v, place)
  BY <1>5, SwitchMapOK, SwitchUnmapOK, SwitchMinimizeOK, SwitchRestoreOK, SwitchMoveOK
<1>. QED
  BY <1>1, <1>2, <1>3, <1>4, <1>5 DEF SwitchNext

(* The invariant of the switchers holds before they run.                   *)
LEMMA SwitchersStart ==
  ASSUME SwitchInit
  PROVE  SwitchersOK
<1>1. PICK none : none = <<>>
  OBVIOUS
<1>2. sw = [plugin |-> FALSE, active |-> FALSE, grab |-> FALSE, views |-> none,
            tr |-> {}, shown |-> {}, ring |-> {}, lost |-> {}]
  BY <1>1 DEF SwitchInit, NoSwitcher
<1>3. sw \in SwitchStates(sw.views) /\ sw.shown = {} /\ sw.tr = {}
  BY <1>2 DEF SwitchStates
<1>4. swv \in [SwitchViews -> SwitchViewRecs]
  BY DEF SwitchInit, SwitchViewRecs, Places
<1>5. Rooted(swv, sw.shown)
  BY <1>3 DEF SwitchInit, Rooted, Own, One
<1>6. PICK empty \in Seq(SwitchViews) : empty = <<>>
  <2>1. <<>> \in Seq(SwitchViews)
    OBVIOUS
  <2>. QED
    BY <2>1
<1>7. fs = [active |-> FALSE, views |-> empty, index |-> 1, tr |-> {}, opaque |-> {}, lost |-> {}]
  BY <1>6 DEF SwitchInit, NoFast
<1>8. empty \in Seq(SwitchViews)
  BY <1>6
<1>9. fs \in FastStates /\ fs.active = FALSE /\ fs.tr = {}
  BY <1>7, <1>8 DEF FastStates
<1>. QED
  BY <1>3, <1>4, <1>5, <1>9 DEF SwitchersOK, SwitchOK, SwitchTypes, FastOK

(* What SwitchersUndo asks for.                                            *)
LEMMA SwitchersRight ==
  ASSUME SwitchersOK
  PROVE  SwitchersUndo
<1>1. swv \in [SwitchViews -> SwitchViewRecs] /\ Rooted(swv, sw.shown)
  BY SwitchersParts
<1>2. /\ ~sw.plugin => sw.tr \cup sw.shown \subseteq sw.lost
      /\ ~fs.active => fs.tr \subseteq fs.lost
      /\ fs.active => fs.index \in DOMAIN fs.views /\ fs.opaque = {fs.views[fs.index]}
  BY SwitchersParts DEF FastOK
<1>3. ASSUME NEW v \in SwitchViews
      PROVE  swv[v].root = Cardinality({f \in {"mapped"} : swv[v][f]})
                           - Cardinality({f \in {"minimized"} : swv[v][f]})
                           + Cardinality({v} \cap sw.shown)
  <2>1. PICK x \in SwitchViewRecs : x = swv[v]
    BY <1>1
  <2>2. Cardinality({f \in {"mapped"} : x[f]}) = One(x.mapped)
    <3>1. {f \in {"mapped"} : x[f]} = IF x.mapped THEN {"mapped"} ELSE {}
      OBVIOUS
    <3>. QED
      BY <3>1, FS_EmptySet, FS_Singleton DEF One
  <2>3. Cardinality({f \in {"minimized"} : x[f]}) = One(x.minimized)
    <3>1. {f \in {"minimized"} : x[f]} = IF x.minimized THEN {"minimized"} ELSE {}
      OBVIOUS
    <3>. QED
      BY <3>1, FS_EmptySet, FS_Singleton DEF One
  <2>4. Cardinality({v} \cap sw.shown) = One(v \in sw.shown)
    <3>1. {v} \cap sw.shown = IF v \in sw.shown THEN {v} ELSE {}
      OBVIOUS
    <3>. QED
      BY <3>1, FS_EmptySet, FS_Singleton DEF One
  <2>5. x.root = One(x.mapped) - One(x.minimized) + One(v \in sw.shown)
    BY <1>1, <2>1 DEF Rooted, Own
  <2>. QED
    BY <2>1, <2>2, <2>3, <2>4, <2>5
<1>. QED
  BY <1>2, <1>3 DEF SwitchersUndo

(* The switchers stand still.                                              *)
LEMMA SwitchersStill ==
  ASSUME SwitchersOK, UNCHANGED switchVars
  PROVE  SwitchersOK'
<1>1. sw' = sw /\ swv' = swv /\ fs' = fs
  BY DEF switchVars
<1>. QED
  BY <1>1 DEF SwitchersOK, SwitchOK, SwitchTypes, FastOK, Rooted

-----------------------------------------------------------------------------
(* Scale leaves every view as it found it, whatever its views do in        *)
(* whatever order and however scale ends (ScaleUndoes): finalize() and     *)
(* handle_view_disappeared(), without the bounds of the overviews' run.    *)
THEOREM ScaleAlwaysUndoes == ScaleInit /\ [][ScaleNext]_scale => []ScaleUndoes
<1>1. ASSUME ScaleOK(scale), [ScaleNext]_scale PROVE ScaleOK(scale)'
  BY <1>1, ScaleMoves
<1>. QED
  BY <1>1, ScaleStarts, ScaleRight, PTL

(* The switchers take their transformers and their counts back, and the    *)
(* fast switcher points at the one view of its list that is opaque         *)
(* (SwitchersUndo): deinit_switcher(), switch_terminate(), cleanup_view;   *)
(* for any number of views, any of them minimized or elsewhere.            *)
THEOREM SwitchersAlwaysUndo == SwitchInit /\ [][SwitchNext]_switchVars => []SwitchersUndo
<1>1. ASSUME SwitchersOK, [SwitchNext]_switchVars PROVE SwitchersOK'
  BY <1>1, SwitchersMove, SwitchersStill
<1>. QED
  BY <1>1, SwitchersStart, SwitchersRight, PTL

(* The overviews undo what they do, for any number of views and every      *)
(* grid (OverviewsUndo): what Scale's finalize() and remove_transformers(),*)
(* the switchers' deinit_switcher() and switch_terminate(), and expo's     *)
(* finalize_and_exit() leave, in whatever order views come, go and are     *)
(* minimized meanwhile.                                                    *)
THEOREM OverviewsUndone == OverviewsSpec => []OverviewsUndo
<1>. DEFINE Inv == ScaleOK(scale) /\ SwitchersOK /\ ExpoInv
<1>1. OverviewsInit => Inv
  BY ScaleStarts, SwitchersStart, ExpoStarts DEF OverviewsInit
<1>2. ASSUME Inv, [OverviewsNext]_<<part, scale, switchVars, expoVars>> PROVE Inv'
  <2>1. CASE ScaleNext /\ UNCHANGED <<switchVars, expoVars>>
    <3>1. ScaleOK(scale)'
      BY <1>2, <2>1, ScaleMoves
    <3>. QED
      BY <1>2, <2>1, <3>1, SwitchersStill, ExpoKeeps
  <2>2. CASE SwitchNext /\ UNCHANGED <<scale, expoVars>>
    <3>1. SwitchersOK'
      BY <1>2, <2>2, SwitchersMove
    <3>. QED
      BY <1>2, <2>2, <3>1, ExpoKeeps
  <2>3. CASE ExpoNext /\ UNCHANGED <<scale, switchVars>>
    <3>1. ExpoInv'
      BY <1>2, <2>3, ExpoKeeps
    <3>. QED
      BY <1>2, <2>3, <3>1, SwitchersStill
  <2>4. CASE UNCHANGED <<part, scale, switchVars, expoVars>>
    BY <1>2, <2>4, SwitchersStill, ExpoKeeps
  <2>. QED
    BY <1>2, <2>1, <2>2, <2>3, <2>4 DEF OverviewsNext
<1>3. Inv => OverviewsUndo
  BY ScaleRight, SwitchersRight DEF OverviewsUndo, ExpoInv
<1>. QED
  BY <1>1, <1>2, <1>3, PTL DEF OverviewsSpec
==============================================================================

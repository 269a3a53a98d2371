--------------------------- MODULE DispatchProofs ---------------------------
(***************************************************************************)
(* Calls through the wrappers of any set of functions, with any number of  *)
(* activations.  The mode and the counting switch are read when the code   *)
(* reads them; the histories of an activation say what they were then, and *)
(* the invariants what each place of the wrapper body owes to a reading.   *)
(***************************************************************************)
EXTENDS Dispatch, TLAPS

\* The places where the counter works for an activation, and those of the
\* native body.
Asking == {"gate", "boundary"}
Body == {"native", "boundary", "target"}

TypeInv ==
  /\ DispatchTypeOK
  /\ env_threshold \in EnvThresholds /\ env_disable \in DisableValues
  /\ subject \in [Calls -> Functions \cup {NoFunction}]
  /\ default \in [Calls -> Int] /\ answer \in [Calls -> BOOLEAN]

\* An activation lends itself to the counter while it asks, for its own function.
AskInv == \A c \in Calls :
  /\ at[c] # "out" => function[c] \in Functions
  /\ at[c] \notin Asking => phase[c] = "idle"
  /\ at[c] \in Asking =>
       /\ phase[c] \in {"asked", "limited", "done"} /\ subject[c] = function[c]
       /\ at[c] = "gate" => default[c] = Embedded

\* The histories know the present.
ModeInv == \A c \in Calls : at[c] # "out" => Mode \in modes[c]
ExemptInv == \A c \in Calls :
  at[c] # "out" /\ (CountingOff(env_threshold, env_disable) \/ Mode = "native") => exempt[c]
StaleInv == \A c \in Calls : at[c] # "out" /\ stale[c] => function[c] \in demoted

\* What the steps before a place have established about mode and binding.
LegInv == \A c \in Calls :
  /\ at[c] \in {"binding", "required", "gate_mode", "gate"} \cup Body =>
       \E m \in modes[c] : m # "fallback"
  /\ at[c] \in {"gate_mode", "gate"} => function[c] \in binding \ PluginRouted
  /\ at[c] \in Body => function[c] \in binding
  /\ at[c] \in {"required", "raise"} => function[c] \notin binding
  /\ at[c] \in {"gate", "fallback"} => \E m \in modes[c] : m # "native"
  /\ at[c] = "raise" => "native" \in modes[c]
  /\ at[c] = "fallback" /\ function[c] \in PluginRouted \cap binding => "fallback" \in modes[c]

\* A demoted function gets through the gate only if its crossings are not counted.
GateInv == \A c \in Calls :
  /\ at[c] = "gate" /\ phase[c] = "done" /\ ~answer[c] /\ stale[c] => exempt[c]
  /\ at[c] \in Body /\ stale[c] => exempt[c] \/ function[c] \in PluginRouted

LEMMA EffectiveNat ==
  ASSUME NEW raw \in EnvThresholds, NEW d \in Int
  PROVE  EffectiveThreshold(raw, d) \in Nat
BY ThresholdAssumption DEF EffectiveThreshold, ValidDefault

LEMMA EmbeddedInt == Embedded \in Int /\ DEFAULT_BOUNDARY_FALLBACK_THRESHOLD \in Int
BY ThresholdAssumption, DispatchAssumption

LEMMA ModeKinds == Mode \in {"auto", "native", "fallback"}
BY DEF Mode, NativeMode

-----------------------------------------------------------------------------
LEMMA TypeInit == DispatchInit => TypeInv
<1> SUFFICES ASSUME DispatchInit PROVE TypeInv
  OBVIOUS
<1> USE DEF DispatchInit, Init, DispatchTypeOK, Places, Legs, Phases
<1>1. DispatchTypeOK
  BY ThresholdAssumption
<1> QED
  BY <1>1 DEF TypeInv

LEMMA TypeStep == TypeInv /\ AskInv /\ [DispatchNext]_allvars => TypeInv'
<1> SUFFICES ASSUME TypeInv, AskInv, [DispatchNext]_allvars PROVE TypeInv'
  OBVIOUS
<1> USE DispatchAssumption
    DEF TypeInv, DispatchTypeOK, Places, Legs, Phases, counter, dispatch, frame, history,
        env, ledger, request, Move, Branch
<1>1. ASSUME NEW c \in Calls, NEW f \in Functions, Enter(c, f) PROVE TypeInv'
  <2>1. Mode \in {"auto", "native", "fallback"}
    BY ModeKinds
  <2>2. (CountingOff(env_threshold, env_disable) \/ Mode = "native") \in BOOLEAN /\ (f \in demoted) \in BOOLEAN
    OBVIOUS
  <2> QED
    BY <1>1, <2>1, <2>2 DEF Enter
<1>2. ASSUME NEW c \in Calls,
             CheckDisabled(c) \/ CheckBinding(c) \/ CheckRequired(c) \/ TargetReturns(c)
      PROVE TypeInv'
  BY <1>2 DEF CheckDisabled, CheckBinding, CheckRequired, TargetReturns
<1>3. ASSUME NEW c \in Calls, CheckGateMode(c) PROVE TypeInv'
  <2>1. CASE Branch(c, "gate_mode", "native")
    BY <2>1
  <2>2. CASE Move(c, "gate_mode", "gate") /\ Ask(c, function[c], Embedded)
             /\ UNCHANGED <<raw_mode, binding, frame, history>>
    BY <2>2, EmbeddedInt DEF Ask, Step
  <2> QED
    BY <1>3, <2>1, <2>2 DEF CheckGateMode
<1>4. ASSUME NEW c \in Calls, GateAnswers(c) \/ BoundaryCounted(c) PROVE TypeInv'
  <2>1. End(c) /\ at' \in [Calls -> Places] /\ UNCHANGED <<raw_mode, binding, frame, history>>
    BY <1>4 DEF GateAnswers, BoundaryCounted
  <2> QED
    BY <2>1 DEF End, Step
<1>5. ASSUME NEW c \in Calls, BoundaryCall(c) PROVE TypeInv'
  BY <1>5, EmbeddedInt DEF BoundaryCall, Ask, Step
<1>6. ASSUME NEW c \in Calls, TargetRaises(c) \/ LegEnds(c) PROVE TypeInv'
  <2>1. \E from \in Places : Leave(c, from)
    BY <1>6 DEF TargetRaises, LegEnds
  <2>2. /\ at' = [at EXCEPT ![c] = "out"] /\ function' = [function EXCEPT ![c] = NoFunction]
        /\ pending' = [pending EXCEPT ![c] = 0] /\ modes' = [modes EXCEPT ![c] = {}]
        /\ exempt' = [exempt EXCEPT ![c] = FALSE] /\ stale' = [stale EXCEPT ![c] = FALSE]
        /\ UNCHANGED <<counter, raw_mode, binding>>
    BY <2>1 DEF Leave
  <2> QED
    BY <2>2
<1>7. ASSUME NEW c \in Calls, CounterStep(c) PROVE TypeInv'
  <2> USE DEF Reply, Step
  <2>1. CASE Configure(c)
    <3>1. EffectiveThreshold(env_threshold, default[c]) \in Nat
      BY EffectiveNat
    <3> QED
      BY <1>7, <2>1, <3>1 DEF CounterStep, Configure
  <2>2. CASE Bypass(c) \/ SeeDemoted(c)
    BY <1>7, <2>2 DEF CounterStep, Bypass, SeeDemoted
  <2>3. CASE Decide(c)
    <3>1. subject[c] \in Functions
      BY <2>3 DEF Decide, AskInv, Asking
    <3>2. crossings' \in [Functions -> Nat] /\ demoted' \subseteq Functions
      BY <2>3, <3>1 DEF Decide
    <3>3. (crossings[subject[c]] + 1 > limit[c]) \in BOOLEAN
      OBVIOUS
    <3> QED
      BY <1>7, <2>3, <3>2, <3>3 DEF CounterStep, Decide
  <2> QED
    BY <1>7, <2>1, <2>2, <2>3 DEF CounterStep
<1>8. CASE DispatchSetEnv
  <2>1. exempt' \in [Calls -> BOOLEAN]
    BY <1>8 DEF DispatchSetEnv
  <2> QED
    BY <1>8, <2>1 DEF DispatchSetEnv, SetEnv
<1>9. CASE SetMode
  <2>1. exempt' \in [Calls -> BOOLEAN]
    BY <1>9 DEF SetMode
  <2>2. modes' \in [Calls -> SUBSET {"auto", "native", "fallback"}]
    BY <1>9 DEF SetMode, NativeMode
  <2> QED
    BY <1>9, <2>1, <2>2 DEF SetMode
<1>10. CASE UNCHANGED allvars
  BY <1>10 DEF allvars
<1> QED
  BY <1>1, <1>2, <1>3, <1>4, <1>5, <1>6, <1>7, <1>8, <1>9, <1>10 DEF DispatchNext, ActivationStep

-----------------------------------------------------------------------------
(* The request of an activation, and the histories *)

LEMMA AskStep == TypeInv /\ AskInv /\ [DispatchNext]_allvars => AskInv'
<1> SUFFICES ASSUME TypeInv, AskInv, [DispatchNext]_allvars PROVE AskInv'
  OBVIOUS
<1> USE DEF AskInv, Asking, TypeInv, DispatchTypeOK, counter, dispatch, frame, history,
            env, ledger, request, Move, Branch
<1>1. ASSUME NEW c \in Calls, NEW f \in Functions, Enter(c, f) PROVE AskInv'
  BY <1>1 DEF Enter
<1>2. ASSUME NEW c \in Calls,
             CheckDisabled(c) \/ CheckBinding(c) \/ CheckRequired(c) \/ TargetReturns(c)
      PROVE AskInv'
  BY <1>2 DEF CheckDisabled, CheckBinding, CheckRequired, TargetReturns
<1>3. ASSUME NEW c \in Calls, CheckGateMode(c) PROVE AskInv'
  BY <1>3 DEF CheckGateMode, Ask, Step
<1>4. ASSUME NEW c \in Calls, GateAnswers(c) \/ BoundaryCounted(c) PROVE AskInv'
  BY <1>4 DEF GateAnswers, BoundaryCounted, End, Step
<1>5. ASSUME NEW c \in Calls, BoundaryCall(c) PROVE AskInv'
  BY <1>5 DEF BoundaryCall, Ask, Step
<1>6. ASSUME NEW c \in Calls, TargetRaises(c) \/ LegEnds(c) PROVE AskInv'
  BY <1>6 DEF TargetRaises, LegEnds, Legs, Leave
<1>7. ASSUME NEW c \in Calls, CounterStep(c) PROVE AskInv'
  BY <1>7 DEF CounterStep, Configure, Bypass, SeeDemoted, Decide, Reply, Step
<1>8. CASE DispatchSetEnv \/ SetMode
  BY <1>8 DEF DispatchSetEnv, SetEnv, SetMode
<1>9. CASE UNCHANGED allvars
  BY <1>9 DEF allvars
<1> QED
  BY <1>1, <1>2, <1>3, <1>4, <1>5, <1>6, <1>7, <1>8, <1>9 DEF DispatchNext, ActivationStep

\* No step of an activation but its entry and its end touches a history or the name of
\* its function, and none demotes less than before.
LEMMA Frame ==
  ASSUME TypeInv, AskInv, NEW c \in Calls, ActivationStep(c),
         ~ (TargetRaises(c) \/ LegEnds(c))
  PROVE  /\ UNCHANGED <<function, modes, exempt, stale, raw_mode, binding, env>>
         /\ at[c] # "out" /\ at'[c] # "out" /\ \A d \in Calls \ {c} : at'[d] = at[d]
         /\ demoted \subseteq demoted'
<1> USE DEF TypeInv, DispatchTypeOK, counter, dispatch, frame, history, env, ledger, request,
            Move, Branch
<1>1. CASE CheckDisabled(c) \/ CheckBinding(c) \/ CheckRequired(c) \/ TargetReturns(c)
  BY <1>1 DEF CheckDisabled, CheckBinding, CheckRequired, TargetReturns
<1>2. CASE CheckGateMode(c)
  BY <1>2 DEF CheckGateMode, Ask
<1>3. CASE GateAnswers(c) \/ BoundaryCounted(c)
  BY <1>3 DEF GateAnswers, BoundaryCounted, End
<1>4. CASE BoundaryCall(c)
  BY <1>4 DEF BoundaryCall, Ask
<1>5. CASE CounterStep(c)
  BY <1>5 DEF CounterStep, Configure, Bypass, SeeDemoted, Decide, Reply, Step, AskInv, Asking
<1> QED
  BY <1>1, <1>2, <1>3, <1>4, <1>5 DEF ActivationStep

HistoryInv == ModeInv /\ ExemptInv /\ StaleInv

LEMMA HistoryStep == TypeInv /\ AskInv /\ HistoryInv /\ [DispatchNext]_allvars => HistoryInv'
<1> SUFFICES ASSUME TypeInv, AskInv, HistoryInv, [DispatchNext]_allvars PROVE HistoryInv'
  OBVIOUS
<1> USE DEF HistoryInv, ModeInv, ExemptInv, StaleInv
\* A step that leaves the histories alone.
<1>0. ASSUME UNCHANGED <<function, modes, exempt, stale, raw_mode, env>>,
             \A d \in Calls : at'[d] # "out" => at[d] # "out", demoted \subseteq demoted'
      PROVE  HistoryInv'
  <2>1. Mode' = Mode /\ (CountingOff(env_threshold, env_disable))' = CountingOff(env_threshold, env_disable)
    BY <1>0 DEF Mode, env
  <2>2. ModeInv'
    BY <1>0, <2>1
  <2>3. ExemptInv'
    BY <1>0, <2>1
  <2>4. StaleInv'
    BY <1>0
  <2> QED
    BY <2>2, <2>3, <2>4
<1>1. ASSUME NEW c \in Calls, NEW f \in Functions, Enter(c, f) PROVE HistoryInv'
  <2> USE <1>1 DEF Enter, Move, TypeInv, DispatchTypeOK, counter, env, ledger
  <2>1. Mode' = Mode /\ (CountingOff(env_threshold, env_disable))' = CountingOff(env_threshold, env_disable)
    BY DEF Mode
  <2>2. ModeInv'
    BY <2>1
  <2>3. exempt'[c] = (CountingOff(env_threshold, env_disable) \/ Mode = "native")
    OBVIOUS
  <2>4. \A d \in Calls \ {c} : exempt'[d] = exempt[d] /\ at'[d] = at[d]
    OBVIOUS
  <2>5. ExemptInv'
    BY <2>1, <2>3, <2>4
  <2>6. stale'[c] = (f \in demoted) /\ function'[c] = f /\ demoted' = demoted
    OBVIOUS
  <2>7. \A d \in Calls \ {c} : stale'[d] = stale[d] /\ function'[d] = function[d]
    OBVIOUS
  <2>8. StaleInv'
    BY <2>4, <2>6, <2>7
  <2> QED
    BY <2>2, <2>5, <2>8
<1>2. ASSUME NEW c \in Calls, TargetRaises(c) \/ LegEnds(c) PROVE HistoryInv'
  <2>1. /\ UNCHANGED <<env, demoted, raw_mode>> /\ at'[c] = "out"
        /\ \A d \in Calls \ {c} : /\ at'[d] = at[d] /\ modes'[d] = modes[d] /\ exempt'[d] = exempt[d]
                                  /\ stale'[d] = stale[d] /\ function'[d] = function[d]
    BY <1>2 DEF TargetRaises, LegEnds, Leave, Move, TypeInv, DispatchTypeOK, counter, ledger
  <2>2. Mode' = Mode /\ (CountingOff(env_threshold, env_disable))' = CountingOff(env_threshold, env_disable)
    BY <2>1 DEF Mode, env
  <2>3. ModeInv' /\ StaleInv'
    BY <2>1, <2>2
  <2>4. ExemptInv'
    BY <2>1, <2>2
  <2> QED
    BY <2>3, <2>4
<1>3. ASSUME NEW c \in Calls, ActivationStep(c), ~ (TargetRaises(c) \/ LegEnds(c)) PROVE HistoryInv'
  BY <1>0, <1>3, Frame
<1>4. CASE DispatchSetEnv
  <2>1. /\ UNCHANGED <<at, function, modes, stale, raw_mode, demoted>>
        /\ \A c \in Calls : exempt'[c] = (exempt[c] \/ (at[c] # "out" /\ CountingOff(env_threshold', env_disable')))
    BY <1>4 DEF DispatchSetEnv, SetEnv, frame, ledger
  <2>2. Mode' = Mode
    BY <2>1 DEF Mode
  <2>3. ModeInv' /\ StaleInv'
    BY <2>1, <2>2
  <2>4. ExemptInv'
    BY <2>1, <2>2
  <2> QED
    BY <2>3, <2>4
<1>5. CASE SetMode
  <2>1. /\ UNCHANGED <<at, function, stale, env, demoted>>
        /\ \A c \in Calls : exempt'[c] = (exempt[c] \/ (at[c] # "out" /\ Mode' = "native"))
        /\ \A c \in Calls : at[c] # "out" => Mode' \in modes'[c]
    BY <1>5 DEF SetMode, frame, counter, ledger, Mode
  <2>2. (CountingOff(env_threshold, env_disable))' = CountingOff(env_threshold, env_disable)
    BY <2>1 DEF env
  <2>3. ModeInv' /\ StaleInv'
    BY <2>1
  <2>4. ExemptInv'
    BY <2>1, <2>2
  <2> QED
    BY <2>3, <2>4
<1>6. CASE UNCHANGED allvars
  BY <1>0, <1>6 DEF allvars, counter, dispatch, frame, history, ledger
<1> QED
  BY <1>1, <1>2, <1>3, <1>4, <1>5, <1>6 DEF DispatchNext

-----------------------------------------------------------------------------
(* Legs, and the gate *)

LEMMA LegStep == TypeInv /\ AskInv /\ HistoryInv /\ LegInv /\ [DispatchNext]_allvars => LegInv'
<1> SUFFICES ASSUME TypeInv, AskInv, HistoryInv, LegInv, [DispatchNext]_allvars PROVE LegInv'
  OBVIOUS
<1> USE DEF LegInv, Body, TypeInv, DispatchTypeOK, Move, Branch, counter, frame, history
<1>1. ASSUME NEW c \in Calls, NEW f \in Functions, Enter(c, f) PROVE LegInv'
  BY <1>1 DEF Enter
<1>2. ASSUME NEW c \in Calls, CheckDisabled(c) PROVE LegInv'
  <2>1. Mode \in modes[c]
    BY <1>2 DEF CheckDisabled, HistoryInv, ModeInv
  <2> QED
    BY <1>2, <2>1 DEF CheckDisabled
<1>3. ASSUME NEW c \in Calls, CheckBinding(c) PROVE LegInv'
  <2>1. function[c] \in Functions
    BY <1>3 DEF CheckBinding, AskInv
  <2> QED
    BY <1>3, <2>1 DEF CheckBinding
<1>4. ASSUME NEW c \in Calls, CheckRequired(c) PROVE LegInv'
  <2>1. Mode \in modes[c]
    BY <1>4 DEF CheckRequired, HistoryInv, ModeInv
  <2> QED
    BY <1>4, <2>1 DEF CheckRequired
<1>5. ASSUME NEW c \in Calls, CheckGateMode(c) PROVE LegInv'
  <2>1. at[c] = "gate_mode" => Mode \in modes[c]
    BY DEF HistoryInv, ModeInv
  <2> QED
    BY <1>5, <2>1 DEF CheckGateMode
<1>6. ASSUME NEW c \in Calls, GateAnswers(c) PROVE LegInv'
  BY <1>6 DEF GateAnswers
<1>7. ASSUME NEW c \in Calls, BoundaryCall(c) \/ BoundaryCounted(c) \/ TargetReturns(c) PROVE LegInv'
  BY <1>7 DEF BoundaryCall, BoundaryCounted, TargetReturns
<1>8. ASSUME NEW c \in Calls, TargetRaises(c) \/ LegEnds(c) PROVE LegInv'
  BY <1>8 DEF TargetRaises, LegEnds, Leave
<1>9. ASSUME NEW c \in Calls, CounterStep(c) PROVE LegInv'
  BY <1>9 DEF CounterStep, dispatch
<1>10. CASE DispatchSetEnv
  BY <1>10 DEF DispatchSetEnv
<1>11. CASE SetMode
  <2>1. /\ UNCHANGED <<at, function, binding>>
        /\ \A c \in Calls : at[c] # "out" => modes[c] \subseteq modes'[c]
    BY <1>11 DEF SetMode
  <2> QED
    BY <2>1
<1>12. CASE UNCHANGED allvars
  BY <1>12 DEF allvars, dispatch
<1> QED
  BY <1>1, <1>2, <1>3, <1>4, <1>5, <1>6, <1>7, <1>8, <1>9, <1>10, <1>11, <1>12 DEF DispatchNext, ActivationStep

LEMMA GateStep ==
  TypeInv /\ AskInv /\ HistoryInv /\ LegInv /\ GateInv /\ [DispatchNext]_allvars => GateInv'
<1> SUFFICES ASSUME TypeInv, AskInv, HistoryInv, LegInv, GateInv, [DispatchNext]_allvars PROVE GateInv'
  OBVIOUS
<1> USE DEF GateInv, Body, TypeInv, DispatchTypeOK, Move, Branch, counter, frame, history
<1>1. ASSUME NEW c \in Calls, NEW f \in Functions, Enter(c, f) PROVE GateInv'
  BY <1>1 DEF Enter
<1>2. ASSUME NEW c \in Calls, CheckDisabled(c) \/ CheckBinding(c) \/ CheckRequired(c) PROVE GateInv'
  BY <1>2 DEF CheckDisabled, CheckBinding, CheckRequired
<1>3. ASSUME NEW c \in Calls, CheckGateMode(c) PROVE GateInv'
  <2>1. at[c] = "gate_mode" /\ Mode = "native" => exempt[c]
    BY DEF HistoryInv, ExemptInv
  <2>2. CASE Mode = "native" /\ Branch(c, "gate_mode", "native")
    BY <2>1, <2>2
  <2>3. CASE Move(c, "gate_mode", "gate") /\ Ask(c, function[c], Embedded)
             /\ UNCHANGED <<raw_mode, binding, frame, history>>
    BY <2>3 DEF Ask, Step
  <2> QED
    BY <1>3, <2>2, <2>3 DEF CheckGateMode
<1>4. ASSUME NEW c \in Calls, GateAnswers(c) PROVE GateInv'
  <2>1. at[c] = "gate" /\ phase[c] = "done" /\ UNCHANGED <<function, exempt, stale>>
    BY <1>4 DEF GateAnswers, End, Step
  <2>2. at' = [at EXCEPT ![c] = IF answer[c] THEN "fallback" ELSE "native"]
    BY <1>4 DEF GateAnswers
  <2>3. ~answer[c] /\ stale[c] => exempt[c]
    BY <2>1
  <2> QED
    BY <1>4, <2>1, <2>2, <2>3 DEF GateAnswers, End, Step
<1>5. ASSUME NEW c \in Calls, BoundaryCall(c) \/ BoundaryCounted(c) \/ TargetReturns(c) PROVE GateInv'
  BY <1>5 DEF BoundaryCall, BoundaryCounted, TargetReturns, Ask, End, Step
<1>6. ASSUME NEW c \in Calls, TargetRaises(c) \/ LegEnds(c) PROVE GateInv'
  BY <1>6 DEF TargetRaises, LegEnds, Leave
<1>7. ASSUME NEW c \in Calls, CounterStep(c) PROVE GateInv'
  <2>1. /\ UNCHANGED <<at, function, exempt, stale>>
        /\ \A d \in Calls \ {c} : phase'[d] = phase[d] /\ answer'[d] = answer[d]
    BY <1>7 DEF CounterStep, dispatch, Configure, Bypass, SeeDemoted, Decide, Reply, Step
  <2>2. ASSUME at[c] = "gate", phase'[c] = "done", ~answer'[c], stale[c] PROVE exempt[c]
    <3>1. subject[c] = function[c] /\ default[c] = Embedded /\ function[c] \in demoted
      BY <2>2 DEF AskInv, Asking, HistoryInv, StaleInv
    <3>2. CountingOff(env_threshold, env_disable)
      <4>1. CASE Configure(c)
        BY <2>2, <3>1, <4>1 DEF Configure, CountingOff, Step
      <4>2. CASE Bypass(c)
        BY <4>2 DEF Bypass, CountingOff
      <4>3. CASE SeeDemoted(c)
        BY <2>2, <4>3 DEF SeeDemoted, Reply
      <4>4. CASE Decide(c)
        BY <3>1, <4>4 DEF Decide
      <4> QED
        BY <1>7, <4>1, <4>2, <4>3, <4>4 DEF CounterStep
    <3> QED
      BY <2>2, <3>2 DEF HistoryInv, ExemptInv
  <2> QED
    BY <2>1, <2>2
<1>8. CASE DispatchSetEnv \/ SetMode
  <2>1. /\ UNCHANGED <<at, function, stale, phase, answer>>
        /\ \A c \in Calls : exempt[c] => exempt'[c]
    BY <1>8 DEF DispatchSetEnv, SetEnv, SetMode
  <2> QED
    BY <2>1
<1>9. CASE UNCHANGED allvars
  BY <1>9 DEF allvars, dispatch
<1> QED
  BY <1>1, <1>2, <1>3, <1>4, <1>5, <1>6, <1>7, <1>8, <1>9 DEF DispatchNext, ActivationStep

-----------------------------------------------------------------------------
DispatchInv == TypeInv /\ AskInv /\ HistoryInv /\ LegInv /\ GateInv

THEOREM DispatchInvariant == DispatchSpec => []DispatchInv
<1>1. DispatchInit => DispatchInv
  <2> SUFFICES ASSUME DispatchInit PROVE DispatchInv
    OBVIOUS
  <2>1. TypeInv
    BY TypeInit
  <2>2. \A c \in Calls : at[c] = "out" /\ phase[c] = "idle"
    BY DEF DispatchInit, Init
  <2>3. AskInv
    BY <2>2 DEF AskInv, Asking
  <2>4. HistoryInv
    BY <2>2 DEF HistoryInv, ModeInv, ExemptInv, StaleInv
  <2>5. LegInv /\ GateInv
    BY <2>2 DEF LegInv, GateInv, Body
  <2> QED
    BY <2>1, <2>3, <2>4, <2>5 DEF DispatchInv
<1>2. DispatchInv /\ [DispatchNext]_allvars => DispatchInv'
  BY TypeStep, AskStep, HistoryStep, LegStep, GateStep DEF DispatchInv
<1> QED
  BY <1>1, <1>2, PTL DEF DispatchSpec

\* Every variable of an activation keeps to the values the wrapper body gives it.
THEOREM DispatchTyped == DispatchSpec => []DispatchTypeOK
<1>1. DispatchInv => DispatchTypeOK
  BY DEF DispatchInv, TypeInv
<1> QED
  BY <1>1, DispatchInvariant, PTL

\* However often the mode changes between the readings of one call, the leg the
\* call takes was justified by a mode in force during that call.
THEOREM LegsAreJustified == DispatchSpec => []LegJustified
<1>1. DispatchInv => LegJustified
  BY DEF DispatchInv, LegInv, LegJustified, Body
<1> QED
  BY <1>1, DispatchInvariant, PTL

\* A call entered after the demotion of its function stays on Python, unless the
\* mode forbade that or counting was off at some moment of it.
THEOREM DemotionHolds == DispatchSpec => []DemotedStaysOnFallback
<1>1. DispatchInv => DemotedStaysOnFallback
  BY DEF DispatchInv, GateInv, DemotedStaysOnFallback, Body
<1> QED
  BY <1>1, DispatchInvariant, PTL
=============================================================================

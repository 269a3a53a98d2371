------------------------------ MODULE Dispatch ------------------------------
(***************************************************************************)
(* Calls through the generated wrappers of an imported module: which leg   *)
(* each takes (compiled native function, Python fallback, RuntimeError),   *)
(* and the boundary calls a native body makes back into Python.            *)
(*                                                                         *)
(* The counter behind the gate is Demotion, which BoundaryFallback is      *)
(* proved to implement.  An activation of a wrapper is a slot of Calls and *)
(* lends it to the counter while it asks; a nested call is another slot.   *)
(***************************************************************************)
EXTENDS Demotion

CONSTANTS
    Embedded,      \* the threshold the build rendered into the wrappers
    PluginRouted,  \* functions with plugin claims or plugin-typed signatures
    RawModes,      \* what REXTIO_NATIVE_MODE may hold; NoValue when unset
    BoundaryCalls  \* how many boundary calls a native body may make

ASSUME DispatchAssumption ==
    /\ PluginRouted \subseteq Functions
    /\ BoundaryCalls \in [Functions -> Nat]
    /\ {Embedded, DEFAULT_BOUNDARY_FALLBACK_THRESHOLD} \subseteq EmbeddedThresholds

VARIABLES
    raw_mode,  \* os.environ[REXTIO_NATIVE_MODE]
    binding,   \* functions whose native binding is not None
    at,        \* where each activation is
    function,  \* whose wrapper it runs
    pending,   \* boundary calls its native body may still make
    modes,     \* history: modes in force at some moment of the activation
    exempt,    \* history: counting was off, or the mode native, at some moment of it
    stale      \* history: the function was already demoted when it was entered

frame == <<function, pending>>
history == <<modes, exempt, stale>>
counter == <<env, ledger, phase, request, limit, answer, reading>>
dispatch == <<raw_mode, binding, at, frame, history>>
allvars == <<counter, dispatch>>

\* native_mode: anything but the three modes is auto
NativeMode(raw) == IF raw \in {"native", "fallback"} THEN raw ELSE "auto"
Mode == NativeMode(raw_mode)

\* What switches the gate off for a call that asks it with the embedded default
CountingOff(threshold, disable) ==
    disable \/ EffectiveThreshold(threshold, Embedded) = 0

Legs == {"native", "fallback", "raise"}
Places == Legs \cup {"out", "disabled", "binding", "required", "gate_mode", "gate",
                     "boundary", "target"}

DispatchInit ==
    /\ Init
    /\ raw_mode \in RawModes
    /\ binding \in SUBSET Functions
    /\ at = [c \in Calls |-> "out"]
    /\ function = [c \in Calls |-> NoFunction]
    /\ pending = [c \in Calls |-> 0]
    /\ modes = [c \in Calls |-> {}]
    /\ exempt = [c \in Calls |-> FALSE]
    /\ stale = [c \in Calls |-> FALSE]

Move(c, from, to) == at[c] = from /\ at' = [at EXCEPT ![c] = to]

\* A step of the wrapper body that neither asks the counter nor enters a call
Branch(c, from, to) ==
    /\ Move(c, from, to)
    /\ UNCHANGED <<counter, raw_mode, binding, frame, history>>

-----------------------------------------------------------------------------
(* The wrapper body *)

Enter(c, f) ==
    /\ Move(c, "out", "disabled")
    /\ function' = [function EXCEPT ![c] = f]
    /\ pending' = [pending EXCEPT ![c] = BoundaryCalls[f]]
    /\ modes' = [modes EXCEPT ![c] = {Mode}]
    /\ exempt' = [exempt EXCEPT ![c] = CountingOff(env_threshold, env_disable) \/ Mode = "native"]
    /\ stale' = [stale EXCEPT ![c] = f \in demoted]
    /\ UNCHANGED <<counter, raw_mode, binding>>

\* if native_disabled(): return fallback(...)
CheckDisabled(c) == Branch(c, "disabled", IF Mode = "fallback" THEN "fallback" ELSE "binding")

\* Mutant: plugin-routed functions are gated like the others
CheckBinding_GateAll(c) ==
    Branch(c, "binding", IF function[c] \notin binding THEN "required" ELSE "gate_mode")

\* if native is None: ...; plugin-routed functions have no gate
CheckBinding(c) ==
    Branch(c, "binding", IF function[c] \notin binding THEN "required"
                         ELSE IF function[c] \in PluginRouted THEN "native"
                         ELSE "gate_mode")

\* if native_required(): raise RuntimeError(...)
CheckRequired(c) == Branch(c, "required", IF Mode = "native" THEN "raise" ELSE "fallback")

\* if not native_required() and boundary_fallback_required(f, embedded): ...
CheckGateMode(c) ==
    \/ Mode = "native" /\ Branch(c, "gate_mode", "native")
    \/ /\ Mode # "native"
       /\ Move(c, "gate_mode", "gate")
       /\ Ask(c, function[c], Embedded)
       /\ UNCHANGED <<raw_mode, binding, frame, history>>

\* Mutant: a call that found its function demoted runs natively once more
GateAnswers_Late(c) ==
    /\ Move(c, "gate", IF answer[c] /\ ~stale[c] THEN "fallback" ELSE "native")
    /\ End(c)
    /\ UNCHANGED <<raw_mode, binding, frame, history>>

GateAnswers(c) ==
    /\ Move(c, "gate", IF answer[c] THEN "fallback" ELSE "native")
    /\ End(c)
    /\ UNCHANGED <<raw_mode, binding, frame, history>>

-----------------------------------------------------------------------------
(* The native body and boundary_call *)

\* boundary_call counts the crossing against the caller, with the default
\* threshold and not the embedded one
BoundaryCall(c) ==
    /\ pending[c] > 0
    /\ Move(c, "native", "boundary")
    /\ Ask(c, function[c], DEFAULT_BOUNDARY_FALLBACK_THRESHOLD)
    /\ pending' = [pending EXCEPT ![c] = @ - 1]
    /\ UNCHANGED <<raw_mode, binding, function, history>>

\* The answer is ignored: a native body is never demoted half way
BoundaryCounted(c) ==
    /\ Move(c, "boundary", "target")
    /\ End(c)
    /\ UNCHANGED <<raw_mode, binding, frame, history>>

\* The target returns into the native body, or its exception ends it
TargetReturns(c) == Branch(c, "target", "native")

Leave(c, from) ==
    /\ Move(c, from, "out")
    /\ function' = [function EXCEPT ![c] = NoFunction]
    /\ pending' = [pending EXCEPT ![c] = 0]
    /\ modes' = [modes EXCEPT ![c] = {}]
    /\ exempt' = [exempt EXCEPT ![c] = FALSE]
    /\ stale' = [stale EXCEPT ![c] = FALSE]
    /\ UNCHANGED <<counter, raw_mode, binding>>

TargetRaises(c) == Leave(c, "target")

\* The leg is over: the wrapped call returns or raises
LegEnds(c) == \E leg \in Legs : Leave(c, leg)

-----------------------------------------------------------------------------
(* The environment, and the counter at work for an activation that asked *)

DispatchSetEnv ==
    /\ SetEnv
    /\ exempt' = [c \in Calls |->
          exempt[c] \/ (at[c] # "out" /\ CountingOff(env_threshold', env_disable'))]
    /\ UNCHANGED <<raw_mode, binding, at, frame, modes, stale>>

SetMode ==
    /\ raw_mode' \in RawModes
    /\ modes' = [c \in Calls |-> IF at[c] = "out" THEN {}
                                 ELSE modes[c] \cup {NativeMode(raw_mode')}]
    /\ exempt' = [c \in Calls |->
          exempt[c] \/ (at[c] # "out" /\ NativeMode(raw_mode') = "native")]
    /\ UNCHANGED <<counter, binding, at, frame, stale>>

CounterStep(c) ==
    /\ Configure(c) \/ Bypass(c) \/ SeeDemoted(c) \/ Decide(c)
    /\ UNCHANGED dispatch

ActivationStep(c) ==
    \/ CheckDisabled(c) \/ CheckBinding(c) \/ CheckRequired(c)
    \/ CheckGateMode(c) \/ GateAnswers(c)
    \/ BoundaryCall(c) \/ BoundaryCounted(c) \/ TargetReturns(c) \/ TargetRaises(c)
    \/ LegEnds(c) \/ CounterStep(c)

DispatchNext ==
    \/ \E c \in Calls : ActivationStep(c) \/ \E f \in Functions : Enter(c, f)
    \/ DispatchSetEnv \/ SetMode

DispatchSpec == DispatchInit /\ [][DispatchNext]_allvars

-----------------------------------------------------------------------------
DispatchTypeOK ==
    /\ raw_mode \in RawModes /\ binding \subseteq Functions
    /\ at \in [Calls -> Places]
    /\ function \in [Calls -> Functions \cup {NoFunction}]
    /\ pending \in [Calls -> Nat]
    /\ modes \in [Calls -> SUBSET {"auto", "native", "fallback"}]
    /\ exempt \in [Calls -> BOOLEAN] /\ stale \in [Calls -> BOOLEAN]
    /\ demoted \subseteq Functions /\ crossings \in [Functions -> Nat]
    /\ phase \in [Calls -> Phases] /\ limit \in [Calls -> Nat]

\* The mode is read up to three times while it may change: still, a call runs
\* natively only if the mode was not fallback at some moment of the call, runs
\* on Python only if it was not native, and raises only for a missing binding.  A
\* plugin-routed function that has its binding runs on Python only for the mode,
\* never because of its crossings: its two legs may differ observably.
LegJustified ==
    \A c \in Calls :
        /\ at[c] = "native" => modes[c] # {"fallback"} /\ function[c] \in binding
        /\ at[c] = "fallback" => modes[c] # {"native"}
        /\ at[c] = "raise" => "native" \in modes[c] /\ function[c] \notin binding
        /\ at[c] = "fallback" /\ function[c] \in PluginRouted \cap binding
               => "fallback" \in modes[c]

\* A call entered after its function was demoted does not run natively, unless the
\* mode required it or counting was off at some moment of it.
DemotedStaysOnFallback ==
    \A c \in Calls :
        at[c] = "native" /\ stale[c] => exempt[c] \/ function[c] \in PluginRouted

=============================================================================

-------------------------- MODULE BoundaryFallback --------------------------
(***************************************************************************)
(* The per-function crossing counter behind every generated wrapper        *)
(* (rextio.runtime.boundary_fallback).  A call slot is one activation of   *)
(* boundary_fallback_required, boundary_fallback_count or                  *)
(* reset_boundary_fallback_state: no lock and no local outlives the call,  *)
(* so a thread that calls again from a nested frame is just another slot.  *)
(*                                                                         *)
(* The interpreter may switch threads between any two bytecodes, so every  *)
(* read and write of shared state is a step of its own.                    *)
(***************************************************************************)
EXTENDS FallbackThreshold

CONSTANTS
    Calls,              \* call slots: activations that may be in flight together
    Functions,          \* qualified names of native functions
    NoCall,             \* nobody holds the lock
    NoFunction          \* an activation that has not started names no function

ASSUME CallsAssumption == NoCall \notin Calls
ASSUME FunctionsAssumption == NoFunction \notin Functions

VARIABLES
    env_threshold,      \* os.environ[THRESHOLD_ENV]
    env_disable,        \* env_truthy(DISABLE_ENV)
    lock,               \* _STATE.lock
    counts,             \* _STATE.counts, 0 where the dict has no key
    fallback_functions, \* _STATE.fallback_functions
    pc,                 \* where each call slot is
    function_name, default_threshold, threshold, count, answer, \* its locals
    crossings,          \* history: increments stored since the last reset
    admitted            \* history: False answers that used up a crossing

env == <<env_threshold, env_disable>>
shared == <<lock, counts, fallback_functions>>
locals == <<function_name, default_threshold, threshold, count, answer>>
history == <<crossings, admitted>>
vars == <<env, shared, pc, locals, history>>

-----------------------------------------------------------------------------
\* Program points of a call; the lock is held in LockedPoints
LockedPoints == {"recheck", "get", "store", "compare", "latch", "release",
                 "clear_counts", "clear_functions", "read"}
Points == LockedPoints \cup {"idle", "threshold", "disable", "fast", "lock",
                             "lock_reset", "lock_count", "return"}

Init ==
    /\ env_threshold \in EnvThresholds
    /\ env_disable \in DisableValues
    /\ lock = NoCall
    /\ counts = [f \in Functions |-> 0]
    /\ fallback_functions = {}
    /\ pc = [c \in Calls |-> "idle"]
    /\ function_name = [c \in Calls |-> NoFunction]
    /\ default_threshold = [c \in Calls |-> 0]
    /\ threshold = [c \in Calls |-> 0]
    /\ count = [c \in Calls |-> 0]
    /\ answer = [c \in Calls |-> FALSE]
    /\ crossings = [f \in Functions |-> 0]
    /\ admitted = [f \in Functions |-> 0]

Goto(c, point) == pc' = [pc EXCEPT ![c] = point]

\* The call leaves with this result; nothing it answers is read before Return
Answer(c, value, point) ==
    /\ answer' = [answer EXCEPT ![c] = value]
    /\ Goto(c, point)

-----------------------------------------------------------------------------
(* boundary_fallback_required(function_name, default_threshold) *)

Call(c, f, default) ==
    /\ pc[c] = "idle"
    /\ function_name' = [function_name EXCEPT ![c] = f]
    /\ default_threshold' = [default_threshold EXCEPT ![c] = default]
    /\ Goto(c, "threshold")
    /\ UNCHANGED <<env, shared, threshold, count, answer, history>>

\* threshold = boundary_fallback_threshold(default_threshold)
ReadThreshold(c) ==
    /\ pc[c] = "threshold"
    /\ LET effective == EffectiveThreshold(env_threshold, default_threshold[c])
       IN  /\ threshold' = [threshold EXCEPT ![c] = effective]
           /\ \/ effective = 0 /\ Answer(c, FALSE, "return")
              \/ effective # 0 /\ Goto(c, "disable") /\ UNCHANGED answer
    /\ UNCHANGED <<env, shared, function_name, default_threshold, count, history>>

\* ... or env_truthy(DISABLE_ENV): return False
ReadDisable(c) ==
    /\ pc[c] = "disable"
    /\ \/ env_disable /\ Answer(c, FALSE, "return")
       \/ ~env_disable /\ Goto(c, "fast") /\ UNCHANGED answer
    /\ UNCHANGED <<env, shared, function_name, default_threshold, threshold, count, history>>

\* Mutant: no fast path, every call queues for the lock
FastPath_AlwaysLock(c) ==
    /\ pc[c] = "fast"
    /\ Goto(c, "lock")
    /\ UNCHANGED <<env, shared, locals, history>>

\* The membership test outside the lock
FastPath(c) ==
    /\ pc[c] = "fast"
    /\ \/ function_name[c] \in fallback_functions /\ Answer(c, TRUE, "return")
       \/ function_name[c] \notin fallback_functions /\ Goto(c, "lock") /\ UNCHANGED answer
    /\ UNCHANGED <<env, shared, function_name, default_threshold, threshold, count, history>>

\* Mutant: the lock does not exclude anybody
Acquire_Unlocked(c, from, to) ==
    /\ pc[c] = from
    /\ lock' = c
    /\ Goto(c, to)
    /\ UNCHANGED <<env, counts, fallback_functions, locals, history>>

Acquire(c, from, to) ==
    /\ pc[c] = from
    /\ lock = NoCall
    /\ lock' = c
    /\ Goto(c, to)
    /\ UNCHANGED <<env, counts, fallback_functions, locals, history>>

AcquireLock(c) == Acquire(c, "lock", "recheck")

\* The membership test again, now under the lock
Recheck(c) ==
    /\ pc[c] = "recheck"
    /\ \/ function_name[c] \in fallback_functions /\ Answer(c, TRUE, "release")
       \/ function_name[c] \notin fallback_functions /\ Goto(c, "get") /\ UNCHANGED answer
    /\ UNCHANGED <<env, shared, function_name, default_threshold, threshold, count, history>>

\* count = _STATE.counts.get(function_name, 0) + 1
GetCount(c) ==
    /\ pc[c] = "get"
    /\ count' = [count EXCEPT ![c] = counts[function_name[c]] + 1]
    /\ Goto(c, "store")
    /\ UNCHANGED <<env, shared, function_name, default_threshold, threshold, answer, history>>

\* _STATE.counts[function_name] = count
StoreCount(c) ==
    /\ pc[c] = "store"
    /\ counts' = [counts EXCEPT ![function_name[c]] = count[c]]
    /\ crossings' = [crossings EXCEPT ![function_name[c]] = @ + 1]
    /\ Goto(c, "compare")
    /\ UNCHANGED <<env, lock, fallback_functions, locals, admitted>>

\* count > threshold decides between latching and admitting the call
Compare(c) ==
    /\ pc[c] = "compare"
    /\ \/ /\ count[c] > threshold[c]
          /\ Goto(c, "latch")
          /\ UNCHANGED <<answer, admitted>>
       \/ /\ count[c] <= threshold[c]
          /\ Answer(c, FALSE, "release")
          /\ admitted' = [admitted EXCEPT ![function_name[c]] = @ + 1]
    /\ UNCHANGED <<env, shared, function_name, default_threshold, threshold, count, crossings>>

Latch(c) ==
    /\ pc[c] = "latch"
    /\ fallback_functions' = fallback_functions \cup {function_name[c]}
    /\ Answer(c, TRUE, "release")
    /\ UNCHANGED <<env, lock, counts, function_name, default_threshold, threshold, count, history>>

ReleaseLock(c) ==
    /\ pc[c] = "release"
    /\ lock' = NoCall
    /\ Goto(c, "return")
    /\ UNCHANGED <<env, counts, fallback_functions, locals, history>>

\* The result goes back to the caller; the activation ends and drops its locals
Return(c) ==
    /\ pc[c] = "return"
    /\ Goto(c, "idle")
    /\ function_name' = [function_name EXCEPT ![c] = NoFunction]
    /\ default_threshold' = [default_threshold EXCEPT ![c] = 0]
    /\ threshold' = [threshold EXCEPT ![c] = 0]
    /\ count' = [count EXCEPT ![c] = 0]
    /\ answer' = [answer EXCEPT ![c] = FALSE]
    /\ UNCHANGED <<env, shared, history>>

-----------------------------------------------------------------------------
(* boundary_fallback_count and reset_boundary_fallback_state *)

CallCount(c, f) ==
    /\ pc[c] = "idle"
    /\ function_name' = [function_name EXCEPT ![c] = f]
    /\ Goto(c, "lock_count")
    /\ UNCHANGED <<env, shared, default_threshold, threshold, count, answer, history>>

AcquireCount(c) == Acquire(c, "lock_count", "read")

ReadCount(c) ==
    /\ pc[c] = "read"
    /\ count' = [count EXCEPT ![c] = counts[function_name[c]]]
    /\ Goto(c, "release")
    /\ UNCHANGED <<env, shared, function_name, default_threshold, threshold, answer, history>>

CallReset(c) ==
    /\ pc[c] = "idle"
    /\ Goto(c, "lock_reset")
    /\ UNCHANGED <<env, shared, locals, history>>

AcquireReset(c) == Acquire(c, "lock_reset", "clear_counts")

ClearCounts(c) ==
    /\ pc[c] = "clear_counts"
    /\ counts' = [f \in Functions |-> 0]
    /\ Goto(c, "clear_functions")
    /\ UNCHANGED <<env, lock, fallback_functions, locals, history>>

\* The second clear completes the reset, so the history starts over here
ClearFunctions(c) ==
    /\ pc[c] = "clear_functions"
    /\ fallback_functions' = {}
    /\ crossings' = [f \in Functions |-> 0]
    /\ admitted' = [f \in Functions |-> 0]
    /\ Goto(c, "release")
    /\ UNCHANGED <<env, lock, counts, locals>>

-----------------------------------------------------------------------------
\* The process may assign os.environ at any time (the bench runner does)
SetEnv ==
    /\ env_threshold' \in EnvThresholds
    /\ env_disable' \in DisableValues
    /\ UNCHANGED <<shared, pc, locals, history>>

\* The steps a call takes by itself once it was made
CallStep(c) ==
    \/ ReadThreshold(c) \/ ReadDisable(c) \/ FastPath(c)
    \/ AcquireLock(c) \/ Recheck(c) \/ GetCount(c) \/ StoreCount(c)
    \/ Compare(c) \/ Latch(c) \/ ReleaseLock(c) \/ Return(c)
    \/ AcquireCount(c) \/ ReadCount(c)
    \/ AcquireReset(c) \/ ClearCounts(c) \/ ClearFunctions(c)

Next ==
    \/ \E c \in Calls :
          \/ CallStep(c)
          \/ \E f \in Functions :
                \/ \E default \in EmbeddedThresholds : Call(c, f, default)
                \/ CallCount(c, f)
          \/ CallReset(c)
    \/ SetEnv

Spec == Init /\ [][Next]_vars

\* A thread that can run does run; threading.Lock promises no fairness
FairSpec == Spec /\ \A c \in Calls : WF_vars(CallStep(c))

-----------------------------------------------------------------------------
TypeOK ==
    /\ env_threshold \in EnvThresholds
    /\ env_disable \in DisableValues
    /\ lock \in Calls \cup {NoCall}
    /\ counts \in [Functions -> Nat]
    /\ fallback_functions \subseteq Functions
    /\ pc \in [Calls -> Points]
    /\ function_name \in [Calls -> Functions \cup {NoFunction}]
    /\ default_threshold \in [Calls -> Int]
    /\ threshold \in [Calls -> Nat]
    /\ count \in [Calls -> Nat]
    /\ answer \in [Calls -> BOOLEAN]
    /\ crossings \in [Functions -> Nat]
    /\ admitted \in [Functions -> Nat]

\* No crossing is lost: the counter is the number of crossings stored, however
\* the calls interleave, except inside a reset between its two clears.
CountsExact ==
    (\A c \in Calls : pc[c] # "clear_functions") => counts = crossings

\* The slow path looks at the set again under the lock, so calls that were
\* queueing when a function was demoted do not go on counting: a counter passes
\* the largest threshold in force by one at most.
CountBounded ==
    \A f \in Functions :
        crossings[f] > 0 => \E t \in Thresholds : crossings[f] <= t + 1

\* Whatever the interleaving, no more native calls are admitted against a
\* function's counter than a threshold that some caller compared with allows.
AdmittedWithinThreshold ==
    \A f \in Functions :
        admitted[f] > 0 => \E t \in Thresholds : admitted[f] <= t

\* A call that counted the last crossing and has not demoted the function yet
Demoting(f) == \E c \in Calls : function_name[c] = f /\ pc[c] \in {"compare", "latch"}

\* A function is on fallback exactly because its crossings exceeded a threshold:
\* never earlier, and it never stays native beyond every threshold in force.
DemotedExactly ==
    \A f \in Functions :
        /\ f \in fallback_functions => \E t \in Thresholds : t # 0 /\ crossings[f] > t
        /\ f \notin fallback_functions /\ crossings[f] > 0 /\ ~Demoting(f)
              => \E t \in Thresholds : crossings[f] <= t

\* Demotion is permanent: only the completed reset takes a function off the set,
\* and the reset takes all of them off together with every counter.
DemotionPermanent ==
    [][\A f \in Functions :
          f \in fallback_functions /\ f \notin fallback_functions'
              => fallback_functions' = {} /\ \A g \in Functions : counts'[g] = 0]_vars

\* One of the two helpers, which only tests and tools call, is under way
HelperRuns ==
    \E c \in Calls : pc[c] \in {"lock_count", "read", "lock_reset",
                                "clear_counts", "clear_functions"}

\* Every wrapped call returns although the lock is not fair, once the helpers are
\* no longer called: each function takes the lock a bounded number of times before
\* its calls stay on the fast path.
CallsReturn ==
    []<>HelperRuns \/ \A c \in Calls : pc[c] # "idle" ~> pc[c] = "idle"

-----------------------------------------------------------------------------
(* The inductive invariant the proofs rest on *)

\* Points of boundary_fallback_required past the settings; in the last four the
\* function is known, under the lock, not to be demoted
LimitedPoints == {"disable", "fast", "lock", "recheck", "get", "store", "compare", "latch"}
NativePoints == {"get", "store", "compare", "latch"}

NamedInv ==
    \A c \in Calls : pc[c] \in LimitedPoints \cup {"threshold", "lock_count", "read"}
        => function_name[c] \in Functions

LockInv == \A c \in Calls : lock = c <=> pc[c] \in LockedPoints

LimitInv ==
    \A c \in Calls :
        /\ pc[c] = "threshold" => default_threshold[c] \in EmbeddedThresholds
        /\ pc[c] \in LimitedPoints => threshold[c] \in Thresholds \ {0}

\* Points where a call has settled no threshold and read no counter yet
FreshPoints == {"idle", "threshold", "lock_count", "read",
                "lock_reset", "clear_counts", "clear_functions"}

FreshInv == \A c \in Calls : pc[c] \in FreshPoints => threshold[c] = 0 /\ count[c] = 0

\* What a lock holder has read is still so when it uses it
SlowPathInv ==
    \A c \in Calls :
        /\ pc[c] \in NativePoints => function_name[c] \notin fallback_functions
        /\ pc[c] = "store" => count[c] = counts[function_name[c]] + 1
        /\ pc[c] \in {"compare", "latch"} => count[c] = counts[function_name[c]]
        /\ pc[c] = "latch" => count[c] > threshold[c]
        /\ pc[c] = "clear_functions" => \A f \in Functions : counts[f] = 0

\* A crossing whose comparison is still to come is nobody's admission yet
LedgerInv ==
    \A f \in Functions :
        /\ admitted[f] <= crossings[f]
        /\ Demoting(f) => admitted[f] < crossings[f]

IInv ==
    /\ TypeOK /\ NamedInv /\ LockInv /\ LimitInv /\ FreshInv /\ SlowPathInv /\ LedgerInv
    /\ CountsExact /\ CountBounded /\ AdmittedWithinThreshold /\ DemotedExactly

-----------------------------------------------------------------------------
(* Refinement: the counter implements Demotion.  A crossing counts at the
   comparison or the latch that settles it, a reset at its second clear. *)

PhaseOf(point) ==
    CASE point = "idle" -> "idle"
      [] point = "threshold" -> "asked"
      [] point \in {"lock_count", "read"} -> "counting"
      [] point \in {"lock_reset", "clear_counts", "clear_functions"} -> "resetting"
      [] point \in {"release", "return"} -> "done"
      [] OTHER -> "limited"

SettledCrossings ==
    [f \in Functions |-> IF Demoting(f) THEN crossings[f] - 1 ELSE crossings[f]]

\* Only boundary_fallback_count returns a counter, and it has no threshold
Reading ==
    [c \in Calls |-> IF pc[c] \in {"release", "return"} /\ threshold[c] = 0
                     THEN count[c] ELSE 0]

Abstract == INSTANCE Demotion WITH
    crossings <- SettledCrossings,
    demoted <- fallback_functions,
    phase <- [c \in Calls |-> PhaseOf(pc[c])],
    subject <- function_name,
    default <- default_threshold,
    limit <- threshold,
    reading <- Reading

\* Every call answers as if it counted, compared and demoted at one instant
\* between its call and its return: "a race with a concurrent insert only costs
\* one extra slow-path check, never a wrong answer".
ImplementsDemotion == Abstract!Spec

=============================================================================

------------------------------ MODULE Demotion ------------------------------
(***************************************************************************)
(* What the crossing counter promises to the calls that use it: each call  *)
(* has one instant at which it counts, compares and demotes, and at which  *)
(* its answer is the right one.  No lock and no fast path is visible.      *)
(***************************************************************************)
EXTENDS FallbackThreshold

CONSTANTS Calls, Functions, NoFunction

VARIABLES
    env_threshold, env_disable, \* the environment, as in BoundaryFallback
    crossings,  \* crossings counted since the last reset
    demoted,    \* functions that stay on their Python fallback
    phase,      \* where each call is
    subject,    \* the function it asks about
    default,    \* the embedded threshold it passes
    limit,      \* the effective threshold it found
    answer,     \* what boundary_fallback_required answers
    reading     \* what boundary_fallback_count answers

env == <<env_threshold, env_disable>>
ledger == <<crossings, demoted>>
request == <<subject, default>>
vars == <<env, ledger, phase, request, limit, answer, reading>>

Phases == {"idle", "asked", "limited", "counting", "resetting", "done"}

Init ==
    /\ env_threshold \in EnvThresholds
    /\ env_disable \in DisableValues
    /\ crossings = [f \in Functions |-> 0]
    /\ demoted = {}
    /\ phase = [c \in Calls |-> "idle"]
    /\ subject = [c \in Calls |-> NoFunction]
    /\ default = [c \in Calls |-> 0]
    /\ limit = [c \in Calls |-> 0]
    /\ answer = [c \in Calls |-> FALSE]
    /\ reading = [c \in Calls |-> 0]

Step(c, from, to) == phase[c] = from /\ phase' = [phase EXCEPT ![c] = to]

\* The call is over but for its return, with this answer
Reply(c, from, value) ==
    /\ Step(c, from, "done")
    /\ answer' = [answer EXCEPT ![c] = value]
    /\ UNCHANGED <<env, request, reading>>

Ask(c, f, d) ==
    /\ Step(c, "idle", "asked")
    /\ subject' = [subject EXCEPT ![c] = f]
    /\ default' = [default EXCEPT ![c] = d]
    /\ UNCHANGED <<env, ledger, limit, answer, reading>>

\* The threshold is settled once per call; zero answers at once
Configure(c) ==
    LET effective == EffectiveThreshold(env_threshold, default[c])
    IN  /\ limit' = [limit EXCEPT ![c] = effective]
        /\ \/ effective = 0 /\ Reply(c, "asked", FALSE)
           \/ /\ effective # 0
              /\ Step(c, "asked", "limited")
              /\ UNCHANGED <<env, request, answer, reading>>
        /\ UNCHANGED ledger

\* Counting is switched off: nothing is counted and the call stays native
Bypass(c) ==
    /\ env_disable
    /\ Reply(c, "limited", FALSE)
    /\ UNCHANGED <<ledger, limit>>

SeeDemoted(c) ==
    /\ subject[c] \in demoted
    /\ Reply(c, "limited", TRUE)
    /\ UNCHANGED <<ledger, limit>>

\* One crossing is counted, and the function is demoted if it is one too many
Decide(c) ==
    LET f == subject[c]
        over == crossings[f] + 1 > limit[c]
    IN  /\ phase[c] = "limited"
        /\ f \notin demoted
        /\ crossings' = [crossings EXCEPT ![f] = @ + 1]
        /\ demoted' = IF over THEN demoted \cup {f} ELSE demoted
        /\ Reply(c, "limited", over)
        /\ UNCHANGED limit

AskCount(c, f) ==
    /\ Step(c, "idle", "counting")
    /\ subject' = [subject EXCEPT ![c] = f]
    /\ UNCHANGED <<env, ledger, default, limit, answer, reading>>

Count(c) ==
    /\ Step(c, "counting", "done")
    /\ reading' = [reading EXCEPT ![c] = crossings[subject[c]]]
    /\ UNCHANGED <<env, ledger, request, limit, answer>>

AskReset(c) ==
    /\ Step(c, "idle", "resetting")
    /\ UNCHANGED <<env, ledger, request, limit, answer, reading>>

Reset(c) ==
    /\ Step(c, "resetting", "done")
    /\ crossings' = [f \in Functions |-> 0]
    /\ demoted' = {}
    /\ UNCHANGED <<env, request, limit, answer, reading>>

End(c) ==
    /\ Step(c, "done", "idle")
    /\ subject' = [subject EXCEPT ![c] = NoFunction]
    /\ default' = [default EXCEPT ![c] = 0]
    /\ limit' = [limit EXCEPT ![c] = 0]
    /\ answer' = [answer EXCEPT ![c] = FALSE]
    /\ reading' = [reading EXCEPT ![c] = 0]
    /\ UNCHANGED <<env, ledger>>

SetEnv ==
    /\ env_threshold' \in EnvThresholds
    /\ env_disable' \in DisableValues
    /\ UNCHANGED <<ledger, phase, request, limit, answer, reading>>

CallNext(c) ==
    \/ Configure(c) \/ Bypass(c) \/ SeeDemoted(c) \/ Decide(c)
    \/ Count(c) \/ AskReset(c) \/ Reset(c) \/ End(c)
    \/ \E f \in Functions : AskCount(c, f) \/ \E d \in EmbeddedThresholds : Ask(c, f, d)

Next == (\E c \in Calls : CallNext(c)) \/ SetEnv

Spec == Init /\ [][Next]_vars
=============================================================================

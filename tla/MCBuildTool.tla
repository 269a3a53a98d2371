----------------------------- MODULE MCBuildTool -----------------------------
(***************************************************************************)
(* Two levels of a build, for TLC: one call of run_build_tool, and the     *)
(* commands in which such calls happen.  The strict lifecycle takes a      *)
(* build as one step, and so the two only follow each other: after a call  *)
(* that could not start its tool, commands may be run, three of them, with *)
(* what an owner needs to get from nothing to a published bundle.          *)
(***************************************************************************)
EXTENDS BuildTool, StrictLifecycle

VARIABLE side

MCBudget(moves, edits, inputs, faults) ==
  [commands |-> 3, moves |-> moves, edits |-> edits, inputs |-> inputs,
   faults |-> faults]

\* The way to a bundle, with something exchanged and put back; with an edit or
\* without, and a detour; with a failure, and what it takes to get over it; and
\* with room for a second policy.
MCBudgets == {MCBudget(4, 2, {k}, 0) : k \in Inputs}
               \cup {MCBudget(5, 1, Inputs, 0), MCBudget(6, 0, {}, 1), MCBudget(7, 0, {}, 0)}

\* The simplest call: it cannot start its tool.
MCPlain == forked = {} /\ stubborn = {} /\ ~ (capped \/ stuck \/ denied)

MCInit == /\ Init /\ LifecycleInit /\ side = "tool"
          /\ MCPlain \/ left = MCBudget(6, 0, {}, 1)

MCTool == /\ side = "tool" /\ Next /\ UNCHANGED <<side, lifecycleVars>>
          /\ MCPlain' \/ left = MCBudget(6, 0, {}, 1)

\* From the other ends of a call, the commands would be the same.
MCTurn == /\ side = "tool" /\ pc = "done" /\ expired /\ MCPlain
          /\ side' = "lifecycle" /\ UNCHANGED <<vars, lifecycleVars>>

MCLifecycle == side = "lifecycle" /\ LifecycleNext /\ UNCHANGED <<side, vars>>

MCSpec == /\ MCInit /\ [][MCTool \/ MCTurn \/ MCLifecycle]_<<side, vars, lifecycleVars>>
          /\ WF_vars(Expire) /\ WF_vars(ParentStep) /\ WF_vars(TimeOut)
=============================================================================

------------------------------ MODULE BuildTool ------------------------------
(***************************************************************************)
(* run_build_tool (build/subprocess_utils.py) on POSIX: a build tool in a  *)
(* session of its own, read until it ends, killed with its whole process   *)
(* group at the deadline or when capped output overflows.  The tool's      *)
(* leader may fork a member of its group and a process that leaves the     *)
(* group; each holds the output pipe until it closes it.  One unit of      *)
(* output stands for a chunk, stdout and stderr for one stream, and each   *)
(* wait with a timeout for a choice between its two outcomes.              *)
(***************************************************************************)
EXTENDS Naturals, FiniteSets

CONSTANTS Leader,           \* the process Popen started
          Member,           \* a process of its group
          Escaped,          \* a descendant in another session
          MaxOutput,        \* the byte cap, in units
          MaxWrites         \* bound: units all processes write

ASSUME BuildToolAssumption == /\ Cardinality({Leader, Member, Escaped}) = 3
                              /\ MaxOutput \in Nat /\ MaxWrites \in Nat

VARIABLES capped,           \* max_output_bytes was given
          stubborn,         \* processes that ignore SIGTERM
          stuck,            \* the leader cannot even be killed
          denied,           \* the group may not be signalled
          pc,               \* where run_build_tool is
          alive,            \* running processes
          forked,           \* processes that ever ran
          holding,          \* processes with the write end open
          pipe,             \* units written and not read
          captured,         \* units kept for the result
          written,          \* history: units written by anyone
          expired,          \* the caller's timeout has passed
          late,             \* the drain after the exit was cut short
          why,              \* why the tree is being terminated
          swept,            \* the whole group was signalled
          clean,            \* what _terminate_process_tree returned
          abandoned,        \* what _drain_after_kill returned
          returncode,       \* Popen.returncode: "none", "exit" or "forged"
          callbacks,        \* calls of after_spawn
          result            \* what the caller gets

vars == <<capped, stubborn, stuck, denied, pc, alive, forked, holding, pipe,
          captured, written, expired, late, why, swept, clean, abandoned,
          returncode, callbacks, result>>
traits == <<capped, stubborn, stuck, denied>>
tool == <<alive, forked, holding, pipe, written>>
teardown == <<why, swept, clean, abandoned>>

Process == {Leader, Member, Escaped}
Group == {Leader, Member}
Running == Leader \in alive

\* A signal takes processes away, but not a leader in an uninterruptible call.
Killed(S) == LET dead == S \ (IF stuck THEN {Leader} ELSE {}) IN
               /\ alive' = alive \ dead
               /\ holding' = holding \ dead

Init == /\ capped \in BOOLEAN /\ stuck \in BOOLEAN /\ denied \in BOOLEAN
        /\ stubborn \in SUBSET Group
        /\ pc = "spawn"
        /\ alive = {} /\ forked = {} /\ holding = {}
        /\ pipe = 0 /\ captured = 0 /\ written = 0
        /\ expired = FALSE /\ late = FALSE /\ why = "none"
        /\ swept = FALSE /\ clean = FALSE /\ abandoned = FALSE
        /\ returncode = "none" /\ callbacks = 0
        /\ result = "none"

-----------------------------------------------------------------------------

\* _start_process_boundary: after_spawn follows Popen, however Popen ends.
Spawn == /\ pc = "spawn"
         /\ \/ /\ pc' = "callback"
               /\ alive' = {Leader} /\ forked' = {Leader} /\ holding' = {Leader}
               /\ UNCHANGED <<callbacks, result>>
            \/ /\ callbacks' = callbacks + 1
               /\ pc' = "done" /\ result' = "raised"
               /\ UNCHANGED <<alive, forked, holding>>
         /\ UNCHANGED <<traits, pipe, captured, written, expired, late, teardown, returncode>>

Callback == /\ pc = "callback"
            /\ callbacks' = callbacks + 1
            /\ \/ pc' = "run" /\ UNCHANGED why
               \/ pc' = "term" /\ why' = "callback"
            /\ UNCHANGED <<traits, tool, captured, expired, late, swept, clean, abandoned,
                           returncode, result>>

\* communicate and the capped loop read; the loop stops above the cap.
Read == /\ pc = "run" /\ pipe > 0
        /\ capped => ~expired /\ ~late
        /\ pipe' = pipe - 1
        /\ IF capped /\ captured = MaxOutput
             THEN pc' = "term" /\ why' = "overflow" /\ UNCHANGED captured
             ELSE captured' = captured + 1 /\ UNCHANGED <<pc, why>>
        /\ UNCHANGED <<traits, alive, forked, holding, written, expired, late, swept,
                       clean, abandoned, returncode, callbacks, result>>

\* Mutant: the end of the leader is taken for the end of its output.
EndOfOutput_LeaderGone ==
  /\ pc = "run" /\ ~Running
  /\ capped => ~expired
  /\ pc' = "settle"
  /\ UNCHANGED <<traits, tool, captured, expired, late, teardown, returncode,
                 callbacks, result>>

\* End of file on the pipe.  communicate then waits for the leader; the capped
\* loop ends and waits for what is left of the timeout.
EndOfOutput == /\ pc = "run" /\ holding = {} /\ pipe = 0
               /\ capped => ~expired
               /\ capped \/ ~Running
               /\ pc' = "settle"
               /\ UNCHANGED <<traits, tool, captured, expired, late, teardown, returncode,
                              callbacks, result>>

\* The capped loop sees the leader gone for longer than its drain allowance.
StopDraining == /\ pc = "run" /\ capped /\ ~Running /\ ~expired
                /\ late' = TRUE
                /\ pc' = "settle"
                /\ UNCHANGED <<traits, tool, captured, expired, teardown, returncode,
                               callbacks, result>>

TimeOut == /\ expired
           /\ \/ pc = "run" /\ why' = "timeout"
              \/ pc = "settle" /\ capped /\ Running /\ why' = "settle"
           /\ pc' = "term"
           /\ UNCHANGED <<traits, tool, captured, expired, late, swept, clean, abandoned,
                          returncode, callbacks, result>>

Settle == /\ pc = "settle" /\ ~Running
          /\ returncode' = "exit"
          /\ result' = "exit"
          /\ pc' = "exit"
          /\ UNCHANGED <<traits, tool, captured, expired, late, teardown, callbacks>>

-----------------------------------------------------------------------------
\* _terminate_process_tree: SIGTERM to the group, or to the leader alone
\* (SIGKILL) when the group may not be signalled.
Terminate == /\ pc = "term"
             /\ swept' = ~denied
             /\ IF denied THEN Killed({Leader}) /\ pc' = "reap"
                          ELSE Killed(Group \ stubborn) /\ pc' = "grace"
             /\ UNCHANGED <<traits, forked, pipe, captured, written, expired, late, why,
                            clean, abandoned, returncode, callbacks, result>>

\* Mutant: a leader that left during the grace period ends the teardown.
Grace_LeaderOnly ==
  /\ pc = "grace"
  /\ pc' = IF Running THEN "kill" ELSE "reap"
  /\ UNCHANGED <<traits, tool, captured, expired, late, teardown, returncode,
                 callbacks, result>>

\* The grace period: the leader is reaped, or the period passes.  SIGKILL follows
\* either way, because a grandchild may have ignored the first signal.
Grace == /\ pc = "grace"
         /\ pc' = "kill"
         /\ UNCHANGED <<traits, tool, captured, expired, late, teardown, returncode,
                        callbacks, result>>

Kill == /\ pc = "kill"
        /\ Killed(Group)
        /\ pc' = "reap"
        /\ UNCHANGED <<traits, forked, pipe, captured, written, expired, late, teardown,
                       returncode, callbacks, result>>

\* The leader is reaped, or the second grace period passes without it.
Reap == /\ pc = "reap"
        /\ clean' = (swept /\ ~Running)
        /\ pc' = IF why = "timeout" /\ ~capped THEN "drain" ELSE "finish"
        /\ UNCHANGED <<traits, tool, captured, expired, late, why, swept, abandoned,
                       returncode, callbacks, result>>

\* _drain_after_kill: what is still in the pipe, or nothing when it stays open.
Drain == /\ pc = "drain"
         /\ \/ /\ holding = {} /\ ~Running
               /\ captured' = captured + pipe /\ pipe' = 0
               /\ UNCHANGED abandoned
            \/ /\ holding # {} \/ Running
               /\ captured' = 0
               /\ abandoned' = TRUE
               /\ UNCHANGED pipe
         /\ pc' = "finish"
         /\ UNCHANGED <<traits, alive, forked, holding, written, expired, late, why, swept,
                        clean, returncode, callbacks, result>>

\* Mutant: the code of a stuck leader is left unset.
Finish_Unforged ==
  /\ pc = "finish"
  /\ returncode' = IF Running THEN "none" ELSE "exit"
  /\ result' = IF why = "callback" THEN "raised"
               ELSE IF why = "overflow" THEN "overflow" ELSE "timeout"
  /\ pc' = IF why = "callback" THEN "done" ELSE "exit"
  /\ UNCHANGED <<traits, tool, captured, expired, late, teardown, callbacks>>

\* poll() reaps a leader that is gone; the code of a stuck one is forged.
Finish == /\ pc = "finish"
          /\ returncode' = IF ~Running THEN "exit"
                           ELSE IF why = "callback" THEN returncode ELSE "forged"
          /\ result' = IF why = "callback" THEN "raised"
                       ELSE IF why = "overflow" THEN "overflow" ELSE "timeout"
          /\ pc' = IF why = "callback" THEN "done" ELSE "exit"
          /\ UNCHANGED <<traits, tool, captured, expired, late, teardown, callbacks>>

\* Popen.__exit__ waits without a timeout unless there is a return code.
Exit == /\ pc = "exit"
        /\ returncode # "none" \/ ~Running
        /\ pc' = "done"
        /\ UNCHANGED <<traits, tool, captured, expired, late, teardown, returncode,
                       callbacks, result>>

\* KeyboardInterrupt while reading: nothing signals the tool, which is in a
\* session of its own, and __exit__ does not wait.
Interrupt == /\ pc \in {"run", "settle"}
             /\ pc' = "done" /\ result' = "raised"
             /\ UNCHANGED <<traits, tool, captured, expired, late, teardown, returncode, callbacks>>

-----------------------------------------------------------------------------
\* What the tool does meanwhile.
Fork(p) == /\ Running /\ p \notin forked
           /\ alive' = alive \cup {p}
           /\ forked' = forked \cup {p}
           /\ holding' = IF Leader \in holding THEN holding \cup {p} ELSE holding
           /\ UNCHANGED <<pipe, written>>

Write(p) == /\ p \in alive \cap holding /\ written < MaxWrites
            /\ pipe' = pipe + 1
            /\ written' = written + 1
            /\ UNCHANGED <<alive, forked, holding>>

CloseOutput(p) == /\ p \in alive \cap holding
                  /\ holding' = holding \ {p}
                  /\ UNCHANGED <<alive, forked, pipe, written>>

End(p) == /\ p \in alive
          /\ p = Leader => ~stuck
          /\ alive' = alive \ {p}
          /\ holding' = holding \ {p}
          /\ UNCHANGED <<forked, pipe, written>>

ToolStep == /\ \E p \in Process : Fork(p) \/ Write(p) \/ CloseOutput(p) \/ End(p)
            /\ UNCHANGED <<traits, pc, captured, expired, late, teardown, returncode,
                           callbacks, result>>

Expire == /\ ~expired /\ pc # "done"
          /\ expired' = TRUE
          /\ UNCHANGED <<traits, pc, tool, captured, late, teardown, returncode, callbacks, result>>

ParentStep == \/ Spawn \/ Callback \/ Read \/ EndOfOutput \/ StopDraining \/ TimeOut
              \/ Settle \/ Terminate \/ Grace \/ Kill \/ Reap \/ Drain \/ Finish \/ Exit

Next == ParentStep \/ Interrupt \/ ToolStep \/ Expire

Spec == Init /\ [][Next]_vars

\* Time passes and the caller runs; the tool owes nothing.
FairSpec == Spec /\ WF_vars(Expire) /\ WF_vars(ParentStep) /\ WF_vars(TimeOut)

-----------------------------------------------------------------------------
\* Types of the call, the processes and the pipe.
BuildToolTypeOK ==
  /\ pc \in {"spawn", "callback", "run", "settle", "term", "grace", "kill", "reap",
             "drain", "finish", "exit", "done"}
  /\ alive \subseteq forked /\ holding \subseteq alive /\ forked \subseteq Process
  /\ pipe \in 0..MaxWrites /\ captured \in 0..MaxWrites /\ written \in 0..MaxWrites
  /\ why \in {"none", "callback", "timeout", "settle", "overflow"}
  /\ returncode \in {"none", "exit", "forged"}
  /\ callbacks \in 0..1
  /\ result \in {"none", "exit", "timeout", "overflow", "raised"}

\* A timeout reported without the warning about stray processes left nothing of
\* the group alive, whatever the tool forked and whichever signals it ignored.
TreeGone ==
  why = "timeout" /\ clean => alive \cap Group = {}

\* A result that passes for the tool's own is the leader's real exit, was never
\* forged, and, but for a drain cut short, has all the output there was.
ExitIsReal ==
  result = "exit" => /\ Leader \notin alive
                     /\ returncode = "exit"
                     /\ ~late => holding = {} /\ pipe = 0 /\ captured = written

\* The call ends at the latest some time after its deadline, with a leader that
\* cannot be killed and with a detached process that keeps the pipe open too.
Returns == <>(pc = "done")

=============================================================================

------------------------- MODULE MCBuildPipeline -------------------------
(* The commands of the builds, and the two builds of the strict executor;   *)
(* a behaviour follows one.  Three commands: one that leaves artifacts and  *)
(* reports, one that fails or dies over them, and one that runs over what   *)
(* is left.  The smallest tree that can be read in two different states: a  *)
(* lock and one other file, and two writes of others to change both, or one *)
(* there and back.  A file is absent, as it came, or another.               *)
EXTENDS BuildPipeline, TwoBuild

VARIABLE side

MCModes == {"callback", "native"}
MCContents == 0..2

NoExecution == mode = [driver |-> "callback", locked |-> TRUE]

MCInit == /\ Init /\ TwoBuildInit
          /\ \/ side = "commands" /\ NoExecution
             \/ side = "execution"

MCNext == \/ side = "commands" /\ Next /\ UNCHANGED <<side, twoBuildVars>>
          \/ side = "execution" /\ TwoBuildNext /\ UNCHANGED <<side, vars>>

MCSpec == MCInit /\ [][MCNext]_<<vars, twoBuildVars, side>>
=============================================================================

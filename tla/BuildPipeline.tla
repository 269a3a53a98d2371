--------------------------- MODULE BuildPipeline ---------------------------
(***************************************************************************)
(* The commands of the tool that share the .rextio and dist directories of *)
(* a project: build, generate, check and clean (cli/x_cmd.py,              *)
(* build/orchestrator.py and the builders it calls).  One command runs at  *)
(* a time, as a script of steps; every stage of a build may be skipped,    *)
(* succeed or fail, a plugin may raise in the middle of one, and a command *)
(* may die between any two steps.  What a step writes carries the number   *)
(* of the command that wrote it.                                           *)
(***************************************************************************)
EXTENDS Naturals, Sequences, FiniteSets

CONSTANT Commands      \* bound on the number of commands

ASSUME CommandsAssumption == Commands \in Nat

Run    == 1..Commands
None   == 0
Stamp  == 0..Commands
Stages == {"native", "crate", "fallback", "wheel", "executable"}
\* Names in dist: a wheel has another name when it holds a native module.
Wheels == {"platform-wheel", "pure-wheel"}
Names  == Wheels \cup {"executable", "crate"}
Reports == {"build", "generate", "check"}

\* What is in the generated package tree, and so in what is packed from it.
Pieces  == [python : Stamp, native : Stamp]
Nothing == [python |-> None, native |-> None]
\* A report: who wrote it, the status it states, the artifacts it lists.
NoReport == [run |-> None, status |-> "none", lists |-> {}]

\* What one build is asked for.
Config == {c \in [native : BOOLEAN, crate : BOOLEAN, nuitka : BOOLEAN,
                  required : BOOLEAN, executable : {"none", "packed", "rust"}] :
             c.required => /\ c.native /\ ~ c.crate /\ ~ c.nuitka
                           /\ c.executable = "none"}

VARIABLES
  tree,     \* generated/python: the package tree with its native module
  copy,     \* build/python: the tree that is packed
  dist,     \* the artifact at each name in dist, by the pieces it is made of
  reports,  \* the reports in .rextio/reports
  cmd,      \* the command that runs, with what is left of its script
  results,  \* the result of each stage of the build that runs
  ended,    \* how the last command ended
  count     \* how many commands have started

vars == <<tree, copy, dist, reports, cmd, results, ended, count>>

NoResults == [s \in Stages |-> "none"]
Plain     == [native |-> FALSE, crate |-> FALSE, nuitka |-> FALSE,
              required |-> FALSE, executable |-> "none"]
Idle      == [kind |-> "idle", config |-> Plain, left |-> <<>>, failed |-> FALSE]
Running   == cmd.kind # "idle"
me        == count
At(step)  == cmd.left # <<>> /\ Head(cmd.left) = step
Advance   == cmd' = [cmd EXCEPT !.left = Tail(@)]

-----------------------------------------------------------------------------
(* The scripts.                                                            *)
\* Mutant: the report of the last build is only replaced at the end
Clear_Others == <<"drop generate", "drop check">>
Clear == <<"drop build", "drop generate", "drop check">>

Script(kind) ==
  CASE kind = "build" ->
         <<"reset build", "reset sources">> \o Clear \o
         <<"check", "python", "native", "crate", "copy", "fallback", "wheel",
           "executable", "report">>
    [] kind = "generate" ->
         <<"reset sources">> \o Clear \o
         <<"check", "python", "native source", "crate source", "report">>
    [] kind = "check" -> <<"check">>
    [] kind = "clean" -> <<"reset build", "reset sources">> \o Clear

\* The scripts of a command that reports a failure instead: parse errors,
\* external sources or a scope that is refused, an executable that cannot be
\* closed, a plugin or a host profile that failed.
Rejected == Clear \o <<"check", "report">>
OpenClosure == <<"reset build", "reset sources", "remove executable",
                 "remove crate", "remove wheels">> \o Rejected
PluginFailed == <<"check", "report">>

Kinds == {"build", "generate", "check", "clean"}

Init == /\ tree = Nothing /\ copy = Nothing
        /\ dist = [x \in Names |-> Nothing]
        /\ reports = [r \in Reports |-> NoReport]
        /\ cmd = Idle /\ results = NoResults
        /\ ended = [kind |-> "idle", exit |-> 0] /\ count = 0

\* A command starts.  One that stops in a preflight has no effect at all.
Start ==
  /\ ~ Running /\ count < Commands
  /\ \E kind \in Kinds, config \in Config :
       cmd' \in [kind : {kind}, config : {config}, left : {Script(kind)},
                failed : {FALSE}]
         \cup (IF kind \in {"build", "generate"}
                 THEN [kind : {kind}, config : {config}, failed : {TRUE},
                       left : {Rejected, PluginFailed} \cup
                              (IF kind = "build" /\ config.executable = "rust"
                                 THEN {OpenClosure} ELSE {})]
                 ELSE {})
  /\ count' = count + 1
  /\ results' = NoResults
  /\ UNCHANGED <<tree, copy, dist, reports, ended>>

ResetBuildDir == /\ At("reset build") /\ Advance
                 /\ copy' = Nothing
                 /\ UNCHANGED <<tree, dist, reports, results, ended, count>>

\* Mutant: the generated tree is overwritten, not removed
ResetSources_Overwrite ==
  /\ At("reset sources") /\ Advance
  /\ UNCHANGED <<tree, copy, dist, reports, results, ended, count>>

ResetSources == /\ At("reset sources") /\ Advance
                /\ tree' = Nothing
                /\ UNCHANGED <<copy, dist, reports, results, ended, count>>

Drop == [build |-> "drop build", generate |-> "drop generate", check |-> "drop check"]

ResetReport == \E r \in Reports :
                 /\ At(Drop[r]) /\ Advance
                 /\ reports' = [reports EXCEPT ![r] = NoReport]
                 /\ UNCHANGED <<tree, copy, dist, results, ended, count>>

\* Only the check command can be asked to write no report.
WriteCheck == /\ At("check") /\ Advance
              /\ \/ reports' = [reports EXCEPT !["check"] =
                                  [run |-> me, status |-> "checked", lists |-> {}]]
                 \/ cmd.kind = "check" /\ UNCHANGED reports
              /\ UNCHANGED <<tree, copy, dist, results, ended, count>>

\* The fallback tree and the runtime support package.
WritePython == /\ At("python") /\ Advance
               /\ tree' = [tree EXCEPT !.python = me]
               /\ UNCHANGED <<copy, dist, reports, results, ended, count>>

Finish(stage, result) == results' = [results EXCEPT ![stage] = result]

\* Code generation and Cargo, or Maturin with Cargo behind it: only a build
\* that succeeded installs the module next to the package.
BuildNative ==
  /\ At("native") /\ Advance
  /\ \/ ~ cmd.config.native /\ Finish("native", "skipped") /\ UNCHANGED tree
     \/ /\ cmd.config.native
        /\ \/ Finish("native", "failed") /\ UNCHANGED tree
           \/ Finish("native", "built") /\ tree' = [tree EXCEPT !.native = me]
  /\ UNCHANGED <<copy, dist, reports, ended, count>>

\* The importable crate: its dist directory is replaced after Cargo succeeded.
BuildCrate ==
  /\ At("crate") /\ Advance
  /\ \/ ~ (cmd.config.crate /\ cmd.config.native)
          /\ Finish("crate", "skipped") /\ UNCHANGED dist
     \/ /\ cmd.config.crate /\ cmd.config.native
        /\ \/ Finish("crate", "failed") /\ UNCHANGED dist
           \/ /\ Finish("crate", "built")
              /\ dist' = [dist EXCEPT !["crate"] =
                            [python |-> None, native |-> me]]
  /\ UNCHANGED <<tree, copy, reports, ended, count>>

\* The sources that generate writes, without a compiler.
GenerateSource ==
  /\ \/ At("native source") /\ \E result \in {"skipped", "built", "failed"} :
                                 Finish("native", result)
     \/ At("crate source") /\ \E result \in {"skipped", "built", "failed"} :
                                Finish("crate", result)
  /\ Advance
  /\ UNCHANGED <<tree, copy, dist, reports, ended, count>>

CopyTree == /\ At("copy") /\ Advance
            /\ copy' = tree
            /\ UNCHANGED <<tree, dist, reports, results, ended, count>>

\* CPython needs nothing; Nuitka compiles the copy in place and may fail.
BuildFallback == /\ At("fallback") /\ Advance
                 /\ \/ Finish("fallback", "built")
                    \/ cmd.config.nuitka /\ Finish("fallback", "failed")
                 /\ UNCHANGED <<tree, copy, dist, reports, ended, count>>

WheelName == IF copy.native = None /\ ~ cmd.config.nuitka
               THEN "pure-wheel" ELSE "platform-wheel"

\* The wheel is packed even when the native build failed.  With required
\* evidence a wheel without it is withdrawn and the earlier one restored.
BuildWheel ==
  /\ At("wheel") /\ Advance
  /\ \/ /\ results["fallback"] # "built"
        /\ Finish("wheel", "skipped") /\ UNCHANGED dist
     \/ /\ results["fallback"] = "built"
        /\ cmd.config.required => results["native"] = "built"
        /\ Finish("wheel", "built")
        /\ dist' = [dist EXCEPT ![WheelName] = copy]
     \/ /\ cmd.config.required
        /\ Finish("wheel", "failed") /\ UNCHANGED dist
  /\ UNCHANGED <<tree, copy, reports, ended, count>>

\* A packed executable (zipapp, Nuitka) replaces the earlier one; a failed
\* one may have removed it.  The Rust executable is built from its own crate,
\* and removed again when its runtime directory cannot be written.
Put(x) == dist' = [dist EXCEPT !["executable"] = x]

BuildExecutable ==
  /\ At("executable") /\ Advance
  /\ \/ /\ \/ cmd.config.executable = "none"
           \/ /\ cmd.config.executable = "packed"
              /\ results["fallback"] # "built" \/ results["native"] = "failed"
        /\ Finish("executable", "skipped") /\ UNCHANGED dist
     \/ /\ cmd.config.executable = "packed"
        /\ results["fallback"] = "built" /\ results["native"] # "failed"
        /\ \/ Finish("executable", "built") /\ Put(copy)
           \/ Finish("executable", "failed") /\ (UNCHANGED dist \/ Put(Nothing))
     \/ /\ cmd.config.executable = "rust"
        /\ \/ Finish("executable", "built") /\ Put([python |-> me, native |-> me])
           \/ Finish("executable", "failed") /\ (UNCHANGED dist \/ Put(Nothing))
  /\ UNCHANGED <<tree, copy, reports, ended, count>>

\* What a build with this configuration would have put in dist.
RemoveOutputs ==
  /\ \/ At("remove executable") /\ Put(Nothing)
     \/ At("remove crate") /\ dist' = [dist EXCEPT !["crate"] = Nothing]
     \/ At("remove wheels")
          /\ dist' = [x \in Names |-> IF x \in Wheels THEN Nothing ELSE dist[x]]
  /\ Advance
  /\ UNCHANGED <<tree, copy, reports, results, ended, count>>

-----------------------------------------------------------------------------
(* The aggregate report and the exit code are computed separately, from    *)
(* the results of the stages.                                              *)
Blocked == cmd.config.required /\ results["wheel"] = "failed"

Failed(stages) == \E s \in stages : results[s] = "failed"

BuildStatus ==
  IF cmd.failed THEN "not built"
  ELSE IF Blocked THEN "evidence required"
  ELSE IF Failed({"fallback"}) THEN "fallback failed"
  ELSE IF Failed({"native"}) THEN "native failed"
  ELSE IF Failed({"executable"}) THEN "executable failed"
  ELSE IF Failed({"crate"}) THEN "crate failed"
  ELSE "built"

\* The paths that the report of a build states.
Listed == IF cmd.kind = "generate" \/ cmd.failed THEN {}
          ELSE {x \in {"executable", "crate"} : results[x] = "built"}
                 \cup (IF results["wheel"] = "built" THEN {WheelName} ELSE {})

WriteReport ==
  /\ At("report") /\ Advance
  /\ reports' = [reports EXCEPT ![cmd.kind] =
                   [run |-> me, status |-> BuildStatus, lists |-> Listed]]
  /\ UNCHANGED <<tree, copy, dist, results, ended, count>>

FailedStage == Failed({"fallback", "native", "crate", "executable"})

\* A check fails on parse errors; clean never does.
ExitCodes == CASE cmd.kind = "check" -> {0, 1}
               [] cmd.kind = "clean" -> {0}
               [] OTHER -> IF cmd.failed \/ Blocked \/ FailedStage THEN {1} ELSE {0}

Return == /\ Running /\ cmd.left = <<>>
          /\ \E exit \in ExitCodes : ended' = [kind |-> cmd.kind, exit |-> exit]
          /\ cmd' = Idle /\ results' = NoResults
          /\ UNCHANGED <<tree, copy, dist, reports, count>>

\* A handler of the command reports a failure in the middle of it: a plugin
\* raised, or the outputs of required evidence could not be set up.
StageRaises ==
  /\ ~ cmd.failed
  /\ \/ /\ \E s \in {"native", "native source", "crate source", "executable"} : At(s)
        /\ cmd' = [cmd EXCEPT !.failed = TRUE, !.left = PluginFailed]
     \/ /\ At("wheel") /\ cmd.config.required
        /\ cmd' = [cmd EXCEPT !.failed = TRUE, !.left = Rejected]
  /\ UNCHANGED <<tree, copy, dist, reports, results, ended, count>>

\* Killed, or ended by an exception that no handler takes.
Dies == /\ Running
        /\ cmd' = Idle /\ results' = NoResults
        /\ ended' = [kind |-> "died", exit |-> 1]
        /\ UNCHANGED <<tree, copy, dist, reports, count>>

NoMore == ~ Running /\ count = Commands /\ UNCHANGED vars

Step == \/ ResetBuildDir \/ ResetSources \/ ResetReport \/ WriteCheck
        \/ WritePython \/ BuildNative \/ BuildCrate \/ GenerateSource \/ CopyTree
        \/ BuildFallback \/ BuildWheel \/ BuildExecutable \/ RemoveOutputs
        \/ WriteReport \/ Return \/ StageRaises
Next == Start \/ Step \/ Dies \/ NoMore
Spec == Init /\ [][Next]_vars

-----------------------------------------------------------------------------
(* Type invariant.                                                         *)
PipelineTypeOK ==
  /\ tree \in Pieces /\ copy \in Pieces
  /\ dist \in [Names -> Pieces]
  /\ \A r \in Reports : reports[r].run \in Stamp /\ reports[r].lists \subseteq Names
  /\ cmd.kind \in Kinds \cup {"idle"} /\ cmd.config \in Config
  /\ results \in [Stages -> {"none", "skipped", "built", "failed"}]
  /\ count \in Stamp

\* Between two commands, what a build report lists as built was made by the
\* build that wrote the report, or is gone: a later build that failed, or
\* died at any step, never leaves its own artifact under an older report.
ReportedArtifacts ==
  ~ Running => \A x \in reports["build"].lists :
                 dist[x] = Nothing \/ reports["build"].run \in {dist[x].python, dist[x].native}

\* The exit code and the report of a build or a generate that ran to its end
\* are computed apart and agree: success is reported exactly when the command
\* returned zero, and by the report of this very command.
ExitMatchesReport ==
  ~ Running /\ ended.kind \in {"build", "generate"} =>
    /\ reports[ended.kind].run = count
    /\ (ended.exit = 0) = (reports[ended.kind].status = "built")

\* A build report is true of the artifacts it lists and of its command's exit.
ReportsTrue == ReportedArtifacts /\ ExitMatchesReport

\* Every artifact in dist is packed from the pieces of one command: after a
\* native build that failed, or a command that died half way, no wheel or
\* executable ships the native module of one build with the wrappers of another.
PiecesOfOneRun ==
  \A x \in Names :
    /\ dist[x].python = None \/ dist[x].native \in {None, dist[x].python}
    /\ x = "pure-wheel" => dist[x].native = None
=============================================================================

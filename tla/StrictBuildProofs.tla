--------------------------- MODULE StrictBuildProofs ---------------------------
(***************************************************************************)
(* Two levels of a strict build, for every bound: one call of              *)
(* run_build_tool (a tree that is reported as gone is gone, and an exit    *)
(* that is reported is real), and the commands that an owner runs (they    *)
(* publish what was approved and signed, decide by the project as they     *)
(* find it if they are left alone, and fail before the commit or not at    *)
(* all).                                                                   *)
(***************************************************************************)
EXTENDS BuildTool, StrictLifecycle, TLAPS

-----------------------------------------------------------------------------
(* One call of a tool.                                                     *)

Early == {"spawn", "callback", "run", "settle"}
Late  == {"reap", "drain", "finish", "exit", "done"}

\* Only a leader that nothing can kill outlives the SIGKILL to its group, and it
\* never goes away: without it, nobody is left who could fork into the group.
Swept == swept => /\ pc \in {"grace", "kill"} \cup Late
                  /\ pc \in Late => IF Running THEN stuck ELSE alive \cap Group = {}
Clean == clean => swept /\ ~Running /\ pc \in {"drain", "finish", "exit", "done"}

\* What was written is in the pipe or captured, until something is thrown away.
Counted == /\ captured + pipe <= written
           /\ pc \in Early \/ result = "exit" => captured + pipe = written
Settled == pc = "settle" /\ ~late => holding = {} /\ pipe = 0

IInv == /\ BuildToolTypeOK /\ Swept /\ Clean /\ Counted /\ Settled /\ ExitIsReal
        /\ result = "exit" => pc \in {"exit", "done"}
        /\ pc \in {"spawn", "callback"} => callbacks = 0

LEMMA Bounds == MaxOutput \in Nat /\ MaxWrites \in Nat
BY BuildToolAssumption

LEMMA IInvInit == Init => IInv
BY Bounds DEF Init, IInv, BuildToolTypeOK, Swept, Clean, Counted, Settled, ExitIsReal, Early, Late,
              Group, Process

\* A signal only takes processes away, and everything it is sent to but a leader
\* that cannot be killed.
LEMMA Signal ==
  ASSUME BuildToolTypeOK, NEW S \in SUBSET Group, Killed(S)
  PROVE  /\ alive' \subseteq alive /\ holding' \subseteq alive' /\ holding' \subseteq holding
         /\ S = Group /\ Leader \notin alive' => alive' \cap Group = {}
         /\ S = Group /\ Leader \in alive' => stuck
BY DEF Killed, BuildToolTypeOK, Group

LEMMA IInvStep == IInv /\ [Next]_vars => IInv'
<1> SUFFICES ASSUME IInv, [Next]_vars PROVE IInv'
  OBVIOUS
<1> USE Bounds DEF Early, Late, Running
<1>1. CASE Spawn
  BY <1>1
     DEF Spawn, IInv, BuildToolTypeOK, Swept, Clean, Counted, Settled, ExitIsReal, Process, traits,
              teardown
<1>2. CASE Callback
  BY <1>2 DEF Callback, IInv, BuildToolTypeOK, Swept, Clean, Counted, Settled, ExitIsReal, traits,
              tool
<1>3. CASE Read
  BY <1>3 DEF Read, IInv, BuildToolTypeOK, Swept, Clean, Counted, Settled, ExitIsReal, traits
<1>4. CASE EndOfOutput
  BY <1>4
     DEF EndOfOutput, IInv, BuildToolTypeOK, Swept, Clean, Counted, Settled, ExitIsReal, traits,
              tool, teardown
<1>5. CASE StopDraining
  BY <1>5
     DEF StopDraining, IInv, BuildToolTypeOK, Swept, Clean, Counted, Settled, ExitIsReal, traits,
              tool, teardown
<1>6. CASE TimeOut
  BY <1>6
     DEF TimeOut, IInv, BuildToolTypeOK, Swept, Clean, Counted, Settled, ExitIsReal, traits, tool
<1>7. CASE Settle
  BY <1>7
     DEF Settle, IInv, BuildToolTypeOK, Swept, Clean, Counted, Settled, ExitIsReal, traits, tool,
              teardown
<1>8. CASE Terminate
  BY <1>8, Signal
     DEF Terminate, IInv, BuildToolTypeOK, Swept, Clean, Counted, Settled, ExitIsReal, traits,
              Group
<1>9. CASE Grace
  BY <1>9
     DEF Grace, IInv, BuildToolTypeOK, Swept, Clean, Counted, Settled, ExitIsReal, traits, tool,
              teardown
<1>10. CASE Kill
  BY <1>10, Signal
     DEF Kill, IInv, BuildToolTypeOK, Swept, Clean, Counted, Settled, ExitIsReal, traits,
              teardown
<1>11. CASE Reap
  BY <1>11 DEF Reap, IInv, BuildToolTypeOK, Swept, Clean, Counted, Settled, ExitIsReal, traits, tool
<1>12. CASE Drain
  BY <1>12 DEF Drain, IInv, BuildToolTypeOK, Swept, Clean, Counted, Settled, ExitIsReal, traits
<1>13. CASE Finish
  BY <1>13
     DEF Finish, IInv, BuildToolTypeOK, Swept, Clean, Counted, Settled, ExitIsReal, traits, tool,
              teardown
<1>14. CASE Exit
  BY <1>14
     DEF Exit, IInv, BuildToolTypeOK, Swept, Clean, Counted, Settled, ExitIsReal, traits, tool,
              teardown
<1>15. CASE Interrupt
  BY <1>15
     DEF Interrupt, IInv, BuildToolTypeOK, Swept, Clean, Counted, Settled, ExitIsReal, traits, tool,
              teardown
<1>16. CASE Expire
  BY <1>16
     DEF Expire, IInv, BuildToolTypeOK, Swept, Clean, Counted, Settled, ExitIsReal, traits, tool,
              teardown
<1>17. CASE ToolStep
  <2>1. UNCHANGED <<traits, pc, captured, expired, late, teardown, returncode, callbacks, result>>
    BY <1>17 DEF ToolStep
  <2>2. ASSUME NEW p \in Process, Fork(p) PROVE IInv'
    BY <2>1, <2>2
       DEF Fork, IInv, BuildToolTypeOK, Swept, Clean, Counted, Settled, ExitIsReal, traits,
              teardown
  <2>3. ASSUME NEW p \in Process, Write(p) PROVE IInv'
    BY <2>1, <2>3
       DEF Write, IInv, BuildToolTypeOK, Swept, Clean, Counted, Settled, ExitIsReal, traits,
              teardown
  <2>4. ASSUME NEW p \in Process, CloseOutput(p) PROVE IInv'
    BY <2>1, <2>4
       DEF CloseOutput, IInv, BuildToolTypeOK, Swept, Clean, Counted, Settled, ExitIsReal, traits,
              teardown
  <2>5. ASSUME NEW p \in Process, End(p) PROVE IInv'
    BY <2>1, <2>5
       DEF End, IInv, BuildToolTypeOK, Swept, Clean, Counted, Settled, ExitIsReal, traits,
              teardown
  <2> QED
    BY <1>17, <2>2, <2>3, <2>4, <2>5 DEF ToolStep
<1>18. CASE UNCHANGED vars
  BY <1>18
     DEF vars, IInv, BuildToolTypeOK, Swept, Clean, Counted, Settled, ExitIsReal, traits, tool,
              teardown
<1> QED
  BY <1>1, <1>2, <1>3, <1>4, <1>5, <1>6, <1>7, <1>8, <1>9, <1>10, <1>11, <1>12, <1>13, <1>14,
     <1>15, <1>16, <1>17, <1>18 DEF Next, ParentStep

\* The call, the processes and the pipe keep their types: no unit of output is
\* counted twice.
THEOREM BuildToolTyped == Spec => []BuildToolTypeOK
<1>1. IInv => BuildToolTypeOK
  BY DEF IInv
<1> QED
  BY IInvInit, IInvStep, <1>1, PTL DEF Spec

\* A timeout that is reported without a warning left nothing of the group alive.
THEOREM TreeIsGone == Spec => []TreeGone
<1>1. IInv => TreeGone
  BY DEF IInv, Swept, Clean, Late, TreeGone
<1> QED
  BY IInvInit, IInvStep, <1>1, PTL DEF Spec

\* A result that passes for the tool's own is the leader's real exit, with all its
\* output unless the drain was cut short.
THEOREM ExitIsTheTools == Spec => []ExitIsReal
<1>1. IInv => ExitIsReal
  BY DEF IInv
<1> QED
  BY IInvInit, IInvStep, <1>1, PTL DEF Spec

-----------------------------------------------------------------------------
(* The commands.                                                           *)

\* Everything in the lifecycle is made of the contents of files and of settings.
Identities == [settings : Content, pins : [Pinned -> Content], policy : {{}}, signature : {FALSE}]
Lineages   == [identity : Identities, inputs : [Inputs -> Content]]
Policies   == [request : Lineages, decision : Decisions]
Requests   == [lineage : Lineages, policy : SUBSET Policies]
Bundles    == [made : [Inputs -> Content], signed : Requests]
Configs    == [settings : Content, pins : [Pinned -> Content], policy : SUBSET Policies,
               signature : BOOLEAN]
Commands   == [at : 1..30, cfg : Configs, touched : SUBSET Stamped, plan : [Analysed -> Content],
               license : Content, made : [Inputs -> Content], putBack : BOOLEAN,
               quarantine : BOOLEAN,
               outcome : {"none", "running", "refused", "unreported", "killed",
                          "bootstrap", "signing", "publication"}]
Files      == [bootstrap : SUBSET Lineages, policy : SUBSET Policies, request : SUBSET Requests,
               signature : SUBSET Requests, documents : SUBSET Requests, bundle : SUBSET Bundles]

LifecycleTypeOK ==
  /\ content \in [Inputs -> Content] /\ attested \in [Attested -> Content]
  /\ config \in Configs /\ files \in Files /\ torn \subseteq {"bootstrap", "documents"}
  /\ cmd \in Commands /\ foreseen \in BOOLEAN /\ found \in SUBSET Bundles /\ calm \in BOOLEAN
  /\ left \in [commands : Nat, moves : Nat, edits : Nat, inputs : SUBSET Inputs, faults : Nat]

\* A running command is somewhere in the script of its lifecycle.
Last == [bootstrap |-> 24, signing |-> 25, publication |-> 30]
Placed == Runs => /\ cmd.cfg = config
                  /\ Lifecycle(cmd.cfg) \in DOMAIN Last /\ cmd.at <= Last[Lifecycle(cmd.cfg)]

\* The project's Python files, from the scope to the last look at it: a stamp tells
\* about every edit in between, also about one that was taken back.
PythonBound ==
  /\ cmd.at > 4 /\ "python" \notin cmd.touched => cmd.plan["python"] = content["python"]
  /\ cmd.at > 10 /\ "python" \notin cmd.touched => cmd.made["python"] = content["python"]
  /\ cmd.at > 18 => cmd.made["python"] = cmd.plan["python"]

\* The tools, from the preparation of the host to the look after the builds.
ToolsBound ==
  /\ cmd.at > 6 /\ "tools" \notin cmd.touched => content["tools"] = cmd.cfg.pins["tools"]
  /\ cmd.at > 13 /\ "tools" \notin cmd.touched => cmd.made["tools"] = cmd.cfg.pins["tools"]
  /\ cmd.at > 14 => cmd.made["tools"] = cmd.cfg.pins["tools"]

\* The other members of the support trees have no stamp: what the builds read is
\* what the walk after them finds, unless it was put back in between.
SupportBound ==
  /\ cmd.at = 14 => cmd.made["support"] = content["support"] \/ cmd.putBack
  /\ cmd.at > 14 => cmd.made["support"] = cmd.cfg.pins["support"] \/ cmd.putBack

\* Everything else is built from the memory of the run.
MemoryBound ==
  cmd.at > 13 => \A k \in {"stubs", "vendor", "wheel", "license"} : cmd.made[k] = BuildInputs[k]

PolicyBound ==
  cmd.at > 21 /\ Lifecycle(cmd.cfg) # "bootstrap" =>
    \A p \in cmd.cfg.policy : p.request = BootstrapRequest

Bound == Runs => PythonBound /\ ToolsBound /\ SupportBound /\ MemoryBound /\ PolicyBound

LInv == LifecycleTypeOK /\ Placed /\ Bound

\* The bundle is as the command found it up to the commit, after which no quarantine
\* is left whose removal could fail.
Committed ==
  Runs => /\ Lifecycle(cmd.cfg) # "publication" \/ cmd.at <= 28 => files.bundle = found
          /\ Lifecycle(cmd.cfg) = "publication" /\ cmd.at > 23 => ~ cmd.quarantine

\* A request and its signature are one document.
Single == /\ \A q, r \in files.request : q = r
          /\ \A q, r \in files.signature : q = r

\* What a command that is left alone has found to be in order, stage by stage.
Observed ==
  /\ cmd.at > 1 => "python" \notin cmd.touched /\ content["vendor"] = config.pins["vendor"]
  /\ cmd.at > 3 => content["wheel"] = config.pins["wheel"]
  /\ cmd.at > 4 => \A k \in Analysed : cmd.plan[k] = content[k]
  /\ cmd.at > 6 => /\ "tools" \notin cmd.touched /\ content["tools"] = config.pins["tools"]
                    /\ content["support"] = config.pins["support"]
  /\ cmd.at > 10 => cmd.made["python"] = content["python"]
  /\ cmd.at > 11 => cmd.license = content["license"]
  /\ cmd.at > 13 => cmd.made["support"] = content["support"]
  /\ cmd.at > 20 => \A k \in Attested : attested[k] = content[k]

Accepted ==
  LET now == Lifecycle(config) IN
  /\ now = "bootstrap" /\ cmd.at > 22 => files.bootstrap = {BootstrapRequest} /\ "bootstrap" \notin torn
  /\ now # "bootstrap" /\ cmd.at > 21 => /\ files.policy = config.policy
                                         /\ \A p \in files.policy : p.request = BootstrapRequest
  /\ now = "signing" /\ cmd.at > 23 => files.request = {AuthorizationRequest}
  /\ now = "publication" =>
       /\ cmd.at > 25 => files.request = {AuthorizationRequest}
       /\ cmd.at > 26 => files.signature = {AuthorizationRequest}
       /\ cmd.at > 27 => files.documents = {AuthorizationRequest} /\ "documents" \notin torn
       /\ cmd.at > 28 => files.bundle = {Bundle}

Undisturbed == Runs /\ calm => (foreseen <=> InOrder) /\ Observed /\ Accepted

DInv == Single /\ Undisturbed /\ DecidedByProject
-----------------------------------------------------------------------------
(* Where a command is in its script.                                       *)

LEMMA Openings ==
  ASSUME NEW l \in DOMAIN Last
  PROVE  /\ Script[l][1] = "scope" /\ Script[l][2] = "holds" /\ Script[l][3] = "sourceLock"
         /\ Script[l][4] = "analyse" /\ Script[l][5] = "holds" /\ Script[l][6] = "host"
         /\ Script[l][7] = "tools" /\ Script[l][8] = "reanalyse" /\ Script[l][9] = "holds"
         /\ Script[l][10] = "generate" /\ Script[l][11] = "license" /\ Script[l][12] = "walk"
         /\ Script[l][13] = "build" /\ Script[l][14] = "rewalk"
         /\ Script[l][15] = "relicense" /\ Script[l][16] = "regenerate"
         /\ Script[l][17] = "replay" /\ Script[l][18] = "holds" /\ Script[l][19] = "recapture"
         /\ Script[l][20] = "locks"
<1>1. CASE l = "bootstrap"
  BY <1>1 DEF Script, Closing, Preflight, Execution, Production
<1>2. CASE l = "signing"
  BY <1>2 DEF Script, Closing, Preflight, Execution, Production
<1>3. CASE l = "publication"
  BY <1>3 DEF Script, Closing, Preflight, Execution, Production
<1> QED
  BY <1>1, <1>2, <1>3 DEF Last

LEMMA Closings ==
  /\ /\ Script["bootstrap"][21] = "valid" /\ Script["bootstrap"][22] = "bootstrap"
     /\ Script["bootstrap"][23] = "exit" /\ Script["bootstrap"][24] = "report"
  /\ /\ Script["signing"][21] = "policy" /\ Script["signing"][22] = "valid"
     /\ Script["signing"][23] = "request" /\ Script["signing"][24] = "exit"
     /\ Script["signing"][25] = "report"
  /\ /\ Script["publication"][21] = "policy" /\ Script["publication"][22] = "valid"
     /\ Script["publication"][23] = "cleanup" /\ Script["publication"][24] = "plan"
     /\ Script["publication"][25] = "request" /\ Script["publication"][26] = "gate"
     /\ Script["publication"][27] = "documents" /\ Script["publication"][28] = "publish"
     /\ Script["publication"][29] = "exit" /\ Script["publication"][30] = "report"
<1>1. /\ Script["bootstrap"][21] = "valid" /\ Script["bootstrap"][22] = "bootstrap"
      /\ Script["bootstrap"][23] = "exit" /\ Script["bootstrap"][24] = "report"
  <2> DEFINE s == Preflight \o Execution \o Production \o <<"valid", "bootstrap">>
                \o <<"exit", "report">>
  <2>1. Script["bootstrap"] = s
    BY DEF Script, Closing
  <2>2. s[21] = "valid" /\ s[22] = "bootstrap" /\ s[23] = "exit" /\ s[24] = "report"
    BY DEF Preflight, Execution, Production
  <2> HIDE DEF s
  <2> QED
    BY <2>1, <2>2
<1>2. /\ Script["signing"][21] = "policy" /\ Script["signing"][22] = "valid"
      /\ Script["signing"][23] = "request" /\ Script["signing"][24] = "exit"
      /\ Script["signing"][25] = "report"
  <2> DEFINE s == Preflight \o Execution \o Production \o <<"policy", "valid", "request">>
                \o <<"exit", "report">>
  <2>1. Script["signing"] = s
    BY DEF Script, Closing
  <2>2. s[21] = "policy" /\ s[22] = "valid" /\ s[23] = "request" /\ s[24] = "exit"
    BY DEF Preflight, Execution, Production
  <2>3. s[25] = "report"
    BY DEF Preflight, Execution, Production
  <2> HIDE DEF s
  <2> QED
    BY <2>1, <2>2, <2>3
<1>3. /\ Script["publication"][21] = "policy" /\ Script["publication"][22] = "valid"
      /\ Script["publication"][23] = "cleanup" /\ Script["publication"][24] = "plan"
      /\ Script["publication"][25] = "request" /\ Script["publication"][26] = "gate"
      /\ Script["publication"][27] = "documents" /\ Script["publication"][28] = "publish"
      /\ Script["publication"][29] = "exit" /\ Script["publication"][30] = "report"
  <2> DEFINE s == Preflight \o Execution \o Production \o <<"policy", "valid", "cleanup", "plan", "request", "gate", "documents", "publish">>
                \o <<"exit", "report">>
  <2>1. Script["publication"] = s
    BY DEF Script, Closing
  <2>2. s[21] = "policy" /\ s[22] = "valid" /\ s[23] = "cleanup" /\ s[24] = "plan"
    BY DEF Preflight, Execution, Production
  <2>3. s[25] = "request" /\ s[26] = "gate" /\ s[27] = "documents" /\ s[28] = "publish"
    BY DEF Preflight, Execution, Production
  <2>4. s[29] = "exit" /\ s[30] = "report"
    BY DEF Preflight, Execution, Production
  <2> HIDE DEF s
  <2> QED
    BY <2>1, <2>2, <2>3, <2>4
<1> QED
  BY <1>1, <1>2, <1>3

\* The stages by their places, up to the production of the authority and from there.
LEMMA Places ==
  ASSUME LifecycleTypeOK, Placed, Runs
  PROVE  LET l == Lifecycle(cmd.cfg) IN
         /\ l \in {"bootstrap", "signing", "publication"}
         /\ cmd.at \in 1..Last[l] /\ Last[l] \in {24, 25, 30}
         /\ At("scope") => cmd.at = 1
         /\ At("holds") => cmd.at \in {2, 5, 9, 18}
         /\ At("sourceLock") => cmd.at = 3
         /\ At("analyse") => cmd.at = 4
         /\ At("host") => cmd.at = 6
         /\ At("tools") => cmd.at = 7
         /\ At("reanalyse") => cmd.at = 8
         /\ At("generate") => cmd.at = 10
         /\ At("license") => cmd.at = 11
         /\ At("walk") => cmd.at = 12
         /\ At("build") => cmd.at = 13
         /\ At("rewalk") => cmd.at = 14
         /\ At("relicense") => cmd.at = 15
         /\ At("regenerate") => cmd.at = 16
         /\ At("replay") => cmd.at = 17
         /\ At("recapture") => cmd.at = 19
         /\ At("locks") => cmd.at = 20
         /\ At("policy") => l # "bootstrap" /\ cmd.at = 21
         /\ At("valid") => (l = "bootstrap" /\ cmd.at = 21) \/ (l # "bootstrap" /\ cmd.at = 22)
         /\ At("bootstrap") => l = "bootstrap" /\ cmd.at = 22
         /\ At("request") => (l = "signing" /\ cmd.at = 23) \/ (l = "publication" /\ cmd.at = 25)
         /\ At("cleanup") => l = "publication" /\ cmd.at = 23
         /\ At("plan") => l = "publication" /\ cmd.at = 24
         /\ At("gate") => l = "publication" /\ cmd.at = 26
         /\ At("documents") => l = "publication" /\ cmd.at = 27
         /\ At("publish") => l = "publication" /\ cmd.at = 28
         /\ At("exit") => cmd.at = Last[l] - 1
         /\ At("report") => cmd.at = Last[l]
<1> DEFINE l == Lifecycle(cmd.cfg)
<1>1. l \in DOMAIN Last /\ cmd.at \in 1..30 /\ cmd.at <= Last[l]
  BY DEF LifecycleTypeOK, Commands, Placed
<1>2. \A stage : At(stage) => Script[l][cmd.at] = stage
  BY DEF At
<1> HIDE DEF l
<1>3. CASE l = "bootstrap"
  <2>1. cmd.at \in 1..24 /\ Last[l] = 24
    BY <1>1, <1>3 DEF Last
  <2> QED
    BY <1>1, <1>2, <1>3, <2>1, Openings, Closings DEF l
<1>4. CASE l = "signing"
  <2>1. cmd.at \in 1..25 /\ Last[l] = 25
    BY <1>1, <1>4 DEF Last
  <2> QED
    BY <1>1, <1>2, <1>4, <2>1, Openings, Closings DEF l
<1>5. CASE l = "publication"
  <2>1. cmd.at \in 1..30 /\ Last[l] = 30
    BY <1>1, <1>5 DEF Last
  <2> QED
    BY <1>1, <1>2, <1>5, <2>1, Openings, Closings DEF l
<1> QED
  BY <1>1, <1>3, <1>4, <1>5 DEF Last

-----------------------------------------------------------------------------
(* What is published.                                                      *)

LEMMA Lifecycles ==
  ASSUME NEW cfg
  PROVE  /\ Lifecycle(cfg) \in {"invalid", "bootstrap", "signing", "publication"}
         /\ Lifecycle(cfg) \in {"signing", "publication"} => cfg.policy # {}
<1>1. CASE cfg.policy = {} /\ cfg.signature
  BY <1>1 DEF Lifecycle
<1>2. CASE cfg.policy = {} /\ ~ cfg.signature
  <2>1. Lifecycle(cfg) = "bootstrap"
    BY <1>2 DEF Lifecycle
  <2> QED
    BY <2>1
<1>3. CASE cfg.policy # {} /\ ~ cfg.signature
  BY <1>3 DEF Lifecycle
<1>4. CASE cfg.policy # {} /\ cfg.signature
  BY <1>4 DEF Lifecycle
<1> QED
  BY <1>1, <1>2, <1>3, <1>4

\* What a run derives from its memory.
LEMMA Derived ==
  ASSUME LifecycleTypeOK
  PROVE  /\ BuildInputs \in [Inputs -> Content] /\ BootstrapRequest \in Lineages
         /\ AuthorizationRequest \in Requests /\ Bundle \in Bundles
<1>1. /\ cmd.plan \in [Analysed -> Content] /\ cmd.license \in Content /\ cmd.cfg \in Configs
      /\ cmd.made \in [Inputs -> Content]
  BY DEF LifecycleTypeOK, Commands
<1>2. cmd.cfg.pins \in [Pinned -> Content] /\ cmd.cfg.settings \in Content /\ cmd.cfg.policy \subseteq Policies
  BY <1>1 DEF Configs
<1>3. BuildInputs \in [Inputs -> Content]
  BY <1>1, <1>2 DEF BuildInputs, Inputs, Analysed, Pinned
<1>4. Identity(cmd.cfg) \in Identities
  BY <1>2 DEF Identity, Identities
<1>5. BootstrapRequest \in Lineages
  BY <1>3, <1>4 DEF BootstrapRequest, Lineages
<1>6. AuthorizationRequest \in Requests
  BY <1>2, <1>5 DEF AuthorizationRequest, Requests
<1> QED
  BY <1>1, <1>3, <1>5, <1>6 DEF Bundle, Bundles

\* Input by input, what a build reads.
LEMMA Reads ==
  /\ BuildInputs["python"] = cmd.plan["python"] /\ BuildInputs["stubs"] = cmd.plan["stubs"]
  /\ BuildInputs["vendor"] = cmd.cfg.pins["vendor"] /\ BuildInputs["wheel"] = cmd.cfg.pins["wheel"]
  /\ BuildInputs["tools"] = cmd.cfg.pins["tools"] /\ BuildInputs["support"] = cmd.cfg.pins["support"]
  /\ BuildInputs["license"] = cmd.license
BY DEF BuildInputs, Inputs, Analysed, Pinned

\* At the commit, what was made is what the policy and the signature are about, but
\* for support that was put back.
LEMMA Sound ==
  ASSUME LInv, At("publish")
  PROVE  /\ \A k \in Inputs : \/ cmd.made[k] = BuildInputs[k]
                              \/ k = "support" /\ cmd.putBack
         /\ \A p \in cmd.cfg.policy : p.request = BootstrapRequest
         /\ cmd.cfg.policy # {}
<1>1. Runs /\ Lifecycle(cmd.cfg) = "publication" /\ cmd.at = 28
  BY Places DEF LInv, At
<1>2. cmd.made["python"] = BuildInputs["python"] /\ cmd.made["tools"] = BuildInputs["tools"]
  BY <1>1, Reads DEF LInv, Bound, PythonBound, ToolsBound
<1>3. \A k \in {"stubs", "vendor", "wheel", "license"} : cmd.made[k] = BuildInputs[k]
  BY <1>1 DEF LInv, Bound, MemoryBound
<1>4. cmd.made["support"] = BuildInputs["support"] \/ cmd.putBack
  BY <1>1, Reads DEF LInv, Bound, SupportBound
<1>5. \A p \in cmd.cfg.policy : p.request = BootstrapRequest
  BY <1>1 DEF LInv, Bound, PolicyBound
<1>6. cmd.cfg.policy # {}
  BY <1>1, Lifecycles
<1> QED
  BY <1>2, <1>3, <1>4, <1>5, <1>6 DEF Inputs

-----------------------------------------------------------------------------
(* The steps of a command.                                                 *)

\* A command that ends is bound by nothing.
LEMMA Ended ==
  ASSUME NEW o \in {"refused", "unreported", "killed", "bootstrap", "signing", "publication"}, Ends(o)
  PROVE  cmd' \in Commands /\ ~ Runs' /\ Placed' /\ Bound' /\ cmd'.outcome = o
<1>1. NoCommand \in Commands
  BY DEF NoCommand, NoConfig, Fresh, Commands, Configs, Content, Inputs, Pinned, Analysed
<1>2. cmd' \in Commands /\ cmd'.outcome = o
  BY <1>1 DEF Ends, Commands
<1> QED
  BY <1>2 DEF Runs, Placed, Bound

\* A command that goes on takes what it has learnt to its next stage.
LEMMA Advanced ==
  ASSUME LInv, NEW stage, At(stage), stage # "report", NEW c \in Commands, c.at = cmd.at, c.cfg = cmd.cfg,
         c.outcome = cmd.outcome, Advance(c), config' = config
  PROVE  /\ cmd' \in Commands /\ Runs' /\ Placed' /\ cmd'.at = cmd.at + 1 /\ cmd'.cfg = cmd.cfg
         /\ cmd'.touched = c.touched /\ cmd'.plan = c.plan /\ cmd'.license = c.license
         /\ cmd'.made = c.made /\ cmd'.putBack = c.putBack /\ cmd'.quarantine = c.quarantine
         /\ cmd'.outcome = cmd.outcome
<1> DEFINE l == Lifecycle(cmd.cfg)
<1>1. Runs /\ cmd.at \in 1..Last[l] /\ Last[l] \in {24, 25, 30} /\ l \in {"bootstrap", "signing", "publication"}
  BY Places DEF LInv, At
<1>2. cmd.at # Last[l]
  <2>1. Script[l][Last[l]] = "report"
    BY <1>1, Closings DEF Last
  <2> QED
    BY <2>1 DEF At
<1>3. cmd.at + 1 \in 1..30 /\ cmd.at + 1 <= Last[l]
  BY <1>1, <1>2
<1>4. cmd' = [c EXCEPT !.at = cmd.at + 1]
  BY DEF Advance, Commands
<1>5. /\ cmd' \in Commands /\ cmd'.at = cmd.at + 1 /\ cmd'.cfg = cmd.cfg
      /\ cmd'.touched = c.touched /\ cmd'.plan = c.plan /\ cmd'.license = c.license
      /\ cmd'.made = c.made /\ cmd'.putBack = c.putBack /\ cmd'.quarantine = c.quarantine
      /\ cmd'.outcome = cmd.outcome
  BY <1>3, <1>4 DEF Commands
<1>6. Runs' /\ Placed'
  BY <1>1, <1>3, <1>5 DEF Placed, Runs, LInv
<1> QED
  BY <1>5, <1>6

\* Most stages learn nothing.  What they ask is the premise of the next stage.
LEMMA StaysBound ==
  ASSUME LInv, Runs, cmd'.at = cmd.at + 1, content' = content,
         cmd'.cfg = cmd.cfg, cmd'.touched = cmd.touched, cmd'.plan = cmd.plan,
         cmd'.license = cmd.license, cmd'.made = cmd.made, cmd'.putBack = cmd.putBack,
         cmd.at \notin {4, 6, 10, 13},
         cmd.at = 14 => "tools" \notin cmd.touched /\ content["support"] = cmd.cfg.pins["support"],
         cmd.at = 18 => "python" \notin cmd.touched,
         cmd.at = 21 /\ Lifecycle(cmd.cfg) # "bootstrap" =>
           \A p \in cmd.cfg.policy : p.request = BootstrapRequest
  PROVE  Bound'
<1>1. cmd.at \in 1..30
  BY DEF LInv, LifecycleTypeOK, Commands
<1>2. PythonBound'
  BY <1>1 DEF LInv, Bound, PythonBound
<1>3. ToolsBound'
  BY <1>1 DEF LInv, Bound, ToolsBound
<1>7. SupportBound'
  BY <1>1 DEF LInv, Bound, SupportBound
<1>4. BuildInputs' = BuildInputs /\ BootstrapRequest' = BootstrapRequest
  BY DEF BuildInputs, BootstrapRequest
<1>5. MemoryBound'
  BY <1>1, <1>4 DEF LInv, Bound, MemoryBound
<1>6. PolicyBound'
  BY <1>1, <1>4 DEF LInv, Bound, PolicyBound
<1> QED
  BY <1>2, <1>3, <1>5, <1>6, <1>7 DEF Bound

\* The parts of the invariant that a command has no part in.
Around == /\ content \in [Inputs -> Content] /\ attested \in [Attested -> Content] /\ config \in Configs
          /\ foreseen \in BOOLEAN /\ found \in SUBSET Bundles /\ calm \in BOOLEAN
          /\ left \in [commands : Nat, moves : Nat, edits : Nat, inputs : SUBSET Inputs, faults : Nat]
Written == files \in Files /\ torn \subseteq {"bootstrap", "documents"}

LEMMA Parts == LInv <=> Around /\ Written /\ cmd \in Commands /\ Placed /\ Bound
BY DEF LInv, LifecycleTypeOK, Around, Written

LEMMA Refused ==
  ASSUME LInv, Refuse
  PROVE  LInv'
<1>1. cmd' \in Commands /\ Placed' /\ Bound'
  BY Ended DEF Refuse
<1>2. UNCHANGED <<content, attested, config, foreseen, found, calm, left, files, torn>>
  BY DEF Refuse, Quietly, project, witnessed
<1>3. Around' /\ Written'
  BY <1>2, Parts DEF Around, Written
<1> QED
  BY <1>1, <1>3, Parts DEF LInv, LifecycleTypeOK, Around, Written

\* A stage that passes, whatever it asks.
LEMMA Passed ==
  ASSUME LInv, NEW stage, At(stage), Advance(cmd), Quietly,
         files' \in Files, torn' = torn,
         stage \notin {"analyse", "host", "generate", "build", "report"},
         stage = "rewalk" => "tools" \notin cmd.touched /\ content["support"] = cmd.cfg.pins["support"],
         stage = "holds" => "python" \notin cmd.touched,
         stage = "policy" => \A p \in cmd.cfg.policy : p.request = BootstrapRequest
  PROVE  LInv'
<1>1. UNCHANGED <<content, attested, config, foreseen, found, calm, left>>
  BY DEF Quietly, project, witnessed
<1>2. cmd \in Commands
  BY DEF LInv, LifecycleTypeOK
<1>3. /\ cmd' \in Commands /\ Runs' /\ Placed' /\ cmd'.at = cmd.at + 1 /\ cmd'.cfg = cmd.cfg
      /\ cmd'.touched = cmd.touched /\ cmd'.plan = cmd.plan /\ cmd'.license = cmd.license
      /\ cmd'.made = cmd.made /\ cmd'.putBack = cmd.putBack
  BY <1>1, <1>2, Advanced
<1>4. Runs /\ Lifecycle(cmd.cfg) \in DOMAIN Last /\ Script[Lifecycle(cmd.cfg)][cmd.at] = stage
  BY DEF At, LInv, Placed
<1>5. cmd.at \notin {4, 6, 10, 13}
  BY <1>4, Openings
<1>6. cmd.at = 14 => stage = "rewalk"
  BY <1>4, Openings
<1>7. cmd.at = 18 => stage = "holds"
  BY <1>4, Openings
<1>8. cmd.at = 21 /\ Lifecycle(cmd.cfg) # "bootstrap" => stage = "policy"
  BY <1>4, Closings DEF Last
<1>9. Bound'
  BY <1>1, <1>3, <1>4, <1>5, <1>6, <1>7, <1>8, StaysBound
<1>10. Around' /\ Written'
  BY <1>1 DEF LInv, LifecycleTypeOK, Around, Written
<1> QED
  BY <1>3, <1>9, <1>10 DEF LInv, LifecycleTypeOK, Around, Written

\* Stages that only look.
LEMMA LooksStep ==
  ASSUME LInv, \/ RequireScope \/ VerifySourceLock \/ RequireTools \/ WalkSupport \/ Reanalyse
               \/ CollectLicenseAgain \/ Regenerate \/ Replay \/ Recapture \/ RequireLocks
               \/ LoadPolicy \/ ValidateMaterial \/ DerivePlan \/ Authorize
  PROVE  LInv'
<1>1. ASSUME NEW stage, At(stage), Advance(cmd), Quietly, UNCHANGED <<files, torn>>,
             stage \notin {"analyse", "host", "generate", "build", "report"},
             stage = "rewalk" =>
               "tools" \notin cmd.touched /\ content["support"] = cmd.cfg.pins["support"],
             stage = "holds" => "python" \notin cmd.touched,
             stage = "policy" => \A p \in cmd.cfg.policy : p.request = BootstrapRequest
      PROVE  LInv'
  <2>1. files' \in Files /\ torn' = torn
    BY <1>1 DEF LInv, LifecycleTypeOK
  <2> QED
    BY <1>1, <2>1, Passed
<1>2. CASE RequireScope
  BY <1>1, <1>2, Refused DEF RequireScope, Check, ScopeHolds, NamespaceUntouched
<1>3. CASE VerifySourceLock
  BY <1>1, <1>3, Refused DEF VerifySourceLock, Check
<1>4. CASE RequireTools
  BY <1>1, <1>4, Refused DEF RequireTools, Check
<1>15. CASE WalkSupport
  BY <1>1, <1>15, Refused DEF WalkSupport, Check, SupportHolds, SupportLockPinned, ToolsUntouched
<1>5. CASE Reanalyse
  BY <1>1, <1>5, Refused DEF Reanalyse, Check
<1>6. CASE CollectLicenseAgain
  BY <1>1, <1>6, Refused DEF CollectLicenseAgain, Check
<1>7. CASE Regenerate
  BY <1>1, <1>7, Refused DEF Regenerate, Check
<1>8. CASE Replay
  BY <1>1, <1>8, Refused DEF Replay, Check
<1>9. CASE Recapture
  BY <1>1, <1>9, Refused DEF Recapture, Check
<1>10. CASE RequireLocks
  BY <1>1, <1>10, Refused DEF RequireLocks, Check
<1>11. CASE LoadPolicy
  BY <1>1, <1>11, Refused DEF LoadPolicy, Check, PolicyMatches
<1>12. CASE ValidateMaterial
  BY <1>1, <1>12, Refused DEF ValidateMaterial, Check
<1>13. CASE DerivePlan
  BY <1>1, <1>13, Refused DEF DerivePlan, Check
<1>14. CASE Authorize
  BY <1>1, <1>14, Refused DEF Authorize, Check
<1> QED
  BY <1>2, <1>3, <1>4, <1>5, <1>6, <1>7, <1>8, <1>9, <1>10, <1>11, <1>12, <1>13, <1>14, <1>15

\* Stages that write a file.
LEMMA WritesStep ==
  ASSUME LInv, \/ MaterializeBootstrap \/ MaterializeRequest \/ MaterializeDocuments \/ Publish
  PROVE  LInv'
<1>1. files \in Files
  BY DEF LInv, LifecycleTypeOK
<1>2. /\ BootstrapRequest \in Lineages /\ AuthorizationRequest \in Requests /\ Bundle \in Bundles
  BY Derived DEF LInv
<1>3. CASE MaterializeBootstrap
  <2>1. CASE At("bootstrap") /\ files' = [files EXCEPT !["bootstrap"] = {BootstrapRequest}]
               /\ Advance(cmd) /\ Quietly /\ UNCHANGED torn
    <3>1. files' \in Files
      BY <1>1, <1>2, <2>1 DEF Files
    <3> QED
      BY <2>1, <3>1, Passed
  <2> QED
    BY <1>3, <2>1, Refused DEF MaterializeBootstrap, Create
<1>4. CASE MaterializeRequest
  <2>1. CASE At("request") /\ files' = [files EXCEPT !["request"] = {AuthorizationRequest}]
               /\ Advance(cmd) /\ Quietly /\ UNCHANGED torn
    <3>1. files' \in Files
      BY <1>1, <1>2, <2>1 DEF Files
    <3> QED
      BY <2>1, <3>1, Passed
  <2> QED
    BY <1>4, <2>1, Refused DEF MaterializeRequest, Create
<1>5. CASE MaterializeDocuments
  <2>1. CASE At("documents") /\ files' = [files EXCEPT !["documents"] = {AuthorizationRequest}]
               /\ Advance(cmd) /\ Quietly /\ UNCHANGED torn
    <3>1. files' \in Files
      BY <1>1, <1>2, <2>1 DEF Files
    <3> QED
      BY <2>1, <3>1, Passed
  <2> QED
    BY <1>5, <2>1, Refused DEF MaterializeDocuments, Create
<1>6. CASE Publish
  <2>1. CASE At("publish") /\ files' = [files EXCEPT !["bundle"] = {Bundle}]
               /\ Advance(cmd) /\ Quietly /\ UNCHANGED torn
    <3>1. files' \in Files
      BY <1>1, <1>2, <2>1 DEF Files
    <3> QED
      BY <2>1, <3>1, Passed
  <2> QED
    BY <1>6, <2>1, Refused DEF Publish, Create
<1> QED
  BY <1>3, <1>4, <1>5, <1>6

\* A stage that learns something.
LEMMA Learnt ==
  ASSUME LInv, NEW stage, At(stage), stage # "report", NEW c \in Commands, c.at = cmd.at, c.cfg = cmd.cfg,
         c.outcome = cmd.outcome, Advance(c), Quietly, UNCHANGED <<files, torn>>,
         \/ Bound'
         \/ /\ stage \in {"cleanup", "exit"} /\ c.touched = cmd.touched /\ c.plan = cmd.plan
            /\ c.license = cmd.license /\ c.made = cmd.made /\ c.putBack = cmd.putBack
  PROVE  LInv'
<1>1. UNCHANGED <<content, attested, config, foreseen, found, calm, left>>
  BY DEF Quietly, project, witnessed
<1>2. /\ cmd' \in Commands /\ Runs' /\ Placed' /\ cmd'.at = cmd.at + 1 /\ cmd'.cfg = cmd.cfg
      /\ cmd'.touched = c.touched /\ cmd'.plan = c.plan /\ cmd'.license = c.license
      /\ cmd'.made = c.made /\ cmd'.putBack = c.putBack
  BY <1>1, Advanced
<1>3. Bound'
  <2> SUFFICES ASSUME stage \in {"cleanup", "exit"}, c.touched = cmd.touched, c.plan = cmd.plan,
                      c.license = cmd.license, c.made = cmd.made, c.putBack = cmd.putBack
               PROVE  Bound'
    OBVIOUS
  <2>1. Runs /\ cmd.at \notin {4, 6, 10, 13, 14, 18, 21}
    BY Places DEF LInv, At, Last
  <2> QED
    BY <1>1, <1>2, <2>1, StaysBound
<1>4. Around' /\ Written'
  BY <1>1 DEF LInv, LifecycleTypeOK, Around, Written
<1> QED
  BY <1>2, <1>3, <1>4 DEF LInv, LifecycleTypeOK, Around, Written

\* The stages that read the project, make something of it, or clean up.
LEMMA LearnsStep ==
  ASSUME LInv, \/ CollectScope \/ Analyse \/ PrepareHost \/ Generate \/ CollectLicense \/ Build
               \/ CompleteCleanup \/ ExitHost
  PROVE  LInv'
<1>1. /\ cmd \in Commands /\ cmd.at \in 1..30 /\ cmd.touched \subseteq Stamped
      /\ cmd.plan \in [Analysed -> Content] /\ cmd.made \in [Inputs -> Content]
      /\ content \in [Inputs -> Content] /\ cmd.license \in Content
  BY DEF LInv, LifecycleTypeOK, Commands
<1>2. CASE CollectScope
  <2> DEFINE c == [cmd EXCEPT !.touched = @ \ {"python"}]
  <2>1. /\ c \in Commands /\ c.at = cmd.at /\ c.cfg = cmd.cfg /\ c.outcome = cmd.outcome
    BY <1>1 DEF Commands
  <2> HIDE DEF c
  <2>2. CASE At("scope") /\ Advance(c) /\ Quietly /\ UNCHANGED <<files, torn>>
    <3>1. cmd.at = 1
      BY <2>2, Places DEF LInv, At
    <3>2. cmd'.at = 2
      BY <2>1, <2>2, <3>1, Advanced DEF Quietly, project
    <3>3. Bound'
      BY <3>2 DEF Bound, PythonBound, ToolsBound, SupportBound, MemoryBound, PolicyBound
    <3> QED
      BY <2>1, <2>2, <3>3, Learnt
  <2> QED
    BY <1>2, <2>2, Refused DEF CollectScope, c
<1>3. CASE Analyse
  <2> DEFINE c == [cmd EXCEPT !.plan = [k \in Analysed |-> content[k]]]
  <2>1. /\ c \in Commands /\ c.at = cmd.at /\ c.cfg = cmd.cfg /\ c.outcome = cmd.outcome
        /\ c.plan = [k \in Analysed |-> content[k]]
    BY <1>1 DEF Commands, Analysed, Inputs
  <2>2. At("analyse") /\ Advance(c) /\ Quietly /\ UNCHANGED <<files, torn>>
    BY <1>3 DEF Analyse, Keep
  <2> HIDE DEF c
  <2>3. cmd.at = 4
    BY <2>2, Places DEF LInv, At
  <2>4. cmd'.at = 5 /\ cmd'.plan["python"] = content["python"] /\ content' = content
    BY <2>1, <2>2, <2>3, Advanced DEF Quietly, project, Analysed
  <2>5. Bound'
    BY <2>4 DEF Bound, PythonBound, ToolsBound, SupportBound, MemoryBound, PolicyBound
  <2> QED
    BY <2>1, <2>2, <2>5, Learnt
<1>4. CASE PrepareHost
  <2> DEFINE c == [cmd EXCEPT !.touched = @ \ {"tools"}, !.quarantine = TRUE]
  <2>1. /\ c \in Commands /\ c.at = cmd.at /\ c.cfg = cmd.cfg /\ c.outcome = cmd.outcome
        /\ c.plan = cmd.plan
        /\ "python" \in c.touched <=> "python" \in cmd.touched
    BY <1>1 DEF Commands
  <2> HIDE DEF c
  <2>2. CASE /\ At("host") /\ Advance(c) /\ Quietly /\ UNCHANGED <<files, torn>>
             /\ content["tools"] = cmd.cfg.pins["tools"]
    <3>1. cmd.at = 6 /\ Runs
      BY <2>2, Places DEF LInv, At
    <3>2. /\ cmd'.at = 7 /\ content' = content /\ cmd'.cfg = cmd.cfg /\ cmd'.plan = cmd.plan
          /\ "python" \in cmd'.touched <=> "python" \in cmd.touched
      BY <2>1, <2>2, <3>1, Advanced DEF Quietly, project
    <3>3. Bound'
      BY <2>2, <3>1, <3>2 DEF LInv, Bound, PythonBound, ToolsBound, SupportBound, MemoryBound, PolicyBound
    <3> QED
      BY <2>1, <2>2, <3>3, Learnt
  <2> QED
    BY <1>4, <2>2, Refused DEF PrepareHost, SupportLockPinned, c
<1>5. CASE Generate
  <2> DEFINE c == [cmd EXCEPT !.made["python"] = content["python"]]
  <2>1. /\ c \in Commands /\ c.at = cmd.at /\ c.cfg = cmd.cfg /\ c.outcome = cmd.outcome
        /\ c.plan = cmd.plan /\ c.touched = cmd.touched /\ c.made["python"] = content["python"]
    <3>1. c = [cmd EXCEPT !.made = [cmd.made EXCEPT !["python"] = content["python"]]]
      BY <1>1 DEF Commands
    <3>2. [cmd.made EXCEPT !["python"] = content["python"]] \in [Inputs -> Content]
      BY <1>1 DEF Inputs
    <3>3. [cmd.made EXCEPT !["python"] = content["python"]]["python"] = content["python"]
      BY <1>1 DEF Inputs
    <3> QED
      BY <1>1, <3>1, <3>2, <3>3 DEF Commands
  <2>2. At("generate") /\ Advance(c) /\ Quietly /\ UNCHANGED <<files, torn>>
    BY <1>5 DEF Generate, Keep
  <2> HIDE DEF c
  <2>3. cmd.at = 10 /\ Runs
    BY <2>2, Places DEF LInv, At
  <2>4. /\ cmd'.at = 11 /\ content' = content /\ cmd'.cfg = cmd.cfg /\ cmd'.plan = cmd.plan
        /\ cmd'.touched = cmd.touched /\ cmd'.made["python"] = content["python"]
    BY <2>1, <2>2, <2>3, Advanced DEF Quietly, project
  <2>5. Bound'
    BY <2>3, <2>4 DEF LInv, Bound, PythonBound, ToolsBound, SupportBound, MemoryBound, PolicyBound
  <2> QED
    BY <2>1, <2>2, <2>5, Learnt
<1>6. CASE CollectLicense
  <2> DEFINE c == [cmd EXCEPT !.license = content["license"]]
  <2>1. /\ c \in Commands /\ c.at = cmd.at /\ c.cfg = cmd.cfg /\ c.outcome = cmd.outcome
        /\ c.plan = cmd.plan /\ c.touched = cmd.touched /\ c.made = cmd.made
    BY <1>1 DEF Commands, Inputs
  <2>2. At("license") /\ Advance(c) /\ Quietly /\ UNCHANGED <<files, torn>>
    BY <1>6 DEF CollectLicense, Keep
  <2> HIDE DEF c
  <2>3. cmd.at = 11 /\ Runs
    BY <2>2, Places DEF LInv, At
  <2>4. /\ cmd'.at = 12 /\ content' = content /\ cmd'.cfg = cmd.cfg /\ cmd'.plan = cmd.plan
        /\ cmd'.touched = cmd.touched /\ cmd'.made = cmd.made
    BY <2>1, <2>2, <2>3, Advanced DEF Quietly, project
  <2>5. Bound'
    BY <2>3, <2>4 DEF LInv, Bound, PythonBound, ToolsBound, SupportBound, MemoryBound, PolicyBound
  <2> QED
    BY <2>1, <2>2, <2>5, Learnt
<1>7. CASE Build
  <2> DEFINE m == [BuildInputs EXCEPT !["python"] = cmd.made["python"], !["tools"] = content["tools"],
                                      !["support"] = content["support"]]
             c == [cmd EXCEPT !.made = m]
  <2>1. /\ m \in [Inputs -> Content] /\ m["python"] = cmd.made["python"] /\ m["tools"] = content["tools"]
        /\ m["support"] = content["support"]
        /\ \A k \in {"stubs", "vendor", "wheel", "license"} : m[k] = BuildInputs[k]
    <3>1. BuildInputs \in [Inputs -> Content]
      BY Derived DEF LInv
    <3> QED
      BY <1>1, <3>1 DEF Inputs
  <2>2. At("build") /\ Advance(c) /\ Quietly /\ UNCHANGED <<files, torn>>
    BY <1>7 DEF Build, Keep
  <2> HIDE DEF m
  <2>3. /\ c \in Commands /\ c.at = cmd.at /\ c.cfg = cmd.cfg /\ c.outcome = cmd.outcome
        /\ c.plan = cmd.plan /\ c.touched = cmd.touched /\ c.license = cmd.license /\ c.made = m
    BY <1>1, <2>1 DEF Commands
  <2> HIDE DEF c
  <2>4. cmd.at = 13 /\ Runs
    BY <2>2, Places DEF LInv, At
  <2>5. /\ cmd'.at = 14 /\ content' = content /\ cmd'.cfg = cmd.cfg /\ cmd'.plan = cmd.plan
        /\ cmd'.touched = cmd.touched /\ cmd'.license = cmd.license /\ cmd'.made = m
    BY <2>2, <2>3, <2>4, Advanced DEF Quietly, project
  <2>6. BuildInputs' = BuildInputs
    BY <2>5 DEF BuildInputs
  <2>7. MemoryBound'
    BY <2>1, <2>5, <2>6 DEF MemoryBound
  <2>8. Bound'
    BY <2>1, <2>4, <2>5, <2>7 DEF LInv, Bound, PythonBound, ToolsBound, SupportBound, PolicyBound
  <2> QED
    BY <2>2, <2>3, <2>8, Learnt
<1>8. CASE CompleteCleanup \/ ExitHost
  <2> DEFINE c == [cmd EXCEPT !.quarantine = FALSE]
  <2>1. /\ c \in Commands /\ c.at = cmd.at /\ c.cfg = cmd.cfg /\ c.outcome = cmd.outcome
        /\ c.plan = cmd.plan /\ c.touched = cmd.touched /\ c.made = cmd.made /\ c.license = cmd.license
        /\ c.putBack = cmd.putBack
    BY <1>1 DEF Commands
  <2> HIDE DEF c
  <2>2. ASSUME NEW stage \in {"cleanup", "exit"}, At(stage), Advance(c), Quietly, UNCHANGED <<files, torn>>
        PROVE  LInv'
    BY <2>1, <2>2, Learnt
  <2>3. CASE CompleteCleanup
    BY <2>2, <2>3, Refused DEF CompleteCleanup, c
  <2>4. CASE ExitHost
    BY <2>2, <2>4 DEF ExitHost, Keep, c
  <2> QED
    BY <1>8, <2>3, <2>4
<1> QED
  BY <1>2, <1>3, <1>4, <1>5, <1>6, <1>7, <1>8

-----------------------------------------------------------------------------
(* Failures, and everybody else.                                           *)

\* What a command that fails may leave: the file that it was writing.
LEMMA Left ==
  ASSUME LInv, NEW names \in SUBSET {"bootstrap", "request", "documents", "bundle"},
         NEW tearable \in SUBSET {"bootstrap", "documents"}, LeaveBegun(names, tearable)
  PROVE  /\ Written'
         /\ \/ files'.bundle \subseteq files.bundle
            \/ At("publish") /\ files'.bundle = {Bundle}
         /\ "bundle" \notin names => files'.bundle = files.bundle
<1>1. files \in Files /\ torn \subseteq {"bootstrap", "documents"}
  BY DEF LInv, LifecycleTypeOK
<1>2. CASE UNCHANGED <<files, torn>>
  BY <1>1, <1>2 DEF Written
<1>3. ASSUME NEW name \in names, Begun(name), files' = [files EXCEPT ![name] = {Value(name)}],
             UNCHANGED torn \/ (name \in tearable /\ torn' = torn \cup {name})
      PROVE  /\ Written'
             /\ \/ files'.bundle \subseteq files.bundle
                \/ At("publish") /\ files'.bundle = {Bundle}
             /\ "bundle" \notin names => files'.bundle = files.bundle
  <2>1. torn' \subseteq {"bootstrap", "documents"}
    BY <1>1, <1>3
  <2>2. /\ BootstrapRequest \in Lineages /\ AuthorizationRequest \in Requests /\ Bundle \in Bundles
    BY Derived DEF LInv
  <2>3. CASE name = "bootstrap"
    <3>1. files' = [files EXCEPT !.bootstrap = {BootstrapRequest}]
      BY <1>3, <2>3 DEF Value
    <3>2. files' \in Files /\ files'.bundle = files.bundle
      BY <1>1, <2>2, <3>1 DEF Files
    <3> QED
      BY <2>1, <3>2 DEF Written
  <2>4. CASE name = "request"
    <3>1. files' = [files EXCEPT !.request = {AuthorizationRequest}]
      BY <1>3, <2>4 DEF Value
    <3>2. files' \in Files /\ files'.bundle = files.bundle
      BY <1>1, <2>2, <3>1 DEF Files
    <3> QED
      BY <2>1, <3>2 DEF Written
  <2>5. CASE name = "documents"
    <3>1. files' = [files EXCEPT !.documents = {AuthorizationRequest}]
      BY <1>3, <2>5 DEF Value
    <3>2. files' \in Files /\ files'.bundle = files.bundle
      BY <1>1, <2>2, <3>1 DEF Files
    <3> QED
      BY <2>1, <3>2 DEF Written
  <2>6. CASE name = "bundle"
    <3>1. files' = [files EXCEPT !.bundle = {Bundle}] /\ At("publish")
      BY <1>3, <2>6 DEF Value, Begun
    <3>2. files' \in Files /\ files'.bundle = {Bundle}
      BY <1>1, <2>2, <3>1 DEF Files
    <3> QED
      BY <2>1, <2>6, <3>1, <3>2 DEF Written
  <2> QED
    BY <2>3, <2>4, <2>5, <2>6
<1> QED
  BY <1>2, <1>3 DEF LeaveBegun

LEMMA FailsStep ==
  ASSUME LInv, Fail \/ FailReport \/ Killing
  PROVE  LInv'
<1>1. /\ UNCHANGED <<content, attested, config, foreseen, found>> /\ left.faults > 0
      /\ left' = [left EXCEPT !.faults = @ - 1] /\ calm' = FALSE
  BY DEF Fail, FailReport, Killing, Fault, project
<1>2. Around'
  <2>1. left' \in [commands : Nat, moves : Nat, edits : Nat, inputs : SUBSET Inputs, faults : Nat]
    <3>1. left \in [commands : Nat, moves : Nat, edits : Nat, inputs : SUBSET Inputs, faults : Nat]
      BY DEF LInv, LifecycleTypeOK
    <3> QED
      BY <1>1, <3>1
  <2> QED
    BY <1>1, <2>1 DEF LInv, LifecycleTypeOK, Around
<1>3. cmd' \in Commands /\ Placed' /\ Bound'
  BY Ended DEF Fail, FailReport, Killing
<1>4. CASE Fail \/ Killing
  <2>1. Written'
    BY <1>4, Left DEF Fail, Killing
  <2> QED
    BY <1>2, <1>3, <2>1 DEF LInv, LifecycleTypeOK, Around, Written
<1>5. CASE FailReport
  <2>1. Written' /\ files' = files
    BY <1>5 DEF FailReport, LInv, LifecycleTypeOK, Written
  <2> QED
    BY <1>2, <1>3, <2>1 DEF LInv, LifecycleTypeOK, Around, Written
<1> QED
  BY <1>4, <1>5

LEMMA ReportStep == ASSUME LInv, Report PROVE LInv'
<1>1. Runs /\ Lifecycle(cmd.cfg) \in {"bootstrap", "signing", "publication"}
  BY Places DEF Report, LInv, At
<1>2. cmd' \in Commands /\ Placed' /\ Bound'
  BY <1>1, Ended DEF Report
<1>3. UNCHANGED <<content, attested, config, foreseen, found, calm, left, files, torn>>
  BY DEF Report, Quietly, project, witnessed
<1>4. Around' /\ Written'
  BY <1>3 DEF LInv, LifecycleTypeOK, Around, Written
<1> QED
  BY <1>2, <1>4 DEF LInv, LifecycleTypeOK, Around, Written

\* An edit in the middle of a command is seen by everything that has a stamp.
LEMMA EditStep == ASSUME LInv, Edit PROVE LInv'
<1>1. PICK k \in left.inputs :
        /\ content' = [content EXCEPT ![k] = 1 - @]
        /\ cmd' = IF Runs
                    THEN [cmd EXCEPT !.touched = @ \cup ({k} \cap Stamped),
                                     !.putBack = @ \/ (k = "support" /\ At("rewalk"))]
                    ELSE cmd
  BY DEF Edit
<1>2. UNCHANGED <<attested, config, files, torn, foreseen, found>>
  BY DEF Edit
<1>3. content' \in [Inputs -> Content] /\ \A j \in Inputs \ {k} : content'[j] = content[j]
  BY <1>1 DEF LInv, LifecycleTypeOK, Content
<1>4. Around'
  <2>1. left' \in [commands : Nat, moves : Nat, edits : Nat, inputs : SUBSET Inputs, faults : Nat]
    BY DEF Edit, LInv, LifecycleTypeOK
  <2>2. calm' \in BOOLEAN
    BY DEF Edit, LInv, LifecycleTypeOK
  <2> QED
    BY <1>2, <1>3, <2>1, <2>2 DEF LInv, LifecycleTypeOK, Around
<1>5. Written'
  BY <1>2 DEF LInv, LifecycleTypeOK, Written
<1>6. CASE ~ Runs
  <2>1. cmd' = cmd
    BY <1>1, <1>6
  <2> QED
    BY <1>4, <1>5, <1>6, <2>1 DEF LInv, LifecycleTypeOK, Around, Written, Placed, Bound, Runs
<1>7. CASE Runs
  <2>1. /\ cmd' \in Commands /\ cmd'.at = cmd.at /\ cmd'.cfg = cmd.cfg /\ cmd'.plan = cmd.plan
        /\ cmd'.license = cmd.license /\ cmd'.made = cmd.made /\ cmd'.outcome = cmd.outcome
        /\ cmd'.touched = cmd.touched \cup ({k} \cap Stamped)
        /\ cmd'.putBack <=> cmd.putBack \/ (k = "support" /\ At("rewalk"))
    <3>1. cmd \in Commands /\ At("rewalk") \in BOOLEAN
      BY DEF LInv, LifecycleTypeOK, At, Runs
    <3> HIDE DEF At
    <3> QED
      BY <1>1, <1>7, <3>1 DEF Commands
  <2>2. Placed'
    BY <1>2, <1>7, <2>1 DEF LInv, Placed, Runs
  <2>3. /\ "python" \notin cmd'.touched => "python" \notin cmd.touched /\ content'["python"] = content["python"]
        /\ "tools" \notin cmd'.touched => "tools" \notin cmd.touched /\ content'["tools"] = content["tools"]
    BY <1>3, <2>1 DEF Stamped, Inputs
  <2>4. BuildInputs' = BuildInputs /\ BootstrapRequest' = BootstrapRequest
    BY <2>1 DEF BuildInputs, BootstrapRequest
  <2>5. PythonBound' /\ ToolsBound'
    BY <1>7, <2>1, <2>3 DEF LInv, Bound, PythonBound, ToolsBound
  <2>7. SupportBound'
    <3>1. cmd.at = 14 => At("rewalk")
      BY <1>7, Openings DEF LInv, Placed, At
    <3>2. k = "support" \/ content'["support"] = content["support"]
      BY <1>3 DEF Inputs
    <3> QED
      BY <1>7, <2>1, <3>1, <3>2 DEF LInv, Bound, SupportBound
  <2>6. MemoryBound' /\ PolicyBound'
    BY <1>7, <2>1, <2>4 DEF LInv, Bound, MemoryBound, PolicyBound
  <2> QED
    BY <1>4, <1>5, <2>1, <2>2, <2>5, <2>6, <2>7 DEF LInv, LifecycleTypeOK, Around, Written, Bound
<1> QED
  BY <1>6, <1>7

\* A command begins with nothing that it could be bound by.
LEMMA StartStep == ASSUME LInv, Start PROVE LInv'
<1>1. /\ ~ Runs /\ UNCHANGED <<content, attested, config, files, torn>>
      /\ cmd' = [NoCommand EXCEPT !.cfg = config, !.touched = Stamped,
                   !.outcome = IF Lifecycle(config) = "invalid" THEN "refused" ELSE "running"]
  BY DEF Start, project
<1>2. Around'
  <2>1. left' \in [commands : Nat, moves : Nat, edits : Nat, inputs : SUBSET Inputs, faults : Nat]
    BY DEF Start, LInv, LifecycleTypeOK
  <2>2. foreseen' \in BOOLEAN /\ found' \in SUBSET Bundles /\ calm' \in BOOLEAN
    BY DEF Start, InOrder, LInv, LifecycleTypeOK, Files
  <2> QED
    BY <1>1, <2>1, <2>2 DEF LInv, LifecycleTypeOK, Around
<1>3. /\ cmd' \in Commands /\ cmd'.at = 1 /\ cmd'.cfg = config
      /\ cmd'.outcome = "running" => Lifecycle(config) # "invalid"
  <2>1. NoCommand \in Commands /\ NoCommand.at = 1
    BY DEF NoCommand, NoConfig, Fresh, Commands, Configs, Content, Inputs, Pinned, Analysed
  <2>2. config \in Configs
    BY DEF LInv, LifecycleTypeOK
  <2> QED
    BY <1>1, <2>1, <2>2 DEF Commands, Stamped
<1>4. Placed'
  BY <1>1, <1>3, Lifecycles DEF Placed, Runs, Last
<1>5. Bound'
  BY <1>3 DEF Bound, PythonBound, ToolsBound, SupportBound, MemoryBound, PolicyBound
<1>6. Written'
  BY <1>1 DEF LInv, LifecycleTypeOK, Written
<1> QED
  BY <1>2, <1>3, <1>4, <1>5, <1>6 DEF LInv, LifecycleTypeOK, Around, Written

LEMMA OwnerStep == ASSUME LInv, Owner PROVE LInv'
<1>1. /\ ~ Runs /\ left.moves > 0 /\ left' = [left EXCEPT !.moves = @ - 1]
      /\ UNCHANGED <<content, cmd, foreseen, found, calm>>
  BY
     DEF Owner, FinalizePolicy, PinPolicy, Sign, ConfigureSignature, ChangeSettings, Review,
         Discard,
         OwnerActs, witnessed
<1>2. left' \in [commands : Nat, moves : Nat, edits : Nat, inputs : SUBSET Inputs, faults : Nat]
  BY <1>1 DEF LInv, LifecycleTypeOK
<1>3. Placed' /\ Bound'
  BY <1>1 DEF Placed, Bound, Runs
<1>4. ASSUME attested' \in [Attested -> Content], config' \in Configs, Written'
      PROVE  LInv'
  BY <1>1, <1>2, <1>3, <1>4 DEF LInv, LifecycleTypeOK, Written
<1>5. /\ attested \in [Attested -> Content] /\ config \in Configs /\ content \in [Inputs -> Content]
      /\ files \in Files /\ torn \subseteq {"bootstrap", "documents"}
  BY DEF LInv, LifecycleTypeOK
<1>6. CASE FinalizePolicy
  <2>1. PICK r \in files.bootstrap, d \in Decisions : Rewrite("policy", {PolicyOf(r, d)})
    BY <1>6 DEF FinalizePolicy
  <2>2. PolicyOf(r, d) \in Policies
    BY <1>5 DEF PolicyOf, Policies, Files
  <2>3. files' \in Files /\ torn' \subseteq torn
    BY <1>5, <2>1, <2>2 DEF Rewrite, Files
  <2> QED
    BY <1>4, <1>5, <1>6, <2>3 DEF FinalizePolicy, Written
<1>7. CASE PinPolicy
  <2>1. config' \in Configs
    BY <1>5, <1>7 DEF PinPolicy, Configs, Files
  <2> QED
    BY <1>4, <1>5, <1>7, <2>1 DEF PinPolicy, Written
<1>8. CASE Sign
  <2>1. files' \in Files /\ torn' \subseteq torn
    BY <1>5, <1>8 DEF Sign, Rewrite, Files
  <2> QED
    BY <1>4, <1>5, <1>8, <2>1 DEF Sign, Written
<1>9. CASE ConfigureSignature
  <2>1. config' \in Configs
    BY <1>5, <1>9 DEF ConfigureSignature, Configs
  <2> QED
    BY <1>4, <1>5, <1>9, <2>1 DEF ConfigureSignature, Written
<1>10. CASE ChangeSettings
  <2>1. config' \in Configs
    BY <1>5, <1>10 DEF ChangeSettings, Configs, Content
  <2> QED
    BY <1>4, <1>5, <1>10, <2>1 DEF ChangeSettings, Written
<1>11. CASE Review
  <2>1. [k \in Pinned |-> content[k]] \in [Pinned -> Content] /\ [k \in Attested |-> content[k]] \in [Attested -> Content]
    BY <1>5 DEF Pinned, Attested, Inputs
  <2>2. config' \in Configs /\ attested' \in [Attested -> Content]
    BY <1>5, <1>11, <2>1 DEF Review, Configs
  <2> QED
    BY <1>4, <1>5, <1>11, <2>2 DEF Review, Written
<1>12. CASE Discard
  <2>1. PICK name \in DOMAIN files : files[name] # {} /\ Rewrite(name, {})
    BY <1>12 DEF Discard
  <2>2. files' \in Files /\ torn' \subseteq torn
    BY <1>5, <2>1 DEF Rewrite, Files
  <2> QED
    BY <1>4, <1>5, <1>12, <2>2 DEF Discard, Written
<1> QED
  BY <1>6, <1>7, <1>8, <1>9, <1>10, <1>11, <1>12 DEF Owner

LEMMA LInvInit == LifecycleInit => LInv
<1> SUFFICES ASSUME LifecycleInit PROVE LInv
  OBVIOUS
<1>1. NoCommand \in Commands /\ NoConfig \in Configs /\ Fresh \in [Inputs -> Content]
  BY DEF NoCommand, NoConfig, Fresh, Commands, Configs, Content, Inputs, Pinned, Analysed
<1>2. files \in Files
  BY DEF LifecycleInit, Files
<1>3. ~ Runs
  BY DEF LifecycleInit, Runs, NoCommand
<1>4. LifecycleTypeOK
  BY <1>1, <1>2, StrictAssumption DEF LifecycleInit, LifecycleTypeOK, Content
<1> QED
  BY <1>3, <1>4 DEF LifecycleInit, LInv, Placed, Bound

LEMMA LInvStep == LInv /\ [LifecycleNext]_lifecycleVars => LInv'
<1> SUFFICES ASSUME LInv, [LifecycleNext]_lifecycleVars PROVE LInv'
  OBVIOUS
<1>1. CASE Stage
  BY <1>1, LooksStep, WritesStep, LearnsStep, ReportStep DEF Stage
<1>2. CASE UNCHANGED lifecycleVars
  BY <1>2 DEF lifecycleVars, LInv, LifecycleTypeOK, Placed, Bound, Runs,
              PythonBound, ToolsBound, SupportBound, MemoryBound, PolicyBound, BuildInputs, BootstrapRequest
<1> QED
  BY <1>1, <1>2, StartStep, OwnerStep, EditStep, FailsStep DEF LifecycleNext

\* Configurations, requests, policies and commands keep their types.
THEOREM LifecycleTyped == LifecycleSpec => []LifecycleTypeOK
<1>1. LInv => LifecycleTypeOK
  BY DEF LInv
<1> QED
  BY LInvInit, LInvStep, <1>1, PTL DEF LifecycleSpec

\* Only the commit writes a bundle.
LEMMA OnlyPublishes ==
  ASSUME LInv, [LifecycleNext]_lifecycleVars
  PROVE  \/ files'.bundle \subseteq files.bundle
         \/ At("publish") /\ files'.bundle = {Bundle}
<1>1. files \in Files
  BY DEF LInv, LifecycleTypeOK
<1>2. CASE UNCHANGED files
  BY <1>2
<1>3. ASSUME NEW name \in {"bootstrap", "policy", "request", "signature", "documents"}, NEW v,
             files' = [files EXCEPT ![name] = v]
      PROVE  files'.bundle \subseteq files.bundle
  BY <1>1, <1>3 DEF Files
<1>4. CASE Stage
  <2>1. CASE Publish
    BY <1>1, <1>2, <2>1 DEF Publish, Create, Refuse, Files
  <2>2. CASE \/ MaterializeBootstrap \/ MaterializeRequest \/ MaterializeDocuments
    BY <1>2, <1>3, <2>2 DEF MaterializeBootstrap, MaterializeRequest, MaterializeDocuments, Create,
       Refuse
  <2>3. CASE ~ (MaterializeBootstrap \/ MaterializeRequest \/ MaterializeDocuments \/ Publish)
    BY <1>2, <1>4, <2>3
    DEF Stage, CollectScope, RequireScope, VerifySourceLock, Analyse, PrepareHost, RequireTools,
        WalkSupport, Reanalyse, Generate, CollectLicense, Build, CollectLicenseAgain, Regenerate,
        Replay, Recapture, RequireLocks, LoadPolicy, ValidateMaterial, CompleteCleanup, DerivePlan,
        Authorize, ExitHost, Report, Check, Keep, Refuse
  <2> QED
    BY <2>1, <2>2, <2>3
<1>5. CASE Fail \/ Killing
  BY <1>5, Left DEF Fail, Killing
<1>6. CASE Owner
  <2>1. CASE FinalizePolicy \/ Sign
    BY <1>3, <2>1 DEF FinalizePolicy, Sign, Rewrite
  <2>2. CASE Discard
    <3>1. files'.bundle \in {files.bundle, {}}
      BY <1>1, <2>2 DEF Discard, Rewrite, Files
    <3> QED
      BY <3>1
  <2> QED
    BY <1>2, <1>6, <2>1, <2>2 DEF Owner, PinPolicy, ConfigureSignature, ChangeSettings, Review
<1> QED
  BY <1>2, <1>4, <1>5, <1>6 DEF LifecycleNext, Start, Edit, FailReport, lifecycleVars

\* What is published is what was approved and signed, whatever is edited and put
\* back while the commands run; the members of the support trees without a stamp,
\* unless they were put back between the builds and the walk after them.
THEOREM PublishesTheApproved == LifecycleSpec => PublishedAsApproved
<1> DEFINE Approves ==
      \A b \in files'.bundle \ files.bundle :
        /\ b.signed.policy # {}
        /\ \A p \in b.signed.policy : p.request = b.signed.lineage
        /\ \A k \in Inputs :
             \/ b.made[k] = b.signed.lineage.inputs[k]
             \/ k = "support" /\ cmd.putBack
<1>1. ASSUME LInv, [LifecycleNext]_lifecycleVars, NEW b \in files'.bundle \ files.bundle
      PROVE  /\ b.signed.policy # {}
             /\ \A p \in b.signed.policy : p.request = b.signed.lineage
             /\ \A k \in Inputs :
                  \/ b.made[k] = b.signed.lineage.inputs[k]
                  \/ k = "support" /\ cmd.putBack
  <2>1. At("publish") /\ b = Bundle
    BY <1>1, OnlyPublishes
  <2>2. /\ b.made = cmd.made /\ b.signed.policy = cmd.cfg.policy
        /\ b.signed.lineage = BootstrapRequest /\ BootstrapRequest.inputs = BuildInputs
    BY <2>1 DEF Bundle, AuthorizationRequest, BootstrapRequest
  <2> QED
    BY <1>1, <2>1, <2>2, Sound
<1>2. LInv /\ [LifecycleNext]_lifecycleVars => [Approves]_lifecycleVars
  BY <1>1
<1> HIDE DEF Approves
<1>3. LifecycleSpec => [][Approves]_lifecycleVars
  BY <1>2, LInvInit, LInvStep, PTL DEF LifecycleSpec
<1> QED
  BY <1>3 DEF PublishedAsApproved, Approves

-----------------------------------------------------------------------------
(* The commit.                                                             *)

LEMMA CommittedInit == LifecycleInit => Committed
BY DEF LifecycleInit, Committed, Runs, NoCommand

\* A stage that passes leaves the bundle alone, but for the commit, and the
\* quarantine, once it is gone.
LEMMA CommittedOn ==
  ASSUME LInv, Committed, NEW stage, At(stage), stage # "report", NEW c \in Commands, c.at = cmd.at,
         c.cfg = cmd.cfg, c.outcome = cmd.outcome, Advance(c), Quietly,
         files'.bundle = files.bundle \/ stage = "publish",
         c.quarantine => cmd.quarantine \/ stage = "host",
         stage = "cleanup" => ~ c.quarantine
  PROVE  Committed'
<1>1. UNCHANGED <<config, found>>
  BY DEF Quietly, project, witnessed
<1>2. /\ Runs' /\ cmd'.at = cmd.at + 1 /\ cmd'.cfg = cmd.cfg /\ cmd'.quarantine = c.quarantine
  BY <1>1, Advanced
<1>3. Runs /\ Lifecycle(cmd.cfg) \in DOMAIN Last /\ Script[Lifecycle(cmd.cfg)][cmd.at] = stage
  BY DEF At, LInv, Placed
<1>4. /\ cmd.at \in 1..30
      /\ stage = "publish" => Lifecycle(cmd.cfg) = "publication" /\ cmd.at = 28
      /\ stage = "host" => cmd.at = 6
  BY Places DEF LInv, At, LifecycleTypeOK, Commands
<1>5. Lifecycle(cmd.cfg) = "publication" /\ cmd.at = 23 => stage = "cleanup"
  BY <1>3, Closings
<1> QED
  BY <1>1, <1>2, <1>3, <1>4, <1>5 DEF Committed

LEMMA CommittedStage == ASSUME LInv, Committed, Stage PROVE Committed' \/ ~ Runs'
<1>1. cmd \in Commands /\ files \in Files
  BY DEF LInv, LifecycleTypeOK
<1>2. ASSUME NEW stage, At(stage), stage \notin {"report", "cleanup"}, Advance(cmd), Quietly,
             files'.bundle = files.bundle \/ stage = "publish"
      PROVE  Committed'
  BY <1>1, <1>2, CommittedOn
<1>3. CASE Refuse \/ Report
  BY <1>3, Ended, Places DEF Refuse, Report, LInv, At
<1>4. CASE \/ RequireScope \/ VerifySourceLock \/ RequireTools \/ WalkSupport \/ Reanalyse
           \/ CollectLicenseAgain \/ Regenerate \/ Replay \/ Recapture \/ RequireLocks
           \/ LoadPolicy \/ ValidateMaterial \/ DerivePlan \/ Authorize
  BY <1>2, <1>3, <1>4
  DEF RequireScope, VerifySourceLock, RequireTools, WalkSupport, Reanalyse, CollectLicenseAgain, Regenerate,
      Replay, Recapture, RequireLocks, LoadPolicy, ValidateMaterial, DerivePlan, Authorize, Check
<1>5. CASE MaterializeBootstrap
  BY <1>1, <1>2, <1>3, <1>5 DEF MaterializeBootstrap, Create, Files
<1>6. CASE MaterializeRequest
  BY <1>1, <1>2, <1>3, <1>6 DEF MaterializeRequest, Create, Files
<1>7. CASE MaterializeDocuments
  BY <1>1, <1>2, <1>3, <1>7 DEF MaterializeDocuments, Create, Files
<1>8. CASE Publish
  BY <1>2, <1>3, <1>8 DEF Publish, Create
<1>9. CASE CollectScope
  <2> DEFINE c == [cmd EXCEPT !.touched = @ \ {"python"}]
  <2>1. /\ c \in Commands /\ c.at = cmd.at /\ c.cfg = cmd.cfg /\ c.outcome = cmd.outcome
        /\ c.quarantine = cmd.quarantine
    BY <1>1 DEF Commands
  <2>2. (At("scope") /\ Advance(c) /\ Quietly /\ UNCHANGED <<files, torn>>) \/ Refuse
    BY <1>9 DEF CollectScope
  <2> HIDE DEF c
  <2> QED
    BY <1>3, <2>1, <2>2, CommittedOn
<1>10. CASE Analyse
  <2> DEFINE c == [cmd EXCEPT !.plan = [k \in Analysed |-> content[k]]]
  <2>1. /\ c \in Commands /\ c.at = cmd.at /\ c.cfg = cmd.cfg /\ c.outcome = cmd.outcome
        /\ c.quarantine = cmd.quarantine
    BY <1>1 DEF Commands, Analysed, Inputs, LInv, LifecycleTypeOK
  <2>2. At("analyse") /\ Advance(c) /\ Quietly /\ UNCHANGED <<files, torn>>
    BY <1>10 DEF Analyse, Keep
  <2> HIDE DEF c
  <2> QED
    BY <2>1, <2>2, CommittedOn
<1>11. CASE PrepareHost
  <2> DEFINE c == [cmd EXCEPT !.touched = @ \ {"tools"}, !.quarantine = TRUE]
  <2>1. /\ c \in Commands /\ c.at = cmd.at /\ c.cfg = cmd.cfg /\ c.outcome = cmd.outcome
    BY <1>1 DEF Commands
  <2>2. (At("host") /\ Advance(c) /\ Quietly /\ UNCHANGED <<files, torn>>) \/ Refuse
    BY <1>11 DEF PrepareHost
  <2> HIDE DEF c
  <2> QED
    BY <1>3, <2>1, <2>2, CommittedOn
<1>12. CASE Generate
  <2> DEFINE m == [cmd.made EXCEPT !["python"] = content["python"]]
             c == [cmd EXCEPT !.made = m]
  <2>1. m \in [Inputs -> Content] /\ [cmd EXCEPT !.made["python"] = content["python"]] = c
    BY <1>1 DEF Commands, Inputs, LInv, LifecycleTypeOK
  <2> HIDE DEF m
  <2>2. /\ c \in Commands /\ c.at = cmd.at /\ c.cfg = cmd.cfg /\ c.outcome = cmd.outcome
        /\ c.quarantine = cmd.quarantine
    BY <1>1, <2>1 DEF Commands
  <2> HIDE DEF c
  <2> QED
    BY <1>12, <2>1, <2>2, CommittedOn DEF Generate, Keep
<1>13. CASE CollectLicense
  <2> DEFINE c == [cmd EXCEPT !.license = content["license"]]
  <2>1. /\ c \in Commands /\ c.at = cmd.at /\ c.cfg = cmd.cfg /\ c.outcome = cmd.outcome
        /\ c.quarantine = cmd.quarantine
    BY <1>1 DEF Commands, Inputs, LInv, LifecycleTypeOK
  <2>2. At("license") /\ Advance(c) /\ Quietly /\ UNCHANGED <<files, torn>>
    BY <1>13 DEF CollectLicense, Keep
  <2> HIDE DEF c
  <2> QED
    BY <2>1, <2>2, CommittedOn
<1>14. CASE Build
  <2> DEFINE m == [BuildInputs EXCEPT !["python"] = cmd.made["python"], !["tools"] = content["tools"],
                                      !["support"] = content["support"]]
             c == [cmd EXCEPT !.made = m]
  <2>1. m \in [Inputs -> Content]
    <3>1. BuildInputs \in [Inputs -> Content] /\ cmd.made \in [Inputs -> Content]
      BY <1>1, Derived DEF LInv, Commands
    <3> QED
      BY <3>1 DEF LInv, LifecycleTypeOK, Inputs
  <2>2. At("build") /\ Advance(c) /\ Quietly /\ UNCHANGED <<files, torn>>
    BY <1>14 DEF Build, Keep
  <2> HIDE DEF m
  <2>3. /\ c \in Commands /\ c.at = cmd.at /\ c.cfg = cmd.cfg /\ c.outcome = cmd.outcome
        /\ c.quarantine = cmd.quarantine
    BY <1>1, <2>1 DEF Commands
  <2> HIDE DEF c
  <2> QED
    BY <2>2, <2>3, CommittedOn
<1>15. CASE CompleteCleanup \/ ExitHost
  <2> DEFINE c == [cmd EXCEPT !.quarantine = FALSE]
  <2>1. /\ c \in Commands /\ c.at = cmd.at /\ c.cfg = cmd.cfg /\ c.outcome = cmd.outcome
        /\ ~ c.quarantine
    BY <1>1 DEF Commands
  <2> HIDE DEF c
  <2> QED
    BY <1>3, <1>15, <2>1, CommittedOn DEF CompleteCleanup, ExitHost, Keep, c
<1> QED
  BY <1>3, <1>4, <1>5, <1>6, <1>7, <1>8, <1>9, <1>10, <1>11, <1>12, <1>13, <1>14, <1>15 DEF Stage

LEMMA CommittedStep == LInv /\ Committed /\ [LifecycleNext]_lifecycleVars => Committed'
<1> SUFFICES ASSUME LInv, Committed, [LifecycleNext]_lifecycleVars PROVE Committed'
  OBVIOUS
<1>1. CASE ~ Runs'
  BY <1>1 DEF Committed
<1>2. CASE Stage /\ Runs'
  BY <1>2, CommittedStage
<1>3. CASE Start
  <2>1. NoCommand \in Commands /\ NoCommand.at = 1
    BY DEF NoCommand, NoConfig, Fresh, Commands, Configs, Content, Inputs, Pinned, Analysed
  <2>2. cmd'.at = 1
    BY <1>3, <2>1 DEF Start, Commands
  <2> QED
    BY <1>3, <2>2 DEF Start, Committed
<1>4. CASE Owner
  <2>1. ~ Runs /\ cmd' = cmd
    BY <1>4 DEF Owner, FinalizePolicy, PinPolicy, Sign, ConfigureSignature, ChangeSettings, Review,
                Discard, OwnerActs
  <2> QED
    BY <2>1 DEF Committed, Runs
<1>5. CASE Edit
  <2>1. /\ files' = files /\ found' = found /\ cmd'.at = cmd.at /\ cmd'.cfg = cmd.cfg
        /\ cmd'.quarantine = cmd.quarantine /\ cmd'.outcome = cmd.outcome
    BY <1>5 DEF Edit, LInv, LifecycleTypeOK, Commands
  <2> QED
    BY <2>1 DEF Committed, Runs
<1>6. CASE Fail \/ FailReport \/ Killing
  BY <1>1, <1>6, Ended DEF Fail, FailReport, Killing
<1>7. CASE UNCHANGED lifecycleVars
  BY <1>7 DEF lifecycleVars, Committed, Runs
<1> QED
  BY <1>1, <1>2, <1>3, <1>4, <1>5, <1>6, <1>7 DEF LifecycleNext

\* The publication is the last thing that can fail.
THEOREM NothingFailsAfterCommit == LifecycleSpec => CommitIsLast
<1> DEFINE NotAfter == cmd.outcome # "refused" /\ cmd'.outcome = "refused" => files'.bundle = found'
<1>1. ASSUME LInv, Committed, [LifecycleNext]_lifecycleVars, ~ UNCHANGED lifecycleVars,
             cmd.outcome # "refused", cmd'.outcome = "refused"
      PROVE  files'.bundle = found'
  <2>1. Start => files'.bundle = found'
    BY DEF Start
  <2>2. Owner \/ Edit \/ FailReport \/ Killing => FALSE
    <3>1. Owner => cmd' = cmd
      BY DEF Owner, FinalizePolicy, PinPolicy, Sign, ConfigureSignature, ChangeSettings, Review,
             Discard, OwnerActs
    <3>2. Edit => cmd'.outcome = cmd.outcome
      BY <1>1 DEF Edit, LInv, LifecycleTypeOK, Commands
    <3>3. FailReport \/ Killing => cmd'.outcome # "refused"
      BY Ended DEF FailReport, Killing
    <3> QED
      BY <1>1, <3>1, <3>2, <3>3
  <2>3. ASSUME Fail PROVE files'.bundle = found'
    <3>1. Runs /\ found' = found /\ ~ At("report") /\ (At("exit") => cmd.quarantine)
      BY <2>3 DEF Fail, Fault
    <3>2. files'.bundle = files.bundle
      BY <1>1, <2>3, Left DEF Fail
    <3>3. /\ Lifecycle(cmd.cfg) \in DOMAIN Last /\ cmd.at <= Last[Lifecycle(cmd.cfg)] /\ cmd.at \in 1..30
      BY <1>1, <3>1, Places DEF LInv, Placed, LifecycleTypeOK, Commands
    <3>4. Lifecycle(cmd.cfg) = "publication" => cmd.at <= 28
      <4>1. Lifecycle(cmd.cfg) = "publication" /\ cmd.at = 29 => At("exit")
        BY <3>1, Closings DEF At
      <4>2. Lifecycle(cmd.cfg) = "publication" /\ cmd.at = 30 => At("report")
        BY <3>1, Closings DEF At
      <4> QED
        BY <1>1, <3>1, <3>3, <4>1, <4>2 DEF Committed
    <3> QED
      BY <1>1, <3>1, <3>2, <3>4 DEF Committed
  <2>4. ASSUME Stage PROVE files'.bundle = found'
    <3>1. ASSUME NEW stage, At(stage), stage \notin {"exit", "report"}, Refuse PROVE files'.bundle = found'
      <4>1. files' = files /\ found' = found /\ Runs
        BY <3>1 DEF Refuse, Quietly, witnessed, At
      <4>2. Lifecycle(cmd.cfg) = "publication" => cmd.at \notin {29, 30}
        BY <3>1, Closings DEF At
      <4>3. cmd.at \in 1..30
        BY <1>1 DEF LInv, LifecycleTypeOK, Commands
      <4> QED
        BY <1>1, <4>1, <4>2, <4>3 DEF Committed
    <3>2. \A c \in Commands : Advance(c) => cmd'.outcome = c.outcome
      BY DEF Advance, Commands
    <3>3. Advance(cmd) => cmd'.outcome # "refused"
      BY <1>1, <3>2 DEF LInv, LifecycleTypeOK
    <3>4. Report => cmd'.outcome # "refused"
      BY <1>1, Ended, Places DEF Report, LInv, At
    <3>5. ASSUME \/ RequireScope \/ VerifySourceLock \/ RequireTools \/ WalkSupport \/ Reanalyse
                 \/ CollectLicenseAgain \/ Regenerate \/ Replay \/ Recapture \/ RequireLocks
                 \/ LoadPolicy \/ ValidateMaterial \/ DerivePlan \/ Authorize
          PROVE  files'.bundle = found'
      BY <1>1, <3>1, <3>3, <3>5
      DEF RequireScope, VerifySourceLock, RequireTools, WalkSupport, Reanalyse, CollectLicenseAgain, Regenerate,
          Replay, Recapture, RequireLocks, LoadPolicy, ValidateMaterial, DerivePlan, Authorize, Check
    <3>6. ASSUME \/ MaterializeBootstrap \/ MaterializeRequest \/ MaterializeDocuments \/ Publish
          PROVE  files'.bundle = found'
      BY <1>1, <3>1, <3>3, <3>6
      DEF MaterializeBootstrap, MaterializeRequest, MaterializeDocuments, Publish, Create
    <3>7. ASSUME \/ Analyse \/ Generate \/ CollectLicense \/ Build \/ ExitHost PROVE FALSE
      <4>1. cmd \in Commands /\ cmd.outcome = "running"
        BY <1>1, <3>7 DEF Analyse, Generate, CollectLicense, Build, ExitHost, Keep, At, Runs,
                          LInv, LifecycleTypeOK
      <4> QED
        BY <1>1, <3>7, <4>1
           DEF Analyse, Generate, CollectLicense, Build, ExitHost, Keep, Advance, Commands
    <3>8. ASSUME CollectScope \/ PrepareHost \/ CompleteCleanup PROVE files'.bundle = found'
      BY <1>1, <3>1, <3>8
         DEF CollectScope, PrepareHost, CompleteCleanup, Advance, Commands, LInv, LifecycleTypeOK
    <3> QED
      BY <1>1, <2>4, <3>4, <3>5, <3>6, <3>7, <3>8 DEF Stage
  <2> QED
    BY <1>1, <2>1, <2>2, <2>3, <2>4 DEF LifecycleNext
<1>2. LInv /\ Committed /\ [LifecycleNext]_lifecycleVars => [NotAfter]_lifecycleVars
  BY <1>1
<1> HIDE DEF NotAfter
<1>3. LifecycleSpec => [][NotAfter]_lifecycleVars
  BY <1>2, LInvInit, LInvStep, CommittedInit, CommittedStep, PTL DEF LifecycleSpec
<1> QED
  BY <1>3 DEF CommitIsLast, NotAfter
-----------------------------------------------------------------------------
(* The decision.                                                           *)

\* From the collection of the license on, what the run has in memory is what there
\* is, and there is one request that the owner could have approved.
LEMMA Agrees ==
  ASSUME LInv, Runs, Observed, cmd.at > 11
  PROVE  /\ BuildInputs = content
         /\ \A r \in Lineages : Approved(r) <=> r = BootstrapRequest
         /\ \A q \in Requests : Answers(q) <=> q = AuthorizationRequest
<1>1. /\ BuildInputs \in [Inputs -> Content] /\ content \in [Inputs -> Content]
      /\ cmd.at \in 1..30 /\ cmd.cfg = config /\ config \in Configs
  BY Derived DEF LInv, LifecycleTypeOK, Commands, Placed
<1>2. BuildInputs = content
  <2>1. \A k \in Inputs : BuildInputs[k] = content[k]
    BY <1>1, Reads DEF Observed, Inputs, Analysed
  <2> QED
    BY <1>1, <2>1
<1>3. ASSUME NEW r \in Lineages PROVE Approved(r) <=> r = BootstrapRequest
  <2>1. BootstrapRequest = [identity |-> Identity(config), inputs |-> content]
    BY <1>1, <1>2 DEF BootstrapRequest
  <2>2. Identity(config) = [settings |-> config.settings, pins |-> config.pins,
                            policy |-> {}, signature |-> FALSE]
    BY DEF Identity
  <2>3. r.identity \in Identities /\ r = [identity |-> r.identity, inputs |-> r.inputs]
    BY <1>3 DEF Lineages
  <2>4. r.identity = [settings |-> r.identity.settings, pins |-> r.identity.pins,
                      policy |-> {}, signature |-> FALSE]
    BY <2>3 DEF Identities
  <2>5. CASE Approved(r)
    BY <2>1, <2>2, <2>3, <2>4, <2>5 DEF Approved
  <2>6. CASE r = BootstrapRequest
    <3>1. r.inputs = content /\ r.identity = Identity(config)
      BY <2>1, <2>6
    <3>2. r.identity.settings = config.settings /\ r.identity.pins = config.pins
      BY <2>2, <3>1
    <3> QED
      BY <2>6, <3>1, <3>2 DEF Approved
  <2> QED
    BY <2>5, <2>6
<1>4. ASSUME NEW q \in Requests PROVE Answers(q) <=> q = AuthorizationRequest
  <2>1. q.lineage \in Lineages /\ q = [lineage |-> q.lineage, policy |-> q.policy]
    BY <1>4 DEF Requests
  <2>2. Answers(q) <=> q.lineage = BootstrapRequest /\ q.policy = config.policy
    BY <1>3, <2>1 DEF Answers
  <2>3. AuthorizationRequest = [lineage |-> BootstrapRequest, policy |-> config.policy]
    BY <1>1 DEF AuthorizationRequest
  <2> HIDE DEF BootstrapRequest, AuthorizationRequest, Answers
  <2> QED
    BY <2>1, <2>2, <2>3
<1> QED
  BY <1>2, <1>3, <1>4

\* What the builds read is what there is, once the walk after them has passed.
LEMMA MadeAsFound ==
  ASSUME LInv, Runs, Observed, cmd.at > 14
  PROVE  Bundle.made = content
<1>1. cmd.at \in 1..30 /\ cmd.made \in [Inputs -> Content] /\ content \in [Inputs -> Content]
  BY DEF LInv, LifecycleTypeOK, Commands
<1>2. BuildInputs = content
  BY <1>1, Agrees
<1>3. /\ cmd.made["python"] = content["python"] /\ cmd.made["support"] = content["support"]
      /\ cmd.made["tools"] = content["tools"]
  BY <1>1, <1>2, Reads DEF Observed, LInv, Bound, ToolsBound
<1>4. \A k \in {"stubs", "vendor", "wheel", "license"} : cmd.made[k] = content[k]
  BY <1>1, <1>2 DEF LInv, Bound, MemoryBound
<1>5. cmd.made = content
  BY <1>1, <1>3, <1>4 DEF Inputs
<1> QED
  BY <1>5 DEF Bundle

\* What a stage adds to what has been observed.
LEMMA ObservedOn ==
  ASSUME LInv, Runs, Observed, UNCHANGED <<content, attested, config>>, cmd'.at = cmd.at + 1,
         cmd'.touched \subseteq cmd.touched,
         cmd.at = 1 => "python" \notin cmd'.touched /\ content["vendor"] = config.pins["vendor"],
         cmd.at = 3 => content["wheel"] = config.pins["wheel"],
         IF cmd.at = 4 THEN \A k \in Analysed : cmd'.plan[k] = content[k] ELSE cmd'.plan = cmd.plan,
         cmd.at = 6 => /\ "tools" \notin cmd'.touched /\ content["tools"] = config.pins["tools"]
                       /\ content["support"] = config.pins["support"],
         cmd'.made["python"] = IF cmd.at = 10 THEN content["python"] ELSE cmd.made["python"],
         cmd'.license = IF cmd.at = 11 THEN content["license"] ELSE cmd.license,
         cmd.at = 13 => cmd'.made["support"] = content["support"],
         cmd.at > 13 => cmd'.made = cmd.made,
         cmd.at = 20 => \A k \in Attested : attested[k] = content[k]
  PROVE  Observed'
<1>1. cmd.at \in 1..30
  BY DEF LInv, LifecycleTypeOK, Commands
<1> QED
  BY <1>1 DEF Observed

\* And to what has been accepted: every file but the one of the stage stays.
LEMMA AcceptedOn ==
  ASSUME LInv, Runs, Accepted, UNCHANGED <<config, torn>>, cmd'.at = cmd.at + 1, cmd'.cfg = cmd.cfg,
         cmd.at > 13 => cmd'.plan = cmd.plan /\ cmd'.license = cmd.license /\ cmd'.made = cmd.made,
         files'.policy = files.policy, files'.signature = files.signature,
         files'.bootstrap \in {files.bootstrap, {BootstrapRequest}},
         files'.request \in {files.request, {AuthorizationRequest}},
         files'.documents \in {files.documents, {AuthorizationRequest}},
         files'.bundle \in {files.bundle, {Bundle}},
         Lifecycle(config) = "bootstrap" /\ cmd.at = 22 =>
           files'.bootstrap = {BootstrapRequest} /\ "bootstrap" \notin torn,
         Lifecycle(config) # "bootstrap" /\ cmd.at = 21 =>
           files.policy = config.policy /\ \A p \in files.policy : p.request = BootstrapRequest,
         Lifecycle(config) = "signing" /\ cmd.at = 23 => files'.request = {AuthorizationRequest},
         Lifecycle(config) = "publication" =>
           /\ cmd.at = 25 => files'.request = {AuthorizationRequest}
           /\ cmd.at = 26 => files'.signature = {AuthorizationRequest}
           /\ cmd.at = 27 => files'.documents = {AuthorizationRequest} /\ "documents" \notin torn
           /\ cmd.at = 28 => files'.bundle = {Bundle}
  PROVE  Accepted'
<1>1. cmd.at \in 1..30
  BY DEF LInv, LifecycleTypeOK, Commands
<1>2. CASE cmd.at <= 13
  BY <1>1, <1>2 DEF Accepted
<1>3. CASE cmd.at > 13
  <2>1. BuildInputs' = BuildInputs /\ BootstrapRequest' = BootstrapRequest
    BY <1>3 DEF BuildInputs, BootstrapRequest
  <2>2. AuthorizationRequest' = AuthorizationRequest
    BY <2>1 DEF AuthorizationRequest
  <2>3. Bundle' = Bundle
    BY <1>3, <2>2 DEF Bundle
  <2>4. Lifecycle(config)' = Lifecycle(config)
    OBVIOUS
  <2> HIDE DEF BootstrapRequest, AuthorizationRequest, Bundle, Lifecycle
  <2> QED
    BY <1>1, <1>3, <2>1, <2>2, <2>3, <2>4 DEF Accepted
<1> QED
  BY <1>1, <1>2, <1>3

\* A command that nobody disturbs, and what becomes of it.
OnCourse == LInv /\ Single /\ Runs /\ calm /\ (foreseen <=> InOrder) /\ Observed /\ Accepted
Decided  == Undisturbed /\ DecidedByProject

LEMMA RefusedRightly ==
  ASSUME OnCourse, Refuse, ~ InOrder
  PROVE  Decided'
<1>1. ~ Runs' /\ cmd'.outcome = "refused"
  BY Ended DEF Refuse
<1>2. UNCHANGED <<foreseen, calm>>
  BY DEF Refuse, Quietly, witnessed
<1> QED
  BY <1>1, <1>2 DEF Decided, Undisturbed, DecidedByProject, OnCourse

LEMMA GoesOn ==
  ASSUME OnCourse, Runs', Quietly, InOrder' <=> InOrder, Observed', Accepted'
  PROVE  Decided'
<1>1. UNCHANGED <<foreseen, calm>>
  BY DEF Quietly, witnessed
<1> QED
  BY <1>1 DEF Decided, Undisturbed, DecidedByProject, OnCourse, Runs

\* The order of the project is a matter of its files.
LEMMA SameOrder ==
  ASSUME UNCHANGED <<content, attested, config, files, torn>>
  PROVE  InOrder' <=> InOrder
BY DEF InOrder, Approved, Answers

\* A stage that passes without changing a file.
LEMMA Looked ==
  ASSUME OnCourse, NEW stage, At(stage), NEW c \in Commands, Advance(c), Quietly, UNCHANGED <<files, torn>>,
         c.at = cmd.at, c.cfg = cmd.cfg, c.outcome = cmd.outcome, c.touched \subseteq cmd.touched,
         stage \notin {"report", "bootstrap", "request", "documents", "publish"},
         stage = "scope" => "python" \notin c.touched /\ content["vendor"] = config.pins["vendor"],
         stage = "sourceLock" => content["wheel"] = config.pins["wheel"],
         IF stage = "analyse" THEN \A k \in Analysed : c.plan[k] = content[k] ELSE c.plan = cmd.plan,
         stage = "host" => /\ "tools" \notin c.touched /\ content["tools"] = config.pins["tools"]
                           /\ content["support"] = config.pins["support"],
         c.made["python"] = IF stage = "generate" THEN content["python"] ELSE cmd.made["python"],
         stage \in {"generate", "build"} \/ c.made = cmd.made,
         stage = "build" => c.made["support"] = content["support"],
         c.license = IF stage = "license" THEN content["license"] ELSE cmd.license,
         stage = "locks" => \A k \in Attested : attested[k] = content[k],
         stage = "policy" => files.policy = config.policy
                               /\ \A p \in files.policy : p.request = BootstrapRequest,
         stage = "gate" => files.signature = {AuthorizationRequest}
  PROVE  Decided'
<1>1. UNCHANGED <<content, attested, config>>
  BY DEF Quietly, project
<1>2. LInv /\ Runs /\ Observed /\ Accepted
  BY DEF OnCourse
<1>3. /\ cmd' \in Commands /\ Runs' /\ cmd'.at = cmd.at + 1 /\ cmd'.cfg = cmd.cfg
      /\ cmd'.touched = c.touched /\ cmd'.plan = c.plan /\ cmd'.license = c.license
      /\ cmd'.made = c.made
  BY <1>1, <1>2, Advanced
<1>4. /\ Lifecycle(cmd.cfg) \in DOMAIN Last /\ Script[Lifecycle(cmd.cfg)][cmd.at] = stage
      /\ cmd.cfg = config
  BY <1>2 DEF At, LInv, Placed
<1>5. /\ cmd.at = 1 <=> stage = "scope"
      /\ cmd.at = 3 <=> stage = "sourceLock"
      /\ cmd.at = 4 <=> stage = "analyse"
      /\ cmd.at = 6 <=> stage = "host"
      /\ cmd.at = 10 <=> stage = "generate"
      /\ cmd.at = 11 <=> stage = "license"
      /\ cmd.at = 13 <=> stage = "build"
      /\ cmd.at = 20 <=> stage = "locks"
  BY <1>2, <1>4, Openings, Places DEF LInv
<1>8. cmd.at > 13 => cmd'.plan = cmd.plan /\ cmd'.license = cmd.license /\ cmd'.made = cmd.made
  <2>1. cmd.at \in 1..30
    BY <1>2 DEF LInv, LifecycleTypeOK, Commands
  <2> QED
    BY <1>3, <1>5, <2>1
<1>6. Observed'
  BY <1>1, <1>2, <1>3, <1>5, <1>8, ObservedOn
<1>7. /\ Lifecycle(config) = "bootstrap" => cmd.at # 22
      /\ Lifecycle(config) = "signing" => cmd.at # 23 /\ (cmd.at = 21 => stage = "policy")
      /\ Lifecycle(config) = "publication" =>
           /\ cmd.at \notin {25, 27, 28}
           /\ cmd.at = 21 => stage = "policy"
           /\ cmd.at = 26 => stage = "gate"
      /\ Lifecycle(config) \in {"bootstrap", "signing", "publication"}
  BY <1>4, Closings DEF Last
<1>9. Accepted'
  BY <1>1, <1>2, <1>3, <1>7, <1>8, AcceptedOn
<1> QED
  BY <1>1, <1>3, <1>6, <1>9, SameOrder, GoesOn

\* A stage that only looks refuses for cause, and what it passes is so.
LEMMA LooksDecide ==
  ASSUME OnCourse, \/ RequireScope \/ VerifySourceLock \/ RequireTools \/ WalkSupport \/ Reanalyse
                   \/ CollectLicenseAgain \/ Regenerate \/ Replay \/ Recapture \/ RequireLocks
                   \/ LoadPolicy \/ ValidateMaterial \/ DerivePlan \/ Authorize
  PROVE  Decided'
<1>1. /\ LInv /\ Runs /\ Observed /\ Accepted /\ cmd \in Commands /\ cmd.cfg = config /\ cmd.at \in 1..30
      /\ files \in Files /\ content \in [Inputs -> Content] /\ attested \in [Attested -> Content]
  BY DEF OnCourse, LInv, LifecycleTypeOK, Placed, Commands
<1>2. ASSUME NEW stage, At(stage), Advance(cmd), Quietly, UNCHANGED <<files, torn>>,
             stage \notin {"report", "bootstrap", "request", "documents", "publish",
                           "scope", "analyse", "host", "generate", "license", "build"},
             stage = "sourceLock" => content["wheel"] = config.pins["wheel"],
             stage = "locks" => \A k \in Attested : attested[k] = content[k],
             stage = "policy" => files.policy = config.policy
                                   /\ \A p \in files.policy : p.request = BootstrapRequest,
             stage = "gate" => files.signature = {AuthorizationRequest}
      PROVE  Decided'
  BY <1>1, <1>2, Looked
<1>3. ASSUME At("holds") \/ At("tools") \/ At("reanalyse") \/ At("relicense") \/ At("regenerate") \/ At("replay")
             \/ At("recapture") \/ At("valid") \/ At("plan") \/ At("gate")
      PROVE  /\ ScopeHolds
             /\ At("tools") => ToolsUntouched
             /\ ~ At("holds") /\ ~ At("tools") => SameAnalysis
             /\ ~ At("holds") /\ ~ At("tools") /\ ~ At("reanalyse") => LicenseUnchanged
             /\ At("regenerate") => content["python"] = cmd.made["python"]
             /\ At("recapture") => content["stubs"] = cmd.plan["stubs"]
  BY <1>1, <1>3, Places DEF LInv, Observed, ScopeHolds, NamespaceUntouched, WorkspacePinned,
     ToolsUntouched, SameAnalysis, LicenseUnchanged, Analysed
<1>4. CASE RequireScope
  BY <1>2, <1>3, <1>4 DEF RequireScope, Check
<1>5. CASE VerifySourceLock
  <2>1. CASE ~ (content["wheel"] = config.pins["wheel"]) /\ Refuse
    BY <2>1, RefusedRightly DEF InOrder, Pinned
  <2> QED
    BY <1>1, <1>2, <1>5, <2>1 DEF VerifySourceLock, Check
<1>6. CASE RequireTools
  BY <1>2, <1>3, <1>6 DEF RequireTools, Check
<1>17. CASE WalkSupport
  <2>1. At("walk") \/ At("rewalk") => SupportHolds
    BY <1>1, Places DEF LInv, Observed, SupportHolds, SupportLockPinned, ToolsUntouched
  <2> QED
    BY <1>2, <1>17, <2>1 DEF WalkSupport, Check
<1>7. CASE Reanalyse
  BY <1>1, <1>2, <1>3, <1>7, Places DEF Reanalyse, Check, LInv
<1>8. CASE CollectLicenseAgain
  BY <1>1, <1>2, <1>3, <1>8, Places DEF CollectLicenseAgain, Check, LInv
<1>9. CASE Regenerate
  BY <1>2, <1>3, <1>9 DEF Regenerate, Check
<1>10. CASE Replay
  BY <1>1, <1>2, <1>3, <1>10, Places DEF Replay, Check, LInv
<1>11. CASE Recapture
  BY <1>2, <1>3, <1>11 DEF Recapture, Check
<1>12. CASE RequireLocks
  <2>1. cmd.at = 20
    BY <1>1, <1>12, Places DEF RequireLocks, Check, LInv
  <2>2. BuildInputs = content
    BY <1>1, <2>1, Agrees
  <2>3. SourcesAttested /\ CratesAttested <=> \A k \in Attested : attested[k] = content[k]
    BY <2>2 DEF SourcesAttested, CratesAttested, Attested
  <2>4. CASE ~ (SourcesAttested /\ CratesAttested) /\ Refuse
    BY <2>3, <2>4, RefusedRightly DEF InOrder
  <2> QED
    BY <1>2, <1>12, <2>3, <2>4 DEF RequireLocks, Check
<1>13. CASE LoadPolicy
  <2>1. cmd.at = 21 /\ Lifecycle(config) # "bootstrap"
    BY <1>1, <1>13, Places DEF LoadPolicy, Check, LInv
  <2>2. \A p \in files.policy : Approved(p.request) <=> p.request = BootstrapRequest
    <3>1. \A p \in files.policy : p.request \in Lineages
      BY <1>1 DEF Files, Policies
    <3> QED
      BY <1>1, <2>1, <3>1, Agrees
  <2>3. CASE Refuse /\ ~ (files.policy = config.policy /\ \A p \in files.policy : p.request = BootstrapRequest)
    BY <2>1, <2>2, <2>3, RefusedRightly DEF InOrder
  <2> QED
    BY <1>1, <1>2, <1>13, <2>3 DEF LoadPolicy, Check, PolicyMatches
<1>14. CASE ValidateMaterial
  BY <1>1, <1>2, <1>3, <1>14, Places DEF ValidateMaterial, Check, LInv
<1>15. CASE DerivePlan
  <2>1. At("plan") /\ Lifecycle(config) = "publication"
    BY <1>1, <1>15, Places DEF DerivePlan, Check, LInv
  <2>2. LicenseUnchanged
    BY <1>1, <1>3, <2>1, Places DEF LInv
  <2>3. CASE Refuse /\ files.signature = {}
    BY <2>1, <2>3, RefusedRightly DEF InOrder
  <2> QED
    BY <1>2, <1>15, <2>2, <2>3 DEF DerivePlan, Check
<1>16. CASE Authorize
  <2>1. At("gate") /\ Lifecycle(config) = "publication" /\ cmd.at = 26
    BY <1>1, <1>16, Places DEF Authorize, Check, LInv
  <2>2. LicenseUnchanged
    BY <1>1, <1>3, <2>1, Places DEF LInv
  <2>3. InOrder => SignatureValid
    <3>1. SUFFICES ASSUME InOrder PROVE SignatureValid
      OBVIOUS
    <3>2. PICK q \in files.signature : Answers(q)
      BY <2>1, <3>1 DEF InOrder
    <3>3. q = AuthorizationRequest
      BY <1>1, <2>1, <3>2, Agrees DEF Files
    <3>4. files.signature = {q}
      BY <3>2 DEF OnCourse, Single
    <3> QED
      BY <3>3, <3>4 DEF SignatureValid
  <2>4. CASE Refuse /\ ~ SignatureValid
    BY <2>3, <2>4, RefusedRightly
  <2> QED
    BY <1>2, <1>16, <2>2, <2>4 DEF Authorize, Check, SignatureValid
<1> QED
  BY <1>4, <1>5, <1>6, <1>7, <1>8, <1>9, <1>10, <1>11, <1>12, <1>13, <1>14, <1>15, <1>16,
     <1>17

\* A stage that reads or makes something.
LEMMA LearnsDecide ==
  ASSUME OnCourse, \/ CollectScope \/ Analyse \/ PrepareHost \/ Generate \/ CollectLicense \/ Build
                   \/ CompleteCleanup \/ ExitHost
  PROVE  Decided'
<1>1. /\ LInv /\ Runs /\ Observed /\ Accepted /\ cmd.cfg = config
      /\ cmd \in Commands /\ cmd.at \in 1..30 /\ cmd.touched \subseteq Stamped
      /\ cmd.plan \in [Analysed -> Content] /\ cmd.made \in [Inputs -> Content]
      /\ content \in [Inputs -> Content] /\ cmd.license \in Content
  BY DEF OnCourse, LInv, LifecycleTypeOK, Commands, Placed
<1>2. CASE CollectScope
  <2> DEFINE c == [cmd EXCEPT !.touched = @ \ {"python"}]
  <2>1. /\ c \in Commands /\ c.at = cmd.at /\ c.cfg = cmd.cfg /\ c.outcome = cmd.outcome
        /\ c.touched = cmd.touched \ {"python"} /\ c.plan = cmd.plan /\ c.made = cmd.made
        /\ c.license = cmd.license
    BY <1>1 DEF Commands
  <2>2. \/ At("scope") /\ Advance(c) /\ Quietly /\ UNCHANGED <<files, torn>> /\ WorkspacePinned
        \/ Refuse /\ ~ WorkspacePinned
    BY <1>2 DEF CollectScope
  <2> HIDE DEF c
  <2>3. CASE At("scope") /\ Advance(c) /\ Quietly /\ UNCHANGED <<files, torn>> /\ WorkspacePinned
    BY <1>1, <2>1, <2>3, Looked DEF WorkspacePinned
  <2>4. CASE Refuse /\ ~ WorkspacePinned
    BY <1>1, <2>4, RefusedRightly DEF WorkspacePinned, InOrder, Pinned
  <2> QED
    BY <2>2, <2>3, <2>4
<1>3. CASE Analyse
  <2> DEFINE c == [cmd EXCEPT !.plan = [k \in Analysed |-> content[k]]]
  <2>1. /\ c \in Commands /\ c.at = cmd.at /\ c.cfg = cmd.cfg /\ c.outcome = cmd.outcome
        /\ c.touched = cmd.touched /\ (\A k \in Analysed : c.plan[k] = content[k]) /\ c.made = cmd.made
        /\ c.license = cmd.license
    BY <1>1 DEF Commands, Analysed, Inputs
  <2>2. At("analyse") /\ Advance(c) /\ Quietly /\ UNCHANGED <<files, torn>>
    BY <1>3 DEF Analyse, Keep
  <2> HIDE DEF c
  <2> QED
    BY <2>1, <2>2, Looked
<1>4. CASE PrepareHost
  <2> DEFINE c == [cmd EXCEPT !.touched = @ \ {"tools"}, !.quarantine = TRUE]
  <2>1. /\ c \in Commands /\ c.at = cmd.at /\ c.cfg = cmd.cfg /\ c.outcome = cmd.outcome
        /\ c.touched = cmd.touched \ {"tools"} /\ c.plan = cmd.plan /\ c.made = cmd.made
        /\ c.license = cmd.license
    BY <1>1 DEF Commands
  <2>2. \/ /\ At("host") /\ Advance(c) /\ Quietly /\ UNCHANGED <<files, torn>>
           /\ SupportLockPinned /\ WorkspacePinned
        \/ Refuse /\ ~ (SupportLockPinned /\ WorkspacePinned)
    BY <1>4 DEF PrepareHost
  <2> HIDE DEF c
  <2>3. CASE /\ At("host") /\ Advance(c) /\ Quietly /\ UNCHANGED <<files, torn>>
             /\ SupportLockPinned /\ WorkspacePinned
    BY <1>1, <2>1, <2>3, Looked DEF SupportLockPinned
  <2>4. CASE Refuse /\ ~ (SupportLockPinned /\ WorkspacePinned)
    BY <1>1, <2>4, RefusedRightly DEF SupportLockPinned, WorkspacePinned, InOrder, Pinned
  <2> QED
    BY <2>2, <2>3, <2>4
<1>5. CASE Generate
  <2> DEFINE m == [cmd.made EXCEPT !["python"] = content["python"]]
             c == [cmd EXCEPT !.made = m]
  <2>1. /\ m \in [Inputs -> Content] /\ m["python"] = content["python"]
        /\ [cmd EXCEPT !.made["python"] = content["python"]] = c
    BY <1>1 DEF Commands, Inputs
  <2> HIDE DEF m
  <2>2. /\ c \in Commands /\ c.at = cmd.at /\ c.cfg = cmd.cfg /\ c.outcome = cmd.outcome
        /\ c.touched = cmd.touched /\ c.plan = cmd.plan /\ c.made = m /\ c.license = cmd.license
    BY <1>1, <2>1 DEF Commands
  <2> HIDE DEF c
  <2>3. At("generate") /\ Advance(c) /\ Quietly /\ UNCHANGED <<files, torn>>
    BY <1>5, <2>1 DEF Generate, Keep
  <2> QED
    BY <2>1, <2>2, <2>3, Looked
<1>6. CASE CollectLicense
  <2> DEFINE c == [cmd EXCEPT !.license = content["license"]]
  <2>1. /\ c \in Commands /\ c.at = cmd.at /\ c.cfg = cmd.cfg /\ c.outcome = cmd.outcome
        /\ c.touched = cmd.touched /\ c.plan = cmd.plan /\ c.made = cmd.made
        /\ c.license = content["license"]
    BY <1>1 DEF Commands, Inputs
  <2>2. At("license") /\ Advance(c) /\ Quietly /\ UNCHANGED <<files, torn>>
    BY <1>6 DEF CollectLicense, Keep
  <2> HIDE DEF c
  <2> QED
    BY <2>1, <2>2, Looked
<1>7. CASE Build
  <2> DEFINE m == [BuildInputs EXCEPT !["python"] = cmd.made["python"], !["tools"] = content["tools"],
                                      !["support"] = content["support"]]
             c == [cmd EXCEPT !.made = m]
  <2>1. m \in [Inputs -> Content] /\ m["python"] = cmd.made["python"] /\ m["support"] = content["support"]
    <3>1. BuildInputs \in [Inputs -> Content]
      BY <1>1, Derived DEF LInv
    <3> QED
      BY <1>1, <3>1 DEF Inputs
  <2>2. At("build") /\ Advance(c) /\ Quietly /\ UNCHANGED <<files, torn>>
    BY <1>7 DEF Build, Keep
  <2> HIDE DEF m
  <2>3. /\ c \in Commands /\ c.at = cmd.at /\ c.cfg = cmd.cfg /\ c.outcome = cmd.outcome
        /\ c.touched = cmd.touched /\ c.plan = cmd.plan /\ c.made = m /\ c.license = cmd.license
    BY <1>1, <2>1 DEF Commands
  <2> HIDE DEF c
  <2> QED
    BY <2>1, <2>2, <2>3, Looked
<1>8. CASE CompleteCleanup \/ ExitHost
  <2> DEFINE c == [cmd EXCEPT !.quarantine = FALSE]
  <2>1. /\ c \in Commands /\ c.at = cmd.at /\ c.cfg = cmd.cfg /\ c.outcome = cmd.outcome
        /\ c.touched = cmd.touched /\ c.plan = cmd.plan /\ c.made = cmd.made /\ c.license = cmd.license
    BY <1>1 DEF Commands
  <2>2. \/ (At("cleanup") \/ At("exit")) /\ Advance(c) /\ Quietly /\ UNCHANGED <<files, torn>>
        \/ At("cleanup") /\ ~ LicenseUnchanged
    BY <1>8 DEF CompleteCleanup, ExitHost, Keep
  <2>3. At("cleanup") => LicenseUnchanged
    BY <1>1, Places DEF LInv, Observed, LicenseUnchanged
  <2> HIDE DEF c
  <2>4. ASSUME NEW stage \in {"cleanup", "exit"}, At(stage), Advance(c), Quietly, UNCHANGED <<files, torn>>
        PROVE  Decided'
    BY <2>1, <2>4, Looked
  <2> QED
    BY <2>2, <2>3, <2>4
<1> QED
  BY <1>2, <1>3, <1>4, <1>5, <1>6, <1>7, <1>8

\* What a run writes is approved, and so was what it replaces.
LEMMA OrderKept ==
  ASSUME UNCHANGED <<content, attested, config, torn>>,
         files'.policy = files.policy, files'.signature = files.signature,
         files'.bootstrap = files.bootstrap
           \/ \A r \in files.bootstrap \cup files'.bootstrap : Approved(r),
         files'.request = files.request \/ \A q \in files.request \cup files'.request : Answers(q),
         files'.documents = files.documents
           \/ \A q \in files.documents \cup files'.documents : Answers(q),
         files'.bundle = files.bundle
           \/ \A b \in files.bundle \cup files'.bundle : Answers(b.signed) /\ b.made = content
  PROVE  InOrder' <=> InOrder
<1>1. /\ \A r : Approved(r)' <=> Approved(r)
      /\ \A q : Answers(q)' <=> Answers(q)
  BY DEF Approved, Answers
<1>2. Lifecycle(config)' = Lifecycle(config)
  OBVIOUS
<1> HIDE DEF Approved, Answers, Lifecycle
<1> QED
  BY <1>1, <1>2 DEF InOrder

\* A stage that writes refuses only if something else is in its way.
LEMMA WritesDecide ==
  ASSUME OnCourse, \/ MaterializeBootstrap \/ MaterializeRequest \/ MaterializeDocuments \/ Publish
  PROVE  Decided'
<1>1. /\ LInv /\ Runs /\ Observed /\ Accepted /\ cmd \in Commands /\ cmd.cfg = config /\ cmd.at \in 1..30
      /\ files \in Files /\ torn \subseteq {"bootstrap", "documents"}
  BY DEF OnCourse, LInv, LifecycleTypeOK, Placed, Commands
<1>2. BootstrapRequest \in Lineages /\ AuthorizationRequest \in Requests
  BY <1>1, Derived DEF LInv
<1>3. ASSUME NEW stage, At(stage), stage # "report", cmd.at > 21, Advance(cmd), Quietly
      PROVE  /\ Runs' /\ Observed' /\ UNCHANGED <<content, attested, config>>
             /\ cmd'.at = cmd.at + 1 /\ cmd'.cfg = cmd.cfg
             /\ cmd'.plan = cmd.plan /\ cmd'.license = cmd.license /\ cmd'.made = cmd.made
  <2>1. UNCHANGED <<content, attested, config>>
    BY <1>3 DEF Quietly, project
  <2>2. /\ Runs' /\ cmd'.at = cmd.at + 1 /\ cmd'.cfg = cmd.cfg /\ cmd'.touched = cmd.touched
        /\ cmd'.plan = cmd.plan /\ cmd'.license = cmd.license /\ cmd'.made = cmd.made
    BY <1>1, <1>3, <2>1, Advanced
  <2> QED
    BY <1>1, <1>3, <2>1, <2>2, ObservedOn
<1>4. CASE MaterializeBootstrap
  <2>1. At("bootstrap") /\ Lifecycle(config) = "bootstrap" /\ cmd.at = 22
    BY <1>1, <1>4, Places DEF MaterializeBootstrap, Create, LInv
  <2>2. \A r \in Lineages : Approved(r) <=> r = BootstrapRequest
    BY <1>1, <2>1, Agrees
  <2>3. CASE /\ MayWrite("bootstrap", BootstrapRequest) /\ Advance(cmd) /\ Quietly /\ UNCHANGED torn
             /\ files' = [files EXCEPT !["bootstrap"] = {BootstrapRequest}]
    <3>1. /\ files'.bootstrap = {BootstrapRequest} /\ files'.policy = files.policy
          /\ files'.request = files.request /\ files'.signature = files.signature
          /\ files'.documents = files.documents /\ files'.bundle = files.bundle
      BY <1>1, <2>3 DEF Files
    <3>2. \A r \in files.bootstrap \cup files'.bootstrap : Approved(r)
      BY <1>2, <2>2, <2>3, <3>1 DEF MayWrite
    <3>3. /\ Runs' /\ Observed' /\ UNCHANGED <<content, attested, config>>
          /\ cmd'.at = cmd.at + 1 /\ cmd'.cfg = cmd.cfg
          /\ cmd'.plan = cmd.plan /\ cmd'.license = cmd.license /\ cmd'.made = cmd.made
      BY <1>3, <2>1, <2>3
    <3>4. InOrder' <=> InOrder
      BY <2>3, <3>1, <3>2, <3>3, OrderKept
    <3>5. Accepted'
      BY <1>1, <2>1, <2>3, <3>1, <3>3, AcceptedOn DEF MayWrite
    <3> QED
      BY <2>3, <3>3, <3>4, <3>5, GoesOn
  <2>4. CASE ~ MayWrite("bootstrap", BootstrapRequest) /\ Refuse
    <3>1. InOrder => MayWrite("bootstrap", BootstrapRequest)
      BY <1>1, <2>1, <2>2 DEF InOrder, MayWrite, Files
    <3> QED
      BY <2>4, <3>1, RefusedRightly
  <2> QED
    BY <1>4, <2>3, <2>4 DEF MaterializeBootstrap, Create
<1>5. CASE MaterializeRequest
  <2>1. /\ At("request") /\ cmd.at \in {23, 25}
        /\ \/ Lifecycle(config) = "signing" /\ cmd.at = 23
           \/ Lifecycle(config) = "publication" /\ cmd.at = 25
    BY <1>1, <1>5, Places DEF MaterializeRequest, Create, LInv
  <2>2. \A q \in Requests : Answers(q) <=> q = AuthorizationRequest
    BY <1>1, <2>1, Agrees
  <2>3. CASE /\ MayWrite("request", AuthorizationRequest) /\ Advance(cmd) /\ Quietly /\ UNCHANGED torn
             /\ files' = [files EXCEPT !["request"] = {AuthorizationRequest}]
    <3>1. /\ files'.request = {AuthorizationRequest} /\ files'.policy = files.policy
          /\ files'.bootstrap = files.bootstrap /\ files'.signature = files.signature
          /\ files'.documents = files.documents /\ files'.bundle = files.bundle
      BY <1>1, <2>3 DEF Files
    <3>2. \A q \in files.request \cup files'.request : Answers(q)
      BY <1>2, <2>2, <2>3, <3>1 DEF MayWrite
    <3>3. /\ Runs' /\ Observed' /\ UNCHANGED <<content, attested, config>>
          /\ cmd'.at = cmd.at + 1 /\ cmd'.cfg = cmd.cfg
          /\ cmd'.plan = cmd.plan /\ cmd'.license = cmd.license /\ cmd'.made = cmd.made
      BY <1>3, <2>1, <2>3
    <3>4. InOrder' <=> InOrder
      BY <2>3, <3>1, <3>2, <3>3, OrderKept
    <3>5. Accepted'
      BY <1>1, <2>1, <2>3, <3>1, <3>3, AcceptedOn
    <3> QED
      BY <2>3, <3>3, <3>4, <3>5, GoesOn
  <2>4. CASE ~ MayWrite("request", AuthorizationRequest) /\ Refuse
    <3>1. InOrder => MayWrite("request", AuthorizationRequest)
      BY <1>1, <2>1, <2>2 DEF InOrder, MayWrite, Files
    <3> QED
      BY <2>4, <3>1, RefusedRightly
  <2> QED
    BY <1>5, <2>3, <2>4 DEF MaterializeRequest, Create
<1>6. CASE MaterializeDocuments
  <2>1. At("documents") /\ Lifecycle(config) = "publication" /\ cmd.at = 27
    BY <1>1, <1>6, Places DEF MaterializeDocuments, Create, LInv
  <2>2. \A q \in Requests : Answers(q) <=> q = AuthorizationRequest
    BY <1>1, <2>1, Agrees
  <2>3. CASE /\ MayWrite("documents", AuthorizationRequest) /\ Advance(cmd) /\ Quietly /\ UNCHANGED torn
             /\ files' = [files EXCEPT !["documents"] = {AuthorizationRequest}]
    <3>1. /\ files'.documents = {AuthorizationRequest} /\ files'.policy = files.policy
          /\ files'.bootstrap = files.bootstrap /\ files'.signature = files.signature
          /\ files'.request = files.request /\ files'.bundle = files.bundle
      BY <1>1, <2>3 DEF Files
    <3>2. \A q \in files.documents \cup files'.documents : Answers(q)
      BY <1>2, <2>2, <2>3, <3>1 DEF MayWrite
    <3>3. /\ Runs' /\ Observed' /\ UNCHANGED <<content, attested, config>>
          /\ cmd'.at = cmd.at + 1 /\ cmd'.cfg = cmd.cfg
          /\ cmd'.plan = cmd.plan /\ cmd'.license = cmd.license /\ cmd'.made = cmd.made
      BY <1>3, <2>1, <2>3
    <3>4. InOrder' <=> InOrder
      BY <2>3, <3>1, <3>2, <3>3, OrderKept
    <3>5. Accepted'
      BY <1>1, <2>1, <2>3, <3>1, <3>3, AcceptedOn DEF MayWrite
    <3> QED
      BY <2>3, <3>3, <3>4, <3>5, GoesOn
  <2>4. CASE ~ MayWrite("documents", AuthorizationRequest) /\ Refuse
    <3>1. InOrder => MayWrite("documents", AuthorizationRequest)
      BY <1>1, <2>1, <2>2 DEF InOrder, MayWrite, Files
    <3> QED
      BY <2>4, <3>1, RefusedRightly
  <2> QED
    BY <1>6, <2>3, <2>4 DEF MaterializeDocuments, Create
<1>7. CASE Publish
  <2>1. At("publish") /\ Lifecycle(config) = "publication" /\ cmd.at = 28
    BY <1>1, <1>7, Places DEF Publish, Create, LInv
  <2>2. \A q \in Requests : Answers(q) <=> q = AuthorizationRequest
    BY <1>1, <2>1, Agrees
  <2>7. Bundle.made = content /\ Bundle = [made |-> cmd.made, signed |-> AuthorizationRequest]
    BY <1>1, <2>1, MadeAsFound DEF Bundle
  <2>3. ASSUME NEW b \in files.bundle, Answers(b.signed), b.made = content PROVE b = Bundle
    <3>1. b = [made |-> b.made, signed |-> b.signed] /\ b.signed \in Requests
      BY <1>1, <2>3 DEF Files, Bundles
    <3>2. b.signed = AuthorizationRequest
      BY <2>2, <2>3, <3>1
    <3>3. Bundle.made = cmd.made
      BY <2>7
    <3> HIDE DEF AuthorizationRequest, Bundle
    <3> QED
      BY <2>3, <2>7, <3>1, <3>2, <3>3
  <2>4. Bundle.signed = AuthorizationRequest
    BY DEF Bundle
  <2>5. CASE /\ MayWrite("bundle", Bundle) /\ Advance(cmd) /\ Quietly /\ UNCHANGED torn
             /\ files' = [files EXCEPT !["bundle"] = {Bundle}]
    <3>1. /\ files'.bundle = {Bundle} /\ files'.policy = files.policy
          /\ files'.bootstrap = files.bootstrap /\ files'.signature = files.signature
          /\ files'.request = files.request /\ files'.documents = files.documents
      BY <1>1, <2>5 DEF Files
    <3>2. \A b \in files.bundle \cup files'.bundle : Answers(b.signed) /\ b.made = content
      BY <1>2, <2>2, <2>4, <2>5, <2>7, <3>1 DEF MayWrite
    <3>3. /\ Runs' /\ Observed' /\ UNCHANGED <<content, attested, config>>
          /\ cmd'.at = cmd.at + 1 /\ cmd'.cfg = cmd.cfg
          /\ cmd'.plan = cmd.plan /\ cmd'.license = cmd.license /\ cmd'.made = cmd.made
      BY <1>3, <2>1, <2>5
    <3>4. InOrder' <=> InOrder
      BY <2>5, <3>1, <3>2, <3>3, OrderKept
    <3>5. Accepted'
      BY <1>1, <2>1, <2>5, <3>1, <3>3, AcceptedOn
    <3> QED
      BY <2>5, <3>3, <3>4, <3>5, GoesOn
  <2>6. CASE ~ MayWrite("bundle", Bundle) /\ Refuse
    <3>1. InOrder => MayWrite("bundle", Bundle)
      BY <1>1, <2>1, <2>3 DEF InOrder, MayWrite
    <3> QED
      BY <2>6, <3>1, RefusedRightly
  <2> QED
    BY <1>7, <2>5, <2>6 DEF Publish, Create
<1> QED
  BY <1>4, <1>5, <1>6, <1>7

\* A command that comes to its report has found everything in order.
LEMMA ReportDecides ==
  ASSUME OnCourse, Report
  PROVE  Decided'
<1>1. /\ LInv /\ Runs /\ Observed /\ Accepted /\ cmd \in Commands /\ cmd.cfg = config
      /\ content \in [Inputs -> Content]
  BY DEF OnCourse, LInv, LifecycleTypeOK, Placed
<1>2. /\ cmd.at = Last[Lifecycle(config)] /\ Lifecycle(config) \in {"bootstrap", "signing", "publication"}
  BY <1>1, Places DEF Report, LInv
<1>3. /\ cmd.at \in {24, 25, 30}
      /\ Lifecycle(config) = "signing" => cmd.at = 25
      /\ Lifecycle(config) = "publication" => cmd.at = 30
  BY <1>2 DEF Last
<1>4. /\ Approved(BootstrapRequest) /\ Answers(AuthorizationRequest) /\ Bundle.signed = AuthorizationRequest
  BY <1>1, <1>3, Agrees, Derived DEF LInv, Bundle
<1>12. Bundle.made = content
  BY <1>1, <1>3, MadeAsFound
<1>5. (\A k \in Pinned : content[k] = config.pins[k]) /\ (\A k \in Attested : content[k] = attested[k])
  BY <1>1, <1>3 DEF Observed, Pinned
<1>6. Lifecycle(config) = "bootstrap" => /\ \A r \in files.bootstrap : Approved(r)
                                         /\ "bootstrap" \notin torn
  BY <1>1, <1>3, <1>4 DEF Accepted
<1>7. Lifecycle(config) # "bootstrap" => /\ files.policy = config.policy
                                         /\ \A p \in files.policy : Approved(p.request)
                                         /\ \A q \in files.request : Answers(q)
  BY <1>1, <1>2, <1>3, <1>4 DEF Accepted
<1>8. Lifecycle(config) = "publication" => /\ \E q \in files.signature : Answers(q)
                                           /\ \A q \in files.documents : Answers(q)
                                           /\ "documents" \notin torn
                                           /\ \A b \in files.bundle :
                                                Answers(b.signed) /\ b.made = content
  BY <1>1, <1>3, <1>4, <1>12 DEF Accepted
<1>9. InOrder
  BY <1>2, <1>5, <1>6, <1>7, <1>8 DEF InOrder
<1>10. cmd'.outcome \in {"bootstrap", "signing", "publication"} /\ ~ Runs'
  BY <1>1, <1>2, Ended DEF Report
<1>11. UNCHANGED <<foreseen, calm>>
  BY DEF Report, Quietly, witnessed
<1> QED
  BY <1>9, <1>10, <1>11 DEF Decided, Undisturbed, DecidedByProject, OnCourse

\* One request, one signature: they are written whole.
LEMMA SingleStep == LInv /\ Single /\ [LifecycleNext]_lifecycleVars => Single'
<1> SUFFICES ASSUME LInv, Single, [LifecycleNext]_lifecycleVars PROVE Single'
  OBVIOUS
<1>1. files \in Files
  BY DEF LInv, LifecycleTypeOK
<1>2. CASE UNCHANGED files
  BY <1>2 DEF Single
<1>3. ASSUME NEW name \in {"bootstrap", "request", "documents", "bundle"}, NEW v,
             files' = [files EXCEPT ![name] = {v}]
      PROVE  Single'
  <2>1. files'.signature = files.signature /\ (files'.request = files.request \/ files'.request = {v})
    BY <1>1, <1>3 DEF Files
  <2> QED
    BY <2>1 DEF Single
<1>4. CASE Stage
  <2>1. CASE \/ MaterializeBootstrap \/ MaterializeRequest \/ MaterializeDocuments \/ Publish
    BY <1>2, <1>3, <2>1 DEF MaterializeBootstrap, MaterializeRequest, MaterializeDocuments, Publish,
       Create, Refuse
  <2>2. CASE ~ (MaterializeBootstrap \/ MaterializeRequest \/ MaterializeDocuments \/ Publish)
    BY <1>2, <1>4, <2>2
    DEF Stage, CollectScope, RequireScope, VerifySourceLock, Analyse, PrepareHost, RequireTools,
        WalkSupport, Reanalyse, Generate, CollectLicense, Build, CollectLicenseAgain, Regenerate, Replay,
        Recapture, RequireLocks, LoadPolicy, ValidateMaterial, CompleteCleanup, DerivePlan, Authorize,
        ExitHost, Report, Check, Keep, Refuse
  <2> QED
    BY <2>1, <2>2
<1>5. CASE Fail \/ FailReport \/ Killing
  BY <1>2, <1>3, <1>5 DEF Fail, FailReport, Killing, LeaveBegun
<1>6. CASE Owner
  <2>1. CASE FinalizePolicy
    <3>1. files'.request = files.request /\ files'.signature = files.signature
      BY <1>1, <2>1 DEF FinalizePolicy, Rewrite, Files
    <3> QED
      BY <3>1 DEF Single
  <2>2. CASE Sign
    <3>1. files'.request = files.request /\ files'.signature = files.request
      BY <1>1, <2>2 DEF Sign, Rewrite, Files
    <3> QED
      BY <3>1 DEF Single
  <2>3. CASE Discard
    <3>1. /\ files'.request \in {files.request, {}}
          /\ files'.signature \in {files.signature, {}}
      BY <1>1, <2>3 DEF Discard, Rewrite, Files
    <3> QED
      BY <3>1 DEF Single
  <2> QED
    BY <1>2, <1>6, <2>1, <2>2, <2>3 DEF Owner, PinPolicy, ConfigureSignature, ChangeSettings, Review
<1> QED
  BY <1>2, <1>4, <1>5, <1>6 DEF LifecycleNext, Start, Edit, lifecycleVars

LEMMA DInvInit == LifecycleInit => DInv
<1>1. LifecycleInit => ~ Runs /\ cmd.outcome = "none"
  BY DEF LifecycleInit, Runs, NoCommand
<1> QED
  BY <1>1 DEF LifecycleInit, DInv, Single, Undisturbed, DecidedByProject

LEMMA DInvStep == LInv /\ DInv /\ [LifecycleNext]_lifecycleVars => DInv'
<1> SUFFICES ASSUME LInv, DInv, [LifecycleNext]_lifecycleVars PROVE DInv'
  OBVIOUS
<1>1. Single /\ Single'
  BY SingleStep DEF DInv
<1>2. CASE ~ calm'
  BY <1>1, <1>2 DEF DInv, Undisturbed, DecidedByProject
<1>3. CASE Stage /\ calm'
  <2>1. Runs /\ calm
    BY <1>3
       DEF Stage, CollectScope, RequireScope, VerifySourceLock, Analyse, PrepareHost, RequireTools,
        WalkSupport, Reanalyse, Generate, CollectLicense, Build, CollectLicenseAgain, Regenerate, Replay,
        Recapture, RequireLocks, LoadPolicy, ValidateMaterial, CompleteCleanup, DerivePlan, Authorize,
        MaterializeBootstrap, MaterializeRequest, MaterializeDocuments, Publish, Create,
        ExitHost, Report, Check, Keep, Refuse, Quietly, witnessed, At
  <2>2. OnCourse
    BY <1>1, <2>1 DEF OnCourse, DInv, Undisturbed
  <2>3. Decided'
    BY <1>3, <2>2, LooksDecide, LearnsDecide, WritesDecide, ReportDecides DEF Stage
  <2> QED
    BY <1>1, <2>3 DEF DInv, Decided
<1>4. CASE Start
  <2>1. NoCommand \in Commands /\ NoCommand.at = 1
    BY DEF NoCommand, NoConfig, Fresh, Commands, Configs, Content, Inputs, Pinned, Analysed
  <2>2. /\ cmd'.at = 1
        /\ cmd'.outcome = IF Lifecycle(config) = "invalid" THEN "refused" ELSE "running"
    BY <1>4, <2>1 DEF Start, Commands
  <2>3. InOrder' <=> InOrder
    BY <1>4, SameOrder DEF Start, project
  <2>4. Undisturbed'
    BY <1>4, <2>2, <2>3 DEF Start, Undisturbed, Observed, Accepted
  <2>5. InOrder => Lifecycle(config) # "invalid"
    BY DEF InOrder
  <2>6. DecidedByProject'
    BY <1>4, <2>2, <2>5 DEF Start, DecidedByProject
  <2> QED
    BY <1>1, <2>4, <2>6 DEF DInv
<1>5. CASE calm' /\ (Owner \/ Edit \/ (UNCHANGED lifecycleVars /\ ~ Runs))
  <2>1. ~ Runs /\ UNCHANGED <<cmd, foreseen, calm>>
    BY <1>5 DEF Owner, FinalizePolicy, PinPolicy, Sign, ConfigureSignature, ChangeSettings, Review,
                Discard, OwnerActs, Edit, lifecycleVars, witnessed
  <2> QED
    BY <1>1, <2>1 DEF DInv, Undisturbed, DecidedByProject, Runs
<1>6. CASE UNCHANGED lifecycleVars /\ Runs
  <2>1. InOrder' <=> InOrder
    BY <1>6, SameOrder DEF lifecycleVars
  <2>2. Observed' <=> Observed
    BY <1>6 DEF lifecycleVars, Observed
  <2>3. Accepted' <=> Accepted
    BY <1>6 DEF lifecycleVars, Accepted, AuthorizationRequest, BootstrapRequest, BuildInputs, Bundle
  <2> QED
    BY <1>1, <1>6, <2>1, <2>2, <2>3 DEF lifecycleVars, DInv, Undisturbed, DecidedByProject, Runs
<1>7. Fail \/ FailReport \/ Killing => ~ calm'
  BY DEF Fail, FailReport, Killing, Fault
<1> QED
  BY <1>2, <1>3, <1>4, <1>5, <1>6, <1>7 DEF LifecycleNext

\* A command that is left alone refuses for cause and goes through for cause.
THEOREM ProjectDecides == LifecycleSpec => []DecidedByProject
<1>1. DInv => DecidedByProject
  BY DEF DInv
<1> QED
  BY LInvInit, LInvStep, DInvInit, DInvStep, <1>1, PTL DEF LifecycleSpec

=============================================================================

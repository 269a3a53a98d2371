------------------------- MODULE StrictLifecycle --------------------------
(***************************************************************************)
(* The strict lifecycle (cli/build_cmd.py, _run_full_c6_cli_lifecycle):    *)
(* one build command that an owner runs again and again.  Without a pinned *)
(* policy it writes a bootstrap request, from which the owner finalizes a  *)
(* policy and pins its digest; with a policy it writes a signing request,  *)
(* which the owner signs; with a signature it publishes the bundle.  Every *)
(* run builds anew, from files that anybody may edit at any time: what is  *)
(* published must be what the owner approved and signed in earlier runs.   *)
(*                                                                         *)
(* A run reads the configuration once and then follows a script of stages. *)
(* Files of the project hold one of two contents, and going back to the    *)
(* first one is an edit too: the project's Python files and the tools are  *)
(* bound by their stamps, everything else by content alone - so also the   *)
(* support trees behind the tools (the standard library, the headers), of  *)
(* which only full walks before and after the builds know anything.  A     *)
(* check that the code repeats before the next read is a stage once.  The  *)
(* two builds are a step here; TwoBuild is about the inside of it, and     *)
(* Publication about the inside of the last one.                           *)
(***************************************************************************)
EXTENDS Naturals, Sequences

CONSTANTS Decisions,   \* the policies an owner may make of one request
          Budgets      \* bounds: commands, what the owner does between them,
                       \* edits, the inputs they are of, failures and kills

Inputs   == {"python", "stubs", "vendor", "wheel", "tools", "support", "license"}
Analysed == {"python", "stubs"}
Pinned   == {"vendor", "wheel", "tools", "support"}  \* by digests in rextio.toml
Attested == {"python", "stubs", "vendor", "wheel"}   \* by the license locks
Stamped  == {"python", "tools"}                 \* inode, size and times
Content  == {0, 1}

ASSUME StrictAssumption ==
  Budgets \subseteq [commands : Nat, moves : Nat, edits : Nat,
                     inputs : SUBSET Inputs, faults : Nat]

VARIABLES
  content,   \* what each of the project's files holds
  attested,  \* the contents the owner's license locks name
  config,    \* settings, pins, and the pinned policy and signature, if any
  files,     \* what the commands and the owner have written
  torn,      \* the written files that end in the middle
  cmd,       \* the command that runs, or the last one
  foreseen,  \* whether the project, as the command found it, was in order
  found,     \* the bundle the command found
  calm,      \* nothing was edited and nothing failed while the command ran
  left       \* commands, moves, edits and faults that may still come

lifecycleVars == <<content, attested, config, files, torn, cmd, foreseen, found,
                   calm, left>>
project == <<content, attested, config>>
witnessed == <<foreseen, found, calm>>

-----------------------------------------------------------------------------
(* What is approved and signed.  A file that does not exist is {}.         *)

\* What the configuration contributes to the identity of a build.  The digest
\* of the policy and the signature are replaced by markers, or else pinning a
\* policy would make that very policy stale.
\* Mutant: the digest itself
Identity_Exact(cfg) == [settings |-> cfg.settings, pins |-> cfg.pins,
                        policy |-> cfg.policy, signature |-> FALSE]
Identity(cfg) == [settings |-> cfg.settings, pins |-> cfg.pins,
                  policy |-> {}, signature |-> FALSE]

\* A run without a policy is a bootstrap; one with a signature publishes.
Lifecycle(cfg) ==
  CASE cfg.policy = {} /\ cfg.signature    -> "invalid"
    [] cfg.policy = {} /\ ~ cfg.signature  -> "bootstrap"
    [] cfg.policy # {} /\ ~ cfg.signature  -> "signing"
    [] OTHER                               -> "publication"

\* The inputs of a build as the run holds them in memory.
BuildInputs == [k \in Inputs |-> CASE k \in Analysed -> cmd.plan[k]
                                   [] k \in Pinned   -> cmd.cfg.pins[k]
                                   [] OTHER          -> cmd.license]

\* The bootstrap request is the lineage of everything a run has observed.
BootstrapRequest == [identity |-> Identity(cmd.cfg), inputs |-> BuildInputs]

\* The policy the owner makes of it, and the request to sign: they name the
\* request they answer, and the policy they stand on.
PolicyOf(request, d) == [request |-> request, decision |-> d]
AuthorizationRequest ==
  [lineage |-> BootstrapRequest, policy |-> cmd.cfg.policy]
Bundle == [made |-> cmd.made, signed |-> AuthorizationRequest]

-----------------------------------------------------------------------------
(* The script of a command.                                                *)
Preflight  == <<"scope", "holds", "sourceLock", "analyse", "holds">>
Execution  == <<"host", "tools", "reanalyse", "holds", "generate",
                "license", "walk", "build", "rewalk">>
Production == <<"relicense", "regenerate", "replay", "holds", "recapture",
                "locks">>
Closing ==
  [bootstrap   |-> <<"valid", "bootstrap">>,
   signing     |-> <<"policy", "valid", "request">>,
   publication |-> <<"policy", "valid", "cleanup", "plan", "request", "gate",
                     "documents", "publish">>]
Script == [l \in DOMAIN Closing |->
             Preflight \o Execution \o Production \o Closing[l] \o <<"exit", "report">>]

Fresh == [k \in Inputs |-> 0]
NoConfig == [settings |-> 0, pins |-> [k \in Pinned |-> 0], policy |-> {},
             signature |-> FALSE]
NoCommand == [at |-> 1, cfg |-> NoConfig, touched |-> {},
              plan |-> [k \in Analysed |-> 0], license |-> 0, made |-> Fresh,
              putBack |-> FALSE, quarantine |-> FALSE, outcome |-> "none"]

Runs == cmd.outcome = "running"
At(stage) == Runs /\ Script[Lifecycle(cmd.cfg)][cmd.at] = stage
Advance(c) == cmd' = [c EXCEPT !.at = @ + 1]
Quietly   == UNCHANGED <<project, witnessed, left>>

\* Any exception ends the command, which takes its memory with it; its
\* quarantine is removed on the way out.
Ends(outcome) == cmd' = [NoCommand EXCEPT !.outcome = outcome]
Refuse == Ends("refused") /\ Quietly /\ UNCHANGED <<files, torn>>
Check(stage, holds) == /\ At(stage)
                       /\ \/ holds /\ Advance(cmd) /\ Quietly /\ UNCHANGED <<files, torn>>
                          \/ ~ holds /\ Refuse
Keep(stage, c) == At(stage) /\ Advance(c) /\ Quietly /\ UNCHANGED <<files, torn>>

-----------------------------------------------------------------------------
(* The preflight.                                                          *)
WorkspacePinned == content["vendor"] = cmd.cfg.pins["vendor"]

\* The scope records the stamp of every Python file and directory, after the
\* Cargo workspace has been found to be the pinned one.
CollectScope ==
  /\ At("scope")
  /\ \/ /\ WorkspacePinned
        /\ Advance([cmd EXCEPT !.touched = @ \ {"python"}])
        /\ Quietly /\ UNCHANGED <<files, torn>>
     \/ ~ WorkspacePinned /\ Refuse

\* Every later use of the scope looks at all of it again.
NamespaceUntouched == "python" \notin cmd.touched
ScopeHolds == NamespaceUntouched /\ WorkspacePinned
RequireScope == Check("holds", ScopeHolds)

\* The wheel of the external source is opened once, must be the pinned one,
\* and stays in memory.
VerifySourceLock == Check("sourceLock", content["wheel"] = cmd.cfg.pins["wheel"])

\* The analysis that the run builds from: Python files and their stubs.
Analyse == Keep("analyse", [cmd EXCEPT !.plan = [k \in Analysed |-> content[k]]])

-----------------------------------------------------------------------------
(* The host prerequisites and the execution.                               *)
SupportLockPinned == \A k \in {"tools", "support"} : content[k] = cmd.cfg.pins[k]

\* The support trees must be the pinned ones, member by member, and the stamps
\* of the tools, their critical leaves, are recorded; the Cargo workspace is
\* read into memory; a quarantine is made for the two builds.
PrepareHost ==
  /\ At("host")
  /\ \/ /\ SupportLockPinned /\ WorkspacePinned
        /\ Advance([cmd EXCEPT !.touched = @ \ {"tools"}, !.quarantine = TRUE])
        /\ Quietly /\ UNCHANGED <<files, torn>>
     \/ ~ (SupportLockPinned /\ WorkspacePinned) /\ Refuse

\* Mutant: the tools are compared by what they hold
ToolsUntouched_Content == content["tools"] = cmd.cfg.pins["tools"]
ToolsUntouched == "tools" \notin cmd.touched
RequireTools == Check("tools", ToolsUntouched)

\* The builds stand between two full walks over the support trees: the stamps
\* of the tools, and the content of every member.
SupportHolds == ToolsUntouched /\ SupportLockPinned
WalkSupport  == \E stage \in {"walk", "rewalk"} : Check(stage, SupportHolds)

SameAnalysis == \A k \in Analysed : content[k] = cmd.plan[k]
Reanalyse == Check("reanalyse", SameAnalysis)

\* The generated tree holds copies of the Python files that are there now; the
\* Rust sources are made from the analysis.
Generate == Keep("generate", [cmd EXCEPT !.made["python"] = content["python"]])

CollectLicense == Keep("license", [cmd EXCEPT !.license = content["license"]])

\* Two builds from the generated sources, with the tools and the support trees
\* that are there now.
Build == Keep("build",
  [cmd EXCEPT !.made = [BuildInputs EXCEPT !["python"] = cmd.made["python"],
                                           !["tools"] = content["tools"],
                                           !["support"] = content["support"]]])

-----------------------------------------------------------------------------
(* The production authority: everything is observed once more, and must be *)
(* what was built from.                                                    *)
LicenseUnchanged == content["license"] = cmd.license
CollectLicenseAgain == Check("relicense", LicenseUnchanged)
Regenerate == Check("regenerate", content["python"] = cmd.made["python"])
Replay     == Check("replay", SameAnalysis)
Recapture  == Check("recapture", content["stubs"] = cmd.plan["stubs"])

\* The owner's license locks name the sources and the crates they speak of.
SourcesAttested == \A k \in Attested \ {"vendor"} : attested[k] = BuildInputs[k]
CratesAttested  == attested["vendor"] = BuildInputs["vendor"]
RequireLocks    == Check("locks", SourcesAttested /\ CratesAttested)

PolicyMatches(p) == p.request = BootstrapRequest
LoadPolicy == Check("policy", /\ files.policy = cmd.cfg.policy
                              /\ \A p \in files.policy : PolicyMatches(p))

\* The material is validated whenever the authority is used; of what it looks
\* at, only the license files are outside of the run's memory.
ValidateMaterial == Check("valid", LicenseUnchanged)

-----------------------------------------------------------------------------
(* What a command writes: a file is created, or must hold the same bytes.  *)
MayWrite(name, value) == files[name] \subseteq {value} /\ name \notin torn

Create(stage, name, value) ==
  /\ At(stage)
  /\ \/ /\ MayWrite(name, value)
        /\ files' = [files EXCEPT ![name] = {value}]
        /\ Advance(cmd) /\ Quietly /\ UNCHANGED torn
     \/ ~ MayWrite(name, value) /\ Refuse

MaterializeBootstrap == Create("bootstrap", "bootstrap", BootstrapRequest)
MaterializeRequest   == Create("request", "request", AuthorizationRequest)
MaterializeDocuments == Create("documents", "documents", AuthorizationRequest)
Publish              == Create("publish", "bundle", Bundle)

\* The quarantine is removed before anything is published, and never looked at
\* again, so that nothing that can fail follows the publication.
\* Mutant: it is left to the end of the command
CompleteCleanup_Left == Check("cleanup", LicenseUnchanged)
CompleteCleanup == /\ At("cleanup")
                   /\ \/ /\ LicenseUnchanged
                         /\ Advance([cmd EXCEPT !.quarantine = FALSE])
                         /\ Quietly /\ UNCHANGED <<files, torn>>
                      \/ ~ LicenseUnchanged /\ Refuse

\* The publication plan binds the signature file, which must exist.
DerivePlan == Check("plan", LicenseUnchanged /\ files.signature # {})

\* The gate: the signature must be one over this very request.
SignatureValid == files.signature = {AuthorizationRequest}
Authorize == Check("gate", LicenseUnchanged /\ SignatureValid)

\* The host prerequisites end; what is left of the quarantine is removed.
ExitHost == Keep("exit", [cmd EXCEPT !.quarantine = FALSE])

\* The reports are written after the last thing that counts.
Report == /\ At("report")
          /\ Ends(Lifecycle(cmd.cfg))
          /\ Quietly /\ UNCHANGED <<files, torn>>

-----------------------------------------------------------------------------
(* Failures.  What was being written may be there, and whole; a write that  *)
(* fails removes what it began, except among the documents; a kill removes *)
(* nothing.                                                                *)
Fault == left.faults > 0 /\ Runs
           /\ left' = [left EXCEPT !.faults = @ - 1]
           /\ calm' = FALSE
           /\ UNCHANGED <<project, foreseen, found>>

Begun(name) == CASE name = "bootstrap" -> At("bootstrap")
                 [] name = "request"   -> At("request")
                 [] name = "documents" -> At("documents")
                 [] name = "bundle"    -> At("publish")
Value(name) == CASE name = "bootstrap" -> BootstrapRequest
                 [] name = "bundle"    -> Bundle
                 [] OTHER              -> AuthorizationRequest

LeaveBegun(names, tearable) ==
  \/ UNCHANGED <<files, torn>>
  \/ \E name \in names :
       /\ Begun(name) /\ files[name] = {} /\ name \notin torn
       /\ files' = [files EXCEPT ![name] = {Value(name)}]
       /\ UNCHANGED torn \/ (name \in tearable /\ torn' = torn \cup {name})

\* Before the reports, a failure refuses; at the end, only a quarantine that
\* cannot be removed is a failure of the command.
Fail == /\ Fault
        /\ ~ At("report") /\ (At("exit") => cmd.quarantine)
        /\ LeaveBegun({"bootstrap", "request", "documents"}, {"documents"})
        /\ Ends("refused")

FailReport == /\ Fault /\ At("report")
              /\ Ends("unreported")
              /\ UNCHANGED <<files, torn>>

Killing == /\ Fault
           /\ LeaveBegun({"bootstrap", "request", "documents", "bundle"},
                         {"bootstrap", "documents"})
           /\ Ends("killed")

-----------------------------------------------------------------------------
(* Everybody else: anybody edits, at any time; the owner acts when no      *)
(* command runs.  An edit leaves a stamp on what has one.  putBack is      *)
(* history, which no step reads: a support tree has been edited between    *)
(* the builds and the walk after them.                                     *)
Edit == /\ left.edits > 0
        /\ \E k \in left.inputs :
             /\ content' = [content EXCEPT ![k] = 1 - @]
             /\ cmd' = IF Runs
                         THEN [cmd EXCEPT !.touched = @ \cup ({k} \cap Stamped),
                                          !.putBack = @ \/ (k = "support" /\ At("rewalk"))]
                         ELSE cmd
        /\ left' = [left EXCEPT !.edits = @ - 1]
        /\ calm' = (calm /\ ~ Runs)
        /\ UNCHANGED <<attested, config, files, torn, foreseen, found>>

OwnerActs ==
  /\ ~ Runs /\ left.moves > 0
  /\ left' = [left EXCEPT !.moves = @ - 1]
  /\ UNCHANGED <<content, cmd, witnessed>>
Rewrite(name, value) == files' = [files EXCEPT ![name] = value]
                          /\ torn' = torn \ {name}

\* rextio policy finalize: an existing policy file is never replaced.
FinalizePolicy == /\ OwnerActs
                  /\ "bootstrap" \notin torn /\ files.policy = {}
                  /\ \E r \in files.bootstrap, d \in Decisions :
                       Rewrite("policy", {PolicyOf(r, d)})
                  /\ UNCHANGED <<attested, config>>

PinPolicy == /\ OwnerActs
             /\ config.policy # files.policy
             /\ config' = [config EXCEPT !.policy = files.policy]
             /\ UNCHANGED <<attested, files, torn>>

Sign == /\ OwnerActs
        /\ files.request # {} /\ files.signature # files.request
        /\ Rewrite("signature", files.request)
        /\ UNCHANGED <<attested, config>>

ConfigureSignature == /\ OwnerActs
                      /\ config' = [config EXCEPT !.signature = ~ @]
                      /\ UNCHANGED <<attested, files, torn>>

ChangeSettings == /\ OwnerActs
                  /\ config' = [config EXCEPT !.settings = 1 - @]
                  /\ UNCHANGED <<attested, files, torn>>

\* The owner looks at what there is now, pins it and names it in the locks.
Review == /\ OwnerActs
          /\ config' = [config EXCEPT !.pins = [k \in Pinned |-> content[k]]]
          /\ attested' = [k \in Attested |-> content[k]]
          /\ UNCHANGED <<files, torn>>

Discard == /\ OwnerActs
           /\ \E name \in DOMAIN files : files[name] # {} /\ Rewrite(name, {})
           /\ UNCHANGED <<attested, config>>

-----------------------------------------------------------------------------
(* Whether a run would go through, said of the project as a whole and not  *)
(* of what a run computes.                                                 *)
Approved(r) == /\ r.inputs = content
               /\ r.identity.settings = config.settings
               /\ r.identity.pins = config.pins
Answers(q)  == Approved(q.lineage) /\ q.policy = config.policy

InOrder ==
  LET now == Lifecycle(config) IN
  /\ now # "invalid"
  /\ \A k \in Pinned : content[k] = config.pins[k]
  /\ \A k \in Attested : content[k] = attested[k]
  /\ now = "bootstrap" => /\ \A r \in files.bootstrap : Approved(r)
                          /\ "bootstrap" \notin torn
  /\ now # "bootstrap" => /\ files.policy = config.policy
                          /\ \A p \in files.policy : Approved(p.request)
                          /\ \A q \in files.request : Answers(q)
  /\ now = "publication" => /\ \E q \in files.signature : Answers(q)
                            /\ \A q \in files.documents : Answers(q)
                            /\ "documents" \notin torn
                            /\ \A b \in files.bundle :
                                 Answers(b.signed) /\ b.made = content

\* A command begins: it loads the configuration, once and for all.
Start == /\ ~ Runs /\ left.commands > 0
         /\ cmd' = [NoCommand EXCEPT
                      !.cfg = config, !.touched = Stamped,
                      !.outcome = IF Lifecycle(config) = "invalid"
                                    THEN "refused" ELSE "running"]
         /\ foreseen' = InOrder
         /\ found' = files.bundle
         /\ calm' = TRUE
         /\ left' = [left EXCEPT !.commands = @ - 1]
         /\ UNCHANGED <<project, files, torn>>

LifecycleInit ==
  /\ content = Fresh
  /\ attested = [k \in Attested |-> 0]
  /\ config = NoConfig
  /\ files = [name \in {"bootstrap", "policy", "request", "signature",
                        "documents", "bundle"} |-> {}]
  /\ torn = {}
  /\ cmd = NoCommand
  /\ foreseen = FALSE /\ found = {} /\ calm = TRUE
  /\ left \in Budgets

Stage == \/ CollectScope \/ RequireScope \/ VerifySourceLock \/ Analyse
         \/ PrepareHost \/ RequireTools \/ Reanalyse \/ Generate \/ CollectLicense
         \/ WalkSupport \/ Build
         \/ CollectLicenseAgain \/ Regenerate \/ Replay \/ Recapture
         \/ RequireLocks \/ LoadPolicy \/ ValidateMaterial
         \/ MaterializeBootstrap \/ MaterializeRequest \/ CompleteCleanup
         \/ DerivePlan \/ Authorize \/ MaterializeDocuments \/ Publish
         \/ ExitHost \/ Report
Owner == \/ FinalizePolicy \/ PinPolicy \/ Sign \/ ConfigureSignature
         \/ ChangeSettings \/ Review \/ Discard
LifecycleNext == \/ Start \/ Stage \/ Owner \/ Edit
                 \/ Fail \/ FailReport \/ Killing
LifecycleSpec == LifecycleInit /\ [][LifecycleNext]_lifecycleVars

-----------------------------------------------------------------------------
\* A bundle is published under a policy, for what the policy approved in the
\* first run and what was signed in the second; and what the builds of the last
\* run read was just that, whatever was edited during which of the runs, also
\* if it was put back before anybody looked again.  The exception is what has
\* no stamp: a member of the support trees other than the tools is looked at
\* before the builds and after them, and if the builds read something else, it
\* has been put back in between.
PublishedAsApproved ==
  [][\A b \in files'.bundle \ files.bundle :
       /\ b.signed.policy # {}
       /\ \A p \in b.signed.policy : p.request = b.signed.lineage
       /\ \A k \in Inputs :
            \/ b.made[k] = b.signed.lineage.inputs[k]
            \/ k = "support" /\ cmd.putBack]_lifecycleVars

\* A command that is left alone decides by the project as it finds it: it is
\* refused only if something that was approved, attested or signed is no longer
\* so, if another request is in its way or if a file was torn, and it goes
\* through only if nothing of this is the case.
DecidedByProject ==
  calm => /\ cmd.outcome = "refused" => ~ foreseen
          /\ cmd.outcome \in {"bootstrap", "signing", "publication"} => foreseen

\* The publication is the last thing that can fail: a command that comes to be
\* refused, for whatever reason, leaves the bundle as it found it.
CommitIsLast ==
  [][cmd.outcome # "refused" /\ cmd'.outcome = "refused"
       => files'.bundle = found']_lifecycleVars
=============================================================================

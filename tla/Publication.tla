----------------------------- MODULE Publication -----------------------------
(***************************************************************************)
(* _publish_full_c6_bundle (build/full_c6_publication.py): a call captures *)
(* its inputs, stages a private directory, verifies it, recaptures the     *)
(* inputs and commits with one no-replace rename; a call that finds its    *)
(* exact bundle already there reconciles with it instead.                  *)
(*                                                                         *)
(* A payload is one complete authorized bundle; a file's data is the       *)
(* payload it belongs to.  An input that was rewritten has a new stamp,    *)
(* which stands for the inode, size, mode and times of _stat_identity.     *)
(* Each call is one invocation, so a retry is another call.  Outside the   *)
(* calls, inputs are rewritten, the bundle is removed, the process dies,   *)
(* exceptions arrive between two steps, I/O fails and power is lost.       *)
(***************************************************************************)
EXTENDS Naturals, FiniteSets

CONSTANTS Call,             \* invocations of the publisher
          Payload,          \* complete authorized bundles
          Role,             \* the six payload files
          Key,              \* the public key: captured, never staged
          Manifest,         \* the seventh file, written last
          None,             \* no such directory entry
          Other,            \* made by none of the calls
          MaxRewrites, MaxFaults, MaxLosses, MaxWithdrawals   \* bounds

Input == Role \cup {Key}
Name == Role \cup {Manifest}
Complete(d) == [n \in Name |-> d]
Directory == UNION {[S -> Payload] : S \in SUBSET Name}
NoFiles == [n \in {} |-> None]
Bundle == [maker : Call \cup {Other}, files : Directory,
           private : BOOLEAN, whole : BOOLEAN, durable : BOOLEAN]
File == [data : Payload, stamp : 0..MaxRewrites]
Inputs == UNION {[S -> File] : S \in SUBSET Input}

ASSUME PublicationAssumption ==
  /\ Key \notin Role /\ Manifest \notin Role
  /\ None \notin Payload /\ Other \notin Call /\ Other \notin Payload
  /\ None # Other /\ None \notin Bundle /\ None \notin Directory
  /\ {MaxRewrites, MaxFaults, MaxLosses, MaxWithdrawals} \subseteq Nat

VARIABLES source,           \* the input files behind each payload's paths
          bundle,           \* the directory under bundle_name in the root
          staging,          \* each call's directory under its random name
          synced,           \* calls whose staged tree is on disk
          known,            \* calls that hold their staging_identity
          pc, want,         \* progress and the payload each call is given
          captured,         \* the captured inputs of each call
          rechecked,        \* the inputs already captured a second time
          coherent,         \* history: the capture is one state of the inputs
          committed,        \* history: calls whose rename the kernel did
          stuck,            \* history: calls whose cleanup failed
          verdict,          \* what the call's caller learns
          spent             \* how many of each outside event happened

vars == <<source, bundle, staging, synced, known, pc, want, captured,
          rechecked, coherent, committed, stuck, verdict, spent>>

Limit == [rewrite |-> MaxRewrites, fault |-> MaxFaults,
          loss |-> MaxLosses, withdrawal |-> MaxWithdrawals]

InTry == {"lookup", "mkdir", "identify", "write", "sync", "recheck",
          "absent", "rename", "race", "reconfirm", "relook"}
Live == InTry \cup {"capture", "committed", "cleanup"}

Goto(c, l) == pc' = [pc EXCEPT ![c] = l]
Spend(k) == /\ spent[k] < Limit[k]
            /\ spent' = [spent EXCEPT ![k] = @ + 1]

\* The finally block follows with the verdict; before the root is open there is none.
Leave(c, v) == /\ verdict' = [verdict EXCEPT ![c] = v]
               /\ Goto(c, IF pc[c] = "capture" THEN "done" ELSE "cleanup")

\* _reconcile_existing_publication: a private directory holding exactly this bundle.
Matches(c) == /\ bundle # None
              /\ bundle.private
              /\ bundle.files = Complete(want[c])

\* fsync of the root: the entry that is there now survives a loss of power.
Flushed == IF bundle = None THEN None ELSE [bundle EXCEPT !.durable = TRUE]

-----------------------------------------------------------------------------
\* The target is absent, an unrelated directory, or complete but not private.
Init ==
  /\ source = [d \in Payload |-> [i \in Input |-> [data |-> d, stamp |-> 0]]]
  /\ bundle \in {None} \cup
       [maker : {Other}, private : {FALSE}, whole : {TRUE}, durable : {TRUE},
        files : {NoFiles} \cup {Complete(d) : d \in Payload}]
  /\ staging = [c \in Call |-> None]
  /\ synced = {} /\ known = {} /\ committed = {} /\ stuck = {} /\ coherent = {}
  /\ pc = [c \in Call |-> "idle"]
  /\ want \in [Call -> Payload]
  /\ captured = [c \in Call |-> [i \in {} |-> None]]
  /\ rechecked = [c \in Call |-> {}]
  /\ verdict = [c \in Call |-> "none"]
  /\ spent = [k \in DOMAIN Limit |-> 0]

Start(c) == /\ pc[c] = "idle"
            /\ Goto(c, "capture")
            /\ UNCHANGED <<source, bundle, staging, synced, known, want, captured,
                           rechecked, coherent, committed, stuck, verdict, spent>>

Capture(c) ==
  /\ pc[c] = "capture"
  /\ \E i \in Input \ DOMAIN captured[c] :
       captured' = [captured EXCEPT ![c] = [j \in DOMAIN @ \cup {i} |->
                      IF j = i THEN source[want[c]][i] ELSE @[j]]]
  /\ UNCHANGED <<source, bundle, staging, synced, known, pc, want, rechecked,
                 coherent, committed, stuck, verdict, spent>>

\* _verify_bundle_semantics: every captured file is the authorized one.
VerifyInputs(c) ==
  /\ pc[c] = "capture" /\ DOMAIN captured[c] = Input
  /\ IF \A i \in Input : captured[c][i].data = want[c]
       THEN /\ Goto(c, "lookup")
            /\ coherent' = IF captured[c] = source[want[c]]
                             THEN coherent \cup {c} ELSE coherent
            /\ UNCHANGED verdict
       ELSE Leave(c, "failed") /\ UNCHANGED coherent
  /\ UNCHANGED <<source, bundle, staging, synced, known, want, captured,
                 rechecked, committed, stuck, spent>>

\* The first look at the target, and the look after a rename that found one.
Look(c, from, absent) ==
  /\ pc[c] = from
  /\ \/ bundle = None /\ absent
     \/ /\ Matches(c)
        /\ Goto(c, "reconfirm")
        /\ rechecked' = [rechecked EXCEPT ![c] = {}]
        /\ UNCHANGED verdict
     \/ /\ bundle # None /\ ~Matches(c)
        /\ Leave(c, "failed")
        /\ UNCHANGED rechecked
  /\ UNCHANGED <<source, bundle, staging, synced, known, want, captured,
                 coherent, committed, stuck, spent>>

Lookup(c) == Look(c, "lookup", Goto(c, "mkdir") /\ UNCHANGED <<verdict, rechecked>>)
Race(c) == Look(c, "race", Leave(c, "failed") /\ UNCHANGED rechecked)

\* The second _capture_sources, one input at a time, must equal the first.
RecheckInput(c) ==
  /\ pc[c] \in {"recheck", "reconfirm"}
  /\ \E i \in Input \ rechecked[c] :
       IF source[want[c]][i] = captured[c][i]
         THEN /\ rechecked' = [rechecked EXCEPT ![c] = @ \cup {i}]
              /\ UNCHANGED <<pc, verdict>>
         ELSE Leave(c, "failed") /\ UNCHANGED rechecked
  /\ UNCHANGED <<source, bundle, staging, synced, known, want, captured,
                 coherent, committed, stuck, spent>>

\* Mutant: the public key is not captured again.
RecheckDone_NoKey(c) ==
  /\ Role \subseteq rechecked[c]
  /\ \/ pc[c] = "recheck" /\ Goto(c, "absent")
     \/ pc[c] = "reconfirm" /\ Goto(c, "relook")
  /\ UNCHANGED <<source, bundle, staging, synced, known, want, captured,
                 rechecked, coherent, committed, stuck, verdict, spent>>

RecheckDone(c) ==
  /\ rechecked[c] = Input
  /\ \/ pc[c] = "recheck" /\ Goto(c, "absent")
     \/ pc[c] = "reconfirm" /\ Goto(c, "relook")
  /\ UNCHANGED <<source, bundle, staging, synced, known, want, captured,
                 rechecked, coherent, committed, stuck, verdict, spent>>

\* Mutant: the first look alone decides the reconciliation.
Relook_Skipped(c) ==
  /\ pc[c] = "relook"
  /\ Leave(c, "receipt")
  /\ UNCHANGED <<source, bundle, staging, synced, known, want, captured,
                 rechecked, coherent, committed, stuck, spent>>

\* The second look of the reconciliation decides it.
Relook(c) ==
  /\ pc[c] = "relook"
  /\ Leave(c, IF Matches(c) THEN "receipt" ELSE "failed")
  /\ UNCHANGED <<source, bundle, staging, synced, known, want, captured,
                 rechecked, coherent, committed, stuck, spent>>

-----------------------------------------------------------------------------
MakeStaging(c) ==
  /\ pc[c] = "mkdir"
  /\ staging' = [staging EXCEPT ![c] = NoFiles]
  /\ Goto(c, "identify")
  /\ UNCHANGED <<source, bundle, synced, known, want, captured, rechecked,
                 coherent, committed, stuck, verdict, spent>>

\* Until here the finally block does not know which directory to remove.
Identify(c) ==
  /\ pc[c] = "identify"
  /\ known' = known \cup {c}
  /\ Goto(c, "write")
  /\ UNCHANGED <<source, bundle, staging, synced, want, captured, rechecked,
                 coherent, committed, stuck, verdict, spent>>

\* _write_exclusive_file: the roles, then the manifest.
WriteFile(c) ==
  /\ pc[c] = "write"
  /\ \E n \in Name \ DOMAIN staging[c] :
       /\ n = Manifest => Role \subseteq DOMAIN staging[c]
       /\ staging' = [staging EXCEPT ![c] = [m \in DOMAIN @ \cup {n} |->
            IF m # n THEN @[m] ELSE IF n = Manifest THEN want[c] ELSE captured[c][n].data]]
       /\ Goto(c, IF n = Manifest THEN "sync" ELSE "write")
  /\ UNCHANGED <<source, bundle, synced, known, want, captured, rechecked,
                 coherent, committed, stuck, verdict, spent>>

\* Mutant: the staged tree is verified but not synced.
SyncStaging_Unsynced(c) ==
  /\ pc[c] = "sync"
  /\ IF staging[c] = Complete(want[c])
       THEN Goto(c, "recheck") /\ UNCHANGED verdict
       ELSE Leave(c, "failed")
  /\ UNCHANGED <<source, bundle, staging, synced, known, want, captured, rechecked,
                 coherent, committed, stuck, spent>>

\* fsync of the staged tree and the first _verify_staging_directory.
SyncStaging(c) ==
  /\ pc[c] = "sync"
  /\ synced' = synced \cup {c}
  /\ IF staging[c] = Complete(want[c])
       THEN Goto(c, "recheck") /\ UNCHANGED verdict
       ELSE Leave(c, "failed")
  /\ UNCHANGED <<source, bundle, staging, known, want, captured, rechecked,
                 coherent, committed, stuck, spent>>

\* fsync of the root, the last verification and _require_missing_directory_member:
\* a target here is a collision even when it is this very bundle.
RequireAbsent(c) ==
  /\ pc[c] = "absent"
  /\ bundle' = Flushed
  /\ IF bundle = None /\ staging[c] = Complete(want[c])
       THEN Goto(c, "rename") /\ UNCHANGED verdict
       ELSE Leave(c, "failed")
  /\ UNCHANGED <<source, staging, synced, known, want, captured, rechecked,
                 coherent, committed, stuck, spent>>

\* _atomic_rename_noreplace; the kernel has done it before Python knows.
Rename(c) ==
  /\ pc[c] = "rename"
  /\ IF bundle = None
       THEN /\ bundle' = [maker |-> c, files |-> staging[c], private |-> TRUE,
                          whole |-> c \in synced, durable |-> FALSE]
            /\ staging' = [staging EXCEPT ![c] = None]
            /\ committed' = committed \cup {c}
            /\ Goto(c, "committed")
       ELSE Goto(c, "race") /\ UNCHANGED <<bundle, staging, committed>>
  /\ UNCHANGED <<source, synced, known, want, captured, rechecked, coherent,
                 stuck, verdict, spent>>

\* _best_effort_postcommit_fsync may fail unnoticed; the receipt is returned.
Settle(c) ==
  /\ pc[c] = "committed"
  /\ bundle' \in {bundle, Flushed}
  /\ verdict' = [verdict EXCEPT ![c] = "receipt"]
  /\ Goto(c, "done")
  /\ UNCHANGED <<source, staging, synced, known, want, captured, rechecked,
                 coherent, committed, stuck, spent>>

\* Mutant: only a failure removes the staging directory.
Cleanup_OnlyFailed(c) ==
  /\ pc[c] = "cleanup"
  /\ staging' = IF c \in known /\ verdict[c] = "failed"
                  THEN [staging EXCEPT ![c] = None] ELSE staging
  /\ Goto(c, "done")
  /\ UNCHANGED <<source, bundle, synced, known, want, captured, rechecked,
                 coherent, committed, stuck, verdict, spent>>

\* The finally block of a call that did not learn of a rename of its own.
Cleanup(c) ==
  /\ pc[c] = "cleanup"
  /\ staging' = IF c \in known THEN [staging EXCEPT ![c] = None] ELSE staging
  /\ Goto(c, "done")
  /\ UNCHANGED <<source, bundle, synced, known, want, captured, rechecked,
                 coherent, committed, stuck, verdict, spent>>

-----------------------------------------------------------------------------
\* Closing a descriptor fails (the exception skips the removal and replaces
\* the receipt), or the removal fails and is ignored.
CleanupFails(c) ==
  /\ pc[c] = "cleanup"
  /\ Spend("fault")
  /\ stuck' = stuck \cup {c}
  /\ \/ UNCHANGED verdict
     \/ verdict' = [verdict EXCEPT ![c] = IF @ = "receipt" THEN "failed" ELSE @]
  /\ Goto(c, "done")
  /\ UNCHANGED <<source, bundle, staging, synced, known, want, captured,
                 rechecked, coherent, committed>>

\* An operating-system error, or a failed revalidation, at any earlier step.
Abort(c) ==
  /\ pc[c] \in InTry \cup {"capture"}
  /\ Spend("fault")
  /\ Leave(c, "failed")
  /\ UNCHANGED <<source, bundle, staging, synced, known, want, captured,
                 rechecked, coherent, committed, stuck>>

\* An asynchronous exception, also between the rename and renamed = True.
Interrupt(c) ==
  /\ pc[c] \in Live \ {"cleanup"}
  /\ Spend("loss")
  /\ Leave(c, "lost")
  /\ UNCHANGED <<source, bundle, staging, synced, known, want, captured,
                 rechecked, coherent, committed, stuck>>

\* The process dies: no finally block runs.
Crash(c) ==
  /\ pc[c] \in Live
  /\ Spend("loss")
  /\ verdict' = [verdict EXCEPT ![c] = "lost"]
  /\ stuck' = stuck \cup {c}
  /\ Goto(c, "done")
  /\ UNCHANGED <<source, bundle, staging, synced, known, want, captured,
                 rechecked, coherent, committed>>

\* Power is lost: a rename that is not durable may be undone, and a tree
\* renamed before it was synced may come back with files missing.
PowerLoss ==
  /\ Spend("loss")
  /\ LET dead == {c \in Call : pc[c] \in Live} IN
       /\ pc' = [c \in Call |-> IF c \in dead THEN "done" ELSE pc[c]]
       /\ verdict' = [c \in Call |-> IF c \in dead THEN "lost" ELSE verdict[c]]
       /\ stuck' = stuck \cup dead
  /\ \/ UNCHANGED <<bundle, staging>>
     \/ /\ bundle # None /\ ~bundle.durable
        /\ bundle' = None
        /\ staging' = [staging EXCEPT ![bundle.maker] = bundle.files]
        /\ bundle.maker \in Call
     \/ /\ bundle # None /\ ~bundle.whole
        /\ \E S \in SUBSET DOMAIN bundle.files :
             bundle' = [bundle EXCEPT !.files = [n \in S |-> @[n]]]
        /\ UNCHANGED staging
  /\ UNCHANGED <<source, synced, known, want, captured, rechecked, coherent, committed>>

\* Another build rewrites an input file.
Rewrite ==
  /\ Spend("rewrite")
  /\ \E d, e \in Payload, i \in Input :
       source' = [source EXCEPT ![d][i] = [data |-> e, stamp |-> @.stamp + 1]]
  /\ UNCHANGED <<bundle, staging, synced, known, pc, want, captured, rechecked,
                 coherent, committed, stuck, verdict>>

\* Someone removes the published bundle.
Withdraw ==
  /\ bundle # None
  /\ Spend("withdrawal")
  /\ bundle' = None
  /\ UNCHANGED <<source, staging, synced, known, pc, want, captured, rechecked,
                 coherent, committed, stuck, verdict>>

Step(c) == \/ Capture(c) \/ VerifyInputs(c) \/ Lookup(c) \/ Race(c)
           \/ RecheckInput(c) \/ RecheckDone(c) \/ Relook(c) \/ MakeStaging(c)
           \/ Identify(c) \/ WriteFile(c) \/ SyncStaging(c) \/ RequireAbsent(c)
           \/ Rename(c) \/ Settle(c) \/ Cleanup(c)

Outside(c) == CleanupFails(c) \/ Abort(c) \/ Interrupt(c) \/ Crash(c)

Next == \/ \E c \in Call : Start(c) \/ Step(c) \/ Outside(c)
        \/ PowerLoss \/ Rewrite \/ Withdraw

Spec == Init /\ [][Next]_vars

-----------------------------------------------------------------------------
\* Types of everything the publisher and its directory hold; an input has at
\* most one stamp for each rewrite.
PublicationTypeOK ==
  /\ source \in [Payload -> [Input -> File]]
  /\ \A d \in Payload, i \in Input : source[d][i].stamp <= spent["rewrite"]
  /\ bundle \in Bundle \cup {None}
  /\ staging \in [Call -> Directory \cup {None}]
  /\ (synced \cup known \cup coherent \cup committed \cup stuck) \subseteq Call
  /\ pc \in [Call -> Live \cup {"idle", "done"}]
  /\ want \in [Call -> Payload]
  /\ captured \in [Call -> Inputs]
  /\ rechecked \in [Call -> SUBSET Input]
  /\ verdict \in [Call -> {"none", "receipt", "failed", "lost"}]
  /\ spent \in [DOMAIN Limit -> Nat]
  /\ \A k \in DOMAIN Limit : spent[k] <= Limit[k]

\* The published name never shows part of a bundle or a mix of two, in no
\* crash of a call and after no loss of power: the staged tree is verified
\* and on disk before the rename.
BundleWhole ==
  bundle # None /\ bundle.maker \in Call => bundle.files = Complete(want[bundle.maker])

\* What is published, or acknowledged, was one state of the input files: all
\* inputs held their captured bytes and identity at the instant the capture
\* ended, although they are read one by one while another build may rewrite them.
PublishedFromOneState ==
  \A c \in Call : c \in committed \/ verdict[c] = "receipt" => c \in coherent

\* A call that finished its own cleanup leaves no staging directory, unless it
\* never learned the directory's identity or power loss undid its rename.
LitterExplained ==
  \A c \in Call : pc[c] = "done" /\ staging[c] # None
                    => c \in stuck \/ c \notin known \/ c \in committed

\* What WriteOnce sees of the name and of a call.
Seen == IF bundle = None THEN None
        ELSE IF bundle.private /\ \E d \in Payload : bundle.files = Complete(d)
               THEN bundle.files[Manifest] ELSE Other
Status(c) ==
  CASE pc[c] = "idle" -> "idle"
    [] pc[c] = "done" -> verdict[c]
    [] pc[c] \in Live /\ c \in committed -> "committed"
    [] pc[c] = "cleanup" /\ verdict[c] = "receipt" -> "observed"
    [] OTHER -> "calling"

\* Every receipt stands for the exact bundle seen at the name, a call whose
\* rename happened never reports failure, and nobody sets the name twice.
Promised == INSTANCE WriteOnce WITH
  Content <- Payload, Nothing <- None, Alien <- Other, FailsLate <- FALSE,
  content <- Seen, asked <- want, status <- [c \in Call |-> Status(c)]
ImplementsWriteOnce == Promised!Spec

=============================================================================

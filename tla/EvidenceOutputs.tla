-------------------------- MODULE EvidenceOutputs --------------------------
(***************************************************************************)
(* The outputs of a build that must carry artifact evidence: the wheel and *)
(* its two sidecars in the dist directory.  The build first moves the      *)
(* outputs it finds into a backup directory of its own (the outer          *)
(* transaction, orchestrator._RequiredEvidenceOutputs), links the new      *)
(* wheel, and lets the evidence writer publish both sidecars in a          *)
(* transaction of its own (the inner one, evidence.SidecarWriteTransaction *)
(* ), which hands its receipts to the outer one.  Either may have to roll  *)
(* back, while other programs write to the dist directory.                 *)
(*                                                                         *)
(* Both transactions follow one protocol (receipt, move aside, link if     *)
(* absent, verify; quarantine, dispose if owned, restore if absent), so    *)
(* the steps are written once and take the transaction as a parameter.  A  *)
(* step is one directory operation, or the private ones next to it that    *)
(* nobody else can see.  A file stands for its receipt: identity and       *)
(* content together.                                                       *)
(***************************************************************************)
EXTENDS Naturals, FiniteSets

CONSTANTS Existing,    \* the outputs that exist before the first build
          Meddlings,   \* bound on what other programs do to the outputs
          Builds,      \* bound on the number of builds
          Interrupts   \* the builds that a KeyboardInterrupt may stop

Outputs  == 1..3                    \* wheel, CycloneDX, in-toto
Sidecars == {2, 3}
Levels   == {"outer", "inner"}
Covers(lv) == IF lv = "outer" THEN Outputs ELSE Sidecars

ASSUME EvidenceAssumption ==
  /\ Existing \subseteq Outputs
  /\ Meddlings \in Nat /\ Builds \in Nat
  /\ Interrupts \subseteq 1..Builds

\* A file: written by build b for output i, or by somebody else, who may
\* also leave a symbolic link there.  Build 0 wrote what exists at first.
OutputFile == [by : {"build"}, n : 0..Builds, out : Outputs]
          \cup [by : {"other", "link"}, n : 1..Meddlings, out : {0}]
NoFile == [by |-> "none", n |-> 0, out |-> 0]
MaybeFile == OutputFile \cup {NoFile}
IsRegular(f) == f.by # "link"

VARIABLES
  dist,      \* the file at each output path
  prev,      \* prev[lv]: the earlier files in the backup directory
  quar,      \* quar[lv]: the quarantined files in the backup directory
  stage,     \* stage[lv]: staged files not yet unlinked, by output
  orig,      \* orig[lv]: the receipts of the earlier files
  mine,      \* mine[lv]: the outputs claimed (outer) or emitted (inner)
  handled,   \* handled[lv]: the outputs the transaction has looked at
  clean,     \* what the rollback found so far: removed and restored
  at,        \* the step of the build: its transaction, name and output
  build,     \* the number of the build
  outcome,   \* how the build ended, or "running"
  others,    \* files that others have written to an output path
  taken,     \* files that others have overwritten or deleted
  strays,    \* files in backup directories of earlier inner transactions
  lost,      \* files of others that were gone when this build began
  verified   \* whether the commit has seen all three outputs to be ours

tx    == <<prev, quar, stage, orig, mine, handled>>
world == <<others, taken>>
past  == <<strays, lost, verified>>
evidenceVars  == <<dist, tx, clean, at, build, outcome, world, past>>

Empty      == [i \in Outputs |-> NoFile]
Both(x)    == [lv \in Levels |-> x]
Own(i)     == [by |-> "build", n |-> build, out |-> i]
StepOf(lv, s, i) == [lv |-> lv, s |-> s, i |-> i]
GoTo(lv, s, i) == at' = StepOf(lv, s, i)
At(lv, s, i)   == outcome = "running" /\ at = StepOf(lv, s, i)
FilesOf(f) == {f[i] : i \in Outputs} \ {NoFile}

\* What the backup directory of a transaction holds.
Held(lv) == FilesOf(prev[lv]) \cup FilesOf(quar[lv])
              \cup IF lv = "outer" THEN FilesOf(stage[lv]) ELSE {}
Present  == FilesOf(dist) \cup Held("outer") \cup Held("inner") \cup strays

EvidenceInit ==
  /\ dist = [i \in Outputs |-> IF i \in Existing
                 THEN [by |-> "build", n |-> 0, out |-> i] ELSE NoFile]
  /\ prev = Both(Empty) /\ quar = Both(Empty) /\ stage = Both(Empty)
  /\ orig = Both(Empty) /\ mine = Both({}) /\ handled = Both({})
  /\ clean = [removed |-> TRUE, restored |-> TRUE]
  /\ at = StepOf("outer", "start", 1) /\ build = 0 /\ outcome = "none"
  /\ others = {} /\ taken = {} /\ strays = {} /\ lost = {} /\ verified = FALSE

----------------------------------------------------------------------------
(* Giving up: an exception, whatever raised it, rolls back the inner       *)
(* transaction if it is open (in descending order) and then the outer one. *)

FailFrom(lv) == GoTo(lv, "take", IF lv = "inner" THEN 3 ELSE 1)

\* The build directory, and with it the outer backup directory, is removed
\* at the start of every build.  The inner one has a random name in dist.
StartBuild ==
  /\ outcome # "running" /\ build < Builds
  /\ build' = build + 1 /\ outcome' = "running"
  /\ strays' = strays \cup Held("inner")
  /\ lost' = others \ (FilesOf(dist) \cup strays')
  /\ prev' = Both(Empty) /\ quar' = Both(Empty) /\ stage' = Both(Empty)
  /\ orig' = Both(Empty) /\ mine' = Both({}) /\ handled' = Both({})
  /\ clean' = [removed |-> TRUE, restored |-> TRUE]
  /\ GoTo("outer", "receipt", 1)
  /\ verified' = FALSE
  /\ UNCHANGED <<dist, world>>

(* Preserving what is there: write-ahead receipt, then rename.             *)

AfterMove(lv, i) ==
  IF i < 3 THEN GoTo(lv, "receipt", i + 1)
  ELSE IF lv = "outer" THEN GoTo("outer", "wheel", 1) ELSE GoTo("inner", "link", 2)

TakeReceipt(lv, i) ==
  /\ At(lv, "receipt", i)
  /\ CASE dist[i] = NoFile ->
            /\ handled' = [handled EXCEPT ![lv] = @ \cup {i}]
            /\ AfterMove(lv, i) /\ UNCHANGED orig
       [] dist[i] # NoFile /\ IsRegular(dist[i]) ->
            /\ handled' = [handled EXCEPT ![lv] = @ \cup {i}]
            /\ orig' = [orig EXCEPT ![lv][i] = dist[i]]
            /\ GoTo(lv, "move", i)
       [] OTHER ->     \* only the outer one counts the output as prepared
            /\ handled' = [handled EXCEPT ![lv] = IF lv = "outer" THEN @ \cup {i} ELSE @]
            /\ FailFrom(lv) /\ UNCHANGED orig
  /\ UNCHANGED <<dist, prev, quar, stage, mine, clean, build, outcome, world, past>>

MoveAside(lv, i) ==
  /\ At(lv, "move", i)
  /\ prev' = [prev EXCEPT ![lv][i] = dist[i]]
  /\ dist' = [dist EXCEPT ![i] = NoFile]
  /\ IF dist[i] = orig[lv][i] THEN AfterMove(lv, i) ELSE FailFrom(lv)
  /\ UNCHANGED <<quar, stage, orig, mine, handled, clean, build, outcome, world, past>>

(* The wheel is built in the backup directory and linked from there.       *)

BuildWheel ==
  /\ At("outer", "wheel", 1)
  /\ \/ stage' = [stage EXCEPT !["outer"][1] = Own(1)] /\ GoTo("outer", "link", 1)
     \/ UNCHANGED stage /\ FailFrom("outer")
  /\ UNCHANGED <<dist, prev, quar, orig, mine, handled, clean, build, outcome, world, past>>

\* Create-if-absent.  The outer one unlinks its stage when the name is taken.
Link(lv, i) ==
  /\ At(lv, "link", i)
  /\ IF dist[i] = NoFile
     THEN /\ dist' = [dist EXCEPT ![i] = stage[lv][i]]
          /\ GoTo(lv, "verify", i) /\ UNCHANGED stage
     ELSE /\ stage' = IF lv = "outer" THEN [stage EXCEPT ![lv][i] = NoFile] ELSE stage
          /\ FailFrom(lv) /\ UNCHANGED dist
  /\ UNCHANGED <<prev, quar, orig, mine, handled, clean, build, outcome, world, past>>

\* Owned only once the link is seen to be the staged file.
VerifyLink(lv, i) ==
  /\ At(lv, "verify", i)
  /\ IF dist[i] = Own(i)
     THEN /\ mine' = [mine EXCEPT ![lv] = @ \cup {i}]
          /\ stage' = IF lv = "outer" THEN [stage EXCEPT ![lv][i] = NoFile] ELSE stage
          /\ CASE lv = "outer" -> GoTo("outer", "emit", 1)
               [] lv = "inner" /\ i = 2 -> GoTo("inner", "link", 3)
               [] OTHER -> GoTo("inner", "recheck", 2)
     ELSE UNCHANGED <<mine, stage>> /\ FailFrom(lv)
  /\ UNCHANGED <<dist, prev, quar, orig, handled, clean, build, outcome, world, past>>

(* The evidence writer.  Collecting evidence may find it unavailable; the  *)
(* stages are private, and writing one of them may fail.                   *)

EmitEvidence ==
  /\ At("outer", "emit", 1)
  /\ \/ UNCHANGED stage /\ FailFrom("outer")
     \/ \E n \in 1..3 :
          /\ stage' = [stage EXCEPT !["inner"] = [i \in Outputs |->
                          IF i \in Sidecars /\ i <= n THEN Own(i) ELSE NoFile]]
          /\ IF n = 3 THEN GoTo("inner", "receipt", 2) ELSE FailFrom("inner")
  /\ UNCHANGED <<dist, prev, quar, orig, mine, handled, clean, build, outcome, world, past>>

\* The inner transaction looks at both sidecars again, and so does the
\* outer one when it receives the claim.
Recheck(i) ==
  /\ At("inner", "recheck", i) \/ At("inner", "claim", i)
  /\ CASE dist[i] # Own(i) -> FailFrom("inner")
       [] dist[i] = Own(i) /\ i = 2 -> GoTo("inner", at.s, 3)
       [] OTHER -> IF at.s = "recheck" THEN GoTo("inner", "claim", 2)
                                       ELSE GoTo("inner", "close", 2)
  /\ mine' = IF at = StepOf("inner", "claim", 3) /\ dist[3] = Own(3)
             THEN [mine EXCEPT !["outer"] = @ \cup Sidecars] ELSE mine
  /\ UNCHANGED <<dist, prev, quar, stage, orig, handled, clean, build, outcome, world, past>>

\* The stages go and the inner transaction is no longer active; then the
\* sidecars it found go too.
CloseInner ==
  /\ At("inner", "close", 2)
  /\ stage' = [stage EXCEPT !["inner"] = Empty]
  /\ GoTo("inner", "discard", 2)
  /\ UNCHANGED <<dist, prev, quar, orig, mine, handled, clean, build, outcome, world, past>>

DiscardInner(i) ==
  /\ At("inner", "discard", i)
  /\ prev' = [prev EXCEPT !["inner"][i] = NoFile]
  /\ IF i = 2 THEN GoTo("inner", "discard", 3) ELSE GoTo("outer", "revalidate", 2)
  /\ UNCHANGED <<dist, quar, stage, orig, mine, handled, clean, build, outcome, world, past>>

(* The gate reads the sidecars and then the wheel once more, and the       *)
(* commit all three.  The gate may also block for the native binary.       *)

\* Mutant: the commit trusts the gate and does not look at the outputs again
Revalidate_Trusted(i) ==
  /\ At("outer", "revalidate", i)
  /\ \/ /\ dist[i] = Own(i)
        /\ CASE i = 2 -> GoTo("outer", "revalidate", 3)
             [] i = 3 -> GoTo("outer", "revalidate", 1)
             [] OTHER -> GoTo("outer", "discard", 1)
     \/ FailFrom("outer")
  /\ UNCHANGED <<dist, tx, clean, build, outcome, world, past>>

Revalidate(i) ==
  /\ At("outer", "revalidate", i)
  /\ \/ /\ dist[i] = Own(i)
        /\ CASE i = 2 -> GoTo("outer", "revalidate", 3)
             [] i = 3 -> GoTo("outer", "revalidate", 1)
             [] OTHER -> GoTo("outer", "check", 1)
     \/ FailFrom("outer")
  /\ UNCHANGED <<dist, tx, clean, build, outcome, world, past>>

CommitCheck(i) ==
  /\ At("outer", "check", i)
  /\ IF dist[i] # Own(i) THEN FailFrom("outer")
     ELSE IF i < 3 THEN GoTo("outer", "check", i + 1) ELSE GoTo("outer", "discard", 1)
  /\ verified' = (i = 3 /\ dist[i] = Own(i))
  /\ UNCHANGED <<dist, tx, clean, build, outcome, world, strays, lost>>

CommitDiscard(i) ==
  /\ At("outer", "discard", i)
  /\ prev' = [prev EXCEPT !["outer"][i] = NoFile]
  /\ IF i < 3 THEN GoTo("outer", "discard", i + 1) ELSE GoTo("outer", "close", 1)
  /\ UNCHANGED <<dist, quar, stage, orig, mine, handled, clean, build, outcome, world, past>>

CommitClose ==
  /\ At("outer", "close", 1)
  /\ outcome' = "committed"
  /\ UNCHANGED <<dist, tx, clean, at, build, world, past>>

----------------------------------------------------------------------------
(* Rolling back one output: quarantine, dispose or put back, restore.      *)

AfterOutput(lv, i) ==
  IF lv = "inner"
  THEN IF i = 3 THEN GoTo("inner", "take", 2) ELSE GoTo("inner", "end", 2)
  ELSE IF i < 3 THEN GoTo("outer", "take", i + 1) ELSE GoTo("outer", "end", 3)

\* An owned output is moved into quarantine before anything is proved of it.
\* One that is not owned is never touched.
Quarantine(lv, i) ==
  /\ At(lv, "take", i)
  /\ CASE i \notin handled[lv] ->
            AfterOutput(lv, i) /\ UNCHANGED <<dist, quar, clean>>
       [] i \in handled[lv] /\ i \in mine[lv] /\ dist[i] # NoFile ->
            /\ quar' = [quar EXCEPT ![lv][i] = dist[i]]
            /\ dist' = [dist EXCEPT ![i] = NoFile]
            /\ GoTo(lv, "dispose", i) /\ UNCHANGED clean
       [] OTHER ->
            /\ clean' = [clean EXCEPT !.removed = @ /\ i \notin mine[lv] /\ dist[i] = NoFile]
            /\ GoTo(lv, "restore", i) /\ UNCHANGED <<dist, quar>>
  /\ UNCHANGED <<prev, stage, orig, mine, handled, build, outcome, world, past>>

\* Deleted when it is ours.  Otherwise linked back if the name is free, and
\* the quarantined copy is kept either way.
Dispose(lv, i) ==
  /\ At(lv, "dispose", i)
  /\ IF quar[lv][i] = Own(i)
     THEN /\ quar' = [quar EXCEPT ![lv][i] = NoFile]
          /\ clean' = [clean EXCEPT !.removed = @ /\ dist[i] = NoFile]
          /\ UNCHANGED dist
     ELSE /\ dist' = IF dist[i] = NoFile /\ IsRegular(quar[lv][i])
                     THEN [dist EXCEPT ![i] = quar[lv][i]] ELSE dist
          /\ clean' = [clean EXCEPT !.removed = FALSE]
          /\ UNCHANGED quar
  /\ GoTo(lv, "restore", i)
  /\ UNCHANGED <<prev, stage, orig, mine, handled, build, outcome, world, past>>

Restore(lv, i) ==
  /\ At(lv, "restore", i)
  /\ CASE orig[lv][i] = NoFile -> AfterOutput(lv, i) /\ UNCHANGED <<dist, clean>>
       [] orig[lv][i] # NoFile /\ dist[i] = NoFile /\ prev[lv][i] = orig[lv][i] ->
            /\ dist' = [dist EXCEPT ![i] = prev[lv][i]]
            /\ GoTo(lv, "restored", i) /\ UNCHANGED clean
       [] OTHER ->
            /\ clean' = [clean EXCEPT !.restored = FALSE]
            /\ AfterOutput(lv, i) /\ UNCHANGED dist
  /\ UNCHANGED <<tx, build, outcome, world, past>>

\* The backup is dropped only once the restored file is seen in its place.
Restored(lv, i) ==
  /\ At(lv, "restored", i)
  /\ IF dist[i] = orig[lv][i]
     THEN prev' = [prev EXCEPT ![lv][i] = NoFile] /\ UNCHANGED clean
     ELSE clean' = [clean EXCEPT !.restored = FALSE] /\ UNCHANGED prev
  /\ AfterOutput(lv, i)
  /\ UNCHANGED <<dist, quar, stage, orig, mine, handled, build, outcome, world, past>>

\* Nobody reads the result of the inner rollback: the outer one starts over.
EndInner ==
  /\ At("inner", "end", 2)
  /\ stage' = [stage EXCEPT !["inner"] = Empty]
  /\ clean' = [removed |-> TRUE, restored |-> TRUE]
  /\ FailFrom("outer")
  /\ UNCHANGED <<dist, prev, quar, orig, mine, handled, build, outcome, world, past>>

\* Mutant: only the restoring is reported, not what could not be removed
EndOuter_Optimistic ==
  /\ At("outer", "end", 3)
  /\ outcome' = IF clean.restored THEN "rolled back" ELSE "incomplete"
  /\ UNCHANGED <<dist, tx, clean, at, build, world, past>>

EndOuter ==
  /\ At("outer", "end", 3)
  /\ outcome' = IF clean.removed /\ clean.restored /\ Held("outer") = {}
                THEN "rolled back" ELSE "incomplete"
  /\ UNCHANGED <<dist, tx, clean, at, build, world, past>>

----------------------------------------------------------------------------
(* The environment.                                                        *)

RollingBack == at.s \in {"take", "dispose", "restore", "restored", "end"}

\* An interrupt before the outer transaction is closed rolls back.  One
\* during a rollback leaves it where it is, as a crash does.
BuildInterrupted ==
  /\ build \in Interrupts /\ outcome = "running" /\ ~RollingBack
  /\ FailFrom(IF at.lv = "inner" /\ at.s # "discard" THEN "inner" ELSE "outer")
  /\ UNCHANGED <<dist, tx, clean, build, outcome, world, past>>

BuildCrashes ==
  /\ outcome = "running"
  /\ outcome' = "crashed"
  /\ UNCHANGED <<dist, tx, clean, at, build, world, past>>

Replaced(i) == {dist[i]} \ {NoFile}

SomebodyWrites(i) ==
  /\ Cardinality(others) < Meddlings
  /\ \E kind \in {"other", "link"} :
       LET f == [by |-> kind, n |-> Cardinality(others) + 1, out |-> 0] IN
         /\ dist' = [dist EXCEPT ![i] = f]
         /\ others' = others \cup {f}
  /\ taken' = taken \cup Replaced(i)
  /\ UNCHANGED <<tx, clean, at, build, outcome, past>>

EvidenceNext ==
  \/ StartBuild \/ BuildWheel \/ EmitEvidence \/ CloseInner \/ CommitClose \/ EndInner \/ EndOuter
  \/ \E lv \in Levels : \E i \in Covers(lv) :
       \/ TakeReceipt(lv, i) \/ MoveAside(lv, i) \/ Link(lv, i) \/ VerifyLink(lv, i)
       \/ Quarantine(lv, i) \/ Dispose(lv, i) \/ Restore(lv, i) \/ Restored(lv, i)
  \/ \E i \in Sidecars : Recheck(i) \/ DiscardInner(i)
  \/ \E i \in Outputs : Revalidate(i) \/ CommitCheck(i) \/ CommitDiscard(i) \/ SomebodyWrites(i)
  \/ BuildInterrupted \/ BuildCrashes

EvidenceSpec == EvidenceInit /\ [][EvidenceNext]_evidenceVars

----------------------------------------------------------------------------
(* Properties.                                                             *)

Steps == {"start", "receipt", "move", "wheel", "link", "verify", "emit", "recheck", "claim",
          "close", "discard", "revalidate", "check", "take", "dispose", "restore",
          "restored", "end"}

EvidenceTypeOK ==
  /\ dist \in [Outputs -> MaybeFile]
  /\ prev \in [Levels -> [Outputs -> MaybeFile]] /\ quar \in [Levels -> [Outputs -> MaybeFile]]
  /\ stage \in [Levels -> [Outputs -> MaybeFile]] /\ orig \in [Levels -> [Outputs -> MaybeFile]]
  /\ mine \in [Levels -> SUBSET Outputs] /\ handled \in [Levels -> SUBSET Outputs]
  /\ clean \in [removed : BOOLEAN, restored : BOOLEAN]
  /\ at \in [lv : Levels, s : Steps, i : Outputs] /\ build \in 0..Builds
  /\ outcome \in {"none", "running", "committed", "rolled back", "incomplete", "crashed"}
  /\ others \subseteq OutputFile /\ taken \subseteq OutputFile /\ strays \subseteq OutputFile
  /\ lost \subseteq OutputFile /\ verified \in BOOLEAN

Gone(files) == files \ (Present \cup taken)

\* An output that existed before the build is on disk, at its path or in the
\* backup directory, until the commit has seen all three new outputs in
\* place: whatever fails, whoever else writes, wherever the build stops.
EarlierOutputsKept == ~verified => Gone(FilesOf(orig["outer"])) = {}

\* What somebody else writes to an output path is destroyed by a build in two
\* ways only: the build committed over it, or the inner transaction took it for
\* an earlier sidecar and committed, which a later rollback does not undo.
OthersKept ==
  Gone(others) \ lost \subseteq
    (IF verified THEN FilesOf(orig["outer"]) ELSE {})
      \cup (IF Sidecars \subseteq mine["outer"] THEN FilesOf(orig["inner"]) ELSE {})

\* Nothing is destroyed but what a build may destroy: not the earlier outputs
\* before the new ones are seen, nor what somebody else wrote meanwhile.
NothingDestroyed == EarlierOutputsKept /\ OthersKept

\* A rollback that reports itself complete has left no file of this build at
\* an output path or in the backup directory, and every earlier output is
\* back at its path unless somebody has written there since.
CompleteMeansUndone ==
  outcome = "rolled back" =>
    /\ \A i \in Outputs : dist[i] # Own(i)
    /\ Held("outer") = {}
    /\ \A i \in Outputs : orig["outer"][i] # NoFile =>
         dist[i] = orig["outer"][i] \/ orig["outer"][i] \in taken

=============================================================================

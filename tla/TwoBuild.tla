------------------------------ MODULE TwoBuild ------------------------------
(***************************************************************************)
(* The strict executor of an artifact build (build/full_c6_executor.py):   *)
(* it freezes the generated source tree, builds it twice in two private    *)
(* roots, and issues a receipt saying that both builds made the same wheel *)
(* from the frozen tree with the recorded toolchain.  Nothing is locked:   *)
(* the source tree, the copies, the toolchain and the outputs are ordinary *)
(* files that other processes, the build tool itself included, may write   *)
(* at any time.  The executor only ever reads a file, compares, and gives  *)
(* up at the first difference.                                             *)
(*                                                                         *)
(* An execution is a script of steps, the same for every run in a mode.  A *)
(* walk over a tree reads one file at a time, and every walk is done twice *)
(* and compared.  A file is compared by its content (and by its device and *)
(* inode, which a write in place keeps), so that a file that others        *)
(* exchange and put back between two looks is not noticed.  Only the       *)
(* critical files of the toolchain and the PyO3 configuration are compared *)
(* by their times as well: what is put back there is still another file.   *)
(***************************************************************************)
EXTENDS Naturals, Sequences

CONSTANTS Members,     \* the number of source files besides Cargo.lock
          Contents,    \* what a file may hold
          Modes,       \* the drivers: "callback" (or a command) or "native"
          Meddlings    \* bound on the writes of other processes

ASSUME TwoBuildAssumption == /\ Members \in Nat \ {0}
                             /\ {0, 1} \subseteq Contents
                             /\ Modes \subseteq {"callback", "native"}
                             /\ Meddlings \in Nat

Lock     == 0                         \* Cargo.lock sorts before the others
Files    == 0..Members
Builds   == 1..2
Copies   == 0..2                      \* 0 is the copy the lock is made in
\* The PyO3 configuration, the Cargo configuration, the critical files of the
\* toolchain, and the other files of its trees.
Supports == <<"pyo3", "cargo", "tools", "leaves">>
Support  == {Supports[i] : i \in DOMAIN Supports}
Stamped  == {"pyo3", "tools"}         \* compared by their times as well

Absent   == 0
Original == 1
Tree     == [Files -> Contents]
NoTree   == [f \in Files |-> Absent]
Started(t) == t # NoTree

\* What a build makes: the sources and the support material the tool read,
\* and what else the bytes depend on (a clock, a path, a hash seed), numbered
\* as it comes: the second build has that of the first, or another.
Result == [read : [1..(Members + 5) -> Contents], flavour : Builds]
Alien(v) == [read |-> <<v>>, flavour |-> 0]            \* bytes of others
NoResult == [read |-> <<>>, flavour |-> 0]
MaybeResult == Result \cup {Alien(v) : v \in Contents} \cup {NoResult}

VARIABLES
  mode,      \* the driver, and whether Cargo.lock comes with the source tree
  source,    \* the source tree
  support,   \* the support material of the native driver
  project,   \* the private copies of the source tree
  artifact,  \* what the tool left in each build root
  output,    \* the three output files of each build, as one
  frozen,    \* the tree that was frozen
  retained,  \* the output bytes the native postprocessor keeps in memory
  captured,  \* the output bytes the reproducibility check keeps in memory
  step,      \* the step of the script
  got,       \* what the walk in progress has read
  meddled,   \* how often others have written
  outcome,   \* "running", "refused" or "issued"
  \* What has happened, for the properties; no step looks at it.
  instants,  \* the states of the source tree since the last walk over it
             \* began
  made,      \* what the tool made in each build
  exchanged, \* the builds whose product others replaced before it was taken
  restored   \* what others exchanged and put back: source files during the
             \* last walk, files of a build's copy and support material after
             \* its tool had begun to read them

memory == <<frozen, retained, captured>>
disk   == <<source, support, project, artifact, output>>
past   == <<instants, made, exchanged, restored>>
twoBuildVars   == <<mode, disk, memory, step, got, meddled, outcome, past>>

-----------------------------------------------------------------------------
(* The script.  Steps that only look at what a neighbouring step looks at  *)
(* again are written once.                                                 *)
Do(what, n)   == [do |-> what, n |-> n, item |-> "none"]
Check(item)   == [do |-> "support", n |-> 0, item |-> item]
If(c, script) == IF c THEN script ELSE <<>>
IsNative(m)   == m.driver = "native"
Native == IsNative(mode)

Opening(m) ==
  If(IsNative(m), <<Check("tools"), Check("leaves"), Check("pyo3")>>)
    \o <<Do("freeze", 0)>>
    \o If(~ m.locked,
          <<Do("copy", 0), Do("verify", 0), Do("lock", 0), Do("take", 0)>>)
    \o If(IsNative(m), <<Check("tools")>>)

Building(m, n) ==
  <<Do("source", n), Do("copy", n), Do("verify", n), Do("source", n)>>
    \o If(IsNative(m), <<Check("pyo3"), Check("cargo"), Check("tools")>>)
    \o <<Do("run", n)>>
    \o If(IsNative(m), <<Check("tools"), Check("pyo3"), Check("cargo"),
                    Do("post", n)>>)
    \o <<Do("verify", n), Do("source", n), Do("capture", n)>>

\* Mutant: the toolchain is not looked at once more before the receipt
Closing_Early(m) ==
  <<Do("reverify", 1), Do("reverify", 2), Do("compare", 0),
    Do("verify", 1), Do("verify", 2)>>
    \o If(IsNative(m), <<Check("pyo3"), Do("recapture", 1), Do("recapture", 2)>>)
    \o <<Do("source", 0)>>
    \o <<Do("issue", 0)>>

Closing(m) ==
  <<Do("reverify", 1), Do("reverify", 2), Do("compare", 0),
    Do("verify", 1), Do("verify", 2)>>
    \o If(IsNative(m), <<Check("pyo3"), Do("recapture", 1), Do("recapture", 2)>>)
    \o <<Do("source", 0)>>
    \o If(IsNative(m), <<Check("pyo3"), Check("tools"), Check("leaves")>>)
    \o <<Do("issue", 0)>>

Scripts == [m \in [driver : {"callback", "native"}, locked : BOOLEAN] |->
  Opening(m) \o Building(m, 1) \o Building(m, 2) \o Closing(m)]

TwoBuildScript == Scripts[mode]
Now    == TwoBuildScript[step]
Doing(what) == outcome = "running" /\ Now.do = what
n == Now.n

Onward == step' = step + 1 /\ got' = <<>>
Refuse  == outcome' = "refused" /\ got' = <<>>
             /\ UNCHANGED <<mode, disk, memory, step, meddled, past>>
Compare(same) == \/ same /\ Onward
                    /\ UNCHANGED <<mode, disk, memory, meddled, outcome, past>>
                 \/ ~ same /\ Refuse

-----------------------------------------------------------------------------
(* A walk reads the files one by one, twice (_capture_stable_tree,         *)
(* _verify_materialized_tree); a tool reads its inputs one by one, once.   *)
Walks   == {"freeze", "source", "verify", "take"}
OverSource == Now.do \in {"freeze", "source"}
Size    == Members + 1
Wanted  == IF Now.do = "run" THEN Size + Len(Supports) ELSE 2 * Size
Reading == Doing(Now.do) /\ Now.do \in Walks \cup {"run"} /\ Len(got) < Wanted
Walked  == Now.do \in Walks /\ Len(got) = Wanted

NextRead ==
  LET k == Len(got) IN
    CASE Now.do = "run" /\ k >= Size -> support[Supports[k - Size + 1]]
      [] OverSource                  -> source[k % Size]
      [] OTHER                       -> project[n][k % Size]

Read == /\ Reading
        /\ got' = Append(got, NextRead)
        /\ IF OverSource /\ got = <<>>
             THEN /\ instants' = {source}
                  /\ restored' = [restored EXCEPT !.source = {}]
             ELSE UNCHANGED <<instants, restored>>
        /\ UNCHANGED <<mode, disk, memory, step, meddled, outcome, made, exchanged>>

FirstPass == [f \in Files |-> got[f + 1]]
\* Mutant: a tree is walked once
Stable_Once == TRUE
Stable    == \A f \in Files : got[f + 1] = got[f + 1 + Size]

\* The frozen tree without a Cargo.lock that was generated for the builds.
InSource(t) == IF mode.locked THEN t ELSE [t EXCEPT ![Lock] = Absent]

-----------------------------------------------------------------------------
TwoBuildInit == /\ mode \in {m \in [driver : Modes, locked : BOOLEAN] :
                       m.driver = "native" => m.locked}
        /\ source = [f \in Files |-> IF f = Lock /\ ~ mode.locked
                                       THEN Absent ELSE Original]
        /\ support = [x \in Support |-> Original]
        /\ project = [c \in Copies |-> NoTree]
        /\ artifact = [b \in Builds |-> NoResult] /\ output = artifact
        /\ frozen = NoTree
        /\ retained = artifact /\ captured = artifact
        /\ step = 1 /\ got = <<>>
        /\ meddled = 0 /\ outcome = "running"
        /\ instants = {} /\ made = artifact /\ exchanged = {}
        /\ restored = [source |-> {}, copies |-> {}, support |-> {}]

\* The source tree is frozen: both passes must agree, and it must have a
\* Cargo.lock unless the caller gave a generator for one.
MayFreeze == Stable /\ (FirstPass[Lock] # Absent <=> mode.locked)

Freeze == /\ Doing("freeze") /\ Walked
          /\ \/ /\ MayFreeze
                /\ frozen' = FirstPass
                /\ Onward
                /\ UNCHANGED <<mode, disk, retained, captured, meddled,
                               outcome, past>>
             \/ ~ MayFreeze /\ Refuse

\* The source tree must still be the frozen one, without the generated lock.
SourceUnchanged ==
  Doing("source") /\ Walked /\ Compare(Stable /\ FirstPass = InSource(frozen))

\* A fresh copy of the frozen tree, from memory.  A copy that exists already
\* is an error.
Materialize == /\ Doing("copy")
               /\ ~ Started(project[n])
               /\ project' = [project EXCEPT ![n] = frozen]
               /\ Onward
               /\ UNCHANGED <<mode, source, support, artifact, output, memory,
                              meddled, outcome, past>>

\* The copy of a build must be the frozen tree, with nothing added.
VerifyProject ==
  Doing("verify") /\ Walked /\ Compare(Stable /\ FirstPass = frozen)

\* The offline lock generator.  It fails, or leaves a Cargo.lock.
GenerateLock ==
  /\ Doing("lock")
  /\ \/ Refuse
     \/ /\ project' = [project EXCEPT ![0][Lock] = Original]
        /\ Onward
        /\ UNCHANGED <<mode, source, support, artifact, output, memory,
                       meddled, outcome, past>>

\* The generator may have changed nothing but Cargo.lock, which joins the
\* frozen tree; its private copy is removed.
OnlyLockMade == /\ Stable
                /\ FirstPass[Lock] # Absent
                /\ \A f \in Files \ {Lock} : FirstPass[f] = frozen[f]

TakeLock ==
  /\ Doing("take") /\ Walked
  /\ \/ /\ OnlyLockMade
        /\ frozen' = FirstPass
        /\ project' = [project EXCEPT ![0] = NoTree]
        /\ Onward
        /\ UNCHANGED <<mode, source, support, artifact, output, retained,
                       captured, meddled, outcome, past>>
     \/ ~ OnlyLockMade /\ Refuse

\* A piece of the support material must be what the identities record.
CheckSupport == Doing("support") /\ Compare(support[Now.item] = Original)

\* The build tool, or the callback that stands for it: it fails or runs out
\* of time, or makes its artifact from what it has read.
RunTool ==
  /\ Doing("run") /\ Len(got) = Wanted
  /\ \/ Refuse
     \/ \E flavour \in 1..n :
          LET product == [read |-> got, flavour |-> flavour] IN
            /\ made' = [made EXCEPT ![n] = product]
            /\ artifact' = [artifact EXCEPT ![n] = product]
            /\ output' = IF Native THEN output ELSE [output EXCEPT ![n] = product]
            /\ Onward
            /\ UNCHANGED <<mode, source, support, project, memory, meddled,
                           outcome, instants, exchanged, restored>>

\* The native postprocessor packs the artifact, and keeps what it packed.
Postprocess == /\ Doing("post")
               /\ retained' = [retained EXCEPT ![n] = artifact[n]]
               /\ output' = [output EXCEPT ![n] = artifact[n]]
               /\ Onward
               /\ UNCHANGED <<mode, source, support, project, artifact, frozen,
                              captured, meddled, outcome, past>>

\* The reproducibility check reads the outputs of the build.
CaptureOutput == /\ Doing("capture")
                 /\ captured' = [captured EXCEPT ![n] = output[n]]
                 /\ Onward
                 /\ UNCHANGED <<mode, disk, frozen, retained, meddled, outcome,
                                past>>

\* After both builds the outputs must still be what was captured, ...
Reverify == Doing("reverify") /\ Compare(output[n] = captured[n])

\* ... the two captures the same bytes, ...
CompareBuilds == Doing("compare") /\ Compare(captured[1] = captured[2])

\* ... and, with the native driver, what the postprocessor kept.
Recapture == Doing("recapture")
               /\ Compare(output[n] = retained[n] /\ retained[n] = captured[n])

\* The receipt; with the native driver, the authority that carries it.
Issue == /\ Doing("issue")
         /\ outcome' = "issued"
         /\ UNCHANGED <<mode, disk, memory, step, got, meddled, past>>

-----------------------------------------------------------------------------
(* Other processes write a file that exists, or create a Cargo.lock in the *)
(* source tree.  What they write may be new or have been there before.     *)
Other(old) == Contents \ {Absent, old}

\* A source file gets a content it has had since the walk began.
ComesBack(f, v) == v \in {t[f] : t \in instants}

WriteSource ==
  \E f \in Files : \E v \in Other(source[f]) :
    /\ source' = [source EXCEPT ![f] = v]
    /\ IF OverSource /\ got # <<>>
         THEN /\ instants' = instants \cup {source'}
              /\ restored' = IF ComesBack(f, v)
                               THEN [restored EXCEPT !.source = @ \cup {f}]
                               ELSE restored
         ELSE UNCHANGED <<instants, restored>>
    /\ UNCHANGED <<support, project, artifact, output, exchanged>>

\* The tool of build b has begun to read; what it reads is looked at until the
\* end of the build, the other files of the toolchain at the end of both.
Begun(b) == made[b] # NoResult \/ (Now.do = "run" /\ n = b)
Open(b)  == Begun(b) /\ captured[b] = NoResult
Users(x) == {b \in Builds : IF x = "leaves" THEN Begun(b) ELSE Open(b)}

WriteCopy ==
  \E c \in Copies, f \in Files :
    /\ Started(project[c])
    /\ \E v \in Other(project[c][f]) :
         /\ project' = [project EXCEPT ![c][f] = v]
         /\ restored' = IF v = frozen[f] /\ c \in Builds /\ Open(c)
                          THEN [restored EXCEPT !.copies = @ \cup {<<c, f>>}]
                          ELSE restored
    /\ UNCHANGED <<source, support, artifact, output, instants, exchanged>>

WriteSupport ==
  \E x \in Support : \E v \in Other(support[x]) :
    /\ Native
    /\ v = Original => x \notin Stamped
    /\ support' = [support EXCEPT ![x] = v]
    /\ restored' = IF v = Original
                     THEN [restored EXCEPT !.support = @ \cup (Users(x) \X {x})]
                     ELSE restored
    /\ UNCHANGED <<source, project, artifact, output, instants, exchanged>>

\* The bytes others put in the place of a product: their own, or a copy of a
\* product of either build.
Bytes == ({Alien(v) : v \in Contents \ {Absent, Original}}
            \cup {artifact[b] : b \in Builds} \cup {output[b] : b \in Builds})
           \ {NoResult}

\* Nobody has taken the product of build b yet.
Untaken(b) == IF Native THEN retained[b] = NoResult ELSE captured[b] = NoResult

WriteArtifact ==
  \E b \in Builds : \E bytes \in Bytes \ {artifact[b]} :
    /\ Native /\ artifact[b] # NoResult
    /\ artifact' = [artifact EXCEPT ![b] = bytes]
    /\ exchanged' = IF Untaken(b) THEN exchanged \cup {b} ELSE exchanged
    /\ UNCHANGED <<source, support, project, output, instants, restored>>

WriteOutput ==
  \E b \in Builds : \E bytes \in Bytes \ {output[b]} :
    /\ output[b] # NoResult
    /\ output' = [output EXCEPT ![b] = bytes]
    /\ exchanged' = IF ~ Native /\ Untaken(b) THEN exchanged \cup {b} ELSE exchanged
    /\ UNCHANGED <<source, support, project, artifact, instants, restored>>

Meddle ==
  /\ outcome = "running" /\ meddled < Meddlings
  /\ meddled' = meddled + 1
  /\ (WriteSource \/ WriteCopy \/ WriteSupport \/ WriteArtifact \/ WriteOutput)
  /\ UNCHANGED <<mode, memory, step, got, outcome, made>>

\* The call has returned.
Ended == outcome # "running" /\ UNCHANGED twoBuildVars

Execute == \/ Read \/ Freeze \/ SourceUnchanged \/ Materialize \/ VerifyProject
           \/ GenerateLock \/ TakeLock \/ CheckSupport \/ RunTool \/ Postprocess
           \/ CaptureOutput \/ Reverify \/ CompareBuilds \/ Recapture \/ Issue
TwoBuildNext == Execute \/ Meddle \/ Ended
TwoBuildSpec == TwoBuildInit /\ [][TwoBuildNext]_twoBuildVars

-----------------------------------------------------------------------------
TwoBuildTypeOK ==
  /\ mode \in [driver : Modes, locked : BOOLEAN]
  /\ source \in Tree /\ frozen \in Tree /\ project \in [Copies -> Tree]
  /\ support \in [Support -> Contents]
  /\ \A b \in Builds : {artifact[b], output[b], retained[b], captured[b], made[b]}
                         \subseteq MaybeResult
  /\ step \in DOMAIN TwoBuildScript
  /\ got \in Seq(Contents) /\ Len(got) <= Wanted
  /\ meddled \in 0..Meddlings
  /\ outcome \in {"running", "refused", "issued"}
  /\ instants \subseteq Tree /\ exchanged \subseteq Builds
  /\ restored \in [source : SUBSET Files, copies : SUBSET (Builds \X Files),
                   support : SUBSET (Builds \X (Support \ Stamped))]

\* What the tool of build b read is the frozen tree and, with the native
\* driver, the recorded support material, except for what others put back
\* before it was looked at again.
ReadAsFrozen(b) ==
  /\ \A f \in Files :
       <<b, f>> \in restored.copies \/ made[b].read[f + 1] = frozen[f]
  /\ Native => \A i \in DOMAIN Supports :
       <<b, Supports[i]>> \in restored.support \/ made[b].read[Size + i] = Original

\* A receipt is only issued for two captures that hold the same bytes, with
\* the native driver the bytes the postprocessor packed.  Each is what the
\* tool made in its build, unless others replaced the product before it was
\* taken.  And the tool read the frozen tree and the recorded support material,
\* although each is only looked at before and after it is used: a file it read
\* otherwise others have put back after that and before the next look, and in
\* both builds if neither product was replaced; of the critical files of the
\* toolchain and of the PyO3 configuration, which are compared by their times,
\* it read nothing else.  A write that stays, to whatever file and at whatever
\* time, ends in no receipt that it makes untrue.  (execute_full_c6_two_build;
\* docs/unsupported-features.md names what goes unnoticed.)
ReceiptTrue ==
  outcome = "issued" => /\ captured[1] = captured[2]
                        /\ Native => retained = captured
                        /\ \A b \in Builds :
                             /\ b \in exchanged \/ captured[b] = made[b]
                             /\ ReadAsFrozen(b)

\* Whenever a walk over the source tree has been accepted, the frozen tree is
\* a state the source tree had at one instant during that walk, although the
\* files are read one after another: the first walk freezes no mixture of two
\* states, and the last one shows that the source still was what is signed.
\* It takes that no file was changed and changed back during the walk.
\* (_capture_stable_tree, _assert_source_unchanged.)
CaptureIsSnapshot ==
  /\ outcome # "refused"
  /\ Started(frozen)
  /\ ~ (outcome = "running" /\ OverSource /\ got # <<>>)
  /\ restored.source = {}
  => InSource(frozen) \in instants
=============================================================================

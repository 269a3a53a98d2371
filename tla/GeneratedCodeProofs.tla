------------------------- MODULE GeneratedCodeProofs --------------------------
(***************************************************************************)
(* What the generated code promises, and the analysis that it rests on.    *)
(*                                                                         *)
(* The Python wrapper of any set of functions, imported in any             *)
(* environment.  The environment is read afresh at every step, so each     *)
(* choice is justified by what it was at that moment; the invariants keep, *)
(* for every place of the module body, what the steps before it have       *)
(* established.                                                            *)
(*                                                                         *)
(* The module of the user, of any length: what the analysis says that its  *)
(* names are bound to, and which functions are marked, against what is so  *)
(* when it has been imported.  Whatever is not known exactly is given up,  *)
(* so what the scanner still holds a name to be, the name is.              *)
(*                                                                         *)
(* The subprocess bridge of a Rust executable, for any number of calls,    *)
(* dispatchers and kills: answers belong to their calls, no call runs      *)
(* twice, and neither lost Python state nor a requested exit is hidden     *)
(* from the program.  At most one request is under way: the current        *)
(* call's, in the dispatcher that the client holds.                        *)
(*                                                                         *)
(* Its integer helpers, for words of every width.                          *)
(***************************************************************************)
EXTENDS WrapperImport, FinalBindings, SubprocessBridge, CheckedArithmetic, SequenceTheorems,
        TLAPS

-----------------------------------------------------------------------------
\* The import of a wrapper.

\* The places where the fallback module is imported and initialized, and those
\* where the native functions are bound.
Initialized == {"capture", "register", "natives", "publish", "ready"}
Binding == {"natives", "publish", "ready"}
TopPlaces == {"top_binding", "disabled", "required", "import_elided", "run_top"}
Places == {"out", "import_full"} \cup TopPlaces \cup Initialized

ElidedLeg == HasTopLevel /\ Present(TopLevel) /\ \E m \in modes : m # "fallback"
FullLeg == HasTopLevel => \E m \in modes : m # "native"

\* What the choice of the leg rests on.
LegInv ==
  /\ at \in Places
  /\ at # "out" => mode \in modes
  /\ at \in TopPlaces => HasTopLevel
  /\ at \in {"disabled", "required"} /\ top => Present(TopLevel)
  /\ at \in {"import_elided", "run_top"} => ElidedLeg
  /\ at = "import_full" => FullLeg
  /\ at = "run_top" => selected = "elided" /\ selected \in cached
  /\ at \in Initialized =>
       /\ initialized /\ selected \in cached
       /\ selected = "elided" => ElidedLeg
       /\ selected = "full" => FullLeg

\* What has become of the functions that have been bound.
FaultInv ==
  /\ at # "out" => debug \in debugs
  /\ at \notin Binding \cup {"out"} => todo = Functions
  /\ at \in {"publish", "ready"} => todo = {}
  /\ at \in Binding => \A f \in Functions \ todo : Faulty(f) => warned /\ FALSE \in debugs

LEMMA TypeInit == ImportInit => TypeOK
<1>1. Nothing \in [Functions -> Kinds]
  BY DEF Nothing, Kinds
<1> QED
  BY <1>1 DEF ImportInit, TypeOK

LEMMA TypeStep == TypeOK /\ LegInv /\ [ImportNext]_importVars => TypeOK'
<1> SUFFICES ASSUME TypeOK, LegInv, [ImportNext]_importVars PROVE TypeOK'
  OBVIOUS
<1> USE DEF TypeOK, Kinds, Nothing, FallbackModules, env, build, process, locals, history
<1>1. CASE Begin
  BY <1>1 DEF Begin
<1>2. CASE BindTopLevel
  BY <1>2 DEF BindTopLevel, LoadRaises, Fail, Go, Load, Present
<1>3. CASE SelectDisabled \/ SelectRequired
  BY <1>3 DEF SelectDisabled, SelectRequired, Decide, Go
<1>4. ASSUME NEW m \in FallbackModules, ImportFallback(m) PROVE TypeOK'
  <2>1. [attribute EXCEPT ![m] = [f \in Functions |-> "original"]]
          \in [FallbackModules -> [Functions -> Kinds]]
    OBVIOUS
  <2>2. attribute' \in [FallbackModules -> [Functions -> Kinds]]
    BY <1>4, <2>1 DEF ImportFallback, Fail
  <2>3. cached' \subseteq FallbackModules /\ selected' \in FallbackModules \cup {"none"}
    BY <1>4 DEF ImportFallback, Fail
  <2> QED
    BY <1>4, <2>2, <2>3 DEF ImportFallback, Fail
<1>5. CASE RunTopLevel
  BY <1>5 DEF RunTopLevel, Fail, Go
<1>6. CASE CaptureFallbacks
  <2>1. CASE at = "capture" /\ captured' = attribute[selected]
    <3>1. selected \in FallbackModules
      BY <2>1 DEF LegInv, Initialized
    <3>2. captured' \in [Functions -> Kinds]
      BY <2>1, <3>1
    <3> QED
      BY <1>6, <3>2 DEF CaptureFallbacks, Fail
  <2>2. CASE ~ (at = "capture" /\ captured' = attribute[selected])
    BY <1>6, <2>2 DEF CaptureFallbacks, Fail, Go
  <2> QED
    BY <2>1, <2>2
<1>7. CASE RegisterOriginals
  BY <1>7 DEF RegisterOriginals, Go
<1>8. ASSUME NEW f \in Functions, BindNative(f) PROVE TypeOK'
  BY <1>8 DEF BindNative, LoadRaises, Fail, Go
<1>9. CASE ReplaceFallbacks
  BY <1>9 DEF ReplaceFallbacks, Go
<1>10. CASE Publish
  BY <1>10 DEF Publish, Fail, Go
<1>11. CASE SetEnv
  BY <1>11 DEF SetEnv
<1>12. CASE UNCHANGED importVars
  BY <1>12 DEF importVars
<1> QED
  BY <1>1, <1>2, <1>3, <1>4, <1>5, <1>6, <1>7, <1>8, <1>9, <1>10, <1>11, <1>12 DEF ImportNext

LEMMA LegInit == ImportInit => LegInv
BY DEF ImportInit, LegInv, Places, TopPlaces, Initialized

LEMMA LegStep == TypeOK /\ LegInv /\ [ImportNext]_importVars => LegInv'
<1> SUFFICES ASSUME TypeOK, LegInv, [ImportNext]_importVars PROVE LegInv'
  OBVIOUS
<1> USE ImportAssumption
    DEF LegInv, Places, TopPlaces, Initialized, env, build, process, locals, history, Fail, Go
\* An import that fails, and the legs that a step leaves as they were.
<1>0. ASSUME UNCHANGED <<build, modes>> PROVE ElidedLeg' = ElidedLeg /\ FullLeg' = FullLeg /\ Present(TopLevel)' = Present(TopLevel)
  BY <1>0 DEF ElidedLeg, FullLeg, Present
<1>1. CASE Begin
  <2>1. ~ HasTopLevel => FullLeg'
    BY DEF FullLeg
  <2>2. /\ at' = IF HasTopLevel THEN "top_binding" ELSE "import_full"
        /\ modes' = {mode} /\ mode' = mode
    BY <1>1 DEF Begin
  <2> QED
    BY <2>1, <2>2
<1>2. CASE BindTopLevel
  <2>1. CASE LoadRaises(TopLevel, "top_binding")
    BY <1>0, <2>1 DEF LoadRaises
  <2>2. CASE ~ LoadRaises(TopLevel, "top_binding")
    BY <1>0, <1>2, <2>2 DEF BindTopLevel
  <2> QED
    BY <2>1, <2>2
<1>3. CASE SelectDisabled
  BY <1>0, <1>3 DEF SelectDisabled, Decide, ElidedLeg, FullLeg
<1>4. CASE SelectRequired
  BY <1>0, <1>4 DEF SelectRequired, Decide, FullLeg
<1>5. ASSUME NEW m \in FallbackModules, ImportFallback(m) PROVE LegInv'
  BY <1>0, <1>5 DEF ImportFallback, ImportPoint, AfterImport, FallbackModules
<1>6. CASE RunTopLevel
  BY <1>0, <1>6 DEF RunTopLevel
<1>7. CASE CaptureFallbacks
  BY <1>0, <1>7 DEF CaptureFallbacks
<1>8. CASE RegisterOriginals
  BY <1>0, <1>8 DEF RegisterOriginals
<1>9. ASSUME NEW f \in Functions, BindNative(f) PROVE LegInv'
  BY <1>0, <1>9 DEF BindNative, LoadRaises
<1>10. CASE ReplaceFallbacks
  BY <1>0, <1>10 DEF ReplaceFallbacks
<1>11. CASE Publish
  BY <1>0, <1>11 DEF Publish
<1>12. CASE SetEnv
  BY <1>12 DEF SetEnv, ElidedLeg, FullLeg, Present
<1>13. CASE UNCHANGED importVars
  BY <1>0, <1>13 DEF importVars
<1> QED
  BY <1>1, <1>2, <1>3, <1>4, <1>5, <1>6, <1>7, <1>8, <1>9, <1>10, <1>11, <1>12, <1>13 DEF ImportNext

LEMMA FaultInit == ImportInit => FaultInv
BY DEF ImportInit, FaultInv, Binding

LEMMA FaultStep == TypeOK /\ FaultInv /\ [ImportNext]_importVars => FaultInv'
<1> SUFFICES ASSUME TypeOK, FaultInv, [ImportNext]_importVars PROVE FaultInv'
  OBVIOUS
<1> USE DEF FaultInv, Binding, env, build, process, locals, history, Fail, Go
<1>0. ASSUME UNCHANGED build PROVE \A f \in Functions : Faulty(f)' = Faulty(f)
  BY <1>0 DEF Faulty, Present
<1>1. CASE Begin
  BY <1>1 DEF Begin
<1>2. CASE BindTopLevel
  BY <1>2 DEF BindTopLevel, LoadRaises
<1>3. CASE SelectDisabled \/ SelectRequired
  BY <1>0, <1>3 DEF SelectDisabled, SelectRequired, Decide
<1>4. ASSUME NEW m \in FallbackModules, ImportFallback(m) PROVE FaultInv'
  BY <1>0, <1>4 DEF ImportFallback, ImportPoint, AfterImport, FallbackModules
<1>5. CASE RunTopLevel \/ CaptureFallbacks
  BY <1>0, <1>5 DEF RunTopLevel, CaptureFallbacks
<1>6. CASE RegisterOriginals
  BY <1>0, <1>6 DEF RegisterOriginals
<1>7. ASSUME NEW f \in Functions, BindNative(f) PROVE FaultInv'
  <2>1. CASE LoadRaises(f, "natives")
    BY <2>1 DEF LoadRaises
  <2>2. CASE ~ LoadRaises(f, "natives")
    <3>1. /\ at = "natives" /\ at' = "natives" /\ todo' = todo \ {f}
          /\ UNCHANGED <<build, debug, debugs>>
          /\ ~ (debug /\ Faulty(f)) /\ warned' = (warned \/ Faulty(f))
      BY <1>7, <2>2 DEF BindNative, Load
    <3>2. Faulty(f) => warned' /\ FALSE \in debugs
      <4>1. Faulty(f) => debug = FALSE
        BY <3>1 DEF TypeOK
      <4> QED
        BY <3>1, <4>1
    <3>3. ASSUME NEW g \in Functions \ todo, Faulty(g) PROVE warned' /\ FALSE \in debugs
      BY <3>1, <3>3
    <3> QED
      BY <1>0, <3>1, <3>2, <3>3
  <2> QED
    BY <2>1, <2>2
<1>8. CASE ReplaceFallbacks \/ Publish
  <2>1. CASE at' = "out"
    BY <2>1
  <2>2. CASE at' # "out"
    <3>1. /\ at \in Binding /\ at' \in Binding /\ todo = {}
          /\ UNCHANGED <<build, debug, debugs, todo, warned>>
      BY <1>8, <2>2 DEF ReplaceFallbacks, Publish
    <3> QED
      BY <1>0, <3>1
  <2> QED
    BY <2>1, <2>2
<1>9. CASE SetEnv
  BY <1>0, <1>9 DEF SetEnv
<1>10. CASE UNCHANGED importVars
  BY <1>0, <1>10 DEF importVars
<1> QED
  BY <1>1, <1>2, <1>3, <1>4, <1>5, <1>6, <1>7, <1>8, <1>9, <1>10 DEF ImportNext

ImportInv == TypeOK /\ LegInv /\ FaultInv

THEOREM ImportInvariant == ImportSpec => []ImportInv
<1>1. ImportInit => ImportInv
  BY TypeInit, LegInit, FaultInit DEF ImportInv
<1>2. ImportInv /\ [ImportNext]_importVars => ImportInv'
  BY TypeStep, LegStep, FaultStep DEF ImportInv
<1> QED
  BY <1>1, <1>2, PTL DEF ImportSpec

\* Every variable keeps to the values the module body gives it, whatever happens to
\* the environment while the body runs.
THEOREM ImportTyped == ImportSpec => []TypeOK
<1>1. ImportInv => TypeOK
  BY DEF ImportInv
<1> QED
  BY <1>1, ImportInvariant, PTL

\* The names a ready module publishes were initialized by exactly the leg that was
\* selected, and some mode in force during the import justifies that leg.
THEOREM LegIsInitialized == ImportSpec => []InitializedOnSelectedLeg
<1>1. ImportInv => InitializedOnSelectedLeg
  <2> SUFFICES ASSUME LegInv, at = "ready" PROVE InitializedOnSelectedLeg
    BY DEF ImportInv, InitializedOnSelectedLeg
  <2>1. /\ initialized /\ selected \in cached
        /\ selected = "elided" => ElidedLeg
        /\ selected = "full" => FullLeg
    BY DEF LegInv, Initialized
  <2>2. ElidedLeg => HasTopLevel /\ Present(TopLevel) /\ modes # {"fallback"}
    BY DEF ElidedLeg
  <2>3. FullLeg /\ HasTopLevel => modes # {"native"}
    BY DEF FullLeg
  <2> QED
    BY <2>1, <2>2, <2>3 DEF InitializedOnSelectedLeg
<1> QED
  BY <1>1, ImportInvariant, PTL

\* A native module that exists but does not load, or lacks a function, is never
\* fallen back from without a warning, nor at all with debugging on throughout.
THEOREM FaultIsSurfaced == ImportSpec => []FaultSurfaced
<1>1. ImportInv => FaultSurfaced
  <2> SUFFICES ASSUME FaultInv, at = "ready", NEW f \in Functions, Faulty(f)
               PROVE warned /\ debugs # {TRUE}
    BY DEF ImportInv, FaultSurfaced
  <2>1. f \in Functions \ todo /\ at \in Binding
    BY DEF FaultInv, Binding
  <2> QED
    BY <2>1 DEF FaultInv
<1> QED
  BY <1>1, ImportInvariant, PTL

-----------------------------------------------------------------------------
(* What stands under the names.  Only methods are checked for the mark of an *)
(* original, so the wrappers of an earlier attempt are recognized either by  *)
(* a method beside them or because no attempt follows the one that put them. *)

AllAre(kind) == [f \in Functions |-> kind]
OneAttempt == ~ MayReload /\ MissingExports \subseteq {FALSE}
Recognizable == Methods # {} \/ OneAttempt

NoWrapper(names) == \A f \in Functions : names[f] # "wrapper"

OriginalInv ==
  /\ missing_export \in MissingExports
  /\ \A m \in FallbackModules : attribute[m] \in {Nothing, AllAre("original"), AllAre("wrapper")}
  /\ NoWrapper(captured) /\ NoWrapper(registry) /\ NoWrapper(published)
  /\ OneAttempt => at \in {"publish", "ready"} \/ \A m \in FallbackModules : NoWrapper(attribute[m])

LEMMA OriginalInit == ImportInit => OriginalInv
<1> SUFFICES ASSUME ImportInit PROVE OriginalInv
  OBVIOUS
<1>1. \A m \in FallbackModules : attribute[m] = Nothing
  BY DEF ImportInit
<1>2. NoWrapper(captured) /\ NoWrapper(registry) /\ NoWrapper(published) /\ NoWrapper(Nothing)
  BY DEF ImportInit, NoWrapper, Nothing
<1>3. missing_export \in MissingExports
  BY DEF ImportInit
<1> QED
  BY <1>1, <1>2, <1>3 DEF OriginalInv

LEMMA OriginalStep ==
  ASSUME Recognizable, TypeOK, LegInv, OriginalInv, [ImportNext]_importVars
  PROVE  OriginalInv'
<1> USE DEF env, build, process, locals, history, Fail, Go
\* Most steps leave the names alone, and only the last places of the body may be
\* reached with a wrapper under them.
<1>0. ASSUME UNCHANGED <<attribute, captured, registry, published, missing_export>>,
             at \in {"publish", "ready"} /\ OneAttempt => at' \in {"publish", "ready"}
      PROVE  OriginalInv'
  <2>1. OneAttempt => at' \in {"publish", "ready"} \/ \A m \in FallbackModules : NoWrapper(attribute[m])'
    BY <1>0 DEF OriginalInv, NoWrapper
  <2>2. NoWrapper(captured)' /\ NoWrapper(registry)' /\ NoWrapper(published)'
    BY <1>0 DEF OriginalInv, NoWrapper
  <2>3. \A m \in FallbackModules : attribute'[m] \in {Nothing, AllAre("original"), AllAre("wrapper")}
    BY <1>0 DEF OriginalInv
  <2>4. (missing_export \in MissingExports)'
    BY <1>0 DEF OriginalInv
  <2> QED
    BY <2>1, <2>2, <2>3, <2>4 DEF OriginalInv, AllAre, Nothing
<1>1. CASE Begin
  <2>1. UNCHANGED <<attribute, registry, published, missing_export>> /\ captured' = Nothing
    BY <1>1 DEF Begin
  <2>2. OneAttempt => at = "out"
    BY <1>1 DEF Begin, OneAttempt
  <2>3. NoWrapper(captured)' /\ NoWrapper(registry)' /\ NoWrapper(published)'
    BY <2>1 DEF OriginalInv, NoWrapper, Nothing
  <2>4. OneAttempt => \A m \in FallbackModules : NoWrapper(attribute[m])'
    BY <2>1, <2>2 DEF OriginalInv, NoWrapper
  <2> QED
    BY <2>1, <2>3, <2>4 DEF OriginalInv, AllAre, Nothing
<1>2. CASE BindTopLevel \/ SelectDisabled \/ SelectRequired \/ RunTopLevel
  BY <1>0, <1>2 DEF BindTopLevel, SelectDisabled, SelectRequired, RunTopLevel, Decide, LoadRaises
<1>3. ASSUME NEW m \in FallbackModules, ImportFallback(m) PROVE OriginalInv'
  <2>1. CASE attribute' = attribute
    BY <1>0, <1>3, <2>1 DEF ImportFallback, ImportPoint
  <2>2. CASE attribute' # attribute
    <3>1. /\ attribute' = [attribute EXCEPT ![m] = AllAre("original")]
          /\ UNCHANGED <<captured, registry, published, missing_export>>
          /\ at \notin {"publish", "ready"}
      BY <1>3, <2>2 DEF ImportFallback, ImportPoint, AllAre
    <3>2. NoWrapper(AllAre("original"))
      BY DEF NoWrapper, AllAre
    <3>3. \A n \in FallbackModules : attribute'[n] = IF n = m THEN AllAre("original") ELSE attribute[n]
      BY <3>1 DEF TypeOK
    <3>4. \A n \in FallbackModules : attribute'[n] \in {Nothing, AllAre("original"), AllAre("wrapper")}
      BY <3>3 DEF OriginalInv
    <3>5. OneAttempt => \A n \in FallbackModules : NoWrapper(attribute'[n])
      BY <3>1, <3>2, <3>3 DEF OriginalInv
    <3>6. NoWrapper(captured)' /\ NoWrapper(registry)' /\ NoWrapper(published)'
      BY <3>1 DEF OriginalInv, NoWrapper
    <3> QED
      BY <3>1, <3>4, <3>5, <3>6 DEF OriginalInv, AllAre, Nothing, NoWrapper
  <2> QED
    BY <2>1, <2>2
<1>4. CASE CaptureFallbacks
  <2>1. CASE at' = "out"
    BY <1>0, <1>4, <2>1 DEF CaptureFallbacks
  <2>2. CASE at' # "out"
    <3>1. /\ at = "capture" /\ captured' = attribute[selected]
          /\ \A f \in Methods : attribute[selected][f] = "original"
          /\ UNCHANGED <<attribute, registry, published, missing_export>>
      BY <1>4, <2>2 DEF CaptureFallbacks
    <3>2. selected \in FallbackModules
      BY <3>1 DEF LegInv, Initialized, TypeOK
    <3>3. NoWrapper(attribute[selected])
      <4>1. CASE Methods # {}
        <5>1. PICK f \in Methods : attribute[selected][f] = "original"
          BY <3>1, <4>1
        <5>2. f \in Functions
          BY ImportAssumption
        <5>3. attribute[selected] = AllAre("original")
          BY <3>2, <5>1, <5>2 DEF OriginalInv, Nothing, AllAre
        <5> QED
          BY <5>3 DEF NoWrapper, AllAre
      <4>2. CASE OneAttempt
        BY <3>1, <3>2, <4>2 DEF OriginalInv
      <4> QED
        BY <4>1, <4>2 DEF Recognizable
    <3>4. NoWrapper(captured)' /\ NoWrapper(registry)' /\ NoWrapper(published)'
      BY <3>1, <3>3 DEF OriginalInv, NoWrapper
    <3> QED
      BY <3>1, <3>4 DEF OriginalInv, AllAre, Nothing, NoWrapper
  <2> QED
    BY <2>1, <2>2
<1>5. CASE RegisterOriginals
  <2>1. /\ registry' = [f \in Functions |-> IF f \in Shims THEN captured[f] ELSE "none"]
        /\ UNCHANGED <<attribute, captured, published, missing_export>> /\ at = "register"
    BY <1>5 DEF RegisterOriginals
  <2>2. NoWrapper(captured)' /\ NoWrapper(registry)' /\ NoWrapper(published)'
    BY <2>1 DEF OriginalInv, NoWrapper
  <2> QED
    BY <2>1, <2>2 DEF OriginalInv, AllAre, Nothing, NoWrapper
<1>6. ASSUME NEW f \in Functions, BindNative(f) PROVE OriginalInv'
  BY <1>0, <1>6 DEF BindNative, LoadRaises
<1>7. CASE ReplaceFallbacks
  <2>1. /\ attribute' = [attribute EXCEPT ![selected] = AllAre("wrapper")] /\ at' = "publish"
        /\ UNCHANGED <<captured, registry, published, missing_export>>
    BY <1>7 DEF ReplaceFallbacks, AllAre
  <2>2. \A m \in FallbackModules : attribute'[m] \in {attribute[m], AllAre("wrapper")}
    BY <2>1 DEF TypeOK
  <2>3. \A m \in FallbackModules : attribute'[m] \in {Nothing, AllAre("original"), AllAre("wrapper")}
    BY <2>2 DEF OriginalInv
  <2> QED
    BY <2>1, <2>3 DEF OriginalInv, AllAre, Nothing, NoWrapper
<1>8. CASE Publish
  <2>1. CASE at' = "out"
    <3>1. ~ OneAttempt
      BY <1>8, <2>1 DEF Publish, OneAttempt, OriginalInv
    <3> QED
      BY <1>0, <1>8, <2>1, <3>1 DEF Publish
  <2>2. CASE at' # "out"
    <3>1. published' = captured /\ at' = "ready" /\ UNCHANGED <<attribute, captured, registry, missing_export>>
      BY <1>8, <2>2 DEF Publish
    <3>2. NoWrapper(captured)' /\ NoWrapper(registry)' /\ NoWrapper(published)'
      BY <3>1 DEF OriginalInv, NoWrapper
    <3> QED
      BY <3>1, <3>2 DEF OriginalInv, AllAre, Nothing
  <2> QED
    BY <2>1, <2>2
<1>9. CASE SetEnv \/ UNCHANGED importVars
  BY <1>0, <1>9 DEF SetEnv, importVars
<1> QED
  BY <1>1, <1>2, <1>3, <1>4, <1>5, <1>6, <1>7, <1>8, <1>9 DEF ImportNext

THEOREM NamesInvariant ==
  ASSUME Recognizable
  PROVE  ImportSpec => [](ImportInv /\ OriginalInv)
<1>1. ImportInit => ImportInv /\ OriginalInv
  BY TypeInit, LegInit, FaultInit, OriginalInit DEF ImportInv
<1>2. ImportInv /\ OriginalInv /\ [ImportNext]_importVars => ImportInv' /\ OriginalInv'
  BY TypeStep, LegStep, FaultStep, OriginalStep DEF ImportInv
<1> QED
  BY <1>1, <1>2, PTL DEF ImportSpec

\* What the native code of a shim calls back is never a wrapper, over any number of
\* failed imports and reloads, in a module with a method; and in any module that is
\* imported once.
THEOREM OriginalsAreExact ==
  ASSUME Recognizable
  PROVE  ImportSpec => []OriginalsExact
<1>1. OriginalInv => OriginalsExact
  BY ImportAssumption DEF OriginalInv, OriginalsExact, NoWrapper
<1> QED
  BY <1>1, NamesInvariant, PTL

\* The visible wrappers fall back to the user's code under the same condition.
THEOREM FallbackIsTheOriginal ==
  ASSUME Recognizable
  PROVE  ImportSpec => []FallbackIsOriginal
<1>1. OriginalInv => FallbackIsOriginal
  BY DEF OriginalInv, FallbackIsOriginal, NoWrapper
<1> QED
  BY <1>1, NamesInvariant, PTL

-----------------------------------------------------------------------------
\* The user's module, read by the analysis and executed.

\* What the summary of a call looks at: functions rebind names by statements that
\* it knows, and after the call they make, if any, of what their text names; and
\* the body of a loop that runs again rebinds nothing.
Summarized ==
  /\ ~RebindInLoops
  /\ \A b \in Bodies : b.seen /\ ~b.first /\ b.named = b.calls

Things == [is : {"absent", "other", "marker", "class"}, line : 0..Lines]
            \cup [is : {"function"}, line : 1..Lines]
Worlds == [env : [Names -> [by : 0..Lines, holds : Things]], genuine : BOOLEAN,
           fakes : SUBSET (1..Lines), live : BOOLEAN, failed : BOOLEAN]
Scopes == [alias : [Names -> {"none", "marker", "other"}], function : [Names -> 0..Lines],
           safe : SUBSET Names, unknownAll : BOOLEAN, poisoned : BOOLEAN,
           proven : SUBSET (1..Lines)]
Tables == [Names -> [kind : {"unbound", "function", "class", "import", "value", "deleted",
                             "ambiguous", "unknown_star"}, origin : 0..Lines]]
Ops == {"none", "def", "class", "assign", "del", "import", "star", "call", "opaque",
        "plain", "hooked", "while", "for"}
Sources == [op : Ops, name : Names \cup {NoName}, arg : Names \cup {NoName, "marker", "other"},
            line : 0..Lines, rebinds : SUBSET Names]

\* Statements name what they have to name.
Proper(s) ==
  /\ s.line \in 1..Lines
  /\ s.op \in Binders \cup {"call"} => s.name \in Names
  /\ s.op = "def" => s.arg \in Names \cup {NoName}
  /\ s.op = "assign" => s.arg \in Names \cup {NoName} /\ s.arg # s.name
  /\ s.op = "import" => s.arg \in {"marker", "other"}

ModuleTyped ==
  /\ line \in 0..Lines /\ body \in [1..Lines -> Body] /\ loop \in Seq(Sources)
  /\ block \in {"none", "plain", "hooked", "while", "for", "again"}
  /\ scope \in Scopes /\ table \in Tables
  /\ running \in Worlds /\ ~running.failed /\ (block = "none" => running.live)
  /\ now \in Sources /\ stack \in Seq(1..Lines)

Summaries ==
  \A d \in 1..Lines : /\ body[d].seen /\ ~body[d].first /\ body[d].named = body[d].calls
                      /\ d > line => body[d] = NoBody

\* What the scanner holds a name to be, the name is.
HeldIn(sc, p) ==
  /\ \A n \in Names :
       /\ sc.alias[n] = "marker" => Held(p, n).is = "marker"
       /\ sc.function[n] # 0 => Held(p, n) = Function(sc.function[n])
       /\ n \in sc.safe => Held(p, n).is = "class"
  /\ sc.poisoned => sc.unknownAll
  /\ ~sc.poisoned => p.genuine

LastIn(t, p) ==
  \A n \in Names :
    /\ t[n].kind \in {"function", "class", "import", "value", "deleted"}
         => p.env[n].by = t[n].origin
    /\ t[n].kind = "unbound" => p.env[n] = [by |-> Nobody, holds |-> Object("absent")]

\* No line that is not read yet is marked.
Marks ==
  /\ scope.proven \cap running.fakes = {}
  /\ scope.proven \subseteq 1..line /\ running.fakes \subseteq 1..line

\* A call is of a function, and goes where its summary has looked.
Along(s) ==
  /\ CallsFunction(s) /\ Proper(s)
  /\ block # "again" => s.line = line /\ line > 0 /\ line \notin scope.proven
  /\ block = "again" => s.op = "call" /\ \E i \in 1..Len(loop) : loop[i] = s
  /\ ~Effects(s).unknown =>
       \A i \in 1..Len(stack) : stack[i] \in Followed(Held(running, Caller(s)).line)
Calling == ~Idle => \A s \in Sources : s = now => Along(s)

\* A loop whose body runs again rebinds nothing, or everything is unknown.
LostIn(sc, t) ==
  /\ sc.poisoned /\ sc.unknownAll /\ sc.safe = {}
  /\ \A n \in Names : /\ sc.alias[n] = "none" /\ sc.function[n] = 0
                      /\ t[n].kind = "unknown_star"
Harmless(s) == s.op = "call" /\ Effects(s) = Rebinds({})
Again(t) ==
  \A s \in Sources : (\E i \in 1..Len(t) : t[i] = s) =>
    /\ s.op \in {"call", "opaque"} /\ Proper(s)
    /\ LostIn(scope, table) \/ Harmless(s)
Looping == Idle \/ now.op = "call" => Again(loop)

BindingsInv ==
  /\ ModuleTyped /\ Summaries /\ HeldIn(scope, running) /\ LastIn(table, running)
  /\ Marks /\ Calling /\ Looping

LEMMA ModuleConstants ==
  /\ NoName \notin Names /\ Lines \in Nat /\ Bodies \subseteq Body
  /\ Rebindings \subseteq SUBSET Names /\ RebindInLoops \in BOOLEAN
BY FinalBindingsAssumption

LEMMA BindToWorks ==
  ASSUME NEW p \in Worlds, NEW n \in Names, NEW by \in 0..Lines, NEW o \in Things,
         NEW q, q = BindTo(p, n, by, o)
  PROVE  /\ q \in Worlds /\ q.env[n] = [by |-> by, holds |-> o]
         /\ \A m \in Names \ {n} : q.env[m] = p.env[m]
         /\ q.genuine = p.genuine /\ q.fakes = p.fakes /\ q.live = p.live
         /\ q.failed <=> p.failed
<1> DEFINE r == [by |-> by, holds |-> o]
<1>1. p.env \in [Names -> [by : 0..Lines, holds : Things]]
  BY DEF Worlds
<1>2. r \in [by : 0..Lines, holds : Things]
  OBVIOUS
<1>3. q = [p EXCEPT !.env = [p.env EXCEPT ![n] = r]]
  BY DEF BindTo
<1>4. [p.env EXCEPT ![n] = r] \in [Names -> [by : 0..Lines, holds : Things]]
  BY <1>1, <1>2
<1> HIDE DEF r
<1>5. q \in Worlds
  BY <1>3, <1>4 DEF Worlds
<1>6. q.env = [p.env EXCEPT ![n] = r]
  BY <1>3 DEF Worlds
<1>7. /\ q.genuine = p.genuine /\ q.fakes = p.fakes
      /\ q.live = p.live /\ q.failed = p.failed
  BY <1>3 DEF Worlds
<1>8. /\ q.env[n] = r
      /\ \A m \in Names \ {n} : q.env[m] = p.env[m]
  BY <1>1, <1>6
<1> QED
  BY <1>5, <1>7, <1>8 DEF r

LEMMA NoObject ==
  /\ \A what \in {"absent", "other", "marker", "class"} :
       Object(what) \in Things /\ Object(what).is = what
  /\ \A d \in 1..Lines : Function(d) \in Things /\ Function(d).is = "function"
                         /\ Function(d).line = d
  /\ \A o \in Things : o.is = "function" => o.line \in 1..Lines /\ o = Function(o.line)
<1>1. 0 \in 0..Lines
  BY ModuleConstants
<1> QED
  BY <1>1 DEF Object, Function, Things

LEMMA RebindWorks ==
  ASSUME NEW p \in Worlds, NEW W
  PROVE  /\ Rebind(p, W) \in Worlds
         /\ \A m \in Names \ W : Rebind(p, W).env[m] = p.env[m]
         /\ Rebind(p, W).genuine = p.genuine /\ Rebind(p, W).fakes = p.fakes
         /\ Rebind(p, W).live = p.live /\ Rebind(p, W).failed = p.failed
<1> DEFINE e == [n \in Names |-> IF n \in W THEN [by |-> Nobody, holds |-> Object("other")]
                                 ELSE p.env[n]]
<1>1. p.env \in [Names -> [by : 0..Lines, holds : Things]]
  BY DEF Worlds
<1>2. [by |-> Nobody, holds |-> Object("other")] \in [by : 0..Lines, holds : Things]
  BY NoObject, ModuleConstants DEF Nobody
<1>3. e \in [Names -> [by : 0..Lines, holds : Things]]
  BY <1>1, <1>2
<1>4. Rebind(p, W) = [p EXCEPT !.env = e]
  BY DEF Rebind
<1>5. \A m \in Names \ W : e[m] = p.env[m]
  OBVIOUS
<1> HIDE DEF e
<1>6. Rebind(p, W) \in Worlds /\ Rebind(p, W).env = e
  BY <1>3, <1>4 DEF Worlds
<1>7. /\ Rebind(p, W).genuine = p.genuine /\ Rebind(p, W).fakes = p.fakes
      /\ Rebind(p, W).live = p.live /\ Rebind(p, W).failed = p.failed
  BY <1>4 DEF Worlds
<1> QED
  BY <1>5, <1>6, <1>7

LEMMA RaisesWorks ==
  ASSUME NEW p \in Worlds, NEW q \in Raises(p)
  PROVE  /\ q \in Worlds /\ q.env = p.env /\ q.genuine = p.genuine /\ q.fakes = p.fakes
         /\ q.live = p.live /\ q.failed
<1>1. q = [p EXCEPT !.failed = TRUE]
  BY DEF Raises
<1> QED
  BY <1>1 DEF Worlds

LEMMA OpaqueWorks ==
  ASSUME NEW p \in Worlds, NEW q \in Opaque(p)
  PROVE  q \in Worlds /\ q.fakes = p.fakes /\ q.live = p.live /\ q.failed = p.failed
<1>1. PICK W \in Rebindings, g \in {p.genuine, FALSE} : q = [Rebind(p, W) EXCEPT !.genuine = g]
  BY DEF Opaque
<1>2. g \in BOOLEAN
  BY <1>1 DEF Worlds
<1> DEFINE r == Rebind(p, W)
<1>3. r \in Worlds /\ r.fakes = p.fakes /\ r.live = p.live /\ r.failed = p.failed
  BY RebindWorks
<1> HIDE DEF r
<1>4. q = [r EXCEPT !.genuine = g]
  BY <1>1 DEF r
<1> QED
  BY <1>2, <1>3, <1>4 DEF Worlds

LEMMA CallObjectWorks ==
  ASSUME NEW p \in Worlds, NEW o \in Things, NEW q \in CallObject(o, p)
  PROVE  /\ q \in Worlds /\ q.fakes = p.fakes /\ q.live = p.live
         /\ o.is # "other" => q.env = p.env /\ q.genuine = p.genuine
         /\ o.is \in {"absent", "function"} => q.failed
         /\ o.is = "class" => q = p
<1>1. CASE o.is \in {"absent", "function"}
  <2>1. q \in Raises(p)
    BY <1>1 DEF CallObject
  <2> QED
    BY <1>1, <2>1, RaisesWorks
<1>2. CASE o.is = "other"
  <2>1. q \in Opaque(p)
    BY <1>2 DEF CallObject
  <2> QED
    BY <1>2, <2>1, OpaqueWorks
<1>3. CASE o.is \notin {"absent", "function", "other"}
  <2>1. q = p
    BY <1>3 DEF CallObject
  <2> QED
    BY <1>3, <2>1
<1> QED
  BY <1>1, <1>2, <1>3

LEMMA ReplacedWorks ==
  ASSUME NEW p \in Worlds, NEW s \in Sources, s.name \in Names, s.line \in 1..Lines,
         NEW q, q = Replaced(s, p)
  PROVE  /\ q \in Worlds /\ q.live = p.live /\ q.genuine = p.genuine
         /\ q.fakes \subseteq p.fakes \cup {s.line}
         /\ \A m \in Names \ {s.name} : q.env[m] = p.env[m]
         /\ p.failed => q = p
         /\ ~p.failed => q.env[s.name].by = s.line /\ ~q.failed
<1>1. CASE p.failed
  BY <1>1 DEF Replaced
<1>2. CASE ~p.failed
  <2> DEFINE b == BindTo(p, s.name, s.line, Object("other"))
  <2>1. Object("other") \in Things /\ s.line \in 0..Lines
    BY NoObject
  <2>2. /\ b \in Worlds /\ b.env[s.name] = [by |-> s.line, holds |-> Object("other")]
        /\ \A m \in Names \ {s.name} : b.env[m] = p.env[m]
        /\ b.genuine = p.genuine /\ b.fakes = p.fakes /\ b.live = p.live
        /\ b.failed <=> p.failed
    BY <2>1, BindToWorks
  <2>3. Replaced(s, p) = [b EXCEPT !.fakes = b.fakes \cup {s.line}]
    BY <1>2 DEF Replaced
  <2> HIDE DEF b
  <2>4. /\ Replaced(s, p) \in Worlds /\ Replaced(s, p).env = b.env
        /\ Replaced(s, p).fakes = b.fakes \cup {s.line} /\ Replaced(s, p).genuine = b.genuine
        /\ Replaced(s, p).live = b.live /\ Replaced(s, p).failed = b.failed
    BY <2>2, <2>3 DEF Worlds
  <2>5. Replaced(s, p).env[s.name].by = s.line /\ ~Replaced(s, p).failed
    BY <1>2, <2>2, <2>4
  <2> QED
    BY <1>2, <2>2, <2>4, <2>5
<1> QED
  BY <1>1, <1>2

\* What executing a statement may do to the module, given what the scanner makes of it.
Kept(s, q) ==
  /\ ~Effects(s).unknown /\ s.op # "star" =>
       \A n \in Names \ Effects(s).names :
         (s.op \in Binders /\ n = s.name) \/ q.env[n] = running.env[n]
  /\ ~Effects(s).unknown /\ running.genuine => q.genuine
Given(s, q) ==
  s.op \in Binders \ {"for"} =>
    /\ q.env[s.name].by = s.line
    /\ s.op = "def" /\ (s.arg = NoName \/ IsMarker(s.arg))
         => q.env[s.name].holds = Function(s.line)
    /\ s.op = "class" => q.env[s.name].holds.is = "class"
    /\ s.op = "assign" /\ s.arg # NoName => q.env[s.name].holds = Held(running, s.arg)
    /\ s.op = "import" => q.env[s.name].holds.is = s.arg
Faked(s, q) ==
  /\ q.fakes \subseteq running.fakes \cup {s.line}
  /\ s.op # "def" => q.fakes \subseteq running.fakes
  /\ s.op = "def" /\ IsMarker(s.arg) => s.line \notin q.fakes
Does(s, q) ==
  /\ q \in Worlds /\ q.live = running.live
  /\ Kept(s, q) /\ Faked(s, q) /\ (Conditional \/ q.failed \/ Given(s, q))

LEMMA HeldThing == ASSUME NEW p \in Worlds, NEW n \in Names PROVE Held(p, n) \in Things
BY DEF Held, Worlds

LEMMA KnownCallee ==
  ASSUME NEW d, ~CalledFunctionEffects(d).unknown
  PROVE  /\ \A c \in Followed(d) : body[c].named # NoName => Callee(c) # 0
         /\ CalledFunctionEffects(d)
              = Rebinds(UNION {body[c].writes : c \in {e \in Followed(d) : body[e].seen}})
<1> DEFINE leaves == {c \in Followed(d) : body[c].named = NoName}
<1>1. leaves # {} /\ \A c \in Followed(d) \ leaves : Callee(c) # 0
  BY DEF CalledFunctionEffects, Unknown
<1> QED
  BY <1>1 DEF CalledFunctionEffects

LEMMA KnownEffects ==
  ASSUME NEW s, ~Effects(s).unknown
  PROVE  /\ s.op = "call" => s.name \in scope.safe \/ scope.function[s.name] # 0
         /\ s.op = "def" => s.arg = NoName \/ IsMarker(s.arg) \/ scope.function[s.arg] # 0
         /\ s.op = "class" => ~scope.unknownAll /\ Effects(s) = Rebinds(s.rebinds)
         /\ s.op \notin {"opaque", "hooked"}
<1>1. ~Unknown.unknown <=> FALSE
  BY DEF Unknown
<1>2. CASE s.op = "call"
  BY <1>1, <1>2 DEF Effects, CallEffects
<1>3. CASE s.op = "def"
  BY <1>1, <1>3 DEF Effects
<1>4. CASE s.op = "class"
  BY <1>1, <1>4 DEF Effects
<1>5. CASE s.op \in {"opaque", "hooked"}
  BY <1>1, <1>5 DEF Effects
<1> QED
  BY <1>2, <1>3, <1>4, <1>5

LEMMA QuietStatements ==
  ASSUME NEW s
  PROVE  \/ s.op \notin {"def", "call", "class", "opaque", "hooked"}
         \/ s.op = "def" /\ s.arg = NoName
         => Effects(s) = Rebinds({})
BY DEF Effects

LEMMA RunDef ==
  ASSUME ModuleTyped, HeldIn(scope, running), NEW s \in Sources, Proper(s),
         s.line \notin running.fakes, running.live = TRUE, ~CallsFunction(s), s.op = "def",
         NEW q \in Run(s, running)
  PROVE  Does(s, q)
<1> s.line \in 1..Lines
  BY DEF Proper
<1>1. running \in Worlds /\ s.name \in Names /\ s.arg \in Names \cup {NoName} /\ s.op \in Binders
  BY DEF ModuleTyped, Proper, Binders
<1>2. Function(s.line) \in Things /\ s.line \in 0..Lines
  BY NoObject
<1>5. ASSUME q = BindTo(running, s.name, s.line, Function(s.line)) PROVE Does(s, q)
  <2>1. /\ q \in Worlds /\ q.env[s.name] = [by |-> s.line, holds |-> Function(s.line)]
        /\ \A m \in Names \ {s.name} : q.env[m] = running.env[m]
        /\ q.genuine = running.genuine /\ q.fakes = running.fakes /\ q.live = running.live
    BY <1>1, <1>2, <1>5, BindToWorks
  <2>2. q.env[s.name].by = s.line /\ q.env[s.name].holds = Function(s.line)
    BY <2>1
  <2>3. Kept(s, q)
    BY <1>1, <2>1 DEF Kept
  <2>4. Faked(s, q)
    BY <2>1 DEF Faked
  <2>5. Given(s, q)
    BY <2>2 DEF Given
  <2> QED
    BY <2>1, <2>3, <2>4, <2>5 DEF Does
<1>6. CASE s.arg = NoName
  <2>1. q = BindTo(running, s.name, s.line, Function(s.line))
    BY <1>6 DEF Run
  <2> QED
    BY <2>1, <1>5
<1>7. CASE s.arg # NoName
  <2> DEFINE x == Held(running, s.arg)
  <2>1. q \in Decorated(s, running)
    BY <1>7 DEF Run
  <2>2. s.arg \in Names /\ x \in Things
    BY <1>1, <1>7, HeldThing
  <2>3. x.is # "function"
    BY <1>7 DEF CallsFunction, Caller
  <2>4. CASE x.is = "marker" /\ running.genuine
    <3>1. q = BindTo(running, s.name, s.line, Function(s.line))
      BY <2>1, <2>4 DEF Decorated
    <3> QED
      BY <3>1, <1>5
  <2>5. CASE ~(x.is = "marker" /\ running.genuine)
    <3>1. PICK p \in IF x.is = "marker" THEN Opaque(running) ELSE CallObject(x, running) :
            q = Replaced(s, p)
      BY <2>1, <2>5 DEF Decorated
    <3>2. p \in Worlds /\ p.fakes = running.fakes /\ p.live = running.live
      <4>1. CASE x.is = "marker"
        BY <1>1, <3>1, <4>1, OpaqueWorks
      <4>2. CASE x.is # "marker"
        BY <1>1, <2>2, <3>1, <4>2, CallObjectWorks
      <4> QED
        BY <4>1, <4>2
    <3>3. /\ q \in Worlds /\ q.live = p.live /\ q.fakes \subseteq p.fakes \cup {s.line}
          /\ p.failed => q = p
          /\ ~p.failed => q.env[s.name].by = s.line /\ ~q.failed
      <4>1. p \in Worlds /\ s.name \in Names /\ q = Replaced(s, p)
        BY <1>1, <3>1, <3>2
      <4> HIDE <3>1, <3>2
      <4> QED
        BY <4>1, ReplacedWorks
    <3>4. ~IsMarker(s.arg)
      <4> SUFFICES ASSUME IsMarker(s.arg) PROVE FALSE
        OBVIOUS
      <4>1. x.is = "marker" /\ running.genuine
        BY <2>2 DEF IsMarker, HeldIn
      <4> QED
        BY <4>1, <2>5
    <3>5. scope.function[s.arg] = 0
      <4> SUFFICES ASSUME scope.function[s.arg] # 0 PROVE FALSE
        OBVIOUS
      <4>1. x = Function(scope.function[s.arg])
        BY <2>2 DEF HeldIn
      <4> QED
        BY <4>1, <2>3 DEF Function
    <3>6. Effects(s).unknown
      BY <1>7, <3>4, <3>5, KnownEffects
    <3>7. Kept(s, q)
      BY <3>6 DEF Kept
    <3>8. Faked(s, q)
      BY <3>2, <3>3, <3>4 DEF Faked
    <3>9. ~q.failed => Given(s, q)
      BY <1>7, <3>3, <3>4 DEF Given
    <3> QED
      BY <3>2, <3>3, <3>7, <3>8, <3>9 DEF Does
  <2> QED
    BY <2>4, <2>5
<1> QED
  BY <1>6, <1>7

LEMMA RunClass ==
  ASSUME ModuleTyped, HeldIn(scope, running), NEW s \in Sources, Proper(s),
         running.live = TRUE, s.op = "class", NEW q \in Run(s, running)
  PROVE  Does(s, q)
<1> s.line \in 1..Lines
  BY DEF Proper
<1>1. running \in Worlds /\ s.name \in Names /\ s.op \in Binders
  BY DEF ModuleTyped, Proper, Binders
<1>2. PICK p \in IF running.genuine THEN {running} ELSE Opaque(running) :
        q = BindTo(Rebind(p, s.rebinds), s.name, s.line, Object("class"))
  BY DEF Run
<1>3. p \in Worlds /\ p.fakes = running.fakes /\ p.live = running.live
  BY <1>1, <1>2, OpaqueWorks
<1> DEFINE r == Rebind(p, s.rebinds)
<1>4. /\ r \in Worlds /\ \A m \in Names \ s.rebinds : r.env[m] = p.env[m]
      /\ r.genuine = p.genuine /\ r.fakes = p.fakes /\ r.live = p.live
  BY <1>3, RebindWorks
<1> HIDE DEF r
<1>5. q = BindTo(r, s.name, s.line, Object("class"))
  BY <1>2 DEF r
<1>6. Object("class") \in Things /\ Object("class").is = "class" /\ s.line \in 0..Lines
  BY NoObject
<1>7. /\ q \in Worlds /\ q.env[s.name] = [by |-> s.line, holds |-> Object("class")]
      /\ \A m \in Names \ {s.name} : q.env[m] = r.env[m]
      /\ q.genuine = r.genuine /\ q.fakes = r.fakes /\ q.live = r.live
  BY <1>1, <1>4, <1>5, <1>6, BindToWorks
<1>8. q.env[s.name].by = s.line /\ q.env[s.name].holds = Object("class")
  BY <1>7
<1>9. Kept(s, q)
  <2> SUFFICES ASSUME ~Effects(s).unknown PROVE Kept(s, q)
    BY DEF Kept
  <2>1. ~scope.unknownAll /\ Effects(s).names = s.rebinds
    BY KnownEffects DEF Rebinds
  <2>2. running.genuine
    BY <2>1 DEF HeldIn
  <2>3. p = running
    BY <1>2, <2>2
  <2> QED
    BY <1>1, <1>4, <1>7, <2>1, <2>2, <2>3 DEF Kept
<1>10. Faked(s, q)
  BY <1>3, <1>4, <1>7 DEF Faked
<1>11. Given(s, q)
  BY <1>6, <1>8 DEF Given
<1> QED
  BY <1>3, <1>4, <1>7, <1>9, <1>10, <1>11 DEF Does

\* A statement that only binds its name.
LEMMA OnlyBinds ==
  ASSUME ModuleTyped, NEW s \in Sources, s.op \in {"assign", "del", "import", "for"},
         s.name \in Names, s.line \in 1..Lines, NEW o \in Things,
         NEW q, q = BindTo(running, s.name, s.line, o),
         s.op = "assign" /\ s.arg # NoName => o = Held(running, s.arg),
         s.op = "import" => o.is = s.arg
  PROVE  Does(s, q)
<1>1. running \in Worlds /\ s.op \in Binders /\ s.line \in 0..Lines
  BY DEF ModuleTyped, Binders
<1>2. /\ q \in Worlds /\ q.env[s.name] = [by |-> s.line, holds |-> o]
      /\ \A m \in Names \ {s.name} : q.env[m] = running.env[m]
      /\ q.genuine = running.genuine /\ q.fakes = running.fakes /\ q.live = running.live
  BY <1>1, BindToWorks
<1>3. q.env[s.name].by = s.line /\ q.env[s.name].holds = o
  BY <1>2
<1>4. Kept(s, q)
  BY <1>1, <1>2 DEF Kept
<1>5. Faked(s, q)
  BY <1>2 DEF Faked
<1>6. Given(s, q)
  BY <1>3 DEF Given
<1> QED
  BY <1>2, <1>4, <1>5, <1>6 DEF Does

\* A statement that raises or does nothing.
LEMMA Stays ==
  ASSUME ModuleTyped, NEW s \in Sources, s.op # "def", NEW q \in Worlds,
         q.env = running.env, q.genuine = running.genuine, q.fakes = running.fakes,
         q.live = running.live, q.failed \/ s.op \notin Binders
  PROVE  Does(s, q)
BY DEF Does, Kept, Faked, Given

LEMMA RunOther ==
  ASSUME ModuleTyped, HeldIn(scope, running), NEW s \in Sources, Proper(s),
         running.live = TRUE, ~CallsFunction(s),
         s.op \notin {"def", "class"}, NEW q \in Run(s, running)
  PROVE  Does(s, q)
<1> s.line \in 1..Lines
  BY DEF Proper
<1>1. running \in Worlds
  BY DEF ModuleTyped
<1>2. CASE s.op = "assign" /\ s.arg = NoName
  <2>1. q = BindTo(running, s.name, s.line, Object("other"))
    BY <1>2 DEF Run
  <2> QED
    BY <1>2, <2>1, NoObject, OnlyBinds DEF Proper, Binders
<1>3. CASE s.op = "assign" /\ s.arg # NoName
  <2>1. s.arg \in Names /\ s.name \in Names
    BY <1>3 DEF Proper, Binders
  <2>2. CASE Held(running, s.arg).is = "absent"
    <3>1. q \in Raises(running)
      BY <1>3, <2>2 DEF Run
    <3> QED
      BY <1>1, <3>1, RaisesWorks, Stays
  <2>3. CASE Held(running, s.arg).is # "absent"
    <3>1. q = BindTo(running, s.name, s.line, Held(running, s.arg))
      BY <1>3, <2>3 DEF Run
    <3>2. Held(running, s.arg) \in Things
      BY <1>1, <2>1, HeldThing
    <3> QED
      BY <1>3, <2>1, <3>1, <3>2, OnlyBinds
  <2> QED
    BY <2>2, <2>3
<1>4. CASE s.op = "del"
  <2>1. s.name \in Names
    BY <1>4 DEF Proper, Binders
  <2>2. CASE Held(running, s.name).is = "absent"
    <3>1. q \in Raises(running)
      BY <1>4, <2>2 DEF Run
    <3> QED
      BY <1>1, <3>1, RaisesWorks, Stays
  <2>3. CASE Held(running, s.name).is # "absent"
    <3>1. q = BindTo(running, s.name, s.line, Object("absent"))
      BY <1>4, <2>3 DEF Run
    <3> QED
      BY <1>4, <2>1, <3>1, NoObject, OnlyBinds
  <2> QED
    BY <2>2, <2>3
<1>5. CASE s.op = "import"
  <2>1. q = BindTo(running, s.name, s.line, Object(s.arg))
    BY <1>5 DEF Run
  <2>2. s.name \in Names /\ s.arg \in {"marker", "other"}
    BY <1>5 DEF Proper, Binders
  <2>3. Object(s.arg) \in Things /\ Object(s.arg).is = s.arg
    BY <2>2, NoObject
  <2> QED
    BY <1>5, <2>1, <2>2, <2>3, OnlyBinds
<1>6. CASE s.op = "for"
  <2>1. q = BindTo(running, s.name, s.line, Object("other"))
    BY <1>6 DEF Run
  <2> QED
    BY <1>6, <2>1, NoObject, OnlyBinds DEF Proper, Binders
<1>7. CASE s.op = "star"
  <2>1. PICK W \in Rebindings : q = Rebind(running, W)
    BY <1>7 DEF Run
  <2>2. q \in Worlds /\ q.genuine = running.genuine /\ q.fakes = running.fakes
        /\ q.live = running.live
    BY <1>1, <2>1, RebindWorks
  <2> QED
    BY <1>7, <2>2 DEF Does, Kept, Faked, Given, Binders
<1>8. CASE s.op = "call"
  <2> DEFINE x == Held(running, s.name)
  <2>1. q \in CallObject(x, running)
    BY <1>8 DEF Run
  <2>2. s.name \in Names /\ x \in Things
    BY <1>1, <1>8, HeldThing DEF Proper
  <2>3. x.is # "function"
    BY <1>8 DEF CallsFunction, Caller
  <2>4. /\ q \in Worlds /\ q.fakes = running.fakes /\ q.live = running.live
        /\ x.is # "other" => q.env = running.env /\ q.genuine = running.genuine
    BY <1>1, <2>1, <2>2, CallObjectWorks
  <2>5. x.is = "other" => Effects(s).unknown
    <3> SUFFICES ASSUME x.is = "other", ~Effects(s).unknown PROVE FALSE
      OBVIOUS
    <3>1. s.name \in scope.safe \/ scope.function[s.name] # 0
      BY <1>8, KnownEffects
    <3> QED
      BY <2>2, <3>1 DEF HeldIn, Function
  <2>6. Kept(s, q)
    BY <2>4, <2>5 DEF Kept
  <2> QED
    BY <1>8, <2>4, <2>6 DEF Does, Faked, Given, Binders
<1>9. CASE s.op \in {"opaque", "hooked"}
  <2>1. q \in Opaque(running)
    BY <1>9 DEF Run
  <2>2. q \in Worlds /\ q.fakes = running.fakes /\ q.live = running.live
    BY <1>1, <2>1, OpaqueWorks
  <2>3. Effects(s).unknown
    BY <1>9, KnownEffects
  <2> QED
    BY <1>9, <2>2, <2>3 DEF Does, Kept, Faked, Given, Binders
<1>10. CASE s.op \notin {"assign", "del", "import", "for", "star", "call", "opaque", "hooked"}
  <2>1. q = running
    BY <1>10 DEF Run
  <2> QED
    BY <1>1, <1>10, <2>1, Stays DEF Binders
<1> QED
  BY <1>2, <1>3, <1>4, <1>5, <1>6, <1>7, <1>8, <1>9, <1>10

LEMMA CallKnown ==
  ASSUME ModuleTyped, HeldIn(scope, running), NEW s \in Sources, Proper(s), CallsFunction(s)
  PROVE  /\ s.op \in {"call", "def"} /\ Caller(s) \in Names
         /\ s.op = "def" => s.arg # NoName /\ ~IsMarker(s.arg)
         /\ ~Effects(s).unknown =>
              /\ scope.function[Caller(s)] # 0
              /\ Effects(s) = CalledFunctionEffects(scope.function[Caller(s)])
              /\ Held(running, Caller(s)) = Function(scope.function[Caller(s)])
<1> DEFINE x == Held(running, Caller(s))
<1>1. s.op = "call" \/ (s.op = "def" /\ s.arg # NoName)
  BY DEF CallsFunction
<1>2. x.is = "function"
  BY DEF CallsFunction
<1>3. Caller(s) \in Names
  BY <1>1 DEF Proper, Caller, Binders
<1>4. CASE s.op = "call"
  <2>1. s.name \in Names /\ Caller(s) = s.name
    BY <1>3, <1>4 DEF Caller
  <2>2. s.name \notin scope.safe
    BY <1>2, <2>1 DEF HeldIn
  <2>3. Effects(s) = CallEffects(s.name)
    BY <1>4 DEF Effects
  <2>4. scope.function[s.name] = 0 => Effects(s).unknown
    BY <2>2, <2>3 DEF CallEffects, Unknown
  <2>5. scope.function[s.name] # 0 =>
          /\ Effects(s) = CalledFunctionEffects(scope.function[s.name])
          /\ Held(running, s.name) = Function(scope.function[s.name])
    BY <2>1, <2>2, <2>3 DEF CallEffects, HeldIn
  <2> QED
    BY <1>4, <2>1, <2>4, <2>5
<1>5. CASE s.op = "def"
  <2>1. s.arg \in Names /\ s.arg # NoName /\ Caller(s) = s.arg
    BY <1>1, <1>3, <1>5 DEF Caller
  <2>2. ~IsMarker(s.arg)
    BY <1>2, <2>1 DEF IsMarker, HeldIn
  <2>3. scope.function[s.arg] = 0 => Effects(s).unknown
    BY <1>5, <2>1, <2>2 DEF Effects, Unknown
  <2>4. scope.function[s.arg] # 0 =>
          /\ Effects(s) = CalledFunctionEffects(scope.function[s.arg])
          /\ Held(running, s.arg) = Function(scope.function[s.arg])
    BY <1>5, <2>1, <2>2 DEF Effects, HeldIn
  <2> QED
    BY <1>5, <2>1, <2>2, <2>3, <2>4
<1> QED
  BY <1>1, <1>4, <1>5

LEMMA NotEmpty ==
  ASSUME NEW S, NEW t \in Seq(S), t # <<>>
  PROVE  Len(t) \in Nat /\ Len(t) # 0 /\ \A i \in 1..Len(t) : t[i] \in S
<1>1. Len(t) = 0 => t = <<>>
  BY EmptySeq
<1> QED
  BY <1>1

LEMMA LastEntered ==
  ASSUME ModuleTyped, ~Idle
  PROVE  /\ Len(stack) \in 1..Len(stack) /\ Len(stack) \in Nat
         /\ \A i \in 1..Len(stack) : stack[i] \in 1..Lines
         /\ Inner \in Names \cup {NoName}
<1>1. stack \in Seq(1..Lines) /\ stack # <<>>
  BY DEF ModuleTyped, Idle
<1>2. Len(stack) \in Nat /\ Len(stack) # 0 /\ \A i \in 1..Len(stack) : stack[i] \in 1..Lines
  BY <1>1, NotEmpty
<1>3. Len(stack) \in 1..Len(stack)
  BY <1>2
<1>4. body[stack[Len(stack)]] \in Body
  BY <1>2, <1>3 DEF ModuleTyped
<1> QED
  BY <1>2, <1>3, <1>4 DEF Inner, Body

\* Whoever called, the functions entered rebind no more than was expected of the call.
LEMMA CallWorks ==
  ASSUME ModuleTyped, Summaries, HeldIn(scope, running), ~Idle, ~Nests,
         NEW s \in Sources, s = now, Along(s), NEW q \in CallOutcomes
  PROVE  Does(s, q)
<1> DEFINE d == scope.function[Caller(s)]
           writes == UNION {body[stack[i]].writes : i \in 1..Len(stack)}
           inner == IF Inner = NoName THEN {running} ELSE CallObject(InnerObject, running)
<1>1. running \in Worlds
  BY DEF ModuleTyped
<1>2. PICK p \in inner : q = IF s.op = "def"
                               THEN Replaced(s, IF p.failed THEN p ELSE Rebind(p, writes))
                               ELSE IF p.failed THEN p ELSE Rebind(p, writes)
  BY DEF CallOutcomes
<1>3. /\ p \in Worlds /\ p.fakes = running.fakes /\ p.live = running.live
      /\ InnerObject.is = "function" => p.env = running.env /\ p.genuine = running.genuine
      /\ Inner = NoName => p = running
  <2>1. CASE Inner = NoName
    BY <1>1, <1>2, <2>1
  <2>2. CASE Inner # NoName
    <3>1. Inner \in Names
      BY <2>2, LastEntered
    <3>2. InnerObject \in Things
      BY <1>1, <3>1, HeldThing DEF InnerObject
    <3>3. p \in CallObject(InnerObject, running)
      BY <1>2, <2>2
    <3> QED
      BY <1>1, <2>2, <3>2, <3>3, CallObjectWorks
  <2> QED
    BY <2>1, <2>2
<1> DEFINE r == IF p.failed THEN p ELSE Rebind(p, writes)
<1> HIDE DEF writes, inner
<1>4. /\ r \in Worlds /\ r.fakes = running.fakes /\ r.live = running.live
      /\ r.genuine = p.genuine /\ \A m \in Names \ writes : r.env[m] = p.env[m]
  <2>1. /\ Rebind(p, writes) \in Worlds
        /\ \A m \in Names \ writes : Rebind(p, writes).env[m] = p.env[m]
        /\ Rebind(p, writes).genuine = p.genuine /\ Rebind(p, writes).fakes = p.fakes
        /\ Rebind(p, writes).live = p.live
    BY <1>3, RebindWorks
  <2> QED
    BY <1>3, <2>1
<1>5. q = IF s.op = "def" THEN Replaced(s, r) ELSE r
  BY <1>2
<1> HIDE DEF r
<1>6. /\ s.op \in {"call", "def"} /\ Caller(s) \in Names /\ Proper(s)
      /\ s.op = "def" => s.arg # NoName /\ ~IsMarker(s.arg) /\ s.name \in Names /\ s.op \in Binders
      /\ ~Effects(s).unknown => d # 0 /\ Effects(s) = CalledFunctionEffects(d)
  BY CallKnown DEF Along, Proper, Binders
<1>7. s.op = "def" => s.line \in 1..Lines
  BY DEF Along, Proper
<1>8. ~Effects(s).unknown =>
        /\ writes \subseteq Effects(s).names /\ p.env = running.env /\ p.genuine = running.genuine
  <2> SUFFICES ASSUME ~Effects(s).unknown
               PROVE  /\ writes \subseteq Effects(s).names
                      /\ p.env = running.env /\ p.genuine = running.genuine
    OBVIOUS
  <2>1. d # 0 /\ Effects(s) = CalledFunctionEffects(d) /\ ~CalledFunctionEffects(d).unknown
    BY <1>6
  <2>2. /\ \A c \in Followed(d) : body[c].named # NoName => Callee(c) # 0
        /\ Effects(s).names = UNION {body[c].writes : c \in {e \in Followed(d) : body[e].seen}}
    BY <2>1, KnownCallee DEF Rebinds
  <2>3. \A i \in 1..Len(stack) : stack[i] \in Followed(d)
    <3>1. Held(running, Caller(s)) = Function(d)
      BY CallKnown DEF Along
    <3>2. Held(running, Caller(s)).line = d
      BY <3>1 DEF Function
    <3> QED
      BY <3>2 DEF Along
  <2>4. \A i \in 1..Len(stack) : body[stack[i]].seen
    BY LastEntered DEF Summaries
  <2>5. writes \subseteq Effects(s).names
    BY <2>2, <2>3, <2>4 DEF writes
  <2>6. CASE Inner = NoName
    BY <1>3, <2>5, <2>6
  <2>7. CASE Inner # NoName
    <3> DEFINE c == stack[Len(stack)]
    <3>1. c \in Followed(d) /\ c \in 1..Lines /\ Inner \in Names
      BY <2>3, <2>7, LastEntered
    <3>2. body[c].named = Inner
      BY <3>1 DEF Summaries, Inner
    <3>3. scope.function[Inner] # 0
      BY <2>2, <2>7, <3>1, <3>2 DEF Callee
    <3>4. InnerObject = Function(scope.function[Inner])
      BY <3>1, <3>3 DEF HeldIn, InnerObject
    <3>5. InnerObject.is = "function"
      BY <3>4 DEF Function
    <3> QED
      BY <1>3, <2>5, <3>5
  <2> QED
    BY <2>6, <2>7
<1>9. CASE s.op = "call"
  <2>1. q = r
    BY <1>5, <1>9
  <2>2. Kept(s, q)
    BY <1>4, <1>8, <1>9, <2>1 DEF Kept
  <2> QED
    BY <1>4, <1>9, <2>1, <2>2 DEF Does, Faked, Given, Binders
<1>10. CASE s.op = "def"
  <2>1. /\ q \in Worlds /\ q.live = r.live /\ q.genuine = r.genuine
        /\ q.fakes \subseteq r.fakes \cup {s.line}
        /\ \A m \in Names \ {s.name} : q.env[m] = r.env[m]
        /\ r.failed => q = r
        /\ ~r.failed => q.env[s.name].by = s.line /\ ~q.failed
    <3>1. q = Replaced(s, r)
      BY <1>5, <1>10
    <3> QED
      BY <1>4, <1>6, <1>7, <1>10, <3>1, ReplacedWorks
  <2>2. Kept(s, q)
    BY <1>4, <1>6, <1>8, <1>10, <2>1 DEF Kept
  <2>3. Faked(s, q)
    BY <1>4, <1>6, <1>10, <2>1 DEF Faked
  <2>4. ~q.failed => Given(s, q)
    BY <1>6, <1>10, <2>1 DEF Given
  <2> QED
    BY <1>4, <2>1, <2>2, <2>3, <2>4 DEF Does
<1> QED
  BY <1>6, <1>9, <1>10

\* What a statement leaves once its failure has been dealt with.
Left(s, q) ==
  /\ q \in Worlds /\ ~q.failed
  /\ Kept(s, q) /\ Faked(s, q) /\ (~Conditional => Given(s, q))

LEMMA SettleWorks ==
  ASSUME ModuleTyped, NEW s, NEW outcomes, \A q \in outcomes : Does(s, q), Settle(outcomes)
  PROVE  Left(s, running') /\ (block = "none" => running'.live)
<1>1. CASE ~Conditional
  <2>1. PICK q \in outcomes : ~q.failed /\ running' = q
    BY <1>1 DEF Settle
  <2>2. q \in Worlds /\ q.live = running.live /\ Kept(s, q) /\ Faked(s, q) /\ Given(s, q)
    BY <1>1, <2>1 DEF Does
  <2>3. block = "none" => q.live
    BY <2>2 DEF ModuleTyped
  <2> QED
    BY <2>1, <2>2, <2>3 DEF Left
<1>2. CASE Conditional
  <2>1. PICK q \in outcomes : \E l \in {FALSE, q.live} :
           running' = [q EXCEPT !.failed = FALSE, !.live = l]
    BY <1>2 DEF Settle
  <2>2. q \in Worlds /\ Kept(s, q) /\ Faked(s, q)
    BY <2>1 DEF Does
  <2>3. PICK l \in {FALSE, q.live} : running' = [q EXCEPT !.failed = FALSE, !.live = l]
    BY <2>1
  <2>4. l \in BOOLEAN
    BY <2>2, <2>3 DEF Worlds
  <2>5. /\ running' \in Worlds /\ running'.env = q.env /\ running'.genuine = q.genuine
        /\ running'.fakes = q.fakes /\ running'.failed = FALSE
    BY <2>2, <2>3, <2>4 DEF Worlds
  <2>6. Kept(s, running')
    BY <2>2, <2>5 DEF Kept
  <2>7. Faked(s, running')
    BY <2>2, <2>5 DEF Faked
  <2>8. block # "none"
    BY <1>2 DEF Conditional
  <2> QED
    BY <1>2, <2>5, <2>6, <2>7, <2>8 DEF Left
<1> QED
  BY <1>1, <1>2

LEMMA ClearWorks ==
  ASSUME NEW sc \in Scopes
  PROVE  /\ ClearAll(sc) \in Scopes /\ ClearAll(sc).safe = {} /\ ClearAll(sc).unknownAll
         /\ \A n \in Names : ClearAll(sc).alias[n] = "none" /\ ClearAll(sc).function[n] = 0
         /\ ClearAll(sc).poisoned = sc.poisoned /\ ClearAll(sc).proven = sc.proven
<1>1. 0 \in 0..Lines
  BY ModuleConstants
<1>2. /\ [n \in Names |-> "none"] \in [Names -> {"none", "marker", "other"}]
      /\ [n \in Names |-> 0] \in [Names -> 0..Lines]
  BY <1>1
<1> QED
  BY <1>2 DEF ClearAll, Scopes

\* What the scanner still holds after an effect.
LEMMA AfterWorks ==
  ASSUME scope \in Scopes, NEW e, NEW r, r = AfterEffect(e)
  PROVE  /\ r \in Scopes /\ r.proven = scope.proven
         /\ e.unknown => /\ r.poisoned /\ r.unknownAll /\ r.safe = {}
                         /\ \A n \in Names : r.alias[n] = "none" /\ r.function[n] = 0
         /\ ~e.unknown =>
              /\ (r.poisoned <=> scope.poisoned) /\ (r.unknownAll <=> scope.unknownAll)
              /\ r.safe = scope.safe \ e.names
              /\ \A n \in Names \ e.names :
                   r.alias[n] = scope.alias[n] /\ r.function[n] = scope.function[n]
              /\ \A n \in Names \cap e.names : r.alias[n] = "none" /\ r.function[n] = 0
<1>1. CASE e.unknown
  <2> DEFINE c == ClearAll(scope)
  <2>1. /\ c \in Scopes /\ c.safe = {} /\ c.unknownAll /\ c.proven = scope.proven
        /\ \A n \in Names : c.alias[n] = "none" /\ c.function[n] = 0
    BY ClearWorks
  <2>2. r = [c EXCEPT !.poisoned = TRUE]
    BY <1>1 DEF AfterEffect
  <2> HIDE DEF c
  <2>3. r \in Scopes
    BY <2>1, <2>2 DEF Scopes
  <2>4. /\ r.alias = c.alias /\ r.function = c.function /\ r.safe = c.safe
        /\ r.proven = c.proven
    BY <2>1, <2>2 DEF Scopes
  <2>5. r.poisoned /\ r.unknownAll
    BY <2>1, <2>2 DEF Scopes
  <2> QED
    BY <1>1, <2>1, <2>3, <2>4, <2>5
<1>2. CASE ~e.unknown
  <2> DEFINE a == [n \in Names |-> IF n \in e.names THEN "none" ELSE scope.alias[n]]
             f == [n \in Names |-> IF n \in e.names THEN 0 ELSE scope.function[n]]
  <2>1. /\ scope.alias \in [Names -> {"none", "marker", "other"}]
        /\ scope.function \in [Names -> 0..Lines] /\ 0 \in 0..Lines
    BY ModuleConstants DEF Scopes
  <2>2. a \in [Names -> {"none", "marker", "other"}] /\ f \in [Names -> 0..Lines]
    BY <2>1
  <2>3. r = [scope EXCEPT !.alias = a, !.function = f, !.safe = scope.safe \ e.names]
    BY <1>2 DEF AfterEffect
  <2>4. /\ \A n \in Names \ e.names : a[n] = scope.alias[n] /\ f[n] = scope.function[n]
        /\ \A n \in Names \cap e.names : a[n] = "none" /\ f[n] = 0
    OBVIOUS
  <2> HIDE DEF a, f
  <2> DEFINE z == scope.safe \ e.names
  <2>5. z \in SUBSET Names /\ r = [scope EXCEPT !.alias = a, !.function = f, !.safe = z]
    BY <2>3 DEF Scopes
  <2> HIDE DEF z
  <2>6. r \in Scopes
    BY <2>2, <2>5 DEF Scopes
  <2>7. r.alias = a /\ r.function = f /\ r.safe = z /\ r.proven = scope.proven
    BY <2>5 DEF Scopes
  <2>8. (r.poisoned <=> scope.poisoned) /\ (r.unknownAll <=> scope.unknownAll)
    BY <2>5 DEF Scopes
  <2> QED
    BY <1>2, <2>4, <2>6, <2>7, <2>8 DEF z
<1> QED
  BY <1>1, <1>2

BoundTo(sc, n, a, f, r) ==
  /\ r \in Scopes /\ r.proven = sc.proven /\ (r.poisoned <=> sc.poisoned)
  /\ (r.unknownAll <=> sc.unknownAll) /\ r.safe = sc.safe \ {n}
  /\ \A m \in Names \ {n} : r.alias[m] = sc.alias[m] /\ r.function[m] = sc.function[m]
  /\ Conditional => r.alias[n] = "none" /\ r.function[n] = 0
  /\ ~Conditional => r.alias[n] = a /\ r.function[n] = f

LEMMA BindExecutionWorks ==
  ASSUME NEW sc \in Scopes, NEW n \in Names, NEW a, a \in {"none", "marker", "other"},
         NEW f, f \in 0..Lines, NEW r, r = BindExecutionName(sc, n, a, f)
  PROVE  BoundTo(sc, n, a, f, r)
<1> DEFINE x == IF Conditional THEN "none" ELSE a
           y == IF Conditional THEN 0 ELSE f
           al == [sc.alias EXCEPT ![n] = x]
           fu == [sc.function EXCEPT ![n] = y]
<1>1. /\ sc.alias \in [Names -> {"none", "marker", "other"}]
      /\ sc.function \in [Names -> 0..Lines] /\ 0 \in 0..Lines
  BY ModuleConstants DEF Scopes
<1>2. x \in {"none", "marker", "other"} /\ y \in 0..Lines
  BY <1>1
<1>3. /\ Conditional => x = "none" /\ y = 0
      /\ ~Conditional => x = a /\ y = f
  OBVIOUS
<1>4. r = [sc EXCEPT !.alias = al, !.function = fu, !.safe = sc.safe \ {n}]
  BY DEF BindExecutionName
<1> HIDE DEF x, y
<1>5. /\ al \in [Names -> {"none", "marker", "other"}] /\ fu \in [Names -> 0..Lines]
      /\ al[n] = x /\ fu[n] = y
      /\ \A m \in Names \ {n} : al[m] = sc.alias[m] /\ fu[m] = sc.function[m]
  BY <1>1, <1>2
<1> HIDE DEF al, fu
<1> DEFINE z == sc.safe \ {n}
<1>6. z \in SUBSET Names /\ r = [sc EXCEPT !.alias = al, !.function = fu, !.safe = z]
  BY <1>4 DEF Scopes
<1> HIDE DEF z
<1>7. r \in Scopes
  BY <1>5, <1>6 DEF Scopes
<1>8. r.alias = al /\ r.function = fu /\ r.safe = z /\ r.proven = sc.proven
  BY <1>6 DEF Scopes
<1>9. (r.poisoned <=> sc.poisoned) /\ (r.unknownAll <=> sc.unknownAll)
  BY <1>6 DEF Scopes
<1> QED
  BY <1>3, <1>5, <1>7, <1>8, <1>9 DEF z, BoundTo

\* What the scanner holds after a statement, name by name.
Own(s, n) == s.op \in Binders /\ n = s.name
Wiped(s, n) == Effects(s).unknown \/ s.op = "star" \/ n \in Effects(s).names
ScanOf(s, r) ==
  /\ r \in Scopes
  /\ r.proven = scope.proven \cup (IF s.op = "def" /\ IsMarker(s.arg) THEN {s.line} ELSE {})
  /\ r.poisoned <=> scope.poisoned \/ Effects(s).unknown
  /\ r.unknownAll <=> scope.unknownAll \/ Effects(s).unknown \/ s.op = "star"
  /\ \A n \in Names : ~Own(s, n) /\ Wiped(s, n) =>
       r.alias[n] = "none" /\ r.function[n] = 0 /\ n \notin r.safe
  /\ \A n \in Names : ~Own(s, n) /\ ~Wiped(s, n) =>
       /\ r.alias[n] = scope.alias[n] /\ r.function[n] = scope.function[n]
       /\ n \in r.safe <=> n \in scope.safe
OwnOf(s, r) ==
  s.op \in Binders =>
    /\ s.op # "class" => s.name \notin r.safe
    /\ Conditional => s.name \notin r.safe
    /\ Conditional \/ s.op \in {"del", "for", "class"}
         => r.alias[s.name] = "none" /\ r.function[s.name] = 0
    /\ s.op = "def" => /\ r.alias[s.name] = "none"
                       /\ r.function[s.name] = 0 \/ (/\ r.function[s.name] = s.line
                                                     /\ s.arg = NoName \/ s.line \in r.proven)
    /\ s.op = "assign" => \/ r.alias[s.name] = "none" /\ r.function[s.name] = 0
                          \/ /\ s.arg # NoName /\ r.alias[s.name] = scope.alias[s.arg]
                             /\ r.function[s.name] = scope.function[s.arg]
    /\ s.op = "import" => r.function[s.name] = 0 /\ r.alias[s.name] \in {"none", s.arg}

LEMMA ScanWorks ==
  ASSUME scope \in Scopes, NEW s \in Sources, Proper(s)
  PROVE  ScanOf(s, Scan(s)) /\ OwnOf(s, Scan(s))
<1> DEFINE e == Effects(s)
           held == AfterEffect(e)
           proven == IF s.op = "def" /\ IsMarker(s.arg) THEN {s.line} ELSE {}
           sc == [held EXCEPT !.proven = held.proven \cup proven]
           r == Scan(s)
<1>1. /\ held \in Scopes /\ held.proven = scope.proven
      /\ e.unknown => /\ held.poisoned /\ held.unknownAll /\ held.safe = {}
                      /\ \A n \in Names : held.alias[n] = "none" /\ held.function[n] = 0
      /\ ~e.unknown =>
           /\ (held.poisoned <=> scope.poisoned) /\ (held.unknownAll <=> scope.unknownAll)
           /\ held.safe = scope.safe \ e.names
           /\ \A n \in Names \ e.names :
                held.alias[n] = scope.alias[n] /\ held.function[n] = scope.function[n]
           /\ \A n \in Names \cap e.names : held.alias[n] = "none" /\ held.function[n] = 0
  BY AfterWorks
<1>2. r = UpdateBindings(s, sc)
  BY DEF Scan
<1>3. proven \subseteq 1..Lines
  BY DEF Proper
<1> HIDE DEF e, held, proven, r
<1>4. /\ sc \in Scopes /\ sc.proven = scope.proven \cup proven
      /\ sc.alias = held.alias /\ sc.function = held.function /\ sc.safe = held.safe
      /\ (sc.poisoned <=> held.poisoned) /\ (sc.unknownAll <=> held.unknownAll)
  BY <1>1, <1>3 DEF Scopes
<1> HIDE DEF sc
<1>5. \A n \in Names : e.unknown \/ n \in e.names =>
        sc.alias[n] = "none" /\ sc.function[n] = 0 /\ n \notin sc.safe
  BY <1>1, <1>4
<1>6. \A n \in Names : ~(e.unknown \/ n \in e.names) =>
        /\ sc.alias[n] = scope.alias[n] /\ sc.function[n] = scope.function[n]
        /\ n \in sc.safe <=> n \in scope.safe
  BY <1>1, <1>4
<1>7. /\ sc.poisoned <=> scope.poisoned \/ e.unknown
      /\ sc.unknownAll <=> scope.unknownAll \/ e.unknown
  BY <1>1, <1>4 DEF Scopes
<1>8. ASSUME s.op # "star", NEW X, r \in Scopes, r.proven = sc.proven,
             r.poisoned <=> sc.poisoned, r.unknownAll <=> sc.unknownAll,
             r.safe \ X = sc.safe \ X, X = IF s.op \in Binders THEN {s.name} ELSE {},
             \A n \in Names \ X : r.alias[n] = sc.alias[n] /\ r.function[n] = sc.function[n]
      PROVE  ScanOf(s, r)
  <2>1. \A n \in Names : n \in X <=> Own(s, n)
    BY <1>8 DEF Own
  <2>2. \A n \in Names : Wiped(s, n) <=> e.unknown \/ n \in e.names
    BY <1>8 DEF Wiped, e
  <2>3. r.proven = scope.proven \cup (IF s.op = "def" /\ IsMarker(s.arg) THEN {s.line} ELSE {})
    BY <1>4, <1>8 DEF proven
  <2>4. r.poisoned <=> scope.poisoned \/ Effects(s).unknown
    BY <1>7, <1>8 DEF e
  <2>5. r.unknownAll <=> scope.unknownAll \/ Effects(s).unknown \/ s.op = "star"
    BY <1>7, <1>8 DEF e
  <2>6. \A n \in Names : ~Own(s, n) =>
          /\ r.alias[n] = sc.alias[n] /\ r.function[n] = sc.function[n]
          /\ n \in r.safe <=> n \in sc.safe
    BY <1>8, <2>1
  <2> QED
    BY <1>5, <1>6, <1>8, <2>2, <2>3, <2>4, <2>5, <2>6 DEF ScanOf
<1>9. CASE s.op = "star"
  <2>1. r = ClearAll(sc)
    BY <1>2, <1>9 DEF UpdateBindings
  <2>2. /\ r \in Scopes /\ r.safe = {} /\ r.unknownAll /\ r.poisoned = sc.poisoned
        /\ r.proven = sc.proven
        /\ \A n \in Names : r.alias[n] = "none" /\ r.function[n] = 0
    BY <1>4, <2>1, ClearWorks
  <2>3. s.op \notin Binders
    BY <1>9 DEF Binders
  <2>4. r.poisoned <=> scope.poisoned \/ Effects(s).unknown
    BY <1>7, <2>2 DEF e
  <2>5. r.proven = scope.proven \cup (IF s.op = "def" /\ IsMarker(s.arg) THEN {s.line} ELSE {})
    BY <1>4, <1>9, <2>2 DEF proven
  <2>6. ScanOf(s, r)
    BY <1>9, <2>2, <2>4, <2>5 DEF ScanOf, Wiped
  <2> QED
    BY <2>3, <2>6 DEF OwnOf, r
<1>10. CASE s.op \notin Binders \cup {"star"}
  <2>1. r = sc
    BY <1>2, <1>10 DEF UpdateBindings, Binders
  <2>2. ScanOf(s, r)
    BY <1>4, <1>8, <1>10, <2>1
  <2> QED
    BY <1>10, <2>2 DEF OwnOf, r
<1>11. CASE s.op \in Binders
  <2>1. s.name \in Names /\ s.op # "star"
    BY <1>11 DEF Proper, Binders
  <2>2. ASSUME NEW a \in {"none", "marker", "other"}, NEW f \in 0..Lines,
               r = BindExecutionName(sc, s.name, a, f)
        PROVE  /\ ScanOf(s, r) /\ s.name \notin r.safe /\ r.proven = sc.proven
               /\ Conditional => r.alias[s.name] = "none" /\ r.function[s.name] = 0
               /\ ~Conditional => r.alias[s.name] = a /\ r.function[s.name] = f
    <3>1. BoundTo(sc, s.name, a, f, r)
      <4>1. sc \in Scopes /\ s.name \in Names
        BY <1>4, <2>1
      <4>2. a \in {"none", "marker", "other"} /\ f \in 0..Lines
        OBVIOUS
      <4>3. r = BindExecutionName(sc, s.name, a, f)
        BY <2>2
      <4> QED
        BY <4>1, <4>2, <4>3, BindExecutionWorks
    <3>2. r.safe \ {s.name} = sc.safe \ {s.name}
      BY <3>1 DEF BoundTo
    <3>3. ScanOf(s, r)
      BY <1>8, <1>11, <2>1, <3>1, <3>2 DEF BoundTo
    <3> QED
      BY <3>1, <3>3 DEF BoundTo
  <2>3. 0 \in 0..Lines
    BY ModuleConstants
  <2> s.line \in 1..Lines
    BY DEF Proper
  <2>4. CASE s.op = "def"
    <3> DEFINE f == IF s.arg = NoName \/ s.line \in sc.proven THEN s.line ELSE 0
    <3>1. r = BindExecutionName(sc, s.name, "none", f) /\ f \in 0..Lines
      BY <1>2, <2>3, <2>4 DEF UpdateBindings
    <3>2. f = 0 \/ (f = s.line /\ (s.arg = NoName \/ s.line \in sc.proven))
      OBVIOUS
    <3> HIDE DEF f
    <3>3. /\ ScanOf(s, r) /\ s.name \notin r.safe /\ r.proven = sc.proven
          /\ Conditional => r.alias[s.name] = "none" /\ r.function[s.name] = 0
          /\ ~Conditional => r.alias[s.name] = "none" /\ r.function[s.name] = f
      BY <2>2, <3>1
    <3>4. OwnOf(s, r)
      BY <2>4, <3>2, <3>3 DEF OwnOf
    <3> QED
      BY <3>3, <3>4 DEF r
  <2>5. CASE s.op \in {"del", "for"}
    <3>1. r = BindExecutionName(sc, s.name, "none", 0)
      BY <1>2, <2>5 DEF UpdateBindings
    <3>2. /\ ScanOf(s, r) /\ s.name \notin r.safe
          /\ r.alias[s.name] = "none" /\ r.function[s.name] = 0
      BY <2>2, <2>3, <3>1
    <3>3. OwnOf(s, r)
      BY <2>5, <3>2 DEF OwnOf
    <3> QED
      BY <3>2, <3>3 DEF r
  <2>6. CASE s.op = "import"
    <3>1. r = BindExecutionName(sc, s.name, s.arg, 0) /\ s.arg \in {"none", "marker", "other"}
      BY <1>2, <2>6 DEF UpdateBindings, Proper
    <3>2. /\ ScanOf(s, r) /\ s.name \notin r.safe
          /\ r.alias[s.name] \in {"none", s.arg} /\ r.function[s.name] = 0
          /\ Conditional => r.alias[s.name] = "none"
      BY <2>2, <2>3, <3>1
    <3>3. OwnOf(s, r)
      BY <2>6, <3>2 DEF OwnOf
    <3> QED
      BY <3>2, <3>3 DEF r
  <2>7. CASE s.op = "assign" /\ s.arg = NoName
    <3>1. r = BindExecutionName(sc, s.name, "none", 0)
      BY <1>2, <2>7 DEF UpdateBindings
    <3>2. /\ ScanOf(s, r) /\ s.name \notin r.safe
          /\ r.alias[s.name] = "none" /\ r.function[s.name] = 0
      BY <2>2, <2>3, <3>1
    <3>3. OwnOf(s, r)
      BY <2>7, <3>2 DEF OwnOf
    <3> QED
      BY <3>2, <3>3 DEF r
  <2>8. CASE s.op = "assign" /\ s.arg # NoName
    <3>1. r = BindExecutionName(sc, s.name, sc.alias[s.arg], sc.function[s.arg])
      BY <1>2, <2>8 DEF UpdateBindings
    <3>2. s.arg \in Names
      BY <2>8 DEF Proper
    <3>3. sc.alias[s.arg] \in {"none", "marker", "other"} /\ sc.function[s.arg] \in 0..Lines
      BY <1>4, <3>2 DEF Scopes
    <3>4. e = Rebinds({})
      BY <2>8, QuietStatements DEF e
    <3>5. sc.alias[s.arg] = scope.alias[s.arg] /\ sc.function[s.arg] = scope.function[s.arg]
      BY <1>6, <3>2, <3>4 DEF Rebinds
    <3>6. /\ ScanOf(s, r) /\ s.name \notin r.safe
          /\ Conditional => r.alias[s.name] = "none" /\ r.function[s.name] = 0
          /\ ~Conditional => /\ r.alias[s.name] = sc.alias[s.arg]
                             /\ r.function[s.name] = sc.function[s.arg]
      BY <2>2, <3>1, <3>3
    <3>7. OwnOf(s, r)
      BY <2>8, <3>5, <3>6 DEF OwnOf
    <3> QED
      BY <3>6, <3>7 DEF r
  <2>9. CASE s.op = "class"
    <3> DEFINE b == BindExecutionName(sc, s.name, "none", 0)
    <3>1. r = IF Conditional THEN b ELSE [b EXCEPT !.safe = b.safe \cup {s.name}]
      BY <1>2, <2>9 DEF UpdateBindings
    <3> HIDE DEF b
    <3>2. BoundTo(sc, s.name, "none", 0, b)
      <4>1. sc \in Scopes /\ s.name \in Names /\ "none" \in {"none", "marker", "other"}
        BY <1>4, <2>1
      <4>2. b = BindExecutionName(sc, s.name, "none", 0)
        BY DEF b
      <4> QED
        BY <2>3, <4>1, <4>2, BindExecutionWorks
    <3>3. /\ r \in Scopes /\ r.proven = b.proven /\ (r.poisoned <=> b.poisoned)
          /\ (r.unknownAll <=> b.unknownAll) /\ r.alias = b.alias /\ r.function = b.function
          /\ r.safe = IF Conditional THEN b.safe ELSE b.safe \cup {s.name}
      BY <2>1, <3>1, <3>2 DEF Scopes, BoundTo
    <3>4. r.safe \ {s.name} = sc.safe \ {s.name}
      BY <3>2, <3>3 DEF BoundTo
    <3>5. ScanOf(s, r)
      <4>1. /\ r.proven = sc.proven
            /\ \A n \in Names \ {s.name} :
                 r.alias[n] = sc.alias[n] /\ r.function[n] = sc.function[n]
        BY <3>2, <3>3 DEF BoundTo
      <4>2. (r.poisoned <=> sc.poisoned) /\ (r.unknownAll <=> sc.unknownAll)
        BY <3>2, <3>3 DEF BoundTo
      <4>3. {s.name} = IF s.op \in Binders THEN {s.name} ELSE {}
        BY <1>11
      <4>4. r \in Scopes
        BY <3>3
      <4> QED
        BY <1>8, <2>1, <3>4, <4>1, <4>2, <4>3, <4>4
    <3>6. OwnOf(s, r)
      BY <2>9, <3>2, <3>3 DEF OwnOf, BoundTo
    <3> QED
      BY <3>5, <3>6 DEF r
  <2> QED
    BY <1>11, <2>4, <2>5, <2>6, <2>7, <2>8, <2>9 DEF Binders
<1> QED
  BY <1>9, <1>10, <1>11

\* What the table says after a statement.
WalkOf(s, t) ==
  /\ t \in Tables
  /\ \A n \in Names : ~Own(s, n) =>
       IF s.op = "star" \/ HasEffect(Effects(s)) THEN t[n].kind = "unknown_star"
       ELSE t[n] = table[n]
  /\ s.op \in Binders =>
       /\ t[s.name].origin = s.line /\ t[s.name].kind # "unbound"
       /\ Conditional \/ s.op = "for" => t[s.name].kind = "ambiguous"

LEMMA WalkWorks ==
  ASSUME table \in Tables, NEW s \in Sources, Proper(s)
  PROVE  WalkOf(s, Walk(s))
<1> DEFINE lost == s.op = "star" \/ HasEffect(Effects(s))
           before == IF lost THEN Star ELSE table
           Entries == [kind : {"unbound", "function", "class", "import", "value", "deleted",
                               "ambiguous", "unknown_star"}, origin : 0..Lines]
<1>1. s.line \in 0..Lines /\ 0 \in 0..Lines
  BY ModuleConstants DEF Proper
<1>2. Star \in Tables /\ \A n \in Names : Star[n].kind = "unknown_star"
  BY <1>1 DEF Star, Tables
<1>3. /\ before \in Tables
      /\ \A n \in Names : IF lost THEN before[n].kind = "unknown_star" ELSE before[n] = table[n]
  BY <1>2
<1>4. Walk(s) = IF s.op \in Binders THEN Bind(s, before) ELSE before
  BY DEF Walk
<1> HIDE DEF lost, before
<1>5. CASE s.op \notin Binders
  BY <1>3, <1>4, <1>5 DEF WalkOf, Own, lost
<1>6. CASE s.op \in Binders
  <2> DEFINE k == IF Conditional \/ s.op = "for" THEN "ambiguous" ELSE BinderKind(s)
             v == [kind |-> k, origin |-> s.line]
             t == [before EXCEPT ![s.name] = v]
  <2>1. Walk(s) = t
    BY <1>4, <1>6 DEF Bind
  <2>2. s.name \in Names
    BY <1>6 DEF Proper
  <2>3. /\ k \in {"function", "class", "import", "value", "deleted", "ambiguous"}
        /\ Conditional \/ s.op = "for" => k = "ambiguous"
    BY DEF BinderKind
  <2> HIDE DEF k
  <2>4. v \in Entries /\ v.kind = k /\ v.origin = s.line
    BY <1>1, <2>3
  <2> HIDE DEF v
  <2>5. before \in [Names -> Entries]
    BY <1>3 DEF Tables
  <2> HIDE DEF Entries
  <2>6. t \in [Names -> Entries] /\ t[s.name] = v /\ \A n \in Names \ {s.name} : t[n] = before[n]
    BY <2>2, <2>4, <2>5
  <2>7. t \in Tables
    BY <2>6 DEF Tables, Entries
  <2> HIDE DEF t
  <2>8. \A n \in Names : ~Own(s, n) => n \in Names \ {s.name}
    BY <1>6 DEF Own
  <2>9. t[s.name].origin = s.line /\ t[s.name].kind = k
    BY <2>4, <2>6
  <2>10. WalkOf(s, t)
    BY <1>3, <2>3, <2>6, <2>7, <2>8, <2>9 DEF WalkOf, lost
  <2> QED
    BY <2>1, <2>10
<1> QED
  BY <1>5, <1>6

\* A statement rebinds no name that is neither its own nor lost with its effects.
LEMMA OthersKeep ==
  ASSUME NEW s, NEW q, Kept(s, q), NEW n \in Names, ~Own(s, n), ~Wiped(s, n)
  PROVE  q.env[n] = running.env[n]
BY DEF Kept, Own, Wiped

\* After a statement has been read and executed, the scanner and the table are right.
LEMMA ReadHeld ==
  ASSUME ModuleTyped, HeldIn(scope, running), NEW s \in Sources, Proper(s),
         s.line \notin scope.proven, NEW q, Left(s, q), NEW r, ScanOf(s, r), OwnOf(s, r)
  PROVE  HeldIn(r, q)
<1>1. Kept(s, q) /\ (~Conditional => Given(s, q))
  BY DEF Left
<1>2. ASSUME NEW n \in Names
      PROVE  /\ r.alias[n] = "marker" => Held(q, n).is = "marker"
             /\ r.function[n] # 0 => Held(q, n) = Function(r.function[n])
             /\ n \in r.safe => Held(q, n).is = "class"
  <2>1. CASE ~Own(s, n) /\ Wiped(s, n)
    <3>1. r.alias[n] = "none" /\ r.function[n] = 0 /\ n \notin r.safe
      BY <2>1 DEF ScanOf
    <3> QED
      BY <3>1
  <2>2. CASE ~Own(s, n) /\ ~Wiped(s, n)
    <3>1. q.env[n] = running.env[n]
      BY <1>1, <2>2, OthersKeep
    <3>2. Held(q, n) = Held(running, n)
      BY <3>1 DEF Held
    <3>3. /\ r.alias[n] = scope.alias[n] /\ r.function[n] = scope.function[n]
          /\ n \in r.safe <=> n \in scope.safe
      BY <2>2 DEF ScanOf
    <3> QED
      BY <3>2, <3>3 DEF HeldIn
  <2>3. CASE Own(s, n) /\ (Conditional \/ s.op \in {"del", "for"})
    <3>1. s.op \in Binders /\ n = s.name
      BY <2>3 DEF Own
    <3>2. r.alias[n] = "none" /\ r.function[n] = 0 /\ n \notin r.safe
      BY <2>3, <3>1 DEF OwnOf
    <3> QED
      BY <3>2
  <2>4. CASE Own(s, n) /\ ~Conditional /\ s.op \notin {"del", "for"}
    <3>1. s.op \in {"def", "class", "assign", "import"} /\ n = s.name /\ s.op \in Binders \ {"for"}
      BY <2>4 DEF Own, Binders
    <3>2. Given(s, q)
      BY <1>1, <2>4
    <3>3. CASE s.op = "def"
      <4>1. r.alias[n] = "none" /\ n \notin r.safe
        BY <3>1, <3>3 DEF OwnOf
      <4>2. CASE r.function[n] = 0
        BY <4>1, <4>2
      <4>3. CASE r.function[n] # 0
        <5>1. r.function[n] = s.line /\ (s.arg = NoName \/ s.line \in r.proven)
          BY <3>1, <3>3, <4>3 DEF OwnOf
        <5>2. s.arg = NoName \/ IsMarker(s.arg)
          BY <5>1 DEF ScanOf
        <5>3. Held(q, n) = Function(s.line)
          BY <3>1, <3>2, <3>3, <5>2 DEF Given, Held
        <5> QED
          BY <4>1, <5>1, <5>3
      <4> QED
        BY <4>2, <4>3
    <3>4. CASE s.op = "class"
      <4>1. r.alias[n] = "none" /\ r.function[n] = 0
        BY <3>1, <3>4 DEF OwnOf
      <4>2. Held(q, n).is = "class"
        BY <3>1, <3>2, <3>4 DEF Given, Held
      <4> QED
        BY <4>1, <4>2
    <3>5. CASE s.op = "assign"
      <4>1. n \notin r.safe
        BY <3>1, <3>5 DEF OwnOf
      <4>2. CASE r.alias[n] = "none" /\ r.function[n] = 0
        BY <4>1, <4>2
      <4>3. CASE ~(r.alias[n] = "none" /\ r.function[n] = 0)
        <5>1. /\ s.arg # NoName /\ r.alias[n] = scope.alias[s.arg]
              /\ r.function[n] = scope.function[s.arg]
          BY <3>1, <3>5, <4>3 DEF OwnOf
        <5>2. s.arg \in Names
          BY <3>5, <5>1 DEF Proper
        <5>3. Held(q, n) = Held(running, s.arg)
          BY <3>1, <3>2, <3>5, <5>1 DEF Given, Held
        <5> QED
          BY <4>1, <5>1, <5>2, <5>3 DEF HeldIn
      <4> QED
        BY <4>2, <4>3
    <3>6. CASE s.op = "import"
      <4>1. r.function[n] = 0 /\ r.alias[n] \in {"none", s.arg} /\ n \notin r.safe
        BY <3>1, <3>6 DEF OwnOf
      <4>2. Held(q, n).is = s.arg
        BY <3>1, <3>2, <3>6 DEF Given, Held
      <4> QED
        BY <4>1, <4>2
    <3> QED
      BY <3>1, <3>3, <3>4, <3>5, <3>6
  <2> QED
    BY <2>1, <2>2, <2>3, <2>4
<1>3. r.poisoned => r.unknownAll
  BY DEF ScanOf, HeldIn
<1>4. ~r.poisoned => q.genuine
  BY <1>1 DEF ScanOf, HeldIn, Kept
<1> QED
  BY <1>2, <1>3, <1>4 DEF HeldIn

LEMMA ReadLast ==
  ASSUME ModuleTyped, LastIn(table, running), NEW s \in Sources, Proper(s),
         NEW q, Left(s, q), NEW t, WalkOf(s, t)
  PROVE  LastIn(t, q)
<1>1. Kept(s, q) /\ (~Conditional => Given(s, q))
  BY DEF Left
<1>2. ASSUME NEW n \in Names
      PROVE  /\ t[n].kind \in {"function", "class", "import", "value", "deleted"}
                  => q.env[n].by = t[n].origin
             /\ t[n].kind = "unbound" => q.env[n] = [by |-> Nobody, holds |-> Object("absent")]
  <2>1. CASE ~Own(s, n) /\ (s.op = "star" \/ HasEffect(Effects(s)))
    <3>1. t[n].kind = "unknown_star"
      BY <2>1 DEF WalkOf
    <3> QED
      BY <3>1
  <2>2. CASE ~Own(s, n) /\ ~(s.op = "star" \/ HasEffect(Effects(s)))
    <3>1. ~Wiped(s, n)
      BY <2>2 DEF Wiped, HasEffect
    <3>2. q.env[n] = running.env[n]
      BY <1>1, <2>2, <3>1, OthersKeep
    <3>3. t[n] = table[n]
      BY <2>2 DEF WalkOf
    <3> QED
      BY <3>2, <3>3 DEF LastIn
  <2>3. CASE Own(s, n)
    <3>1. s.op \in Binders /\ n = s.name
      BY <2>3 DEF Own
    <3>2. t[n].kind # "unbound" /\ t[n].origin = s.line
      BY <3>1 DEF WalkOf
    <3>3. CASE Conditional \/ s.op = "for"
      <4>1. t[n].kind = "ambiguous"
        BY <3>1, <3>3 DEF WalkOf
      <4> QED
        BY <4>1
    <3>4. CASE ~(Conditional \/ s.op = "for")
      <4>1. q.env[n].by = s.line
        BY <1>1, <3>1, <3>4 DEF Given
      <4> QED
        BY <3>2, <4>1
    <3> QED
      BY <3>3, <3>4
  <2> QED
    BY <2>1, <2>2, <2>3
<1> QED
  BY <1>2 DEF LastIn

LEMMA ReadMarks ==
  ASSUME ModuleTyped, scope.proven \cap running.fakes = {}, NEW s \in Sources, Proper(s),
         s.line \notin scope.proven, NEW q, Left(s, q), NEW r, ScanOf(s, r)
  PROVE  /\ r.proven \cap q.fakes = {}
         /\ r.proven \subseteq scope.proven \cup {s.line}
         /\ q.fakes \subseteq running.fakes \cup {s.line}
<1>1. /\ q.fakes \subseteq running.fakes \cup {s.line}
      /\ s.op = "def" /\ IsMarker(s.arg) => s.line \notin q.fakes
  BY DEF Left, Faked
<1>2. r.proven = scope.proven \cup (IF s.op = "def" /\ IsMarker(s.arg) THEN {s.line} ELSE {})
  BY DEF ScanOf
<1> QED
  BY <1>1, <1>2

LEMMA EffectsForm == ASSUME NEW s PROVE Effects(s) = Unknown \/ \E W : Effects(s) = Rebinds(W)
<1>1. \A d : CalledFunctionEffects(d) = Unknown \/ \E W : CalledFunctionEffects(d) = Rebinds(W)
  BY DEF CalledFunctionEffects
<1>2. \A n : CallEffects(n) = Unknown \/ \E W : CallEffects(n) = Rebinds(W)
  BY <1>1 DEF CallEffects
<1> QED
  BY <1>1, <1>2 DEF Effects

LEMMA SameEffects ==
  ASSUME scope' = scope, body' = body, NEW s
  PROVE  /\ Effects(s)' = Effects(s) /\ (Harmless(s)' <=> Harmless(s))
         /\ \A d : Followed(d)' = Followed(d)
<1>1. \A d : Callee(d)' = Callee(d)
  BY DEF Callee
<1>2. \A d : Followed(d)' = Followed(d)
  BY <1>1 DEF Followed
<1>3. \A d : CalledFunctionEffects(d)' = CalledFunctionEffects(d)
  BY <1>1, <1>2 DEF CalledFunctionEffects
<1>4. \A n : CallEffects(n)' = CallEffects(n)
  BY <1>3 DEF CallEffects
<1>5. \A n : IsMarker(n)' <=> IsMarker(n)
  BY DEF IsMarker
<1>6. Effects(s)' = Effects(s)
  BY <1>3, <1>4, <1>5 DEF Effects
<1> QED
  BY <1>2, <1>6 DEF Harmless

\* Nothing is forgotten when nothing can be rebound.
LEMMA QuietScan ==
  ASSUME scope \in Scopes, NEW s, Harmless(s)
  PROVE  Scan(s) = scope /\ Walk(s) = table
<1>1. s.op = "call" /\ Effects(s).names = {} /\ ~Effects(s).unknown
  BY DEF Harmless, Rebinds
<1>2. AfterEffect(Effects(s)) = scope
  <2> DEFINE a == [n \in Names |-> IF n \in {} THEN "none" ELSE scope.alias[n]]
             f == [n \in Names |-> IF n \in {} THEN 0 ELSE scope.function[n]]
             z == scope.safe \ {}
  <2>1. a = scope.alias /\ f = scope.function /\ z = scope.safe
    BY DEF Scopes
  <2>2. AfterEffect(Effects(s)) = [scope EXCEPT !.alias = a, !.function = f, !.safe = z]
    BY <1>1 DEF AfterEffect
  <2> HIDE DEF a, f, z
  <2> QED
    BY <2>1, <2>2 DEF Scopes
<1>3. [scope EXCEPT !.proven = scope.proven \cup {}] = scope
  BY DEF Scopes
<1>4. Scan(s) = scope
  BY <1>1, <1>2, <1>3 DEF Scan, UpdateBindings
<1>5. Walk(s) = table
  BY <1>1 DEF Walk, HasEffect, Binders
<1> QED
  BY <1>4, <1>5

\* What a loop's statements leave to be known, whoever runs them again.
LEMMA RotateHeld ==
  ASSUME ModuleTyped, HeldIn(scope, running), LastIn(table, running),
         NEW s, s.op \in {"call", "opaque"}, LostIn(scope, table) \/ Harmless(s),
         NEW q, Left(s, q)
  PROVE  HeldIn(scope, q) /\ LastIn(table, q) /\ q.fakes \subseteq running.fakes
<1>1. q.fakes \subseteq running.fakes
  BY DEF Left, Faked
<1>2. CASE LostIn(scope, table)
  <2>1. HeldIn(scope, q)
    BY <1>2 DEF LostIn, HeldIn
  <2>2. LastIn(table, q)
    BY <1>2 DEF LostIn, LastIn
  <2> QED
    BY <1>1, <2>1, <2>2
<1>3. CASE Harmless(s)
  <2>1. s.op = "call" /\ Effects(s).names = {} /\ ~Effects(s).unknown
    BY <1>3 DEF Harmless, Rebinds
  <2>2. \A n \in Names : q.env[n] = running.env[n]
    BY <2>1 DEF Left, Kept, Binders
  <2>3. running.genuine => q.genuine
    BY <2>1 DEF Left, Kept
  <2>4. \A n \in Names : Held(q, n) = Held(running, n)
    BY <2>2 DEF Held
  <2>5. HeldIn(scope, q)
    BY <2>3, <2>4 DEF HeldIn
  <2>6. LastIn(table, q)
    BY <2>2 DEF LastIn
  <2> QED
    BY <1>1, <2>5, <2>6
<1> QED
  BY <1>2, <1>3

LEMMA AppendMembers ==
  ASSUME NEW S, NEW t \in Seq(S), NEW e \in S, NEW i \in 1..Len(Append(t, e))
  PROVE  Append(t, e)[i] = e \/ \E j \in 1..Len(t) : t[j] = Append(t, e)[i]
OBVIOUS

\* The analysis is done with a statement.
LEMMA ScannedWorks ==
  ASSUME ~RebindInLoops, ModuleTyped, scope.proven \subseteq 1..line,
         HeldIn(scope, running), LastIn(table, running), scope.proven \cap running.fakes = {},
         NEW s \in Sources, Proper(s), s.line \notin scope.proven,
         s.op \in Binders \cup {"star", "call", "opaque"},
         s.op \in {"call", "opaque"} => Again(loop) /\ body' = body,
         Left(s, running'), Scanned(s)
  PROVE  /\ scope' \in Scopes /\ table' \in Tables /\ loop' \in Seq(Sources)
         /\ block' \in {"none", "plain", block} /\ (block' = "none" => block = "none")
         /\ HeldIn(scope', running') /\ LastIn(table', running')
         /\ scope'.proven \cap running'.fakes = {}
         /\ scope'.proven \subseteq scope.proven \cup {s.line}
         /\ running'.fakes \subseteq running.fakes \cup {s.line}
         /\ Again(loop)'
<1>1. scope \in Scopes /\ table \in Tables /\ loop \in Seq(Sources)
  BY DEF ModuleTyped
<1>2. scope' = Scan(s) /\ table' = Walk(s)
  BY DEF Scanned
<1>3. ScanOf(s, scope') /\ OwnOf(s, scope')
  BY <1>1, <1>2, ScanWorks
<1>4. WalkOf(s, table')
  BY <1>1, <1>2, WalkWorks
<1>5. HeldIn(scope', running') /\ LastIn(table', running')
  BY <1>3, <1>4, ReadHeld, ReadLast
<1>6. /\ scope'.proven \cap running'.fakes = {}
      /\ scope'.proven \subseteq scope.proven \cup {s.line}
      /\ running'.fakes \subseteq running.fakes \cup {s.line}
  BY <1>3, ReadMarks
<1>7. scope' \in Scopes /\ table' \in Tables
  BY <1>3, <1>4 DEF ScanOf, WalkOf
<1>8. CASE ~(block \in Loops /\ MayRunAgain(s))
  <2>1. loop' = <<>> /\ block' = IF Conditional THEN "plain" ELSE "none"
    BY <1>8 DEF Scanned
  <2>2. loop' \in Seq(Sources) /\ Len(loop') = 0
    BY <2>1
  <2>3. Again(loop)'
    BY <2>2 DEF Again
  <2>4. block' \in {"none", "plain"} /\ (block' = "none" => block = "none")
    BY <2>1 DEF Conditional
  <2> QED
    BY <1>5, <1>6, <1>7, <2>2, <2>3, <2>4
<1>9. CASE block \in Loops /\ MayRunAgain(s)
  <2>1. loop' = Append(loop, s) /\ block' = block
    BY <1>9 DEF Scanned
  <2>2. loop' \in Seq(Sources)
    BY <1>1, <2>1
  <2>3. s.op \notin Binders \cup {"star"} /\ Effects(s).names = {}
    BY <1>9 DEF MayRunAgain
  <2>4. s.op \in {"call", "opaque"} /\ Again(loop) /\ body' = body
    BY <2>3
  <2>5. CASE Effects(s).unknown
    <3>1. LostIn(scope', table')
      <4>1. \A n \in Names : ~Own(s, n) /\ Wiped(s, n)
        BY <2>3, <2>5 DEF Own, Wiped
      <4>2. \A n \in Names : scope'.alias[n] = "none" /\ scope'.function[n] = 0 /\ n \notin scope'.safe
        BY <1>3, <4>1 DEF ScanOf
      <4>3. scope'.safe = {}
        BY <1>7, <4>2 DEF Scopes
      <4>4. \A n \in Names : table'[n].kind = "unknown_star"
        BY <1>4, <2>5, <4>1 DEF WalkOf, HasEffect
      <4>5. scope'.poisoned /\ scope'.unknownAll
        BY <1>3, <2>5 DEF ScanOf
      <4> QED
        BY <4>2, <4>3, <4>4, <4>5 DEF LostIn
    <3>2. ASSUME NEW c \in Sources, NEW i \in 1..Len(loop'), loop'[i] = c
          PROVE  c.op \in {"call", "opaque"} /\ Proper(c)
      <4>1. c = s \/ \E j \in 1..Len(loop) : loop[j] = c
        BY <1>1, <2>1, <3>2, AppendMembers
      <4> QED
        BY <2>4, <4>1 DEF Again
    <3>3. Again(loop)'
      BY <3>1, <3>2 DEF Again
    <3> QED
      BY <1>5, <1>6, <1>7, <2>1, <2>2, <3>3
  <2>6. CASE ~Effects(s).unknown
    <3>1. Effects(s) = Rebinds({})
      BY <2>3, <2>6, EffectsForm DEF Unknown, Rebinds
    <3>2. s.op = "call" /\ Harmless(s)
      BY <2>4, <2>6, <3>1, KnownEffects DEF Harmless
    <3>3. scope' = scope /\ table' = table
      BY <1>1, <1>2, <3>2, QuietScan
    <3>4. ASSUME NEW c \in Sources, NEW i \in 1..Len(loop'), loop'[i] = c
          PROVE  c.op \in {"call", "opaque"} /\ Proper(c) /\ (LostIn(scope, table) \/ Harmless(c))
      <4>1. c = s \/ \E j \in 1..Len(loop) : loop[j] = c
        BY <1>1, <2>1, <3>4, AppendMembers
      <4> QED
        BY <2>4, <3>2, <4>1 DEF Again
    <3>5. \A c : Harmless(c)' <=> Harmless(c)
      BY <2>4, <3>3, SameEffects
    <3>6. LostIn(scope', table') <=> LostIn(scope, table)
      BY <3>3
    <3>7. Again(loop)'
      BY <3>4, <3>5, <3>6 DEF Again
    <3> QED
      BY <1>5, <1>6, <1>7, <2>1, <2>2, <3>7
  <2> QED
    BY <2>5, <2>6
<1> QED
  BY <1>8, <1>9

LEMMA EnterWorks ==
  ASSUME ModuleTyped, Summaries, NEW d \in 1..Lines, Enter(d)
  PROVE  /\ running' = running /\ stack' = Append(stack, d) /\ stack' \in Seq(1..Lines) /\ ~Idle'
         /\ \A i \in 1..Len(stack') : stack'[i] = d \/ \E j \in 1..Len(stack) : stack[j] = stack'[i]
<1>1. stack \in Seq(1..Lines) /\ ~body[d].first
  BY DEF ModuleTyped, Summaries
<1>2. running' = running /\ stack' = Append(stack, d)
  BY <1>1 DEF Enter
<1>3. stack' \in Seq(1..Lines) /\ stack' # <<>>
  BY <1>1, <1>2
<1>4. \A i \in 1..Len(stack') : stack'[i] = d \/ \E j \in 1..Len(stack) : stack[j] = stack'[i]
  BY <1>1, <1>2, AppendMembers
<1> QED
  BY <1>2, <1>3, <1>4 DEF Idle

LEMMA StartCallWorks ==
  ASSUME BindingsInv, Idle, NEW s \in Sources, Proper(s), CallsFunction(s), StartCall(s)
  PROVE  /\ running' = running /\ loop' = loop /\ scope' = scope /\ table' = table /\ now' = s
         /\ stack' \in Seq(1..Lines) /\ ~Idle' /\ CallsFunction(s)'
         /\ (\A i \in 1..Len(stack) : stack[i] \in Followed(Held(running, Caller(s)).line))'
<1> DEFINE x == Held(running, Caller(s))
<1>1. ModuleTyped /\ Summaries /\ HeldIn(scope, running) /\ running \in Worlds
  BY DEF BindingsInv, ModuleTyped
<1>2. s.op \in {"call", "def"} /\ Caller(s) \in Names
  BY <1>1, CallKnown
<1>3. x \in Things
  BY <1>1, <1>2, HeldThing
<1>4. PICK d \in 1..Lines : d = x.line
  BY <1>3, NoObject DEF CallsFunction
<1>5. Enter(d) /\ now' = s /\ loop' = loop /\ scope' = scope /\ table' = table
  BY <1>4 DEF StartCall
<1>6. /\ running' = running /\ stack' = Append(stack, d) /\ stack' \in Seq(1..Lines) /\ ~Idle'
      /\ \A i \in 1..Len(stack') : stack'[i] = d \/ \E j \in 1..Len(stack) : stack[j] = stack'[i]
  BY <1>1, <1>4, <1>5, EnterWorks
<1>7. Len(stack) = 0
  BY DEF Idle
<1>8. \A i \in 1..Len(stack') : stack'[i] = d
  BY <1>6, <1>7
<1>9. CallsFunction(s)'
  BY <1>6 DEF CallsFunction, Caller, Held
<1>10. d \in Followed(d)'
  BY DEF Followed
<1>11. (Held(running, Caller(s)).line)' = d
  BY <1>4, <1>6 DEF Held, Caller
<1>12. (\A i \in 1..Len(stack) : stack[i] \in Followed(Held(running, Caller(s)).line))'
  BY <1>8, <1>10, <1>11
<1> QED
  BY <1>5, <1>6, <1>9, <1>12

LEMMA PerformWorks ==
  ASSUME ModuleTyped, HeldIn(scope, running), NEW s \in Sources, Proper(s),
         s.op = "def" => s.line \notin running.fakes, ~CallsFunction(s), Perform(s)
  PROVE  Left(s, running') /\ (block = "none" => running'.live) /\ now' = now /\ stack' = stack
<1>1. running \in Worlds /\ (block = "none" => running.live)
  BY DEF ModuleTyped
<1>2. now' = now /\ stack' = stack
  BY DEF Perform
<1>3. CASE running.live
  <2>1. Settle(Run(s, running))
    BY <1>3 DEF Perform
  <2>2. running.live = TRUE
    BY <1>1, <1>3 DEF Worlds
  <2>3. \A q \in Run(s, running) : Does(s, q)
    <3>1. CASE s.op = "def"
      BY <2>2, <3>1, RunDef
    <3>2. CASE s.op = "class"
      BY <2>2, <3>2, RunClass
    <3>3. CASE s.op \notin {"def", "class"}
      BY <2>2, <3>3, RunOther
    <3> QED
      BY <3>1, <3>2, <3>3
  <2> HIDE DEF Left
  <2>4. Left(s, running') /\ (block = "none" => running'.live)
    BY <2>1, <2>3, SettleWorks
  <2> QED
    BY <1>2, <2>4
<1>4. CASE ~running.live
  <2>1. Settle({running})
    BY <1>4 DEF Perform
  <2>2. Conditional
    BY <1>1, <1>4 DEF Conditional
  <2>3. Kept(s, running) /\ Faked(s, running)
    BY DEF Kept, Faked
  <2>4. \A q \in {running} : Does(s, q)
    BY <1>1, <2>2, <2>3 DEF Does
  <2>5. Left(s, running') /\ (block = "none" => running'.live)
    BY <2>1, <2>4, SettleWorks
  <2> QED
    BY <1>2, <2>5
<1> QED
  BY <1>3, <1>4

\* A body that a summary tells the truth of.
Told(b) == b \in Body /\ b.seen /\ ~b.first /\ b.named = b.calls

LEMMA BodyWorks ==
  ASSUME ModuleTyped, Summaries, line < Lines, line' = line + 1, NEW b, Told(b),
         body' = [body EXCEPT ![line + 1] = b]
  PROVE  /\ line' \in 0..Lines /\ body' \in [1..Lines -> Body] /\ Summaries'
         /\ line + 1 \in 1..Lines /\ (b = NoBody => body' = body)
<1>1. line \in 0..Lines /\ body \in [1..Lines -> Body] /\ Lines \in Nat
  BY ModuleConstants DEF ModuleTyped
<1>2. line' \in 0..Lines /\ line + 1 \in 1..Lines
  BY <1>1
<1>3. body' \in [1..Lines -> Body]
  BY <1>1, <1>2 DEF Told
<1>4. body[line + 1] = NoBody
  BY <1>1, <1>2 DEF Summaries
<1>5. ASSUME NEW d \in 1..Lines
      PROVE  /\ body'[d].seen /\ ~body'[d].first /\ body'[d].named = body'[d].calls
             /\ d > line' => body'[d] = NoBody
  <2>1. CASE d = line + 1
    <3>1. body'[d] = b /\ ~(d > line')
      BY <1>1, <1>2, <2>1
    <3> QED
      BY <3>1 DEF Told
  <2>2. CASE d # line + 1
    <3>1. body'[d] = body[d] /\ (d > line' => d > line)
      BY <1>1, <1>2, <2>2
    <3> QED
      BY <3>1 DEF Summaries
  <2> QED
    BY <2>1, <2>2
<1>6. b = NoBody => body' = body
  BY <1>1, <1>2, <1>4
<1> QED
  BY <1>2, <1>3, <1>5, <1>6 DEF Summaries

LEMMA ReadWorks ==
  ASSUME ~RebindInLoops, BindingsInv, NEW s \in Sources, Proper(s), s.line = line + 1,
         s.op \in Binders \cup {"star", "call", "opaque"},
         NEW b, Told(b), s.op # "def" => b = NoBody, Read(s, b)
  PROVE  BindingsInv'
<1>1. /\ ModuleTyped /\ Summaries /\ HeldIn(scope, running) /\ LastIn(table, running)
      /\ scope.proven \cap running.fakes = {} /\ scope.proven \subseteq 1..line
      /\ running.fakes \subseteq 1..line /\ Again(loop)
  BY DEF BindingsInv, Marks, Looping, Read
<1>2. /\ Idle /\ block # "again" /\ line < Lines /\ line' = line + 1
      /\ body' = [body EXCEPT ![line + 1] = b]
  BY DEF Read
<1>3. /\ line' \in 0..Lines /\ body' \in [1..Lines -> Body] /\ Summaries'
      /\ line + 1 \in 1..Lines /\ (b = NoBody => body' = body)
  BY <1>1, <1>2, BodyWorks
<1>4. line \in 0..Lines /\ s.line = line' /\ line' > 0
  BY <1>1, <1>2 DEF ModuleTyped
<1>5. s.line \notin scope.proven /\ s.line \notin running.fakes
  BY <1>1, <1>4
<1>6. CASE CallsFunction(s)
  <2>1. StartCall(s) /\ block' = block
    BY <1>6 DEF Read
  <2>2. /\ running' = running /\ loop' = loop /\ scope' = scope /\ table' = table /\ now' = s
        /\ stack' \in Seq(1..Lines) /\ ~Idle' /\ CallsFunction(s)'
        /\ (\A i \in 1..Len(stack) : stack[i] \in Followed(Held(running, Caller(s)).line))'
    BY <1>2, <1>6, <2>1, StartCallWorks
  <2>3. ModuleTyped'
    BY <1>1, <1>3, <2>1, <2>2 DEF ModuleTyped
  <2>4. HeldIn(scope, running)' /\ LastIn(table, running)'
    BY <1>1, <2>2
  <2>5. Marks'
    BY <1>1, <1>4, <2>2 DEF Marks
  <2>6. Along(s)'
    BY <1>2, <1>4, <1>5, <2>1, <2>2 DEF Along
  <2>7. Calling'
    BY <2>2, <2>6 DEF Calling
  <2>8. Looping'
    <3> SUFFICES ASSUME s.op = "call" PROVE Again(loop)'
      BY <2>2 DEF Looping
    <3>1. body' = body
      BY <1>3
    <3>2. \A c : Harmless(c)' <=> Harmless(c)
      BY <2>2, <3>1, SameEffects
    <3> QED
      BY <1>1, <2>2, <3>2 DEF Again
  <2> QED
    BY <1>3, <2>3, <2>4, <2>5, <2>7, <2>8 DEF BindingsInv
<1>7. CASE ~CallsFunction(s)
  <2>1. Perform(s) /\ Scanned(s)
    BY <1>7 DEF Read
  <2>2. Left(s, running') /\ (block = "none" => running'.live) /\ now' = now /\ stack' = stack
    BY <1>1, <1>5, <1>7, <2>1, PerformWorks
  <2>3. s.op \in {"call", "opaque"} => Again(loop) /\ body' = body
    BY <1>1, <1>3
  <2>4. /\ scope' \in Scopes /\ table' \in Tables /\ loop' \in Seq(Sources)
        /\ block' \in {"none", "plain", block} /\ (block' = "none" => block = "none")
        /\ HeldIn(scope', running') /\ LastIn(table', running')
        /\ scope'.proven \cap running'.fakes = {}
        /\ scope'.proven \subseteq scope.proven \cup {s.line}
        /\ running'.fakes \subseteq running.fakes \cup {s.line}
        /\ Again(loop)'
    BY <1>1, <1>5, <2>1, <2>2, <2>3, ScannedWorks
  <2>5. running' \in Worlds /\ ~running'.failed
    BY <2>2 DEF Left
  <2>6. ModuleTyped'
    BY <1>1, <1>3, <2>2, <2>4, <2>5 DEF ModuleTyped
  <2>7. Marks'
    BY <1>1, <1>4, <2>4 DEF Marks
  <2>8. Calling'
    BY <1>2, <2>2 DEF Calling, Idle
  <2>9. Looping'
    BY <2>4 DEF Looping
  <2> QED
    BY <1>3, <2>4, <2>6, <2>7, <2>8, <2>9 DEF BindingsInv
<1> QED
  BY <1>6, <1>7

\* A function of the module has called another.
LEMMA EnterInnerWorks == ASSUME BindingsInv, EnterInner PROVE BindingsInv'
<1>1. ModuleTyped /\ Summaries /\ HeldIn(scope, running) /\ ~Idle /\ Nests
  BY DEF BindingsInv, EnterInner
<1>2. PICK s \in Sources : s = now
  BY <1>1 DEF ModuleTyped
<1>3. Along(s) /\ Proper(s) /\ CallsFunction(s)
  BY <1>1, <1>2 DEF BindingsInv, Calling, Along
<1>4. Inner \in Names /\ InnerObject \in Things /\ InnerObject.is = "function"
  BY <1>1, LastEntered, HeldThing DEF Nests, InnerObject, ModuleTyped
<1>5. InnerObject.line \in 1..Lines /\ InnerObject = Function(InnerObject.line)
  BY <1>4, NoObject
<1>6. PICK d \in 1..Lines : d = InnerObject.line
  BY <1>5
<1>7. Enter(d) /\ UNCHANGED <<line, body, block, loop, scope, table, now>>
  BY <1>6 DEF EnterInner
<1>8. /\ running' = running /\ stack' = Append(stack, d) /\ stack' \in Seq(1..Lines) /\ ~Idle'
      /\ \A i \in 1..Len(stack') : stack'[i] = d \/ \E j \in 1..Len(stack) : stack[j] = stack'[i]
  BY <1>1, <1>7, EnterWorks
<1>9. ModuleTyped' /\ Summaries'
  BY <1>1, <1>7, <1>8 DEF ModuleTyped, Summaries
<1>10. HeldIn(scope, running)' /\ LastIn(table, running)' /\ Marks'
  BY <1>7, <1>8 DEF BindingsInv, Marks
<1>11. Along(s)'
  <2>1. CallsFunction(s)' /\ Effects(s)' = Effects(s) /\ \A e : Followed(e)' = Followed(e)
    BY <1>3, <1>7, <1>8, SameEffects DEF CallsFunction, Held, Caller
  <2> DEFINE x == Held(running, Caller(s))
  <2>2. PICK c : c = x.line
    OBVIOUS
  <2>3. x.line' = c
    BY <1>8, <2>2 DEF Held, Caller
  <2>4. ASSUME ~Effects(s).unknown PROVE \A i \in 1..Len(stack') : stack'[i] \in Followed(c)
    <3>1. \A i \in 1..Len(stack) : stack[i] \in Followed(c)
      BY <1>3, <2>2, <2>4 DEF Along
    <3> DEFINE e == stack[Len(stack)]
    <3>2. e \in Followed(c) /\ e \in 1..Lines
      BY <1>1, <3>1, LastEntered
    <3>3. /\ scope.function[Caller(s)] # 0 /\ x = Function(scope.function[Caller(s)])
          /\ Effects(s) = CalledFunctionEffects(scope.function[Caller(s)])
      BY <1>1, <1>3, <2>4, CallKnown
    <3>4. c = scope.function[Caller(s)]
      BY <2>2, <3>3 DEF Function
    <3>5. body[e].named = Inner
      BY <1>1, <3>2 DEF Summaries, Inner
    <3>6. Callee(e) # 0
      <4>1. ~CalledFunctionEffects(c).unknown
        BY <2>4, <3>3, <3>4
      <4>2. \A a \in Followed(c) : body[a].named # NoName => Callee(a) # 0
        BY <4>1, KnownCallee
      <4> QED
        BY <1>4, <3>2, <3>5, <4>2, ModuleConstants
    <3>7. Callee(e) = scope.function[Inner]
      BY <1>4, <3>5, ModuleConstants DEF Callee
    <3>8. InnerObject = Function(Callee(e))
      BY <1>1, <1>4, <3>6, <3>7 DEF HeldIn, InnerObject
    <3>9. d = Callee(e)
      BY <1>6, <3>8 DEF Function
    <3> HIDE DEF e
    <3>10. d \in Followed(c)
      BY <3>2, <3>6, <3>9 DEF Followed
    <3> QED
      BY <1>8, <3>1, <3>10
  <2>5. (\A i \in 1..Len(stack) : stack[i] \in Followed(Held(running, Caller(s)).line))'
          <=> \A i \in 1..Len(stack') : stack'[i] \in Followed(c)
    BY <2>1, <2>3
  <2> QED
    BY <1>3, <1>7, <2>1, <2>4, <2>5 DEF Along
<1>12. Calling'
  BY <1>2, <1>7, <1>11 DEF Calling
<1>13. Looping'
  <2> SUFFICES ASSUME now.op = "call" PROVE Again(loop)'
    BY <1>7, <1>8 DEF Looping
  <2>1. \A c : Harmless(c)' <=> Harmless(c)
    BY <1>7, SameEffects
  <2> QED
    BY <1>7, <2>1 DEF BindingsInv, Looping, Again
<1> QED
  BY <1>9, <1>10, <1>12, <1>13 DEF BindingsInv

LEMMA RotatedMembers ==
  ASSUME NEW S, NEW t \in Seq(S), t # <<>>
  PROVE  /\ Append(Tail(t), Head(t)) \in Seq(S) /\ Head(t) \in S /\ Len(t) > 0 /\ Head(t) = t[1]
         /\ \A i \in 1..Len(Append(Tail(t), Head(t))) :
              \E j \in 1..Len(t) : t[j] = Append(Tail(t), Head(t))[i]
<1>1. Len(t) \in Nat /\ Len(t) # 0 /\ \A i \in 1..Len(t) : t[i] \in S
  BY NotEmpty
<1>2. Head(t) = t[1] /\ Head(t) \in S /\ 1 \in 1..Len(t) /\ Len(t) > 0
  BY <1>1
<1>3. /\ Tail(t) \in Seq(S) /\ Len(Tail(t)) = Len(t) - 1
      /\ \A i \in 1..Len(Tail(t)) : Tail(t)[i] = t[i + 1]
  BY HeadTailProperties
<1>4. PICK u \in Seq(S) : u = Tail(t)
  BY <1>3
<1>5. PICK h \in S : h = Head(t)
  BY <1>2
<1>6. Append(u, h) \in Seq(S)
  BY AppendProperties
<1>7. ASSUME NEW i \in 1..Len(Append(u, h)) PROVE \E j \in 1..Len(t) : t[j] = Append(u, h)[i]
  <2>1. Append(u, h)[i] = h \/ \E j \in 1..Len(u) : u[j] = Append(u, h)[i]
    BY AppendMembers
  <2>2. CASE Append(u, h)[i] = h
    BY <1>2, <1>5, <2>2
  <2>3. ASSUME NEW j \in 1..Len(u), u[j] = Append(u, h)[i]
        PROVE  \E k \in 1..Len(t) : t[k] = Append(u, h)[i]
    <3>1. Len(u) = Len(t) - 1 /\ \A k \in 1..Len(u) : u[k] = t[k + 1]
      BY <1>3, <1>4
    <3>2. u[j] = t[j + 1]
      BY <3>1
    <3>3. j + 1 \in 1..Len(t)
      BY <1>1, <3>1
    <3> QED
      BY <2>3, <3>2, <3>3
  <2> QED
    BY <2>1, <2>2, <2>3
<1> QED
  BY <1>2, <1>4, <1>5, <1>6, <1>7

\* A statement of a loop has run again.
LEMMA RotatedWorks ==
  ASSUME BindingsInv, loop # <<>>, Rotated, Again(loop), body' = body,
         NEW s, s.op \in {"call", "opaque"}, LostIn(scope, table) \/ Harmless(s), Left(s, running')
  PROVE  /\ loop' \in Seq(Sources) /\ block' = "again" /\ scope' = scope /\ table' = table
         /\ HeldIn(scope', running') /\ LastIn(table', running')
         /\ running' \in Worlds /\ ~running'.failed /\ running'.fakes \subseteq running.fakes
         /\ Again(loop)'
<1>1. ModuleTyped /\ HeldIn(scope, running) /\ LastIn(table, running) /\ loop \in Seq(Sources)
  BY DEF BindingsInv, ModuleTyped
<1>2. loop' = Append(Tail(loop), Head(loop)) /\ block' = "again" /\ scope' = scope /\ table' = table
  BY DEF Rotated
<1>3. /\ loop' \in Seq(Sources)
      /\ \A i \in 1..Len(loop') : \E j \in 1..Len(loop) : loop[j] = loop'[i]
  BY <1>1, <1>2, RotatedMembers
<1>4. HeldIn(scope, running') /\ LastIn(table, running') /\ running'.fakes \subseteq running.fakes
  BY <1>1, RotateHeld
<1>5. running' \in Worlds /\ ~running'.failed
  BY DEF Left
<1>6. \A c : Harmless(c)' <=> Harmless(c)
  BY <1>2, SameEffects
<1>7. Again(loop)'
  BY <1>2, <1>3, <1>6 DEF Again
<1> QED
  BY <1>2, <1>3, <1>4, <1>5, <1>7

LEMMA EndCallWorks == ASSUME ~RebindInLoops, BindingsInv, EndCall PROVE BindingsInv'
<1>1. /\ ModuleTyped /\ Summaries /\ HeldIn(scope, running) /\ LastIn(table, running)
      /\ Marks /\ ~Idle /\ ~Nests
  BY DEF BindingsInv, EndCall
<1>2. PICK s \in Sources : s = now
  BY <1>1 DEF ModuleTyped
<1>3. Along(s) /\ Proper(s) /\ s.op \in {"call", "def"}
  BY <1>1, <1>2, CallKnown DEF BindingsInv, Calling, Along
<1>4. Settle(CallOutcomes) /\ now' = NoStatement /\ stack' = <<>> /\ line' = line /\ body' = body
  BY DEF EndCall
<1>5. Left(s, running') /\ (block = "none" => running'.live)
  <2>1. \A q \in CallOutcomes : Does(s, q)
    BY <1>1, <1>2, <1>3, CallWorks
  <2> QED
    BY <1>1, <1>4, <2>1, SettleWorks
<1>6. running' \in Worlds /\ ~running'.failed
  BY <1>5 DEF Left
<1>7. NoStatement \in Sources /\ stack' \in Seq(1..Lines)
  BY <1>4, ModuleConstants DEF NoStatement, Statement, Sources, Ops
<1>8. Summaries' /\ Calling'
  BY <1>1, <1>4 DEF Summaries, Calling, Idle
<1>9. CASE block = "again"
  <2>1. Rotated
    BY <1>9 DEF EndCall
  <2>2. s.op = "call" /\ \E i \in 1..Len(loop) : loop[i] = s
    BY <1>3, <1>9 DEF Along
  <2>3. Again(loop)
    BY <1>2, <2>2 DEF BindingsInv, Looping
  <2>4. LostIn(scope, table) \/ Harmless(s)
    BY <2>2, <2>3 DEF Again
  <2>5. loop # <<>>
    BY <2>2
  <2>6. /\ loop' \in Seq(Sources) /\ block' = "again" /\ scope' = scope /\ table' = table
        /\ HeldIn(scope', running') /\ LastIn(table', running')
        /\ running' \in Worlds /\ ~running'.failed /\ running'.fakes \subseteq running.fakes
        /\ Again(loop)'
    BY <1>4, <1>5, <2>1, <2>2, <2>3, <2>4, <2>5, RotatedWorks
  <2>7. ModuleTyped'
    BY <1>1, <1>4, <1>7, <2>6 DEF ModuleTyped
  <2>8. Marks'
    BY <1>1, <1>4, <2>6 DEF Marks
  <2>9. Looping'
    BY <2>6 DEF Looping
  <2> QED
    BY <1>8, <2>6, <2>7, <2>8, <2>9 DEF BindingsInv
<1>10. CASE block # "again"
  <2>1. Scanned(s)
    BY <1>2, <1>10 DEF EndCall
  <2>2. s.line = line /\ line > 0 /\ s.line \notin scope.proven
    BY <1>3, <1>10 DEF Along
  <2>3. s.op \in {"call", "opaque"} => Again(loop) /\ body' = body
    BY <1>2, <1>3, <1>4 DEF BindingsInv, Looping
  <2>4. /\ scope.proven \subseteq 1..line /\ scope.proven \cap running.fakes = {}
        /\ s.op \in Binders \cup {"star", "call", "opaque"}
    BY <1>1, <1>3 DEF Marks, Binders
  <2>5. /\ scope' \in Scopes /\ table' \in Tables /\ loop' \in Seq(Sources)
        /\ block' \in {"none", "plain", block} /\ (block' = "none" => block = "none")
        /\ HeldIn(scope', running') /\ LastIn(table', running')
        /\ scope'.proven \cap running'.fakes = {}
        /\ scope'.proven \subseteq scope.proven \cup {s.line}
        /\ running'.fakes \subseteq running.fakes \cup {s.line}
        /\ Again(loop)'
    BY <1>1, <1>3, <1>5, <2>1, <2>2, <2>3, <2>4, ScannedWorks
  <2>6. ModuleTyped'
    BY <1>1, <1>4, <1>5, <1>6, <1>7, <2>5 DEF ModuleTyped
  <2>7. Marks'
    <3>1. line \in Nat /\ s.line \in 1..line
      BY <1>1, <2>2, ModuleConstants DEF ModuleTyped
    <3> QED
      BY <1>1, <1>4, <2>5, <3>1 DEF Marks
  <2>8. Looping'
    BY <2>5 DEF Looping
  <2> QED
    BY <1>8, <2>5, <2>6, <2>7, <2>8 DEF BindingsInv
<1> QED
  BY <1>9, <1>10

LEMMA RunAgainWorks == ASSUME ~RebindInLoops, BindingsInv, RunAgain PROVE BindingsInv'
<1>1. /\ ModuleTyped /\ Summaries /\ HeldIn(scope, running) /\ LastIn(table, running)
      /\ Marks /\ Idle /\ Again(loop)
  BY DEF BindingsInv, RunAgain, Looping
<1>2. /\ loop # <<>> /\ block # "none" /\ line' = line /\ body' = body
  BY DEF RunAgain, Loops
<1>3. loop \in Seq(Sources)
  BY <1>1 DEF ModuleTyped
<1>4. /\ Head(loop) \in Sources /\ Len(loop) > 0 /\ Head(loop) = loop[1]
  BY <1>2, <1>3, RotatedMembers
<1>5. PICK s \in Sources : s = Head(loop)
  BY <1>4
<1>6. \E i \in 1..Len(loop) : loop[i] = s
  BY <1>3, <1>4, <1>5
<1>7. s.op \in {"call", "opaque"} /\ Proper(s) /\ (LostIn(scope, table) \/ Harmless(s))
  BY <1>1, <1>6 DEF Again
<1>8. Summaries'
  BY <1>1, <1>2 DEF Summaries
<1>9. CASE CallsFunction(s)
  <2>1. StartCall(s) /\ block' = "again"
    BY <1>5, <1>9 DEF RunAgain
  <2>2. /\ running' = running /\ loop' = loop /\ scope' = scope /\ table' = table /\ now' = s
        /\ stack' \in Seq(1..Lines) /\ ~Idle' /\ CallsFunction(s)'
        /\ (\A i \in 1..Len(stack) : stack[i] \in Followed(Held(running, Caller(s)).line))'
    BY <1>1, <1>7, <1>9, <2>1, StartCallWorks
  <2>3. ModuleTyped'
    BY <1>1, <1>2, <2>1, <2>2 DEF ModuleTyped
  <2>4. HeldIn(scope, running)' /\ LastIn(table, running)' /\ Marks'
    BY <1>1, <1>2, <2>2 DEF Marks
  <2>5. Along(s)'
    <3>1. s.op = "call"
      BY <1>7, <1>9 DEF CallsFunction
    <3> QED
      BY <1>6, <1>7, <2>1, <2>2, <3>1 DEF Along
  <2>6. Calling'
    BY <2>2, <2>5 DEF Calling
  <2>7. \A c : Harmless(c)' <=> Harmless(c)
    BY <1>2, <2>2, SameEffects
  <2>8. Looping'
    BY <1>1, <2>2, <2>7 DEF Looping, Again
  <2> QED
    BY <1>8, <2>3, <2>4, <2>6, <2>8 DEF BindingsInv
<1>10. CASE ~CallsFunction(s)
  <2>1. Perform(s) /\ Rotated
    BY <1>5, <1>10 DEF RunAgain
  <2>2. Left(s, running') /\ now' = now /\ stack' = stack
    BY <1>1, <1>7, <1>10, <2>1, PerformWorks
  <2>3. /\ loop' \in Seq(Sources) /\ block' = "again" /\ scope' = scope /\ table' = table
        /\ HeldIn(scope', running') /\ LastIn(table', running')
        /\ running' \in Worlds /\ ~running'.failed /\ running'.fakes \subseteq running.fakes
        /\ Again(loop)'
    BY <1>1, <1>2, <1>7, <2>1, <2>2, RotatedWorks
  <2>4. ModuleTyped'
    BY <1>1, <1>2, <2>2, <2>3 DEF ModuleTyped
  <2>5. Marks'
    BY <1>1, <1>2, <2>3 DEF Marks
  <2>6. Calling' /\ Looping'
    BY <1>1, <2>2, <2>3 DEF Calling, Looping, Idle
  <2> QED
    BY <1>8, <2>3, <2>4, <2>5, <2>6 DEF BindingsInv
<1> QED
  BY <1>9, <1>10

\* The header of a block.
LEMMA OpenWorks ==
  ASSUME BindingsInv, NEW s \in Sources, Proper(s), s.line = line + 1,
         s.op \in {"plain", "hooked", "while", "for"}, Open(s)
  PROVE  BindingsInv'
<1>1. /\ ModuleTyped /\ Summaries /\ HeldIn(scope, running) /\ LastIn(table, running)
      /\ scope.proven \cap running.fakes = {} /\ scope.proven \subseteq 1..line
      /\ running.fakes \subseteq 1..line
  BY DEF BindingsInv, Marks
<1>2. /\ Idle /\ block = "none" /\ line < Lines /\ line' = line + 1 /\ block' = s.op
      /\ loop' = <<>> /\ scope' = Scan(s) /\ table' = Walk(s) /\ body' = body
      /\ now' = now /\ stack' = stack
  BY DEF Open
<1>3. line \in 0..Lines /\ line' \in 0..Lines /\ Summaries' /\ s.line = line'
  BY <1>1, <1>2, ModuleConstants DEF ModuleTyped, Summaries
<1>4. s.line \notin scope.proven /\ s.line \notin running.fakes
  BY <1>1, <1>3
<1>5. PICK q \in Run(s, running), entered \in BOOLEAN : running' = [q EXCEPT !.live = entered]
  BY DEF Open
<1>6. Does(s, q)
  <2>1. ~CallsFunction(s)
    BY DEF CallsFunction
  <2>2. running.live = TRUE
    BY <1>1, <1>2 DEF ModuleTyped, Worlds
  <2> QED
    BY <1>1, <2>1, <2>2, RunOther
<1>7. ~q.failed
  <2>1. running \in Worlds /\ ~running.failed
    BY <1>1 DEF ModuleTyped
  <2>2. CASE s.op = "hooked"
    <3>1. q \in Opaque(running)
      BY <1>5, <2>2 DEF Run
    <3> QED
      BY <2>1, <3>1, OpaqueWorks
  <2>3. CASE s.op = "for"
    <3>1. q = BindTo(running, s.name, s.line, Object("other"))
      BY <1>5, <2>3 DEF Run
    <3>2. s.name \in Names /\ s.line \in 0..Lines
      BY <2>3 DEF Proper, Binders
    <3>3. PICK o \in Things : o = Object("other")
      BY NoObject
    <3>4. q = BindTo(running, s.name, s.line, o)
      BY <3>1, <3>3
    <3>5. PICK r \in Worlds : r = running /\ ~r.failed
      BY <2>1
    <3>6. PICK by \in 0..Lines, n \in Names : q = BindTo(r, n, by, o)
      BY <3>2, <3>4, <3>5
    <3>7. q.failed <=> r.failed
      BY <3>6, BindToWorks
    <3> QED
      BY <3>5, <3>7
  <2>4. CASE s.op \in {"plain", "while"}
    <3>1. q = running
      BY <1>5, <2>4 DEF Run
    <3> QED
      BY <2>1, <3>1
  <2> QED
    BY <2>2, <2>3, <2>4
<1>8. /\ running' \in Worlds /\ running'.env = q.env /\ running'.genuine = q.genuine
      /\ running'.fakes = q.fakes /\ ~running'.failed
  <2>1. q \in Worlds
    BY <1>6 DEF Does
  <2> QED
    BY <1>5, <1>7, <2>1 DEF Worlds
<1>9. Left(s, running')
  <2>1. Kept(s, running')
    BY <1>6, <1>8 DEF Does, Kept
  <2>2. Faked(s, running')
    BY <1>6, <1>8 DEF Does, Faked
  <2>3. Given(s, running')
    BY <1>6, <1>7, <1>8 DEF Given, Does, Conditional, Binders
  <2> QED
    BY <1>8, <2>1, <2>2, <2>3 DEF Left
<1>10. scope \in Scopes /\ table \in Tables
  BY <1>1 DEF ModuleTyped
<1>11. ScanOf(s, scope') /\ OwnOf(s, scope') /\ WalkOf(s, table')
  BY <1>2, <1>10, ScanWorks, WalkWorks
<1>12. HeldIn(scope', running') /\ LastIn(table', running')
  BY <1>1, <1>4, <1>9, <1>11, ReadHeld, ReadLast
<1>13. /\ scope'.proven \cap running'.fakes = {}
       /\ scope'.proven \subseteq scope.proven \cup {s.line}
       /\ running'.fakes \subseteq running.fakes \cup {s.line}
  BY <1>1, <1>4, <1>9, <1>11, ReadMarks
<1>14. Marks'
  BY <1>1, <1>2, <1>3, <1>13 DEF Marks
<1>15. loop' \in Seq(Sources) /\ Len(loop') = 0
  BY <1>2
<1>16. ModuleTyped'
  BY <1>1, <1>2, <1>3, <1>8, <1>11, <1>15 DEF ModuleTyped, ScanOf, WalkOf
<1>17. Calling' /\ Looping'
  BY <1>2, <1>15 DEF Calling, Looping, Again, Idle
<1> QED
  BY <1>3, <1>12, <1>14, <1>16, <1>17 DEF BindingsInv

LEMMA CloseWorks == ASSUME BindingsInv, Close PROVE BindingsInv'
<1>1. /\ ModuleTyped /\ Summaries /\ HeldIn(scope, running) /\ LastIn(table, running)
      /\ Marks /\ running \in Worlds
  BY DEF BindingsInv, ModuleTyped
<1>2. /\ Idle /\ block' = "none" /\ loop' = <<>> /\ running' = [running EXCEPT !.live = TRUE]
      /\ UNCHANGED <<line, body, scope, table, now, stack>>
  BY DEF Close
<1>3. /\ running' \in Worlds /\ running'.env = running.env /\ running'.genuine = running.genuine
      /\ running'.fakes = running.fakes /\ (running'.failed <=> running.failed)
  BY <1>1, <1>2 DEF Worlds
<1>4. running'.live
  BY <1>1, <1>2 DEF Worlds
<1>5. HeldIn(scope, running)' /\ LastIn(table, running)'
  BY <1>1, <1>2, <1>3 DEF HeldIn, LastIn, Held
<1>6. loop' \in Seq(Sources) /\ Len(loop') = 0
  BY <1>2
<1>7. ModuleTyped'
  BY <1>1, <1>2, <1>3, <1>4, <1>6 DEF ModuleTyped
<1>8. Summaries' /\ Marks'
  BY <1>1, <1>2, <1>3 DEF Summaries, Marks
<1>9. Calling' /\ Looping'
  BY <1>2, <1>6 DEF Calling, Looping, Again, Idle
<1> QED
  BY <1>5, <1>7, <1>8, <1>9 DEF BindingsInv

LEMMA InitWorks == ASSUME BindingsInit PROVE BindingsInv
<1>1. Lines \in Nat /\ 0 \in 0..Lines
  BY ModuleConstants
<1>2. /\ line = 0 /\ body = [d \in 1..Lines |-> NoBody] /\ block = "none" /\ loop = <<>>
      /\ now = NoStatement /\ stack = <<>>
  BY DEF BindingsInit
<1>3. NoBody \in Body /\ NoBody.seen /\ ~NoBody.first /\ NoBody.named = NoBody.calls
  BY DEF NoBody, Body
<1>4. Summaries /\ body \in [1..Lines -> Body]
  BY <1>2, <1>3 DEF Summaries
<1>5. /\ scope \in Scopes /\ scope.safe = {} /\ ~scope.poisoned /\ scope.proven = {}
      /\ \A n \in Names : scope.alias[n] = "none" /\ scope.function[n] = 0
  <2> DEFINE a == [n \in Names |-> "none"]
             f == [n \in Names |-> 0]
  <2>1. /\ a \in [Names -> {"none", "marker", "other"}] /\ f \in [Names -> 0..Lines]
        /\ \A n \in Names : a[n] = "none" /\ f[n] = 0
    BY <1>1
  <2>2. scope = [alias |-> a, function |-> f, safe |-> {}, unknownAll |-> FALSE,
                 poisoned |-> FALSE, proven |-> {}]
    BY DEF BindingsInit
  <2> HIDE DEF a, f
  <2> QED
    BY <2>1, <2>2 DEF Scopes
<1>6. /\ table \in Tables /\ \A n \in Names : table[n].kind = "unbound"
  BY <1>1 DEF BindingsInit, Tables
<1>7. /\ running \in Worlds /\ running.genuine /\ running.fakes = {} /\ running.live
      /\ ~running.failed
      /\ \A n \in Names : running.env[n] = [by |-> Nobody, holds |-> Object("absent")]
  <2> DEFINE v == [by |-> Nobody, holds |-> Object("absent")]
             ev == [n \in Names |-> v]
  <2>1. v \in [by : 0..Lines, holds : Things]
    BY <1>1, NoObject DEF Nobody
  <2>2. running = [env |-> ev, genuine |-> TRUE, fakes |-> {}, live |-> TRUE, failed |-> FALSE]
    BY DEF BindingsInit
  <2> HIDE DEF v
  <2>3. ev \in [Names -> [by : 0..Lines, holds : Things]] /\ \A n \in Names : ev[n] = v
    BY <2>1
  <2> HIDE DEF ev
  <2>4. running \in Worlds /\ running.env = ev
    BY <2>2, <2>3 DEF Worlds
  <2>5. running.genuine /\ running.fakes = {} /\ running.live /\ ~running.failed
    BY <2>2
  <2> QED
    BY <2>3, <2>4, <2>5 DEF v
<1>8. HeldIn(scope, running)
  BY <1>5, <1>7 DEF HeldIn
<1>9. LastIn(table, running)
  BY <1>6, <1>7 DEF LastIn
<1>10. Marks
  BY <1>5, <1>7 DEF Marks
<1>11. NoStatement \in Sources
  BY <1>1 DEF NoStatement, Statement, Sources, Ops
<1>12. loop \in Seq(Sources) /\ stack \in Seq(1..Lines) /\ Len(loop) = 0
  BY <1>2
<1>13. ModuleTyped
  BY <1>1, <1>2, <1>4, <1>5, <1>6, <1>7, <1>11, <1>12 DEF ModuleTyped
<1>14. Calling /\ Looping
  BY <1>2, <1>12 DEF Calling, Looping, Again, Idle
<1> QED
  BY <1>4, <1>8, <1>9, <1>10, <1>13, <1>14 DEF BindingsInv

LEMMA SameInv == ASSUME BindingsInv, UNCHANGED bindingsVars PROVE BindingsInv'
<1>1. /\ line' = line /\ body' = body /\ block' = block /\ loop' = loop /\ scope' = scope
      /\ table' = table /\ running' = running /\ now' = now /\ stack' = stack
  BY DEF bindingsVars
<1>2. \A s : Harmless(s)' <=> Harmless(s)
  BY <1>1, SameEffects
<1>3. ModuleTyped' /\ Summaries' /\ HeldIn(scope, running)' /\ LastIn(table, running)' /\ Marks'
  BY <1>1 DEF BindingsInv, ModuleTyped, Summaries, Marks
<1>4. Looping'
  BY <1>1, <1>2 DEF BindingsInv, Looping, Again, Idle
<1>5. \A s : Along(s)' <=> Along(s)
  BY <1>1, SameEffects DEF Along, CallsFunction, Held, Caller
<1>6. Calling'
  BY <1>1, <1>5 DEF BindingsInv, Calling, Idle
<1> QED
  BY <1>3, <1>4, <1>6 DEF BindingsInv

\* What a statement of the module is made of.
LEMMA StatementWorks ==
  ASSUME NEW op \in Ops, NEW n \in Names \cup {NoName},
         NEW arg \in Names \cup {NoName, "marker", "other"}, NEW W \in SUBSET Names,
         line \in 0..Lines, line < Lines, NEW s, s = Statement(op, n, arg, line + 1, W)
  PROVE  /\ s \in Sources /\ s.op = op /\ s.name = n /\ s.arg = arg /\ s.line = line + 1
         /\ s.line \in 1..Lines
<1>1. line + 1 \in 0..Lines /\ line + 1 \in 1..Lines
  BY ModuleConstants
<1> QED
  BY <1>1 DEF Statement, Sources

LEMMA StepWorks == ASSUME Summarized, BindingsInv, BindingsNext PROVE BindingsInv'
<1>1. /\ ~RebindInLoops /\ line \in 0..Lines
      /\ \A b \in Bodies : Told(b)
      /\ Told(NoBody)
  BY ModuleConstants DEF Summarized, BindingsInv, ModuleTyped, Told, NoBody, Body
<1>2. ASSUME NEW op \in Binders \cup {"star", "call", "opaque"}, NEW n \in Names \cup {NoName},
             NEW arg \in Names \cup {NoName, "marker", "other"}, NEW W \in SUBSET Names,
             op \in Binders \cup {"call"} => n \in Names,
             op = "def" => arg \in Names \cup {NoName},
             op = "assign" => arg \in Names \cup {NoName} /\ arg # n,
             op = "import" => arg \in {"marker", "other"},
             NEW b, Told(b), op # "def" => b = NoBody,
             Read(Statement(op, n, arg, line + 1, W), b)
      PROVE  BindingsInv'
  <2>1. PICK s : s = Statement(op, n, arg, line + 1, W)
    OBVIOUS
  <2>2. Read(s, b) /\ line < Lines
    BY <1>2, <2>1 DEF Read
  <2>3. op \in Ops
    BY DEF Ops, Binders
  <2>4. /\ s \in Sources /\ s.op = op /\ s.name = n /\ s.arg = arg /\ s.line = line + 1
        /\ s.line \in 1..Lines
    BY <1>1, <2>1, <2>2, <2>3, StatementWorks
  <2>5. Proper(s)
    BY <1>2, <2>4 DEF Proper
  <2>6. s.op # "def" => b = NoBody
    BY <1>2, <2>4
  <2>7. Told(b)
    BY <1>2
  <2>8. s.op \in Binders \cup {"star", "call", "opaque"}
    BY <2>4
  <2> QED
    BY <1>1, <2>2, <2>4, <2>5, <2>6, <2>7, <2>8, ReadWorks
<1>3. CASE Define
  <2>1. PICK n \in Names, d \in Names \cup {NoName}, b \in Bodies : Read(Here("def", n, d), b)
    BY <1>3 DEF Define
  <2>2. Told(b) /\ "def" \in Binders
    BY <1>1 DEF Binders
  <2> QED
    BY <1>2, <2>1, <2>2 DEF Here
<1>4. CASE DefineClass
  <2>1. PICK n \in Names, b \in Bodies :
          Read(Statement("class", n, NoName, line + 1, b.writes), NoBody)
    BY <1>4 DEF DefineClass
  <2>2. b.writes \in SUBSET Names /\ "class" \in Binders
    BY <1>1 DEF Told, Body, Binders
  <2> QED
    BY <1>1, <1>2, <2>1, <2>2
<1>5. CASE Assign
  <2>1. PICK n \in Names, m \in Names \cup {NoName} : n # m /\ Read(Here("assign", n, m), NoBody)
    BY <1>5 DEF Assign
  <2>2. "assign" \in Binders
    BY DEF Binders
  <2> QED
    BY <1>1, <1>2, <2>1, <2>2 DEF Here
<1>6. CASE Delete
  <2>1. PICK n \in Names : Read(Here("del", n, NoName), NoBody)
    BY <1>6 DEF Delete
  <2>2. "del" \in Binders
    BY DEF Binders
  <2> QED
    BY <1>1, <1>2, <2>1, <2>2 DEF Here
<1>7. CASE Import
  <2>1. PICK n \in Names, target \in {"marker", "other"} : Read(Here("import", n, target), NoBody)
    BY <1>7 DEF Import
  <2>2. "import" \in Binders
    BY DEF Binders
  <2> QED
    BY <1>1, <1>2, <2>1, <2>2 DEF Here
<1>8. CASE ImportStar
  <2>1. Read(Here("star", NoName, NoName), NoBody)
    BY <1>8 DEF ImportStar
  <2>2. "star" \notin Binders
    BY DEF Binders
  <2> QED
    BY <1>1, <1>2, <2>1, <2>2 DEF Here
<1>9. CASE CallName
  <2>1. PICK n \in Names : Read(Here("call", n, NoName), NoBody)
    BY <1>9 DEF CallName
  <2> QED
    BY <1>1, <1>2, <2>1 DEF Here
<1>10. CASE CallOpaque
  <2>1. Read(Here("opaque", NoName, NoName), NoBody)
    BY <1>10 DEF CallOpaque
  <2>2. "opaque" \notin Binders
    BY DEF Binders
  <2> QED
    BY <1>1, <1>2, <2>1, <2>2 DEF Here
<1>11. ASSUME NEW kind \in {"plain", "hooked", "while", "for"}, NEW n \in Names \cup {NoName},
              kind = "for" => n \in Names, Open(Here(kind, n, NoName))
       PROVE  BindingsInv'
  <2>1. PICK s : s = Here(kind, n, NoName)
    OBVIOUS
  <2>2. Open(s) /\ line < Lines
    BY <1>11, <2>1 DEF Open
  <2>3. kind \in Ops /\ (kind \in Binders \cup {"call"} <=> kind = "for")
    BY DEF Ops, Binders
  <2>4. /\ s \in Sources /\ s.op = kind /\ s.name = n /\ s.arg = NoName /\ s.line = line + 1
        /\ s.line \in 1..Lines
    BY <1>1, <2>1, <2>2, <2>3, StatementWorks DEF Here
  <2>5. Proper(s)
    BY <1>11, <2>3, <2>4 DEF Proper
  <2> QED
    BY <2>2, <2>4, <2>5, OpenWorks
<1>12. CASE OpenBlock
  <2>1. PICK kind \in {"plain", "hooked", "while"} : Open(Here(kind, NoName, NoName))
    BY <1>12 DEF OpenBlock
  <2> QED
    BY <1>11, <2>1
<1>13. CASE OpenFor
  BY <1>11, <1>13 DEF OpenFor
<1>14. CASE EnterInner
  BY <1>14, EnterInnerWorks
<1>15. CASE EndCall
  BY <1>1, <1>15, EndCallWorks
<1>16. CASE RunAgain
  BY <1>1, <1>16, RunAgainWorks
<1>17. CASE Close
  BY <1>17, CloseWorks
<1>18. CASE End
  BY <1>18, SameInv DEF End
<1> QED
  BY <1>3, <1>4, <1>5, <1>6, <1>7, <1>8, <1>9, <1>10, <1>12, <1>13, <1>14, <1>15, <1>16, <1>17,
     <1>18 DEF BindingsNext

LEMMA InvTrue == ASSUME BindingsInv PROVE TableTrue
<1>1. LastIn(table, running) /\ Marks
  BY DEF BindingsInv
<1>2. FinalIsExact
  BY <1>1 DEF FinalIsExact, LastIn
<1>3. MarkersReal
  BY <1>1 DEF MarkersReal, Marks
<1> QED
  BY <1>2, <1>3 DEF TableTrue

\* What the table and the markers say of a module, of any length, is so when it has
\* been imported, if its functions and loops rebind names as the scanner expects.
THEOREM TableIsTrue == ASSUME Summarized PROVE BindingsSpec => []TableTrue
<1>1. BindingsInit => BindingsInv
  BY InitWorks
<1>2. BindingsInv /\ [BindingsNext]_bindingsVars => BindingsInv'
  BY StepWorks, SameInv
<1>3. BindingsInv => TableTrue
  BY InvTrue
<1> QED
  BY <1>1, <1>2, <1>3, PTL DEF BindingsSpec

-----------------------------------------------------------------------------
\* The bridge of an executable.

Asking == {"spawn", "handshake", "send", "receive"}
Ran == {ran[i][1] : i \in DOMAIN ran}

\* A call that was answered, and how: every answer is the one this call asked for.
Answers(k) ==
  /\ k < call \/ (k = call /\ client = "idle") => answer[k].outcome # "none"
  /\ k > call \/ (k = call /\ client \in Asking) => answer[k].outcome = "none"
  /\ answer[k].outcome \in {"ok", "error", "malformed"} =>
       /\ answer[k].value = k
       /\ answer[k].outcome = "ok" <=> does[k] = "returns"
       /\ does[k] # "exits"

\* A request is on its way in at most one dispatcher, the one the client holds, and
\* it is the current call, which has not run yet.
Working(g) ==
  /\ g > spawned <=> disp[g].state = "off"
  /\ disp[g].state \in {"off", "booting"} => Len(disp[g].in) = 0 /\ Len(disp[g].out) = 0
  /\ disp[g].state = "booting" => bridge = 0 /\ g = spawned /\ client \in {"handshake", "ended"}
  /\ Len(disp[g].in) # 0 \/ disp[g].state \in {"running", "answering"} =>
       /\ g = bridge /\ call \in Calls /\ answer[call].outcome = "none" /\ Len(disp[g].out) = 0
       /\ disp[g].state # "answering" => call \notin Ran
  /\ Len(disp[g].in) # 0 => Len(disp[g].in) = 1 /\ disp[g].in[1] = call /\ disp[g].state = "ready"
  /\ disp[g].state \in {"running", "answering"} => disp[g].job = call
  /\ disp[g].state = "answering" => does[call] # "dies"

\* What the client holds where it is.
Holding ==
  /\ client \in Asking => call \in Calls
  /\ client \in {"spawn", "handshake"} => bridge = 0
  /\ client \in {"spawn", "handshake", "send"} => call \notin Ran
  /\ client = "handshake" => spawned # 0 /\ Len(disp[Peer].out) <= 1
  /\ client = "send" => bridge # 0
  /\ client \in {"idle", "send"} /\ bridge # 0 => /\ Len(disp[bridge].in) = 0
                                                  /\ Len(disp[bridge].out) = 0
                                                  /\ disp[bridge].state \in {"ready", "dead"}
  /\ client = "receive" =>
       /\ bridge # 0 /\ Len(disp[bridge].out) <= 1
       /\ Len(disp[bridge].out) = 1 => /\ disp[bridge].state \in {"ready", "dead"}
                                       /\ disp[bridge].out[1].kind = FrameOf[does[call]]
                                       /\ disp[bridge].out[1].call = call
                                       /\ does[call] # "dies"
       /\ \A i \in DOMAIN ran : ran[i][1] = call => ran[i][2] = bridge

Failed(k) == answer[k].outcome \in {"dead", "unavailable"}

\* Calls run in their order, and once.  A dispatcher that succeeded and is no longer
\* held was lost to a later call that said so.
History ==
  /\ \A i \in DOMAIN ran : ran[i][1] <= call
  /\ \A i, j \in DOMAIN ran : i < j => ran[i][1] < ran[j][1]
  /\ \A i \in DOMAIN ran : answer[ran[i][1]].outcome = "ok" /\ ran[i][2] # bridge
       => \E k \in Calls : ran[i][1] < k /\ k <= call /\ Failed(k)
  /\ \A i, j \in DOMAIN ran : i < j /\ ran[i][2] # ran[j][2] /\ answer[ran[i][1]].outcome = "ok"
       => \E k \in Calls : ran[i][1] < k /\ k < ran[j][1] /\ Failed(k)

Inv == /\ BridgeTypeOK /\ Holding /\ History
       /\ \A k \in Calls : Answers(k)
       /\ \A g \in Dispatchers : Working(g)

LEMMA Constants ==
  /\ MaxCalls \in Nat /\ MaxSpawns \in Nat /\ MaxKills \in Nat
  /\ Behaviours \subseteq {"returns", "raises", "exits", "exits_huge", "dies", "reads"}
BY BridgeAssumption

\* What a queue holds after its ends are used.
LEMMA Queues ==
  ASSUME NEW S, NEW s \in Seq(S)
  PROVE  /\ Len(s) \in Nat /\ (s = <<>> <=> Len(s) = 0) /\ <<>> \in Seq(S) /\ Len(<<>>) = 0
         /\ s # <<>> => /\ Head(s) = s[1] /\ s[1] \in S
                        /\ Tail(s) \in Seq(S) /\ Len(Tail(s)) = Len(s) - 1
         /\ \A x \in S : /\ Append(s, x) \in Seq(S) /\ Len(Append(s, x)) = Len(s) + 1
                          /\ Append(s, x)[Len(s) + 1] = x
                          /\ \A i \in 1..Len(s) : Append(s, x)[i] = s[i]
<1>1. Len(s) \in Nat /\ (s = <<>> <=> Len(s) = 0) /\ <<>> \in Seq(S) /\ Len(<<>>) = 0
  BY EmptySeq, LenProperties
<1>2. s # <<>> => /\ Head(s) = s[1] /\ s[1] \in S
                 /\ Tail(s) \in Seq(S) /\ Len(Tail(s)) = Len(s) - 1
  BY <1>1, HeadTailProperties, ElementOfSeq
<1>3. ASSUME NEW x \in S
      PROVE  /\ Append(s, x) \in Seq(S) /\ Len(Append(s, x)) = Len(s) + 1
             /\ Append(s, x)[Len(s) + 1] = x
             /\ \A i \in 1..Len(s) : Append(s, x)[i] = s[i]
  BY <1>1
<1> QED
  BY <1>1, <1>2, <1>3

\* At most one frame waits.
LEMMA OneLeft == /\ \A n \in Nat : n <= 1 /\ n # 0 => n = 1
                 /\ \A n : n = 1 => n <= 1
OBVIOUS

LEMMA InvInit == Init => Inv
<1> SUFFICES ASSUME Init PROVE Inv
  OBVIOUS
<1> USE Constants
<1>1. BridgeTypeOK
  BY Queues DEF Init, BridgeTypeOK, Process, Answer, Outcomes, Calls, Dispatchers
<1>2. Holding /\ History
  BY DEF Init, Holding, History, Asking
<1>3. ASSUME NEW k \in Calls PROVE Answers(k)
  BY DEF Init, Answers, Calls
<1>4. ASSUME NEW g \in Dispatchers PROVE Working(g)
  BY DEF Init, Working, Dispatchers
<1> QED
  BY <1>1, <1>2, <1>3, <1>4 DEF Inv

\* Steps that leave something alone keep what is known of it.
LEMMA HistoryKept == ASSUME History, UNCHANGED <<call, bridge, answer, ran>> PROVE History'
BY DEF History, Failed

LEMMA AnswersKept ==
  ASSUME NEW k \in Calls, Answers(k), UNCHANGED <<call, client, does, answer>> PROVE Answers(k)'
BY DEF Answers

LEMMA WorkingKept ==
  ASSUME NEW g \in Dispatchers, Working(g), disp'[g].state = disp[g].state,
         disp'[g].in = disp[g].in, disp'[g].out = disp[g].out, disp'[g].job = disp[g].job,
         UNCHANGED <<call, bridge, spawned, does, answer, ran>>, client' \in {client, "ended"}
  PROVE  Working(g)'
BY DEF Working, Ran

\* A dispatcher that has nothing to do is fine whatever the client does.
LEMMA WorkingRests ==
  ASSUME NEW g \in Dispatchers, g > spawned' <=> disp'[g].state = "off", Len(disp'[g].in) = 0,
         disp'[g].state \in {"off", "ready", "dead"},
         disp'[g].state = "off" => Len(disp'[g].out) = 0
  PROVE  Working(g)'
BY DEF Working

\* One dispatcher changes.
LEMMA Change ==
  ASSUME BridgeTypeOK, NEW h \in Dispatchers, NEW r \in Process, disp' = [disp EXCEPT ![h] = r]
  PROVE  /\ disp' \in [Dispatchers -> Process] /\ disp'[h] = r
         /\ \A g \in Dispatchers \ {h} : disp'[g] = disp[g]
BY DEF BridgeTypeOK

\* The queues of a dispatcher.
LEMMA Pipes ==
  ASSUME BridgeTypeOK, NEW g \in Dispatchers
  PROVE  /\ disp[g] \in Process /\ disp[g].in \in Seq(Calls) /\ disp[g].out \in Seq(Frames)
         /\ Len(disp[g].in) \in Nat /\ Len(disp[g].out) \in Nat
         /\ disp[g].in = <<>> <=> Len(disp[g].in) = 0
         /\ disp[g].out = <<>> <=> Len(disp[g].out) = 0
<1>1. disp[g] \in Process /\ disp[g].in \in Seq(Calls) /\ disp[g].out \in Seq(Frames)
  BY DEF BridgeTypeOK, Process
<1> QED
  BY <1>1, Queues

\* While no request is under way, no dispatcher works.
LEMMA Resting ==
  ASSUME Inv, client \in {"idle", "spawn", "handshake", "send"}, NEW g \in Dispatchers
  PROVE  /\ Len(disp[g].in) = 0 /\ disp[g].state \in {"off", "booting", "ready", "dead"}
         /\ disp[g].state = "booting" => client = "handshake" /\ g = spawned
<1>1. disp[g].state \in {"off", "booting", "ready", "running", "answering", "dead"}
  BY Pipes DEF Inv, Process
<1>2. g # 0
  BY DEF Dispatchers
<1> QED
  BY <1>1, <1>2 DEF Inv, Holding, Working

\* A call that cannot be made returns without a value.
LEMMA NotMade ==
  ASSUME BridgeTypeOK, call \in Calls, NEW o \in {"dead", "unavailable"},
         answer' = [answer EXCEPT ![call] = [outcome |-> o, value |-> 0]]
  PROVE  /\ answer' \in [Calls -> Answer] /\ answer'[call].outcome = o
         /\ \A k \in Calls \ {call} : answer'[k] = answer[k]
<1>1. [outcome |-> o, value |-> 0] \in Answer
  BY Constants DEF Answer, Outcomes
<1> QED
  BY <1>1 DEF BridgeTypeOK

\* The current call returns: what was true of the calls before stays true.
LEMMA Returned ==
  ASSUME Inv, call \in Calls, answer[call].outcome = "none",
         answer'[call].outcome \in Outcomes, \A k \in Calls \ {call} : answer'[k] = answer[k],
         client' = "idle", UNCHANGED <<call, does, ran>>,
         \/ /\ bridge' = bridge
            /\ answer'[call].outcome = "ok" =>
                 \A i \in DOMAIN ran : ran[i][1] = call => ran[i][2] = bridge
         \/ bridge' = 0 /\ answer'[call].outcome = "dead",
         answer'[call].outcome \in {"ok", "error", "malformed"} =>
           /\ answer'[call].value = call /\ does[call] # "exits"
           /\ answer'[call].outcome = "ok" <=> does[call] = "returns"
  PROVE  /\ History' /\ \A k \in Calls : Answers(k)'
<1>2. /\ answer'[call].outcome # "none" /\ \A k \in Calls \ {call} : answer'[k] = answer[k]
  BY DEF Outcomes
<1>3. ASSUME NEW k \in Calls PROVE Answers(k)'
  <2>1. Answers(k) /\ k \in Int /\ call \in Int
    BY DEF Inv, Calls
  <2>2. CASE k = call
    BY <1>2, <2>1, <2>2 DEF Answers, Asking
  <2>3. CASE k # call
    BY <1>2, <2>1, <2>3 DEF Answers, Asking
  <2> QED
    BY <2>2, <2>3
<1>4. ASSUME NEW i \in DOMAIN ran PROVE ran[i][1] \in Calls /\ ran[i][1] <= call
  BY ElementOfSeq, LenProperties DEF Inv, BridgeTypeOK, History
<1>5. ASSUME NEW k \in Calls, Failed(k) PROVE Failed(k)'
  BY <1>2, <1>5 DEF Failed
<1>6. ASSUME NEW i \in DOMAIN ran, answer'[ran[i][1]].outcome = "ok", ran[i][2] # bridge'
      PROVE  \E k \in Calls : ran[i][1] < k /\ k <= call /\ Failed(k)'
  <2>1. CASE ran[i][1] = call
    BY <1>2, <1>6, <2>1
  <2>2. CASE ran[i][1] # call
    <3>1. answer[ran[i][1]].outcome = "ok"
      BY <1>2, <1>4, <1>6, <2>2
    <3>2. CASE ran[i][2] # bridge
      BY <1>5, <3>1, <3>2 DEF Inv, History
    <3>3. CASE ran[i][2] = bridge
      <4>1. Failed(call)'
        BY <1>2, <1>6, <3>3 DEF Failed
      <4> QED
        BY <1>4, <2>2, <4>1 DEF Calls
    <3> QED
      BY <3>2, <3>3
  <2> QED
    BY <2>1, <2>2
<1>7. ASSUME NEW i \in DOMAIN ran, NEW j \in DOMAIN ran, i < j, ran[i][2] # ran[j][2],
             answer'[ran[i][1]].outcome = "ok"
      PROVE  \E k \in Calls : ran[i][1] < k /\ k < ran[j][1] /\ Failed(k)'
  <2>1. ran[i][1] < ran[j][1]
    BY <1>7 DEF Inv, History
  <2>2. answer[ran[i][1]].outcome = "ok"
    BY <1>2, <1>4, <1>7, <2>1 DEF Calls
  <2> QED
    BY <1>5, <1>7, <2>2 DEF Inv, History
<1>8. History'
  BY <1>4, <1>6, <1>7 DEF Inv, History
<1> QED
  BY <1>2, <1>3, <1>8

\* Where the client's pointers may point.
LEMMA ClientBound ==
  ASSUME Inv
  PROVE  /\ bridge = 0 \/ bridge \in Dispatchers
         /\ spawned = 0 \/ spawned \in Dispatchers
BY Constants DEF Inv, BridgeTypeOK, Dispatchers

\* What a dispatcher answers, written in full or in half, is a frame.
LEMMA Replies ==
  ASSUME Inv, call \in Calls, does[call] # "dies"
  PROVE  /\ Frame(FrameOf[does[call]], call) \in Frames
         /\ [Frame(FrameOf[does[call]], call) EXCEPT !.whole = FALSE] \in Frames
         /\ FrameOf[does[call]] \in FrameKinds
<1>1. does[call] \in {"returns", "raises", "exits", "exits_huge", "reads"} /\ call \in 0..MaxCalls
  BY Constants DEF Inv, BridgeTypeOK
<1>2. FrameOf[does[call]] \in FrameKinds
  BY <1>1 DEF FrameOf, FrameKinds
<1> QED
  BY <1>1, <1>2 DEF Frame, Frames

\* A dispatcher does something that is its own.
LEMMA DispatcherMoves ==
  ASSUME Inv, NEW h \in Dispatchers, NEW r \in Process, disp' = [disp EXCEPT ![h] = r],
         UNCHANGED <<client, call, does, compatible, bridge, spawned, answer, ran>>,
         kills' \in 0..MaxKills, Holding', Working(h)'
  PROVE  Inv'
<1>1. /\ disp' \in [Dispatchers -> Process] /\ disp'[h] = r
      /\ \A g \in Dispatchers \ {h} : disp'[g] = disp[g]
  BY Change DEF Inv
<1>2. BridgeTypeOK'
  BY <1>1 DEF Inv, BridgeTypeOK
<1>3. History' /\ \A k \in Calls : Answers(k)'
  BY HistoryKept, AnswersKept DEF Inv
<1>4. ASSUME NEW g \in Dispatchers \ {h} PROVE Working(g)'
  BY <1>1, WorkingKept DEF Inv
<1> QED
  BY <1>2, <1>3, <1>4 DEF Inv

\* The frame that a waiting client finds.
LEMMA Waiting ==
  ASSUME Inv, call \in Calls, client \in {"receive", "ended"}, bridge # 0,
         UNCHANGED <<client, call, does, bridge, ran>>,
         Len(disp'[bridge].out) = 1, disp'[bridge].state \in {"ready", "dead"},
         disp'[bridge].out[1].kind = FrameOf[does[call]], disp'[bridge].out[1].call = call,
         does[call] # "dies"
  PROVE  Holding'
<1>1. client = "receive" => \A i \in DOMAIN ran : ran[i][1] = call => ran[i][2] = bridge
  BY DEF Inv, Holding
<1> QED
  BY <1>1 DEF Holding, Asking

LEMMA BootStep == ASSUME Inv, NEW h \in Dispatchers, Boot(h) PROVE Inv'
<1> DEFINE f == Frame(IF compatible THEN "hello" ELSE "mismatch", 0)
           r == [disp[h] EXCEPT !.state = "ready", !.out = Append(@, f)]
<1>1. /\ disp[h].state = "booting" /\ disp' = [disp EXCEPT ![h] = r]
      /\ UNCHANGED <<client, call, does, compatible, bridge, spawned, answer, ran, kills>>
  BY DEF Boot, Inv, BridgeTypeOK
<1>2. /\ Len(disp[h].in) = 0 /\ Len(disp[h].out) = 0 /\ bridge = 0 /\ h = spawned
      /\ client \in {"handshake", "ended"} /\ ~ h > spawned
  BY <1>1 DEF Inv, Working
<1>3. f \in Frames
  BY Constants DEF Frames, Frame, FrameKinds
<1>4. Append(disp[h].out, f) \in Seq(Frames) /\ Len(Append(disp[h].out, f)) = 1
  BY <1>2, <1>3, Pipes, Queues DEF Inv
<1>5. r \in Process /\ r.state = "ready" /\ r.in = disp[h].in /\ Len(r.out) = 1
  BY <1>4, Pipes DEF Inv, Process
<1> HIDE DEF r
<1>6. disp'[h] = r
  BY <1>1, <1>5, Change DEF Inv
<1>7. Working(h)'
  BY <1>1, <1>2, <1>5, <1>6 DEF Working
<1>8. Holding'
  <2>1. Ran' = Ran /\ Peer' = h
    BY <1>1, <1>2 DEF Ran, Peer
  <2>2. client = "handshake" => call \in Calls /\ call \notin Ran /\ spawned # 0
    BY DEF Inv, Holding, Asking
  <2>3. disp'[Peer'] = r /\ spawned' = spawned /\ bridge' = 0 /\ call' = call /\ client' = client
    BY <1>1, <1>2, <1>6, <2>1
  <2>4. CASE client = "handshake"
    <3>1. Len(disp'[Peer'].out) <= 1
      <4>1. Len(disp'[Peer'].out) = 1
        BY <1>5, <2>3
      <4> QED
        BY <4>1, OneLeft
    <3> QED
      BY <2>1, <2>2, <2>3, <2>4, <3>1 DEF Holding, Asking
  <2>5. CASE client = "ended"
    BY <2>3, <2>5 DEF Holding, Asking
  <2> QED
    BY <1>2, <2>4, <2>5
<1> QED
  BY <1>1, <1>5, <1>7, <1>8, DispatcherMoves DEF Inv, BridgeTypeOK

\* A dispatcher that has something to do answers the current call for a client that
\* waits, or waited before it ended.
LEMMA Serving ==
  ASSUME Inv, NEW h \in Dispatchers,
         Len(disp[h].in) # 0 \/ disp[h].state \in {"running", "answering"}
  PROVE  /\ h = bridge /\ h # 0 /\ call \in Calls /\ call \in Int /\ client \in {"receive", "ended"}
         /\ answer[call].outcome = "none" /\ Len(disp[h].out) = 0 /\ ~ h > spawned
         /\ disp[h].state # "answering" => call \notin Ran
         /\ Len(disp[h].in) # 0 => /\ Len(disp[h].in) = 1 /\ disp[h].in[1] = call
                                   /\ disp[h].state = "ready"
         /\ disp[h].state \in {"running", "answering"} => disp[h].job = call
         /\ disp[h].state = "answering" => does[call] # "dies"
<1>1. h \in Int /\ h # 0 /\ h = bridge /\ Working(h)
  BY Constants DEF Inv, Working, Dispatchers
<1>2. client \in {"receive", "ended"}
  BY <1>1, Pipes DEF Inv, Holding, BridgeTypeOK
<1> QED
  BY <1>1, <1>2 DEF Working, Calls

LEMMA TakeStep == ASSUME Inv, NEW h \in Dispatchers, Take(h) PROVE Inv'
<1> DEFINE r == [disp[h] EXCEPT !.state = "running", !.job = Head(disp[h].in), !.in = Tail(@)]
<1>1. /\ disp[h].state = "ready" /\ disp[h].in # <<>> /\ disp' = [disp EXCEPT ![h] = r]
      /\ UNCHANGED <<client, call, does, compatible, bridge, spawned, answer, ran, kills>>
  BY DEF Take, Inv, BridgeTypeOK
<1>2. Len(disp[h].in) # 0
  BY <1>1, Pipes DEF Inv
<1>3. /\ h = bridge /\ h # 0 /\ call \in Calls /\ client \in {"receive", "ended"}
      /\ answer[call].outcome = "none" /\ Len(disp[h].out) = 0 /\ call \notin Ran
      /\ Len(disp[h].in) = 1 /\ disp[h].in[1] = call /\ ~ h > spawned
  BY <1>1, <1>2, Serving
<1>4. Head(disp[h].in) = call /\ Tail(disp[h].in) \in Seq(Calls) /\ Len(Tail(disp[h].in)) = 0
  BY <1>1, <1>3, Pipes, Queues DEF Inv
<1>5. call \in 0..MaxCalls
  BY DEF Inv, BridgeTypeOK
<1>6. /\ r \in Process /\ r.state = "running" /\ r.job = call
      /\ Len(r.in) = 0 /\ r.out = disp[h].out
  BY <1>4, <1>5, Pipes DEF Inv, Process
<1> HIDE DEF r
<1>7. disp'[h] = r
  BY <1>1, <1>6, Change DEF Inv
<1>8. Working(h)'
  BY <1>1, <1>3, <1>6, <1>7 DEF Working, Ran
<1>9. Holding'
  BY <1>1, <1>3, <1>6, <1>7 DEF Inv, Holding, Asking, Ran
<1> QED
  BY <1>1, <1>6, <1>8, <1>9, DispatcherMoves DEF Inv, BridgeTypeOK

LEMMA RespondStep == ASSUME Inv, NEW h \in Dispatchers, Respond(h) PROVE Inv'
<1>1. /\ disp[h].state = "answering"
      /\ UNCHANGED <<client, call, does, compatible, bridge, spawned, answer, ran, kills>>
  BY DEF Respond
<1>2. /\ h = bridge /\ h # 0 /\ call \in Calls /\ client \in {"receive", "ended"} /\ ~ h > spawned
      /\ answer[call].outcome = "none" /\ Len(disp[h].out) = 0 /\ Len(disp[h].in) = 0
      /\ disp[h].job = call /\ does[call] # "dies"
  BY <1>1, Serving
<1>3. CASE disp' = [disp EXCEPT ![h].state = "dead"]
  <2> DEFINE r == [disp[h] EXCEPT !.state = "dead"]
  <2>1. disp' = [disp EXCEPT ![h] = r]
    BY <1>3 DEF Inv, BridgeTypeOK
  <2>2. r \in Process /\ r.state = "dead" /\ r.in = disp[h].in /\ r.out = disp[h].out
    BY Pipes DEF Inv, Process
  <2> HIDE DEF r
  <2>3. disp'[h] = r
    BY <2>1, <2>2, Change DEF Inv
  <2>4. Working(h)'
    BY <1>1, <1>2, <2>2, <2>3 DEF Working
  <2>5. Holding'
    BY <1>1, <1>2, <2>2, <2>3 DEF Inv, Holding, Asking
  <2> QED
    BY <1>1, <2>1, <2>2, <2>4, <2>5, DispatcherMoves DEF Inv, BridgeTypeOK
<1>4. CASE disp' = [disp EXCEPT ![h].state = "ready", ![h].job = 0,
                      ![h].out = Append(@, Frame(FrameOf[does[disp[h].job]], disp[h].job))]
  <2> DEFINE f == Frame(FrameOf[does[call]], call)
             r == [disp[h] EXCEPT !.state = "ready", !.job = 0, !.out = Append(@, f)]
  <2>1. disp' = [disp EXCEPT ![h] = r]
    BY <1>2, <1>4 DEF Inv, BridgeTypeOK
  <2>2. f \in Frames /\ f.kind = FrameOf[does[call]] /\ f.call = call
    BY <1>2, Replies DEF Frame
  <2> HIDE DEF f
  <2>3. /\ Append(disp[h].out, f) \in Seq(Frames) /\ Len(Append(disp[h].out, f)) = 1
        /\ Append(disp[h].out, f)[1] = f
    BY <1>2, <2>2, Pipes, Queues DEF Inv
  <2>4. r \in Process /\ r.state = "ready" /\ r.in = disp[h].in /\ Len(r.out) = 1 /\ r.out[1] = f
    <3>1. 0 \in 0..MaxCalls
      BY Constants
    <3> QED
      BY <2>3, <3>1, Pipes DEF Inv, Process
  <2> HIDE DEF r
  <2>5. disp'[h] = r
    BY <2>1, <2>4, Change DEF Inv
  <2>6. Working(h)'
    BY <1>1, <1>2, <2>4, <2>5 DEF Working
  <2>7. Holding'
    BY <1>1, <1>2, <2>2, <2>4, <2>5, Waiting
  <2> QED
    BY <1>1, <2>1, <2>4, <2>6, <2>7, DispatcherMoves DEF Inv, BridgeTypeOK
<1> QED
  BY <1>3, <1>4 DEF Respond

LEMMA QuitStep == ASSUME Inv, NEW h \in Dispatchers, Quit(h) PROVE Inv'
<1> DEFINE r == [disp[h] EXCEPT !.state = "dead"]
<1>1. /\ disp[h].state = "ready" /\ disp[h].in = <<>> /\ disp' = [disp EXCEPT ![h] = r]
      /\ UNCHANGED <<client, call, does, compatible, bridge, spawned, answer, ran, kills>>
  BY DEF Quit, Inv, BridgeTypeOK
<1>2. r \in Process /\ r.state = "dead" /\ r.in = disp[h].in /\ r.out = disp[h].out
  BY Pipes DEF Inv, Process
<1> HIDE DEF r
<1>3. disp'[h] = r /\ \A g \in Dispatchers \ {h} : disp'[g] = disp[g]
  BY <1>1, <1>2, Change DEF Inv
<1>4. Working(h)'
  BY <1>1, <1>2, <1>3, Pipes DEF Inv, Working
<1>5. Holding'
  BY <1>1, <1>2, <1>3, ClientBound DEF Inv, Holding, Asking, Ran, Peer
<1> QED
  BY <1>1, <1>2, <1>4, <1>5, DispatcherMoves DEF Inv, BridgeTypeOK

LEMMA KillStep == ASSUME Inv, NEW h \in Dispatchers, Kill(h) PROVE Inv'
<1>1. /\ disp[h].state \in {"booting", "ready", "running", "answering"} /\ kills' \in 0..MaxKills
      /\ UNCHANGED <<client, call, does, compatible, bridge, spawned, answer, ran>>
  BY Constants DEF Kill, Inv, BridgeTypeOK
<1>2. <<>> \in Seq(Calls) /\ Len(<<>>) = 0
  BY Pipes, Queues DEF Inv
<1>3. CASE disp' = [disp EXCEPT ![h].state = "dead", ![h].in = <<>>]
  <2> DEFINE r == [disp[h] EXCEPT !.state = "dead", !.in = <<>>]
  <2>1. disp' = [disp EXCEPT ![h] = r]
    BY <1>3 DEF Inv, BridgeTypeOK
  <2>2. r \in Process /\ r.state = "dead" /\ Len(r.in) = 0 /\ r.out = disp[h].out
    BY <1>2, Pipes DEF Inv, Process
  <2> HIDE DEF r
  <2>3. disp'[h] = r /\ \A g \in Dispatchers \ {h} : disp'[g] = disp[g]
    BY <2>1, <2>2, Change DEF Inv
  <2>4. Working(h)'
    BY <1>1, <2>2, <2>3 DEF Inv, Working
  <2>5. Holding'
    BY <1>1, <2>2, <2>3, ClientBound DEF Inv, Holding, Asking, Ran, Peer
  <2> QED
    BY <1>1, <2>1, <2>2, <2>4, <2>5, DispatcherMoves
<1>4. CASE /\ disp[h].state = "answering"
           /\ disp' = [disp EXCEPT ![h].state = "dead", ![h].in = <<>>,
                ![h].out = Append(@, [Frame(FrameOf[does[disp[h].job]], disp[h].job)
                                        EXCEPT !.whole = FALSE])]
  <2>1. /\ h = bridge /\ h # 0 /\ call \in Calls /\ client \in {"receive", "ended"} /\ ~ h > spawned
        /\ answer[call].outcome = "none" /\ Len(disp[h].out) = 0
        /\ disp[h].job = call /\ does[call] # "dies"
    BY <1>4, Serving
  <2> DEFINE f == [Frame(FrameOf[does[call]], call) EXCEPT !.whole = FALSE]
             r == [disp[h] EXCEPT !.state = "dead", !.in = <<>>, !.out = Append(@, f)]
  <2>2. disp' = [disp EXCEPT ![h] = r]
    BY <1>4, <2>1 DEF Inv, BridgeTypeOK
  <2>3. f \in Frames /\ f.kind = FrameOf[does[call]] /\ f.call = call
    BY <2>1, Replies DEF Frame
  <2> HIDE DEF f
  <2>4. /\ Append(disp[h].out, f) \in Seq(Frames) /\ Len(Append(disp[h].out, f)) = 1
        /\ Append(disp[h].out, f)[1] = f
    BY <2>1, <2>3, Pipes, Queues DEF Inv
  <2>5. r \in Process /\ r.state = "dead" /\ Len(r.in) = 0 /\ Len(r.out) = 1 /\ r.out[1] = f
    BY <1>2, <2>4, Pipes DEF Inv, Process
  <2> HIDE DEF r
  <2>6. disp'[h] = r
    BY <2>2, <2>5, Change DEF Inv
  <2>7. Working(h)'
    BY <1>1, <2>1, <2>5, <2>6 DEF Working
  <2>8. Holding'
    BY <1>1, <2>1, <2>3, <2>5, <2>6, Waiting
  <2> QED
    BY <1>1, <2>2, <2>5, <2>7, <2>8, DispatcherMoves
<1> QED
  BY <1>3, <1>4 DEF Kill

\* The delegated function runs: the call joins the history of what ran.
LEMMA ExecuteStep == ASSUME Inv, NEW h \in Dispatchers, Execute(h) PROVE Inv'
<1>1. /\ disp[h].state = "running"
      /\ UNCHANGED <<client, call, does, compatible, bridge, spawned, answer, kills>>
  BY DEF Execute
<1>2. /\ h = bridge /\ h # 0 /\ call \in Calls /\ call \in Int /\ client \in {"receive", "ended"}
      /\ answer[call].outcome = "none" /\ Len(disp[h].out) = 0 /\ Len(disp[h].in) = 0
      /\ disp[h].job = call /\ call \notin Ran /\ ~ h > spawned
  BY <1>1, Serving
<1>3. PICK r \in Process :
        /\ disp' = [disp EXCEPT ![h] = r] /\ Len(r.in) = 0 /\ r.out = disp[h].out
        /\ \/ r.state = "dead"
           \/ r.state = "answering" /\ r.job = call /\ does[call] # "dies"
  <2>1. CASE does[call] = "dies" /\ disp' = [disp EXCEPT ![h].state = "dead", ![h].in = <<>>]
    <3> DEFINE q == [disp[h] EXCEPT !.state = "dead", !.in = <<>>]
    <3>1. <<>> \in Seq(Calls) /\ Len(<<>>) = 0
      BY Pipes, Queues DEF Inv
    <3>2. q \in Process /\ q.state = "dead" /\ Len(q.in) = 0 /\ q.out = disp[h].out
      BY <3>1, Pipes DEF Inv, Process
    <3>3. disp' = [disp EXCEPT ![h] = q]
      BY <2>1 DEF Inv, BridgeTypeOK
    <3> QED
      BY <3>2, <3>3
  <2>2. CASE does[call] # "dies" /\ disp' = [disp EXCEPT ![h].state = "answering"]
    <3> DEFINE q == [disp[h] EXCEPT !.state = "answering"]
    <3>1. q \in Process /\ q.state = "answering" /\ q.job = call /\ Len(q.in) = 0 /\ q.out = disp[h].out
      BY <1>2, Pipes DEF Inv, Process
    <3>2. disp' = [disp EXCEPT ![h] = q]
      BY <2>2 DEF Inv, BridgeTypeOK
    <3> QED
      BY <2>2, <3>1, <3>2
  <2> QED
    BY <1>2, <2>1, <2>2 DEF Execute
<1>4. /\ disp' \in [Dispatchers -> Process] /\ disp'[h] = r
      /\ \A g \in Dispatchers \ {h} : disp'[g] = disp[g]
  BY <1>3, Change DEF Inv
<1>5. /\ ran' \in Seq(Calls \X Dispatchers) /\ Len(ran) \in Nat /\ Len(ran') = Len(ran) + 1
      /\ DOMAIN ran = 1..Len(ran) /\ DOMAIN ran' = 1..(Len(ran) + 1)
      /\ ran'[Len(ran) + 1] = <<call, h>>
      /\ \A i \in DOMAIN ran : ran'[i] = ran[i] /\ ran[i] \in Calls \X Dispatchers
  <2>1. ran \in Seq(Calls \X Dispatchers) /\ <<call, h>> \in Calls \X Dispatchers
    BY <1>2 DEF Inv, BridgeTypeOK
  <2>2. ran' = Append(ran, <<call, h>>)
    BY <1>2 DEF Execute
  <2>3. DOMAIN ran = 1..Len(ran) /\ \A i \in DOMAIN ran : ran[i] \in Calls \X Dispatchers
    BY <2>1, LenProperties, ElementOfSeq
  <2>4. /\ ran' \in Seq(Calls \X Dispatchers) /\ Len(ran') = Len(ran) + 1 /\ Len(ran) \in Nat
        /\ ran'[Len(ran) + 1] = <<call, h>> /\ \A i \in 1..Len(ran) : ran'[i] = ran[i]
    BY <2>1, <2>2, Queues
  <2>5. DOMAIN ran' = 1..(Len(ran) + 1)
    BY <2>4, LenProperties
  <2> QED
    BY <2>3, <2>4, <2>5
<1>6. ASSUME NEW i \in DOMAIN ran PROVE ran[i][1] \in Int /\ ran[i][1] < call
  <2>1. ran[i][1] \in Int /\ ran[i][1] <= call
    BY <1>5 DEF Inv, History, Calls
  <2>2. ran[i][1] # call
    BY <1>2 DEF Ran
  <2> QED
    BY <1>2, <2>1, <2>2
<1>7. BridgeTypeOK'
  BY <1>1, <1>4, <1>5 DEF Inv, BridgeTypeOK
<1>8. Holding'
  <2>1. \A i \in DOMAIN ran' : ran'[i][1] = call => ran'[i][2] = bridge
    BY <1>2, <1>5, <1>6
  <2> QED
    BY <1>1, <1>2, <1>3, <1>4, <2>1 DEF Inv, Holding, Asking
<1>9. History'
  <2>1. ASSUME NEW i \in DOMAIN ran', i \notin DOMAIN ran PROVE i = Len(ran) + 1 /\ ran'[i] = <<call, h>>
    BY <1>5, <2>1
  <2>2. \A i \in DOMAIN ran' : ran'[i][1] <= call
    BY <1>2, <1>5, <1>6, <2>1
  <2>3. \A i, j \in DOMAIN ran' : i < j => i \in DOMAIN ran
    BY <1>5
  <2>4. ASSUME NEW i \in DOMAIN ran', NEW j \in DOMAIN ran', i < j PROVE ran'[i][1] < ran'[j][1]
    <3>1. CASE j \in DOMAIN ran
      BY <1>5, <2>3, <2>4, <3>1 DEF Inv, History
    <3>2. CASE j \notin DOMAIN ran
      BY <1>5, <1>6, <2>1, <2>3, <2>4, <3>2
    <3> QED
      BY <3>1, <3>2
  <2>5. ASSUME NEW i \in DOMAIN ran', answer[ran'[i][1]].outcome = "ok", ran'[i][2] # bridge
        PROVE  i \in DOMAIN ran /\ \E k \in Calls : ran'[i][1] < k /\ k <= call /\ Failed(k)
    <3>1. i \in DOMAIN ran
      BY <1>2, <2>1, <2>5
    <3>2. ran'[i] = ran[i]
      BY <1>5, <3>1
    <3> QED
      BY <2>5, <3>1, <3>2 DEF Inv, History
  <2>6. ASSUME NEW i \in DOMAIN ran', NEW j \in DOMAIN ran', i < j, ran'[i][2] # ran'[j][2],
               answer[ran'[i][1]].outcome = "ok"
        PROVE  \E k \in Calls : ran'[i][1] < k /\ k < ran'[j][1] /\ Failed(k)
    <3>1. CASE j \in DOMAIN ran
      <4>1. i \in DOMAIN ran /\ ran'[i] = ran[i] /\ ran'[j] = ran[j]
        BY <1>5, <2>3, <2>6, <3>1
      <4> QED
        BY <2>6, <3>1, <4>1 DEF Inv, History
    <3>2. CASE j \notin DOMAIN ran
      <4>1. ran'[j] = <<call, h>>
        BY <2>1, <3>2
      <4>2. PICK k \in Calls : ran'[i][1] < k /\ k <= call /\ Failed(k)
        BY <1>2, <2>5, <2>6, <4>1
      <4>3. k # call
        BY <1>2, <4>2 DEF Failed
      <4> QED
        BY <1>2, <4>1, <4>2, <4>3 DEF Calls
    <3> QED
      BY <3>1, <3>2
  <2> QED
    BY <1>1, <2>2, <2>4, <2>5, <2>6 DEF History, Failed
<1>10. ASSUME NEW k \in Calls PROVE Answers(k)'
  BY <1>1, AnswersKept DEF Inv
<1>11. ASSUME NEW g \in Dispatchers PROVE Working(g)'
  <2>1. CASE g = h
    BY <1>1, <1>2, <1>3, <1>4, <2>1 DEF Working, Ran
  <2>2. CASE g # h
    <3>1. /\ Len(disp[g].in) = 0 /\ disp[g].state \in {"off", "ready", "dead"}
          /\ disp[g].state = "off" => Len(disp[g].out) = 0
      BY <1>2, <2>2, Pipes DEF Inv, Working, Process
    <3> QED
      BY <1>1, <1>4, <2>2, <3>1, WorkingRests DEF Inv, Working
  <2> QED
    BY <2>1, <2>2
<1> QED
  BY <1>7, <1>8, <1>9, <1>10, <1>11 DEF Inv

LEMMA InvStep == Inv /\ [Next]_vars => Inv'
<1> SUFFICES ASSUME Inv, [Next]_vars PROVE Inv'
  OBVIOUS
<1> USE Constants
<1>1. /\ BridgeTypeOK /\ Holding /\ History
      /\ \A k \in Calls : Answers(k)
      /\ \A g \in Dispatchers : Working(g)
  BY DEF Inv
<1>2. ASSUME BridgeTypeOK', Holding', History', \A k \in Calls : Answers(k)',
             \A g \in Dispatchers : Working(g)'
      PROVE  Inv'
  BY <1>2 DEF Inv
<1>3. /\ call \in Int /\ spawned \in Int /\ bridge \in Int
      /\ bridge \in Dispatchers \cup {0} /\ (spawned # 0 => spawned \in Dispatchers)
  BY <1>1 DEF BridgeTypeOK, Dispatchers
<1>4. CASE Call
  <2>1. /\ client = "idle" /\ call < MaxCalls /\ call' = call + 1
        /\ client' = IF bridge = 0 THEN "spawn" ELSE "send"
        /\ UNCHANGED <<does, compatible, bridge, spawned, disp, answer, ran, kills>>
    BY <1>4 DEF Call
  <2>2. call' \in Calls
    BY <1>1, <2>1 DEF BridgeTypeOK, Calls
  <2>3. ASSUME NEW i \in DOMAIN ran PROVE ran[i][1] \in Int /\ ran[i][1] <= call
    BY <1>1, ElementOfSeq, LenProperties DEF BridgeTypeOK, History, Calls
  <2>4. BridgeTypeOK'
    BY <1>1, <2>1 DEF BridgeTypeOK
  <2>5. Holding'
    BY <1>1, <1>3, <2>1, <2>2, <2>3 DEF Holding, Ran, Asking
  <2>6. History'
    <3>1. \A i \in DOMAIN ran : ran[i][1] <= call'
      BY <1>3, <2>1, <2>3
    <3>2. \A i \in DOMAIN ran, k \in Calls : ran[i][1] < k /\ k <= call => k <= call'
      BY <1>3, <2>1 DEF Calls
    <3> QED
      BY <1>1, <2>1, <3>1, <3>2 DEF History, Failed
  <2>7. ASSUME NEW k \in Calls PROVE Answers(k)'
    BY <1>1, <1>3, <2>1 DEF Answers, Asking, Calls
  <2>8. ASSUME NEW g \in Dispatchers PROVE Working(g)'
    BY <1>1, <2>1, Resting, WorkingRests DEF Working
  <2> QED
    BY <1>2, <2>4, <2>5, <2>6, <2>7, <2>8
<1>5. CASE Spawn
  <2>1. client = "spawn" /\ UNCHANGED <<call, does, compatible, bridge, ran, kills>>
    BY <1>5 DEF Spawn
  <2>2. call \in Calls /\ answer[call].outcome = "none" /\ bridge = 0
    BY <1>1, <2>1 DEF Holding, Answers, Asking
  <2>3. CASE Return("unavailable", 0) /\ UNCHANGED <<spawned, disp>>
    <3>1. client' = "idle" /\ answer' = [answer EXCEPT ![call] = [outcome |-> "unavailable", value |-> 0]]
      BY <2>3 DEF Return
    <3>0. /\ answer' \in [Calls -> Answer] /\ answer'[call].outcome = "unavailable"
          /\ \A k \in Calls \ {call} : answer'[k] = answer[k]
      BY <1>1, <2>2, <3>1, NotMade
    <3>2. History' /\ \A k \in Calls : Answers(k)'
      BY <2>1, <2>2, <3>0, <3>1, Returned DEF Outcomes
    <3>3. BridgeTypeOK'
      BY <1>1, <2>1, <2>3, <3>0, <3>1 DEF BridgeTypeOK
    <3>4. Holding'
      BY <2>1, <2>2, <3>1 DEF Holding, Asking
    <3>5. ASSUME NEW g \in Dispatchers PROVE Working(g)'
      BY <1>1, <2>1, <2>3, Resting, WorkingRests DEF Working
    <3> QED
      BY <1>2, <3>2, <3>3, <3>4, <3>5
  <2>4. CASE /\ spawned < MaxSpawns /\ spawned' = spawned + 1 /\ client' = "handshake" /\ UNCHANGED answer
             /\ disp' = [disp EXCEPT ![spawned + 1].state = "booting", ![spawned + 1].open = TRUE]
    <3> DEFINE h == spawned + 1
               r == [disp[h] EXCEPT !.state = "booting", !.open = TRUE]
    <3>0. h \in Dispatchers
      BY <1>1, <1>3, <2>4 DEF Dispatchers, BridgeTypeOK
    <3>1. h \in Dispatchers /\ disp' = [disp EXCEPT ![h] = r] /\ spawned' = h
      <4> HIDE DEF h
      <4>1. disp' = [disp EXCEPT ![h].state = "booting", ![h].open = TRUE] /\ spawned' = h
        BY <2>4 DEF h
      <4> QED
        BY <1>1, <3>0, <4>1 DEF BridgeTypeOK
    <3>2. r \in Process /\ r.state = "booting" /\ r.in = disp[h].in /\ r.out = disp[h].out
      BY <3>1, <1>1, Pipes DEF Process
    <3>3. Len(disp[h].in) = 0 /\ Len(disp[h].out) = 0 /\ disp[h].state = "off"
      BY <1>1, <1>3, <3>1 DEF Working
    <3> HIDE DEF r
    <3>4. /\ disp' \in [Dispatchers -> Process] /\ disp'[h] = r
          /\ \A g \in Dispatchers \ {h} : disp'[g] = disp[g]
      BY <1>1, <3>1, <3>2, Change
    <3>5. BridgeTypeOK'
      BY <1>1, <1>3, <2>1, <2>4, <3>1, <3>4 DEF BridgeTypeOK, Dispatchers
    <3>6. Holding'
      <4>1. client' = "handshake" /\ call' \in Calls /\ bridge' = 0
        BY <2>1, <2>2, <2>4
      <4>2. call' \notin Ran'
        BY <1>1, <2>1 DEF Holding, Ran
      <4>3. spawned' # 0 /\ disp'[Peer'] = r
        <5>1. h # 0
          BY <1>1 DEF BridgeTypeOK
        <5> HIDE DEF h
        <5> QED
          BY <3>1, <3>4, <5>1 DEF Peer
      <4>4. Len(disp'[Peer'].out) <= 1
        BY <3>2, <3>3, <4>3
      <4> QED
        BY <4>1, <4>2, <4>3, <4>4 DEF Holding
    <3>7. History'
      BY <1>1, <2>1, <2>4, HistoryKept
    <3>8. ASSUME NEW k \in Calls PROVE Answers(k)'
      BY <1>1, <2>1, <2>4 DEF Answers, Asking
    <3>9. ASSUME NEW g \in Dispatchers PROVE Working(g)'
      <4>1. CASE g = h
        BY <1>3, <2>1, <2>2, <2>4, <3>1, <3>2, <3>3, <3>4, <4>1 DEF Working
      <4>2. CASE g # h
        <5>1. g > spawned' <=> g > spawned
          BY <1>3, <3>1, <4>2 DEF Dispatchers
        <5> QED
          BY <1>1, <2>1, <3>4, <4>2, <5>1, Resting, WorkingRests DEF Working
      <4> QED
        BY <4>1, <4>2
    <3> QED
      BY <1>2, <3>5, <3>6, <3>7, <3>8, <3>9
  <2> QED
    BY <1>5, <2>3, <2>4 DEF Spawn
<1>6. CASE Handshake
  <2>1. client = "handshake" /\ UNCHANGED <<call, does, compatible, spawned, ran, kills>>
    BY <1>6 DEF Handshake
  <2>2. /\ call \in Calls /\ answer[call].outcome = "none" /\ bridge = 0 /\ call \notin Ran
        /\ Peer \in Dispatchers /\ Peer = spawned /\ Len(disp[Peer].out) <= 1 /\ Len(disp[Peer].in) = 0
    BY <1>1, <1>3, <2>1, Resting DEF Holding, Answers, Asking, Peer
  <2>3. CASE /\ disp[Peer].out # <<>> /\ bridge' = Peer /\ client' = "send" /\ UNCHANGED answer
             /\ disp' = [disp EXCEPT ![Peer].out = Tail(@)]
    <3> DEFINE r == [disp[Peer] EXCEPT !.out = Tail(@)]
    <3>1. disp' = [disp EXCEPT ![Peer] = r]
      BY <1>1, <2>2, <2>3 DEF BridgeTypeOK
    <3>2. Len(disp[Peer].out) = 1 /\ Tail(disp[Peer].out) \in Seq(Frames) /\ Len(Tail(disp[Peer].out)) = 0
      <4>1. disp[Peer].out \in Seq(Frames) /\ Len(disp[Peer].out) \in Nat /\ Len(disp[Peer].out) # 0
        BY <1>1, <2>2, <2>3, Pipes
      <4> QED
        <5>1. Len(disp[Peer].out) = 1
          BY <2>2, <4>1, OneLeft
        <5> QED
          BY <2>3, <4>1, <5>1, Queues
    <3>3. r \in Process /\ r.state = disp[Peer].state /\ r.in = disp[Peer].in /\ Len(r.out) = 0
      <4>1. disp[Peer] \in Process
        BY <1>1, <2>2, Pipes
      <4>2. r = [disp[Peer] EXCEPT !.out = Tail(disp[Peer].out)]
        OBVIOUS
      <4> QED
        BY <3>2, <4>1, <4>2 DEF Process
    <3>4. disp[Peer].state \in {"ready", "dead"}
      BY <1>1, <2>1, <2>2, <3>2, Resting DEF Working
    <3> HIDE DEF r
    <3>5. /\ disp' \in [Dispatchers -> Process] /\ disp'[Peer] = r
          /\ \A g \in Dispatchers \ {Peer} : disp'[g] = disp[g]
      BY <1>1, <2>2, <3>1, <3>3, Change
    <3>6. BridgeTypeOK'
      BY <1>1, <1>3, <2>1, <2>2, <2>3, <3>5 DEF BridgeTypeOK, Dispatchers
    <3>7. Holding'
      <4>1. Ran' = Ran /\ bridge' # 0 /\ disp'[bridge'] = r
        BY <1>3, <2>1, <2>2, <2>3, <3>5 DEF Ran, Dispatchers
      <4> QED
        BY <2>1, <2>2, <2>3, <3>3, <3>4, <4>1 DEF Holding, Asking
    <3>8. History'
      <4>1. ASSUME NEW i \in DOMAIN ran PROVE ran[i][2] # 0
        BY <1>1, ElementOfSeq, LenProperties DEF BridgeTypeOK, Dispatchers
      <4> QED
        BY <1>1, <2>1, <2>2, <2>3, <4>1 DEF History, Failed
    <3>9. ASSUME NEW k \in Calls PROVE Answers(k)'
      BY <1>1, <2>1, <2>3 DEF Answers, Asking
    <3>10. ASSUME NEW g \in Dispatchers PROVE Working(g)'
      <4>1. CASE g = Peer
        BY <1>1, <2>1, <2>2, <3>3, <3>4, <3>5, <4>1, WorkingRests DEF Working
      <4>2. CASE g # Peer
        BY <1>1, <2>1, <2>2, <3>5, <4>2, Resting, WorkingRests DEF Working
      <4> QED
        BY <4>1, <4>2
    <3> QED
      BY <1>2, <3>6, <3>7, <3>8, <3>9, <3>10
  <2>4. CASE /\ \/ disp[Peer].out # <<>>
                \/ disp[Peer].out = <<>> /\ Gone(Peer)
             /\ disp' = [disp EXCEPT ![Peer].open = FALSE] /\ Return("unavailable", 0) /\ UNCHANGED bridge
    <3> DEFINE r == [disp[Peer] EXCEPT !.open = FALSE]
    <3>1. disp' = [disp EXCEPT ![Peer] = r]
      BY <1>1, <2>2, <2>4 DEF BridgeTypeOK
    <3>2. /\ r \in Process /\ r.state = disp[Peer].state /\ r.in = disp[Peer].in /\ r.out = disp[Peer].out
      BY <1>1, <2>2, Pipes DEF Process
    <3>3. disp[Peer].state \in {"ready", "dead"}
      BY <1>1, <2>1, <2>2, <2>4, Resting, Pipes DEF Working, Gone
    <3> HIDE DEF r
    <3>4. /\ disp' \in [Dispatchers -> Process] /\ disp'[Peer] = r
          /\ \A g \in Dispatchers \ {Peer} : disp'[g] = disp[g]
      BY <1>1, <2>2, <3>1, <3>2, Change
    <3>5. client' = "idle" /\ answer' = [answer EXCEPT ![call] = [outcome |-> "unavailable", value |-> 0]]
      BY <2>4 DEF Return
    <3>0. /\ answer' \in [Calls -> Answer] /\ answer'[call].outcome = "unavailable"
          /\ \A k \in Calls \ {call} : answer'[k] = answer[k]
      BY <1>1, <2>2, <3>5, NotMade
    <3>6. History' /\ \A k \in Calls : Answers(k)'
      BY <2>1, <2>2, <2>4, <3>0, <3>5, Returned DEF Outcomes
    <3>7. BridgeTypeOK'
      BY <1>1, <2>1, <2>4, <3>0, <3>4, <3>5 DEF BridgeTypeOK
    <3>8. Holding'
      BY <2>1, <2>2, <2>4, <3>5 DEF Holding, Asking
    <3>9. ASSUME NEW g \in Dispatchers PROVE Working(g)'
      <4>1. CASE g = Peer
        BY <1>1, <2>1, <2>2, <3>2, <3>3, <3>4, <4>1, WorkingRests DEF Working
      <4>2. CASE g # Peer
        BY <1>1, <2>1, <2>2, <3>4, <4>2, Resting, WorkingRests DEF Working
      <4> QED
        BY <4>1, <4>2
    <3> QED
      BY <1>2, <3>6, <3>7, <3>8, <3>9
  <2> QED
    BY <1>6, <2>3, <2>4 DEF Handshake
\* The dead dispatcher is dropped, before the request or after it.
<1>7. ASSUME client \in {"send", "receive"}, Gone(bridge), DropBridge,
             UNCHANGED <<call, does, compatible, spawned, ran, kills>>
      PROVE  Inv'
  <2>1. bridge \in Dispatchers /\ call \in Calls /\ answer[call].outcome = "none"
    BY <1>1, <1>3, <1>7 DEF Holding, Answers, Asking
  <2> DEFINE r == [disp[bridge] EXCEPT !.open = FALSE]
  <2>2. disp' = [disp EXCEPT ![bridge] = r]
    BY <1>1, <1>7, <2>1 DEF BridgeTypeOK, DropBridge
  <2>3. r \in Process /\ r.state = "dead" /\ r.in = disp[bridge].in
    BY <1>1, <1>7, <2>1, Pipes DEF Process, Gone
  <2>4. Len(disp[bridge].in) = 0
    BY <1>1, <1>7, <2>1 DEF Working, Gone
  <2> HIDE DEF r
  <2>5. /\ disp' \in [Dispatchers -> Process] /\ disp'[bridge] = r
        /\ \A g \in Dispatchers \ {bridge} : disp'[g] = disp[g]
    BY <1>1, <2>1, <2>2, <2>3, Change
  <2>6. /\ client' = "idle" /\ bridge' = 0
        /\ answer' = [answer EXCEPT ![call] = [outcome |-> "dead", value |-> 0]]
    BY <1>7 DEF DropBridge, Return
  <2>0. /\ answer' \in [Calls -> Answer] /\ answer'[call].outcome = "dead"
        /\ \A k \in Calls \ {call} : answer'[k] = answer[k]
    BY <1>1, <2>1, <2>6, NotMade
  <2>7. History' /\ \A k \in Calls : Answers(k)'
    BY <1>7, <2>0, <2>1, <2>6, Returned DEF Outcomes
  <2>8. BridgeTypeOK'
    BY <1>1, <1>7, <2>0, <2>5, <2>6 DEF BridgeTypeOK
  <2>9. Holding'
    BY <2>6 DEF Holding, Asking
  <2>10. ASSUME NEW g \in Dispatchers PROVE Working(g)'
    <3>1. CASE g = bridge
      BY <1>1, <1>7, <2>1, <2>3, <2>4, <2>5, <3>1, WorkingRests DEF Working, Gone
    <3>2. CASE g # bridge
      <4>1. /\ Len(disp[g].in) = 0 /\ disp[g].state \in {"off", "ready", "dead"}
            /\ disp[g].state = "off" => Len(disp[g].out) = 0
        BY <1>1, <1>7, <3>2, Pipes DEF Working, Process
      <4> QED
        BY <1>1, <1>7, <2>5, <3>2, <4>1, WorkingRests DEF Working
    <3> QED
      BY <3>1, <3>2
  <2> QED
    BY <1>2, <2>7, <2>8, <2>9, <2>10
<1>8. CASE Send
  <2>1. client = "send" /\ UNCHANGED <<call, does, compatible, spawned, ran, kills>>
    BY <1>8 DEF Send
  <2>2. CASE Gone(bridge) /\ DropBridge
    BY <1>7, <2>1, <2>2
  <2>3. CASE /\ ~ Gone(bridge) /\ client' = "receive" /\ UNCHANGED <<bridge, answer>>
             /\ disp' = [disp EXCEPT ![bridge].in = Append(@, call)]
    <3>1. /\ bridge \in Dispatchers /\ call \in Calls /\ answer[call].outcome = "none" /\ call \notin Ran
          /\ Len(disp[bridge].in) = 0 /\ Len(disp[bridge].out) = 0 /\ disp[bridge].state = "ready"
      BY <1>1, <1>3, <2>1, <2>3 DEF Holding, Answers, Asking, Gone
    <3> DEFINE r == [disp[bridge] EXCEPT !.in = Append(@, call)]
    <3>2. disp' = [disp EXCEPT ![bridge] = r]
      BY <1>1, <2>3, <3>1 DEF BridgeTypeOK
    <3>3. /\ Append(disp[bridge].in, call) \in Seq(Calls) /\ Len(Append(disp[bridge].in, call)) = 1
          /\ Append(disp[bridge].in, call)[1] = call
      BY <1>1, <3>1, Pipes, Queues
    <3>4. /\ r \in Process /\ r.state = "ready" /\ Len(r.in) = 1 /\ r.in[1] = call /\ r.out = disp[bridge].out
      BY <1>1, <3>1, <3>3, Pipes DEF Process
    <3> HIDE DEF r
    <3>5. /\ disp' \in [Dispatchers -> Process] /\ disp'[bridge] = r
          /\ \A g \in Dispatchers \ {bridge} : disp'[g] = disp[g]
      BY <1>1, <3>1, <3>2, <3>4, Change
    <3>6. BridgeTypeOK'
      BY <1>1, <2>1, <2>3, <3>5 DEF BridgeTypeOK
    <3>7. Holding'
      BY <2>1, <2>3, <3>1, <3>4, <3>5 DEF Holding, Ran, Asking, Dispatchers
    <3>8. History'
      BY <1>1, <2>1, <2>3, HistoryKept
    <3>9. ASSUME NEW k \in Calls PROVE Answers(k)'
      BY <1>1, <2>1, <2>3 DEF Answers, Asking
    <3>10. ASSUME NEW g \in Dispatchers PROVE Working(g)'
      <4>1. CASE g = bridge
        BY <1>1, <2>1, <2>3, <3>1, <3>4, <3>5, <4>1 DEF Working, Ran
      <4>2. CASE g # bridge
        BY <1>1, <2>1, <2>3, <3>5, <4>2, Resting, WorkingRests DEF Working
      <4> QED
        BY <4>1, <4>2
    <3> QED
      BY <1>2, <3>6, <3>7, <3>8, <3>9, <3>10
  <2> QED
    BY <1>8, <2>2, <2>3 DEF Send
\* The pipes of all dispatchers close with the client.
<1>9. ASSUME client' = "ended", UNCHANGED <<call, does, compatible, bridge, spawned, answer, ran>>,
             kills' \in 0..MaxKills, disp' \in [Dispatchers -> Process],
             \A g \in Dispatchers : /\ disp'[g].state = disp[g].state /\ disp'[g].job = disp[g].job
                                    /\ disp'[g].in = disp[g].in,
             \A g \in Dispatchers : \/ disp'[g].out = disp[g].out
                                    \/ /\ Len(disp[g].in) = 0 /\ disp[g].state \in {"ready", "dead"}
      PROVE  Inv'
  <2>1. BridgeTypeOK'
    BY <1>1, <1>9 DEF BridgeTypeOK
  <2>2. Holding'
    BY <1>9 DEF Holding, Asking
  <2>3. History'
    BY <1>1, <1>9, HistoryKept
  <2>4. ASSUME NEW k \in Calls PROVE Answers(k)'
    BY <1>1, <1>9 DEF Answers, Asking
  <2>5. ASSUME NEW g \in Dispatchers PROVE Working(g)'
    <3>1. CASE disp'[g].out = disp[g].out
      BY <1>1, <1>9, <3>1, WorkingKept
    <3>2. CASE Len(disp[g].in) = 0 /\ disp[g].state \in {"ready", "dead"}
      BY <1>1, <1>9, <3>2, WorkingRests DEF Working
    <3> QED
      BY <1>9, <3>1, <3>2
  <2> QED
    BY <1>2, <2>1, <2>2, <2>3, <2>4, <2>5
<1>10. ASSUME disp' = Closed, client' = "ended", kills' \in 0..MaxKills,
              UNCHANGED <<call, does, compatible, bridge, spawned, answer, ran>>
       PROVE  Inv'
  <2>1. ASSUME NEW g \in Dispatchers
        PROVE  /\ disp'[g] \in Process /\ disp'[g].state = disp[g].state /\ disp'[g].job = disp[g].job
               /\ disp'[g].in = disp[g].in /\ disp'[g].out = disp[g].out
    <3>1. disp'[g] = [disp[g] EXCEPT !.open = FALSE]
      BY <1>10 DEF Closed
    <3> QED
      BY <1>1, <3>1, Pipes DEF Process
  <2>2. disp' \in [Dispatchers -> Process]
    BY <1>10, <2>1 DEF Closed
  <2> QED
    BY <1>9, <1>10, <2>1, <2>2
<1>11. CASE Receive
  <2>1. client = "receive" /\ UNCHANGED <<call, does, compatible, spawned, ran, kills>>
    BY <1>11 DEF Receive
  <2>2. /\ bridge \in Dispatchers /\ call \in Calls /\ answer[call].outcome = "none"
        /\ Len(disp[bridge].out) <= 1
        /\ \A i \in DOMAIN ran : ran[i][1] = call => ran[i][2] = bridge
    BY <1>1, <1>3, <2>1 DEF Holding, Answers, Asking
  <2>3. CASE Gone(bridge) /\ DropBridge
    BY <1>7, <2>1, <2>3
  <2> DEFINE frame == Head(disp[bridge].out)
             r == [disp[bridge] EXCEPT !.out = Tail(@)]
  <2>4. ASSUME disp[bridge].out # <<>>
        PROVE  /\ frame.kind = FrameOf[does[call]] /\ frame.call = call /\ does[call] # "dies"
               /\ disp[bridge].state \in {"ready", "dead"} /\ Len(disp[bridge].in) = 0
               /\ Tail(disp[bridge].out) \in Seq(Frames) /\ Len(Tail(disp[bridge].out)) = 0
    <3>1. disp[bridge].out \in Seq(Frames) /\ Len(disp[bridge].out) = 1 /\ frame = disp[bridge].out[1]
      <4>1. disp[bridge].out \in Seq(Frames) /\ Len(disp[bridge].out) \in Nat /\ Len(disp[bridge].out) # 0
        BY <1>1, <2>2, <2>4, Pipes
      <4> QED
        <5>1. Len(disp[bridge].out) = 1
          BY <2>2, <4>1, OneLeft
        <5> QED
          BY <2>4, <4>1, <5>1, Queues
    <3>2. Tail(disp[bridge].out) \in Seq(Frames) /\ Len(Tail(disp[bridge].out)) = 0
      BY <2>4, <3>1, Queues
    <3>3. /\ frame.kind = FrameOf[does[call]] /\ frame.call = call /\ does[call] # "dies"
          /\ disp[bridge].state \in {"ready", "dead"}
      BY <1>1, <2>1, <3>1 DEF Holding
    <3>4. Len(disp[bridge].in) = 0
      BY <1>1, <2>2, <3>1 DEF Working
    <3> QED
      BY <3>2, <3>3, <3>4
  <2>5. CASE /\ disp[bridge].out # <<>> /\ frame.kind = "exit" /\ client' = "ended"
             /\ disp' = [Closed EXCEPT ![bridge].out = Tail(@)] /\ UNCHANGED <<answer, bridge>>
    <3>1. ASSUME NEW g \in Dispatchers
          PROVE  /\ disp'[g] \in Process /\ disp'[g].state = disp[g].state /\ disp'[g].job = disp[g].job
                 /\ disp'[g].in = disp[g].in /\ (g # bridge => disp'[g].out = disp[g].out)
      <4>1. CASE g = bridge
        <5>1. disp'[g] = [disp[g] EXCEPT !.open = FALSE, !.out = Tail(disp[g].out)]
          BY <2>2, <2>5, <4>1 DEF Closed
        <5>2. Tail(disp[g].out) \in Seq(Frames) /\ disp[g] \in Process
          BY <1>1, <2>4, <2>5, <4>1, Pipes
        <5> QED
          BY <4>1, <5>1, <5>2 DEF Process
      <4>2. CASE g # bridge
        <5>1. disp'[g] = [disp[g] EXCEPT !.open = FALSE]
          BY <2>2, <2>5, <4>2 DEF Closed
        <5> QED
          BY <1>1, <5>1, Pipes DEF Process
      <4> QED
        BY <4>1, <4>2
    <3>2. disp' \in [Dispatchers -> Process]
      BY <2>5, <3>1 DEF Closed
    <3>3. kills' \in 0..MaxKills
      BY <1>1, <2>1 DEF BridgeTypeOK
    <3> QED
      BY <1>9, <2>1, <2>4, <2>5, <3>1, <3>2, <3>3
  <2>6. CASE /\ disp[bridge].out # <<>> /\ frame.kind # "exit" /\ UNCHANGED bridge
             /\ disp' = [disp EXCEPT ![bridge].out = Tail(@)]
             /\ Return(IF frame.kind \in {"ok", "error"} THEN frame.kind ELSE "malformed", frame.call)
    <3> DEFINE o == IF frame.kind \in {"ok", "error"} THEN frame.kind ELSE "malformed"
    <3>1. disp' = [disp EXCEPT ![bridge] = r]
      BY <1>1, <2>2, <2>6 DEF BridgeTypeOK
    <3>2. /\ r \in Process /\ r.state = disp[bridge].state /\ r.in = disp[bridge].in /\ Len(r.out) = 0
      BY <1>1, <2>2, <2>4, <2>6, Pipes DEF Process
    <3>3. client' = "idle" /\ answer' = [answer EXCEPT ![call] = [outcome |-> o, value |-> call]]
      BY <2>4, <2>6 DEF Return
    <3>4. /\ does[call] \in {"returns", "raises", "exits_huge", "reads"} /\ does[call] # "exits"
          /\ o \in {"ok", "error", "malformed"} /\ (o = "ok" <=> does[call] = "returns")
      <4>1. does[call] \in Behaviours
        BY <1>1, <2>2 DEF BridgeTypeOK
      <4> QED
        BY <2>4, <2>6, <4>1 DEF FrameOf
    <3> HIDE DEF r, o, frame
    <3>5. /\ disp' \in [Dispatchers -> Process] /\ disp'[bridge] = r
          /\ \A g \in Dispatchers \ {bridge} : disp'[g] = disp[g]
      BY <1>1, <2>2, <3>1, <3>2, Change
    <3>0. /\ answer' \in [Calls -> Answer] /\ answer'[call].outcome = o /\ answer'[call].value = call
          /\ \A k \in Calls \ {call} : answer'[k] = answer[k]
      <4>1. o \in Outcomes /\ call \in 0..MaxCalls
        BY <1>1, <3>4 DEF Outcomes, BridgeTypeOK
      <4>2. [outcome |-> o, value |-> call] \in Answer
        BY <4>1 DEF Answer
      <4> QED
        BY <1>1, <2>2, <3>3, <4>2 DEF BridgeTypeOK
    <3>6. History' /\ \A k \in Calls : Answers(k)'
      BY <2>1, <2>2, <2>6, <3>0, <3>3, <3>4, Returned DEF Outcomes
    <3>7. BridgeTypeOK'
      BY <1>1, <2>1, <2>6, <3>0, <3>3, <3>5 DEF BridgeTypeOK
    <3>8. Holding'
      BY <2>4, <2>6, <3>2, <3>3, <3>5 DEF Holding, Asking
    <3>9. ASSUME NEW g \in Dispatchers PROVE Working(g)'
      <4>1. CASE g = bridge
        BY <1>1, <2>1, <2>2, <2>4, <2>6, <3>2, <3>5, <4>1, WorkingRests DEF Working
      <4>2. CASE g # bridge
        <5>1. /\ Len(disp[g].in) = 0 /\ disp[g].state \in {"off", "ready", "dead"}
              /\ disp[g].state = "off" => Len(disp[g].out) = 0
          BY <1>1, <2>1, <4>2, Pipes DEF Working, Process
        <5> QED
          BY <1>1, <2>1, <3>5, <4>2, <5>1, WorkingRests DEF Working
      <4> QED
        BY <4>1, <4>2
    <3> QED
      BY <1>2, <3>6, <3>7, <3>8, <3>9
  <2> QED
    BY <1>11, <2>3, <2>5, <2>6 DEF Receive
<1>12. CASE Finish
  BY <1>1, <1>10, <1>12 DEF Finish, BridgeTypeOK
<1>13. CASE KillClient
  BY <1>1, <1>10, <1>13 DEF KillClient, BridgeTypeOK
<1>14. ASSUME NEW h \in Dispatchers, DispatcherStep(h) \/ Kill(h) PROVE Inv'
  BY <1>14, BootStep, TakeStep, ExecuteStep, RespondStep, QuitStep, KillStep DEF DispatcherStep
<1>15. CASE UNCHANGED vars
  <2>1. UNCHANGED <<client, call, does, compatible, bridge, spawned, disp, answer, ran, kills>>
    BY <1>15 DEF vars
  <2>2. BridgeTypeOK' /\ Holding'
    BY <1>1, <2>1 DEF BridgeTypeOK, Holding, Asking, Ran, Peer
  <2>3. History' /\ \A k \in Calls : Answers(k)'
    BY <1>1, <2>1, HistoryKept, AnswersKept
  <2>4. ASSUME NEW g \in Dispatchers PROVE Working(g)'
    BY <1>1, <2>1, WorkingKept
  <2> QED
    BY <1>2, <2>2, <2>3, <2>4
<1> QED
  BY <1>4, <1>5, <1>6, <1>8, <1>11, <1>12, <1>13, <1>14, <1>15 DEF Next, ClientStep

\* The client, its dispatchers and the answers keep their types.
THEOREM BridgeTyped == Spec => []BridgeTypeOK
<1>1. Inv => BridgeTypeOK
  BY DEF Inv
<1> QED
  BY InvInit, InvStep, <1>1, PTL DEF Spec

\* A value or an error returned to a call is the one produced for this call.
THEOREM AnswersAreMatched == Spec => []AnswersMatch
<1>1. Inv => AnswersMatch
  BY DEF Inv, Answers, AnswersMatch
<1> QED
  BY InvInit, InvStep, <1>1, PTL DEF Spec

\* No delegated function runs twice for one call.
THEOREM RunsAtMostOnce == Spec => []AtMostOnce
<1>1. Inv => AtMostOnce
  <2> SUFFICES ASSUME Inv, NEW i \in DOMAIN ran, NEW j \in DOMAIN ran, i # j
               PROVE  ran[i][1] # ran[j][1]
    BY DEF AtMostOnce
  <2>1. /\ i \in 1..Len(ran) /\ j \in 1..Len(ran) /\ Len(ran) \in Nat
        /\ ran[i][1] \in Nat /\ ran[j][1] \in Nat
    BY LenProperties, ElementOfSeq DEF Inv, BridgeTypeOK, Calls
  <2>2. CASE i < j
    BY <2>1, <2>2 DEF Inv, History
  <2>3. CASE j < i
    BY <2>1, <2>3 DEF Inv, History
  <2> QED
    BY <2>1, <2>2, <2>3
<1> QED
  BY InvInit, InvStep, <1>1, PTL DEF Spec

\* Python state that a dispatcher took with it, and an exit that was asked for,
\* are never hidden from the program.
THEOREM LossIsReported == Spec => []LossReported
<1>1. Inv => StateLossReported
  BY DEF Inv, History, Failed, StateLossReported
<1>2. Inv => ExitNotSwallowed
  <2> SUFFICES ASSUME Inv, NEW k \in Calls, does[k] = "exits",
                      k < call \/ (client = "idle" /\ k = call)
               PROVE  answer[k].outcome \in {"dead", "unavailable"}
    BY DEF ExitNotSwallowed
  <2>1. Answers(k) /\ answer[k].outcome \in Outcomes \cup {"none"}
    BY DEF Inv, BridgeTypeOK, Answer
  <2> QED
    BY <2>1 DEF Answers, Outcomes
<1> QED
  BY InvInit, InvStep, <1>1, <1>2, PTL DEF Spec, LossReported

-----------------------------------------------------------------------------
\* The integer helpers.

\* The remainder of naturals is what the quotient leaves.
LEMMA NaturalRem ==
  ASSUME NEW m \in Nat, NEW n \in Nat \ {0}
  PROVE  /\ m % n \in 0..(n - 1)
         /\ \E q \in Int : m = n * q + (m % n)
<1>1. m = n * (m \div n) + (m % n) /\ m \div n \in Int /\ m % n \in 0..(n - 1)
  BY SMT
<1> QED
  BY <1>1

\* Truncation leaves a remainder smaller than the divisor, with the sign of the
\* dividend, also in the case that Rust cannot divide.
LEMMA TruncatedRemWorks ==
  ASSUME Half \in Nat \ {0}, NEW a \in Word, NEW b \in Word \ {0}
  PROVE  LET r == TruncatedRem(a, b) IN
         /\ r \in Int /\ -Magnitude(b) < r /\ r < Magnitude(b)
         /\ \E q \in Int : a = b * q + r
<1> DEFINE m == Magnitude(a)
           n == Magnitude(b)
           s == m % n
<1>1. a \in Int /\ b \in Int /\ m \in Nat /\ n \in Nat \ {0}
  BY DEF Magnitude, Word
<1>2. s \in 0..(n - 1) /\ \E q \in Int : m = n * q + s
  BY <1>1, NaturalRem
<1> HIDE DEF s
<1>3. PICK p \in Int : m = n * p + s
  BY <1>2
<1>4. CASE a = -Half /\ b = -1
  <2>1. TruncatedRem(a, b) = 0
    BY <1>4 DEF TruncatedRem
  <2>2. n = 1
    <3>1. b + 1 = 0
      BY <1>4
    <3> QED
      BY <1>1, <3>1 DEF Magnitude
  <2>3. a = b * Half + 0 /\ Half \in Int
    BY <1>4
  <2> QED
    BY <2>1, <2>2, <2>3
<1>5. CASE ~(a = -Half /\ b = -1) /\ a < 0
  <2>1. TruncatedRem(a, b) = -s
    BY <1>5 DEF TruncatedRem, s
  <2>2. a = -(n * p) - s
    BY <1>5, <1>1, <1>2, <1>3 DEF Magnitude
  <2>3. -(n * p) = b * (IF b < 0 THEN p ELSE -p)
    BY <1>1 DEF Magnitude
  <2>4. a = b * (IF b < 0 THEN p ELSE -p) + (-s)
    BY <2>2, <2>3, <1>1, <1>2
  <2>5. -n < -s /\ -s < n /\ -s \in Int
    BY <1>1, <1>2
  <2>6. (IF b < 0 THEN p ELSE -p) \in Int
    OBVIOUS
  <2> HIDE DEF n
  <2> QED
    BY <2>1, <2>4, <2>5, <2>6 DEF n
<1>6. CASE ~(a = -Half /\ b = -1) /\ ~(a < 0)
  <2>1. TruncatedRem(a, b) = s
    BY <1>6 DEF TruncatedRem, Magnitude, s
  <2>2. a = n * p + s
    BY <1>6, <1>3 DEF Magnitude
  <2>3. n * p = b * (IF b < 0 THEN -p ELSE p)
    BY <1>1 DEF Magnitude
  <2>4. a = b * (IF b < 0 THEN -p ELSE p) + s
    BY <2>2, <2>3
  <2>5. -n < s /\ s < n /\ s \in Int
    BY <1>1, <1>2
  <2>6. (IF b < 0 THEN -p ELSE p) \in Int
    OBVIOUS
  <2> HIDE DEF n
  <2> QED
    BY <2>1, <2>4, <2>5, <2>6 DEF n
<1> QED
  BY <1>4, <1>5, <1>6

\* The sign correction turns a truncated remainder into Python's and never
\* leaves the words, so that it needs no check of its own.
THEOREM RemIsPython ==
  ASSUME Half \in Nat \ {0}, NEW a \in Word, NEW b \in Word
  PROVE  /\ b = 0 => CheckedRem(a, b) = Raise("ZeroDivisionError")
         /\ b # 0 => \E r \in Word : CheckedRem(a, b) = Value(r) /\ IsPythonRem(a, b, r)
<1>1. CASE b = 0
  BY <1>1 DEF CheckedRem
<1>2. CASE b # 0
  <2> DEFINE t == TruncatedRem(a, b)
             r == Floored(t, b)
  <2>1. t \in Int /\ -Magnitude(b) < t /\ t < Magnitude(b) /\ \E q \in Int : a = b * q + t
    BY <1>2, TruncatedRemWorks
  <2> HIDE DEF t
  <2>2. PICK q \in Int : a = b * q + t
    BY <2>1
  <2>3. a \in Int /\ b \in Int
    BY DEF Word
  <2>4. IF b > 0 THEN 0 <= r /\ r < b ELSE b < r /\ r <= 0
    BY <1>2, <2>1, <2>3 DEF Floored, SignsDiffer, Magnitude
  <2>5. \E k \in Int : a = b * k + r
    <3>1. CASE r = t
      BY <3>1, <2>2
    <3>2. CASE r = t + b
      <4>1. a = b * (q - 1) + (t + b)
        BY <2>1, <2>2, <2>3
      <4>2. q - 1 \in Int /\ a = b * (q - 1) + r
        BY <4>1, <3>2
      <4> HIDE DEF r
      <4> QED
        BY <4>2
    <3> QED
      BY <3>1, <3>2 DEF Floored
  <2>6. r \in Word
    BY <2>4, <2>1, <2>3, <1>2 DEF Word, Floored
  <2>7. CheckedRem(a, b) = Value(r)
    BY <1>2 DEF CheckedRem, t
  <2> QED
    BY <2>4, <2>5, <2>6, <2>7, <1>2 DEF IsPythonRem
<1> QED
  BY <1>1, <1>2

\* Python's remainder is one number: the emitted helper has no other choice.
THEOREM PythonRemUnique ==
  ASSUME NEW a \in Int, NEW b \in Int \ {0}, NEW r \in Int, NEW s \in Int,
         IsPythonRem(a, b, r), IsPythonRem(a, b, s)
  PROVE  r = s
<1>1. PICK q \in Int : a = b * q + r
  BY DEF IsPythonRem
<1>2. PICK p \in Int : a = b * p + s
  BY DEF IsPythonRem
<1>3. b * (q - p) = s - r
  BY <1>1, <1>2
<1>4. -Magnitude(b) < s - r /\ s - r < Magnitude(b)
  BY DEF IsPythonRem, Magnitude
<1>5. q - p = 0
  <2> DEFINE k == q - p
  <2>1. k \in Int /\ b * k = s - r
    BY <1>3
  <2> HIDE DEF k
  <2>2. CASE k >= 1 /\ b > 0
    <3>1. b * k >= b
      BY <2>1, <2>2
    <3> QED
      BY <3>1, <2>1, <2>2, <1>4 DEF Magnitude
  <2>3. CASE k >= 1 /\ b < 0
    <3>1. b * k <= b
      BY <2>1, <2>3
    <3> QED
      BY <3>1, <2>1, <2>3, <1>4 DEF Magnitude
  <2>4. CASE k <= -1 /\ b > 0
    <3>1. b * k <= -b
      BY <2>1, <2>4
    <3> QED
      BY <3>1, <2>1, <2>4, <1>4 DEF Magnitude
  <2>5. CASE k <= -1 /\ b < 0
    <3>1. b * k >= -b
      BY <2>1, <2>5
    <3> QED
      BY <3>1, <2>1, <2>5, <1>4 DEF Magnitude
  <2> QED
    BY <2>1, <2>2, <2>3, <2>4, <2>5 DEF k
<1> QED
  BY <1>1, <1>2, <1>5

\* The smallest word is the one whose negation and magnitude raise.
THEOREM OnlyMinimumOverflows ==
  ASSUME Half \in Nat \ {0}, NEW a \in Word
  PROVE  /\ CheckedNeg(a).raises # "nothing" <=> a = -Half
         /\ CheckedAbs(a).raises # "nothing" <=> a = -Half
         /\ a # -Half => CheckedNeg(a) = Value(-a) /\ CheckedAbs(a) = Value(Magnitude(a))
BY DEF CheckedNeg, CheckedAbs, Checked, Value, Raise, Magnitude, Word

\* One step of a sum: a sum that did not raise is the Python sum so far, and one
\* that did not fit stays raised, even if later terms would bring it back.
THEOREM SumStepExact ==
  ASSUME Half \in Nat \ {0}, NEW total \in Int, NEW x \in Word, NEW result,
         result = Checked(total) \/ result = Raise("OverflowError")
  PROVE  /\ SumStep(result, x).raises = "nothing" =>
              SumStep(result, x) = Value(total + x) /\ total + x \in Word
         /\ total \in Word /\ total + x \in Word /\ result = Checked(total) =>
              SumStep(result, x) = Value(total + x)
         /\ result = Raise("OverflowError") => SumStep(result, x) = result
<1>1. CASE result = Raise("OverflowError")
  BY <1>1 DEF SumStep, Raise, Checked, Value
<1>2. CASE result = Checked(total) /\ total \in Word
  <2>1. result = Value(total)
    BY <1>2 DEF Checked
  <2>2. SumStep(result, x) = Checked(total + x)
    BY <2>1 DEF SumStep, Value, CheckedAdd
  <2> QED
    BY <2>2, <2>1 DEF Checked, Value, Raise
<1>3. CASE result = Checked(total) /\ total \notin Word
  BY <1>3, <1>1 DEF Checked
<1> QED
  BY <1>1, <1>2, <1>3

\* Indexing a list takes Python's item and raises exactly where Python does; the
\* checked addition never overflows, so that no valid index is refused.
THEOREM ItemIsPython ==
  ASSUME Half \in Nat \ {0}, NEW index \in Word, NEW n \in Nat, n \in Word
  PROVE  /\ FromEnd(index, n) = Value(PythonItem(index, n))
         /\ index \in -n..(n - 1) => ItemAt(index, n) = Value(PythonItem(index, n))
         /\ index \notin -n..(n - 1) => ItemAt(index, n) = Raise("IndexError")
<1>1. index \in Int /\ (index < 0 => index + n \in Word)
  BY DEF Word
<1>2. FromEnd(index, n) = Value(PythonItem(index, n))
  BY <1>1 DEF FromEnd, CheckedAdd, Checked, PythonItem
<1>3. PythonItem(index, n) \in 0..(n - 1) <=> index \in -n..(n - 1)
  BY <1>1 DEF PythonItem
<1> QED
  BY <1>2, <1>3 DEF ItemAt, Value
===============================================================================

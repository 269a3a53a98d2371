--------------------------- MODULE WrapperImport ---------------------------
(***************************************************************************)
(* Importing a generated wrapper module: choosing the fallback module,     *)
(* running the top level on one leg, capturing the Python originals,       *)
(* binding the native functions, and publishing the wrappers last.         *)
(*                                                                         *)
(* The import lock makes one thread run it at a time, but the environment  *)
(* is read afresh at every step and other threads may change it.           *)
(***************************************************************************)
EXTENDS FiniteSets

CONSTANTS
    Functions,    \* accepted functions with a wrapper
    Methods,      \* those that live in classes
    Shims,        \* those with runtime semantics: native code calls the original back
    TopLevel,     \* the native name of the module's top-level initializer
    HasTopLevel,  \* whether the build accepted the module's top level
    Artifacts,    \* states of _rextio_native: "absent", "broken", "built"
    Modes,        \* native modes the environment may select
    DebugValues,  \* REXTIO_DEBUG_NATIVE
    MissingExports, \* whether __all__ may name something the module lacks
    MayReload     \* whether somebody calls importlib.reload on the wrapper

ASSUME ImportAssumption ==
    /\ Methods \subseteq Shims /\ Shims \subseteq Functions
    /\ TopLevel \notin Functions
    /\ HasTopLevel \in BOOLEAN /\ MayReload \in BOOLEAN
    /\ DebugValues \subseteq BOOLEAN /\ MissingExports \subseteq BOOLEAN

VARIABLES
    mode, debug,          \* the environment
    artifact, exported,   \* the native module and the names it exports
    missing_export,       \* __all__ names something the fallback module lacks
    at,                   \* where the import is
    cached,               \* fallback modules in sys.modules
    attribute,            \* what a fallback module holds under a function's name
    selected, top, captured, binding, todo, \* locals of this import
    registry,             \* original_registry._ORIGINALS for this module
    published,            \* what the visible wrappers fall back to
    warned, initialized, modes, debugs \* history of this import

env == <<mode, debug>>
build == <<artifact, exported, missing_export>>
process == <<cached, attribute, registry, published>>
locals == <<selected, top, captured, binding, todo>>
history == <<warned, initialized, modes, debugs>>
importVars == <<env, build, at, process, locals, history>>

FallbackModules == {"full", "elided"}
Kinds == {"none", "original", "wrapper"}
Nothing == [f \in Functions |-> "none"]

ImportInit ==
    /\ mode \in Modes /\ debug \in DebugValues
    /\ artifact \in Artifacts
    /\ exported \in SUBSET (Functions \cup {TopLevel})
    /\ missing_export \in MissingExports
    /\ at = "out"
    /\ cached = {} /\ attribute = [m \in FallbackModules |-> Nothing]
    /\ selected = "none" /\ top = FALSE /\ captured = Nothing
    /\ binding = {} /\ todo = {}
    /\ registry = Nothing /\ published = Nothing
    /\ warned = FALSE /\ initialized = FALSE /\ modes = {} /\ debugs = {}

Go(from, to) == at = from /\ at' = to

\* An exception leaves the module body: the import fails
Fail(from) ==
    /\ Go(from, "out")
    /\ UNCHANGED <<env, build, process, locals, history>>

-----------------------------------------------------------------------------
(* native_loader *)

Present(name) == artifact = "built" /\ name \in exported
\* Broken, or loaded without the name: a fault, not an absence
Faulty(name) == artifact # "absent" /\ ~Present(name)

\* Mutant: the fault is swallowed
Load_Silent(name) ==
    /\ ~(debug /\ Faulty(name))
    /\ UNCHANGED warned

\* load_native_function(name) where it does not raise
Load(name) ==
    /\ ~(debug /\ Faulty(name))
    /\ warned' = (warned \/ Faulty(name))

LoadRaises(name, from) == debug /\ Faulty(name) /\ Fail(from)

-----------------------------------------------------------------------------
(* The module body, in its order *)

Begin ==
    /\ \/ at = "out"
       \/ at = "ready" /\ MayReload
    /\ at' = IF HasTopLevel THEN "top_binding" ELSE "import_full"
    /\ selected' = "none" /\ top' = FALSE /\ captured' = Nothing
    /\ binding' = {} /\ todo' = Functions
    /\ warned' = FALSE /\ initialized' = FALSE
    /\ modes' = {mode} /\ debugs' = {debug}
    /\ UNCHANGED <<env, build, process>>

BindTopLevel ==
    \/ LoadRaises(TopLevel, "top_binding")
    \/ /\ Go("top_binding", "disabled")
       /\ Load(TopLevel)
       /\ top' = Present(TopLevel)
       /\ UNCHANGED <<env, build, process, selected, captured, binding, todo,
                      initialized, modes, debugs>>

Decide(from, to) ==
    /\ Go(from, to)
    /\ UNCHANGED <<env, build, process, locals, history>>

SelectDisabled ==
    Decide("disabled", IF mode = "fallback" THEN "import_full"
                       ELSE IF top THEN "import_elided" ELSE "required")

\* Native mode refuses to import without the initializer
SelectRequired == Decide("required", IF mode = "native" THEN "out" ELSE "import_full")

ImportPoint(m) == IF m = "full" THEN "import_full" ELSE "import_elided"

\* Mutant: the top-level initializer is not run after the elided module is imported
AfterImport_Skip(m) == "capture"
AfterImport(m) == IF m = "elided" THEN "run_top" ELSE "capture"

\* The module's own code runs when it is not cached, and may raise
ImportFallback(m) ==
    \/ /\ Go(ImportPoint(m), AfterImport(m))
       /\ selected' = m
       /\ cached' = cached \cup {m}
       /\ attribute' = IF m \in cached THEN attribute
                       ELSE [attribute EXCEPT ![m] = [f \in Functions |-> "original"]]
       /\ initialized' = (m = "full")
       /\ UNCHANGED <<env, build, registry, published, top, captured, binding, todo,
                      warned, modes, debugs>>
    \/ m \notin cached /\ Fail(ImportPoint(m))

RunTopLevel ==
    \/ Fail("run_top")
    \/ /\ Go("run_top", "capture")
       /\ initialized' = TRUE
       /\ UNCHANGED <<env, build, process, locals, warned, modes, debugs>>

\* Methods are checked to be the marked originals; functions are taken as found
CaptureFallbacks ==
    \/ /\ Go("capture", "register")
       /\ \A f \in Methods : attribute[selected][f] = "original"
       /\ captured' = attribute[selected]
       /\ UNCHANGED <<env, build, process, selected, top, binding, todo, history>>
    \/ /\ Fail("capture")
       /\ \E f \in Methods : attribute[selected][f] # "original"

\* register_runtime_originals replaces the mapping in one assignment
RegisterOriginals ==
    /\ Go("register", "natives")
    /\ registry' = [f \in Functions |-> IF f \in Shims THEN captured[f] ELSE "none"]
    /\ UNCHANGED <<env, build, cached, attribute, published, locals, history>>

BindNative(f) ==
    /\ f \in todo
    /\ \/ LoadRaises(f, "natives")
       \/ /\ Go("natives", "natives")
          /\ Load(f)
          /\ todo' = todo \ {f}
          /\ binding' = IF Present(f) THEN binding \cup {f} ELSE binding
          /\ UNCHANGED <<env, build, process, selected, top, captured,
                         initialized, modes, debugs>>

\* Mutant: the wrappers look their fallback up by name instead of capturing it
ReplaceFallbacks_ByName ==
    /\ todo = {}
    /\ Go("natives", "publish")
    /\ attribute' = [attribute EXCEPT ![selected] = [f \in Functions |-> "wrapper"]]
    /\ captured' = attribute'[selected]
    /\ UNCHANGED <<env, build, cached, registry, published, selected, top, binding, todo, history>>

\* The wrappers take the originals' place in the fallback module
ReplaceFallbacks ==
    /\ todo = {}
    /\ Go("natives", "publish")
    /\ attribute' = [attribute EXCEPT ![selected] = [f \in Functions |-> "wrapper"]]
    /\ UNCHANGED <<env, build, cached, registry, published, locals, history>>

Publish ==
    \/ missing_export /\ Fail("publish")
    \/ /\ ~missing_export
       /\ Go("publish", "ready")
       /\ published' = captured
       /\ UNCHANGED <<env, build, cached, attribute, registry, locals, history>>

SetEnv ==
    /\ mode' \in Modes /\ debug' \in DebugValues
    /\ modes' = modes \cup {mode'} /\ debugs' = debugs \cup {debug'}
    /\ UNCHANGED <<build, at, process, locals, warned, initialized>>

ImportNext ==
    \/ Begin \/ BindTopLevel \/ SelectDisabled \/ SelectRequired
    \/ \E m \in FallbackModules : ImportFallback(m)
    \/ RunTopLevel \/ CaptureFallbacks \/ RegisterOriginals
    \/ \E f \in Functions : BindNative(f)
    \/ ReplaceFallbacks \/ Publish
    \/ SetEnv

ImportSpec == ImportInit /\ [][ImportNext]_importVars

-----------------------------------------------------------------------------
TypeOK ==
    /\ mode \in Modes /\ debug \in DebugValues
    /\ cached \subseteq FallbackModules
    /\ attribute \in [FallbackModules -> [Functions -> Kinds]]
    /\ selected \in FallbackModules \cup {"none"} /\ top \in BOOLEAN
    /\ captured \in [Functions -> Kinds]
    /\ binding \subseteq Functions /\ todo \subseteq Functions
    /\ registry \in [Functions -> Kinds] /\ published \in [Functions -> Kinds]

\* The names a ready module publishes were initialized by exactly the leg that was
\* selected, and in native mode throughout that leg is the native initializer.
InitializedOnSelectedLeg ==
    at = "ready" =>
        /\ initialized /\ selected \in cached
        /\ selected = "elided" => HasTopLevel /\ Present(TopLevel) /\ modes # {"fallback"}
        /\ selected = "full" /\ HasTopLevel => modes # {"native"}

\* A native module that exists but does not load, or lacks a function, is never
\* fallen back from silently, and never at all with debugging on throughout.
FaultSurfaced ==
    at = "ready" /\ (\E f \in Functions : Faulty(f)) => warned /\ debugs # {TRUE}

\* "Isolated storage for exact Python originals": what native code calls back is
\* never a wrapper, which would dispatch to the same native code again.
OriginalsExact == \A f \in Shims : registry[f] # "wrapper"

\* The visible wrappers fall back to the user's code, never to an older wrapper,
\* however many attempts failed before the import succeeded.
FallbackIsOriginal == \A f \in Functions : published[f] # "wrapper"
=============================================================================

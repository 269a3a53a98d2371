# Rextio in TLA+

Rextio compiles annotated Python functions to Rust. A build analyses a project,
lowers the accepted functions, generates a Rust crate and Python wrapper
modules, runs the external tools and publishes a wheel or an executable with its
evidence. At run time the wrappers choose, call by call, between the compiled
function and its Python original.

This development models the parts where order matters: concurrency, crashes,
timeouts, state that outlives a call, loops that must reach a fixpoint, and the
analyses whose answer must agree with what Python and Rust then do. Much of
the rest of the source is pure: parsers, validators and text generators over one
input. Paths below are relative to `src/src/rextio/`.

Contents: [inventory](#1-inventory), [modules](#2-modules-and-how-they-correspond-to-the-code),
[runs](#3-runs-what-each-shows-and-within-which-bounds), [fairness](#4-fairness),
[proofs](#5-what-is-proved), [disagreements](#6-where-code-and-documentation-disagree),
[limits](#7-what-is-only-checked-and-what-is-not-modelled), [plan](#8-plan),
[how to run it](#9-running).

## 1. Inventory

### 1.1 At run time

**Boundary fallback counter** (`runtime/boundary_fallback.py`).
*State:* a dict of counters, a set of demoted functions and a lock, global to the
process; two environment variables read afresh by every call.
*Operations:* `boundary_fallback_required` (counts one crossing and answers
whether the call must use Python), `boundary_fallback_count`,
`reset_boundary_fallback_state`. *Used by* every gated wrapper and `boundary_call`.
*Hard:* a double-checked set read without the lock, a read-modify-write of a
counter, a reset in two steps, an unfair lock.
*Correct when:* no crossing is lost; a function is demoted exactly when its
crossings exceed a threshold in force and stays demoted until a reset; every
call answers as if it were atomic; every call returns.

**Wrapper dispatch** (`codegen/python_wrapper/wrapper_gen.py`,
`runtime/flags.py`, `runtime/boundary_call.py`).
*State:* the binding of each native function; per activation, the leg it takes.
*Operations:* the wrapper body (disabled? bound? required? demoted?), and
`boundary_call`, with which a native body calls back into Python and which
counts a crossing against the caller.
*Hard:* the environment is read up to three times in a call while other threads
change it; nested calls; a demotion between the gate and the native run.
*Correct when:* the leg taken is justified by a mode in force during the call,
plugin-routed functions never move because of a count, and a call entered after
the demotion stays on Python.

**Wrapper import** (`wrapper_gen.py`, `runtime/native_loader.py`,
`runtime/original_registry.py`).
*State:* `sys.modules`, the attributes of the full and the elided fallback
module, the registry of originals, the published names.
*Operations:* select and import a fallback module, run the native top level,
capture the originals, register them, load each native function, put the
wrappers in the originals' place, publish.
*Hard:* a failure at any step followed by a retry over modules that stay cached;
`importlib.reload`; an artifact that is absent, broken or incomplete.
*Correct when:* the top level ran on the selected leg; a broken artifact is
never silent; what native code calls back is always the user's function.

**Subprocess hybrid** (`codegen/rust/subprocess_client.py`,
`codegen/subprocess_dispatcher.py`).
*State:* the bridge the binary holds, dispatcher processes with two pipes each.
*Operations:* spawn, handshake, send, receive, drop; in the dispatcher boot,
take, execute, respond, quit at end of file.
*Hard:* either process may die between any two steps or in the middle of a
frame; functions may raise, exit, kill the interpreter or read standard input.
*Correct when:* an answer belongs to its call, nothing runs twice, lost Python
state and requested exits are not hidden, nobody waits for ever, and no
dispatcher outlives the binary.

**Checked arithmetic** (`codegen/rust/checked_arith.py`, the list index of
`codegen/rust/generator.py`). No state: emitted helpers that must raise where
Python would need more than 64 bits and follow floor semantics.

### 1.2 At build time

**Function analysis: final bindings** (`analyzer/final_bindings.py`).
*State:* the scanner's scope and the table of last binders, while one module is
read in source order.
*Hard:* a call at module level may rebind any name through functions that were
defined earlier and may have been rebound themselves; blocks may be skipped or
left half way; unknown code may rebind everything, the decorator included.
*Correct when:* the binder named as final is the one that ran last, and a
decorator taken for the marker was the marker.

**Boundary rejection** (`analyzer/boundary.py`, the exclusion loop of
`codegen/rust/generator.py`).
*State:* the accepted functions, their shim flags and crossings, changed in a
loop until nothing moves.
*Hard:* a rejection changes the verdict of callers visited earlier; call cycles.
*Correct when:* every lowered call holds at the end, nothing is rejected
needlessly, and the crate defines what it calls.

**Ownership of lists and arrays** (`analyzer/unsupported_patterns.py`,
`analyzer/type_predicates.py`, the statements of `codegen/rust/generator.py`).
*State:* in Python, objects that several names may hold; in Rust, one value per
variable, cloned at every read; in the analysis, the names that are mutated, that
have a second name or holder, or that may be the caller's own array.
*Hard:* sharing arises in many ways and along paths that no straight reading
shows; a copy that is mutated is a wrong result without an error.
*Correct when:* a function that is lowered computes the same in both languages and
never returns the array its caller passed.

**Build orchestration** (`build/orchestrator.py`, `build/*_builder.py`, the
commands of `cli/`).
*State:* the generated tree, the build copy, `dist`, three reports, all of which
outlive the command.
*Hard:* each stage may be skipped, fail or raise, a command may die anywhere,
and the next one starts from what is left.
*Correct when:* an artifact is made of the pieces of one build, a report lists
only what its build made, and the exit code agrees with the report.

**Required evidence outputs** (`build/orchestrator.py`, `_RequiredEvidenceOutputs`;
`artifacts/evidence.py`, `SidecarWriteTransaction`).
*State:* three output paths, two backup directories, receipts.
*Hard:* two nested transactions by rename and link, without locks, that may fail,
be interrupted or crash at each step while other programs write the same paths.
*Correct when:* earlier outputs survive until all new ones are in place, files of
others are not destroyed, and a rollback that calls itself complete is.

**Strict two-build executor** (`build/full_c6_executor.py`).
*State:* a frozen source tree, two private copies, support material, artifacts,
captured outputs.
*Hard:* everything is an ordinary file that others may write between the check
and the use, and trees are read file by file; content that comes back leaves no trace
where no times are compared.
*Correct when:* a receipt stands for two equal outputs of the frozen tree, which was
a state of the source; nothing but what was exchanged and put back while a tool read
it can make it untrue.

**Strict lifecycle** (`cli/build_cmd.py`, `_run_full_c6_cli_lifecycle`; the modules
`build/full_c6_*.py` it calls).
*State:* the project's files; the pins, the policy digest and the signature named in
`rextio.toml`; the license locks; what earlier commands and the owner have written:
bootstrap request, policy, signing request, signature, documents, bundle.
*Operations:* one command of some twenty checked stages, which ends in a bootstrap
request, a signing request or a publication; the owner finalizes and pins a policy,
signs, changes settings, reviews inputs, discards outputs.
*Hard:* three builds from files that may be edited between and during them, and put
back; each build must be recognized as the one approved and signed before; what a
command wrote is in the way of the next; any stage may fail or the process die.
*Correct when:* what is published was built from what was approved, under the policy
that was signed; an unchanged project reaches publication and a changed one is
refused; nothing can fail after the publication but its report.

**Publication** and **signing request** (`build/full_c6_publication.py`).
*State:* one directory (or one file) under a name in an owner's directory,
private staging entries, durability of each.
*Operations:* capture the inputs, stage, sync, verify, recapture, check that the
target is absent, rename without replacing, reconcile with a target that is
already there, clean up.
*Hard:* concurrent publishers, inputs rewritten meanwhile, an exception between
the kernel's rename and Python's knowledge of it, process death, loss of power.
*Correct when:* the name shows one whole bundle or nothing; it is set once; a
receipt stands for exactly that bundle.

**Persistent native output** (`build/full_c6_native_output.py`).
*State:* an output root, in it a directory of two files per authority, a lock of
the process and one on the root; sealed transactions in memory.
*Operations:* materialize (open, create or take over, capture twice, seal,
validate) and validate again on each use.
*Hard:* several processes, death or loss of power inside a tree that nobody may
repair, directories opened before the lock is held, foreign writes.
*Correct when:* what is confirmed was whole at one moment, reruns of one authority
see the same files, a tree that is there is never written to, and calls of one
process are refused only for cause.

**Build tool execution** (`build/subprocess_utils.py`).
*State:* a tool in a session of its own, its process group, its output pipe, a
deadline, an output cap.
*Operations:* spawn with a callback, read (with or without a cap), time out,
terminate the group in two rounds, drain, forge a return code for a leader that
cannot be reaped.
*Hard:* descendants that ignore signals, leave the group or keep the pipe open.
*Correct when:* the call ends; a clean timeout left nothing of the group; a
result that looks like the tool's own is.

### 1.3 Parts without a model

| Part | Why |
|---|---|
| Configuration (`config/`) | precedence of sources and validation of one value at a time |
| Project scan, plugins and claims, devices, partition; of the intermediate representation and of Rust generation all but lists, arrays and integers | translations of one input into one result; what the generated code does at run time is modelled where it has state |
| Artifact evidence and authorization; of policy, locks, inventories and external sources all but their place in the strict lifecycle | strict parsers and validators over immutable documents |
| Host, toolchain and sandbox: what is observed of a file, the sandbox and the launcher | interfaces of the operating system |
| Benchmark runner | its assignments to the environment are the `SetEnv` actions of the run-time models |

### 1.4 How the parts interact

    build:    analysis -> rejection -> Rust + wrappers -> build tools -> wheel -> evidence
              strict: analysis -> two builds -> bootstrap request | signing request |
                      gate -> publication; the owner approves and signs in between
    import:   wrapper module -> native loader, fallback module, registry of originals
    call:     wrapper -> flags, counter -> native body -> boundary_call -> counter, original
    binary:   native main -> client -> pipe -> dispatcher -> Python function

The counter is shared by all calls of a process, the environment by everything
in it. The import prepares the bindings that dispatch uses. The analysis decides
at build time what the import will find bound. Commands of the build, and other
processes, meet in the file system only.

## 2. Modules, and how they correspond to the code

| Module | What it is |
|---|---|
| `FallbackThreshold` | how a threshold comes from the environment and the embedded default |
| `BoundaryFallback` | the counter, one action per read or write of shared state |
| `Demotion` | what the counter promises: each call counts, compares and demotes at one instant |
| `Dispatch` | wrapper bodies and `boundary_call`, composed with `Demotion` |
| `WrapperImport` | the generated module body with its retries and reloads |
| `FinalBindings` | a user module read by the analysis and executed by Python, side by side |
| `BoundaryRejection` | the rejection loop and the exclusion loop over any small project |
| `NativeLowering` | lists and plugin arrays of one function: shared in Python, owned in Rust, and the analysis between |
| `CheckedArithmetic` | the emitted integer helpers, over words of any width |
| `BuildPipeline` | the commands and the directories they share |
| `EvidenceOutputs` | the two output transactions, one inside the other |
| `TwoBuild` | the strict executor with other writers of all its files |
| `StrictLifecycle` | the strict command from bootstrap to publication, its owner, and edits |
| `WriteOnce` | what both publication sinks promise: a name set once |
| `Publication`, `SigningRequest` | the two sinks, each shown to implement `WriteOnce` |
| `NativeOutput` | the native output, its transactions and their validation |
| `SubprocessBridge` | client and dispatchers over pipes |
| `BuildTool` | `run_build_tool` and the processes it started |
| `*Proofs` | the theorems about a module (section 5) |
| `MC*` | the values the configurations cannot write down themselves |

**Counter.** A call slot is one activation, not a thread; a nested call takes
another slot. `pc` is the next bytecode that touches shared state, so the
interpreter may switch between any two of them. The dict becomes a function that
is 0 where there is no key. `crossings` and `admitted` are history: what the
calls stored, and which of them were let through natively. A call's locals are
reset when it returns, so that states differ only where the code can tell.

**Dispatch** extends `Demotion` instead of the detailed counter: the refinement
proved between the two is what allows it. `modes`, `exempt` and `stale` record
the environment over an activation, because a property of a call that reads the
environment three times must speak of the moments of that call.

**WrapperImport** is one thread (the import lock) in a changing environment. An
original, a wrapper and nothing are the three things a name can hold. Methods
are checked for the marker of an original before they are captured, functions
are not, as in the code.

**FinalBindings** has no program as input: each step is one more statement of a
module, read by the scanner (`scope`, `table`) and executed (`running`), so all
modules of at most `Lines` statements are covered. A function is what it rebinds,
whether the code's summary looks at that kind of statement (`seen`), whether it
does so before the call it makes, and how it spells that call. A call runs function
by function: `now` is the statement that calls, `stack` the functions it has entered.
The summary of a call goes through the least set of functions that is closed under
known callees (`Followed`); the recursion of the code gives up on a cycle, and so does
the model, for which a cycle has no function that calls nothing. A block is a
branch, a try, a with or a loop; two blocks in a row stand for if and else. A
star import or an opaque call turns every entry of the table unknown until it is
rebound; code outside the module rebinds a set of `Rebindings`. The body of a loop
runs any number of times, and is read once. With `RebindInLoops` it does so whatever
it does; without, only as long as none of its statements rebinds a name that is known.

**BoundaryRejection** takes the project, shapes of functions and the calls
between them, as its initial state. A visit of one function is one action, as one
iteration of the source's loop is; a round that changed nothing settles. The
exclusion loop of the crate runs over the same state.

**NativeLowering** has no program as input either: a step is one more statement of
the body, read by the analysis and, where control reaches it, executed by Python
(`heap`, `bound`) and by the emitted Rust (`owned`). Items are not told apart, so a
list of integers is worth its length and a list of lists the lengths of its members.
A branch, a loop or a try is one level deep; `Open` chooses whether it runs, `Repeat`
is a second iteration, `Raise` an exception that an empty handler takes. A name bound
in a block is out of scope after it. `Forms` and `Blocks` select the statements, so
that the fragment for which the analysis suffices and all of it are two instances of
one module.

**BuildPipeline** stamps what a command writes with its number; a command is a
script of steps. **EvidenceOutputs** writes the steps both transactions share once
and takes the transaction as a parameter; a file stands for its receipt, so a
modification in place is a replacement.

**TwoBuild** is a script too: a walk reads one file a step, every walk is done twice
and compared, as in the code. A file is its content, since the code compares digests,
devices and inodes and a write in place keeps the latter two. Others may write any
content at any step, an earlier one too, and put any bytes, those of the other build
too, where a product was. Only what is compared by its times (`Stamped`: the critical
leaves of the toolchain and the PyO3 configuration) cannot return to what it was. Other
members of the support trees (`leaves`) are looked at by the two full walks alone. Four
histories serve the properties and no step reads them: the states of the source during a
walk, what each tool made, whose product was replaced before it was taken, and what was
put back (`restored`) - of a copy or the support material only if the tool of that build
had begun to read, and, but for the leaves, if its outputs were not captured yet.

**StrictLifecycle** has one action per stage of the command, in the order of `Script`;
`cmd` is what the run holds in memory and `Ends` takes it away. A file of the project
holds one of two contents, so that an edit can be undone. The project's Python files
and, of the toolchain, the critical leaves (`tools`) are bound by inode, size and times
and so keep a trace of every edit (`touched`). The other members of the support trees
(`support`: the standard library, headers) are compared by content in three full walks,
one at the host's collection and one on either side of the two builds (`WalkSupport`).
Vendored crates, stubs, the external wheel and license files are compared by content
too. `putBack` is history: a support tree was edited after the builds and before the
walk that follows. A request is the lineage it names
(configuration and inputs) and a policy names its request, so that a digest is the
value itself. Generated Python modules are copies of what is on disk, Rust sources
come from the analysis: hence `Generate` and its counterpart `Regenerate`. `Killing`
may leave a file that ends in the middle where the code writes in place. The owner's
actions are the `rextio policy` commands and edits of `rextio.toml` between commands.

**Publication** abstracts a bundle to the payload it belongs to and an input file
to its data and a stamp, which stands for the identity the code compares (inode,
size, mode, times). Six payload files and the public key are a set of roles;
captures and writes go file by file. `durable` and `whole` say whether an entry
and the tree under it are on disk. The semantic verification of a bundle is one
predicate. Directory revalidations that fail because somebody exchanged the
owner's directory are the nondeterministic `Abort`.

**NativeOutput** has one action per step that another process, a crash or an outage
can separate: the opening of each directory (in `window`, what it looked like
before), the exclusive creation and the completion of each file, each sync, each
file of the two captures. A file is its bytes and the identity it was created
with. Materializing, confirming and revalidating share the steps they share in the
code (`phase`). `Change` is somebody with the owner's rights.

**SubprocessBridge** numbers the calls; a frame carries the number of the call it
answers and whether it is whole. What a delegated function does to the exchange
is one of six behaviours. The generated crate starts no thread, so the client's
mutex is not modelled.

**BuildTool** is the POSIX branch. Three processes are enough to tell the cases
apart: the leader, a member of its group, a descendant that left the group. A
wait with a timeout is a choice between its two outcomes; `Expire` is the
caller's deadline.

**CheckedArithmetic** is pure: Rust's wrapping, truncating operations on words of
`2 * Half` values, and the branches around them. It has no run; its theorems hold
for every `Half`.

Code that is not in the repository (processes, pipes, the kernel's clock, Python's
name binding) is modelled from how the code uses it and marked external in
`PROJECT.json`.

## 3. Runs: what each shows, and within which bounds

Deadlock is checked except where the system really ends (boundary, publication,
signing request, bridge, build tool, evidence: their last state has no
successor).

| Run | Properties | Bounds |
|---|---|---|
| `counter` | `ImplementsDemotion`, `CallsReturn` | 2 slots, 2 functions, embedded -1 and 0 (one invalid, one disabled), default 1, environment unset or 2 |
| `dispatch` | `LegJustified`, `DemotedStaysOnFallback` | 2 slots, an ordinary and a plugin-routed function, one boundary call each, every mode and a misspelt one |
| `import` | `InitializedOnSelectedLeg`, `FaultSurfaced`, `FallbackIsOriginal`; `TableTrue` | a plain function, a shim and a method, every artifact, mode and debug value, any subset of exported names, reloads; user modules of 4 statements over 2 names |
| `boundary` | `LoweredCallsHold`, `VerdictIsLargest`, `CrateExactly`; `SameResult`, `AliasNeverEscapes` | 3 functions of 6 shapes, each calling any of the others well or badly, in process and delegated; bodies of 4 statements over 2 lists and a list of lists, and of 5 over 3 arrays |
| `build_pipeline` | `ReportsTrue`, `PiecesOfOneRun`; `ReceiptTrue`, `CaptureIsSnapshot` | 3 commands; a lock file and one other of two contents each, 2 foreign writes, both drivers, with and without a lock to generate |
| `evidence` | `NothingDestroyed`, `CompleteMeansUndone` | 2 builds, 3 outputs of which 2 exist, 2 foreign writes, an interrupt in the second build |
| `publication` | `BundleWhole`, `PublishedFromOneState`, `LitterExplained`, `ImplementsWriteOnce` | 2 publishers, 2 payloads, 2 roles and the key; one rewrite, fault, loss and removal each |
| `signing_request` | `FreshReceiptSurvives`, `RefusalJustified`, `ImplementsWriteOnce`; `SealedTreesHold`, `NeverRepaired`, `RefusedForCause` | 3 calls, 2 requests; one fault, loss and removal each; 3 calls in 2 processes, 2 authorities, a limit of 1 directory, 1 event outside |
| `bridge` | `AnswersMatch`, `AtMostOnce`, `LossReported`, `CallsAnswered`, `NoOrphans` | 3 calls, 3 dispatchers, 2 kills, all behaviours |
| `build_tool` | `TreeGone`, `ExitIsReal`, `Returns`; `PublishedAsApproved`, `DecidedByProject`, `CommitIsLast` | 3 processes, a cap of 1 unit, 3 units written; 3 commands and 2 policies, with the owner's actions, edits and faults of `MCBudgets` |
| `final_bindings` | `FinalIsExact`, violated: section 6 | functions that rebind a name unseen, before a call or under another name, loops that rebind; 4 statements, 2 names |
| `native_lowering` | `SameResult`, violated: section 6 | every form of statement and block, 4 statements |

Why the bounds are enough, and what they leave out:

* *counter.* Two slots give every race on one counter and on the lock: the
  fast path against an insert, a queue behind the demoting call, a reset against
  either. Two functions show that a reset clears all and that counters are
  apart. With a default of 1 and an environment of 2 each function passes
  through below, at and above a threshold and the threshold moves while calls
  are in flight. The off switch stays off here to keep the liveness check small;
  the proofs and `dispatch` cover it. For more slots there are the proofs.
* *dispatch.* The third reading of the mode and the gate are reached while
  another activation demotes the same function or changes the environment. One
  boundary call per body is enough for the counter to be used twice in one call.
* *import.* `MCWrapperImport` holds two systems that share no variable, the
  wrapper's import and the user's module below it, and follows one of them per
  behaviour (`side`). For the wrapper the number of functions matters only
  through the three kinds; failures and retries are unbounded. For the user's
  module four statements are a function, one that calls it, a rebinding and a
  call at module level. This run gives the functions what the summaries of the
  code cover and lets loops run again that rebind nothing; `final_bindings` gives them
  the rest. Six statements are needed for some errors that four do not show (section
  5); the theorem covers every number.
* *boundary.* Three functions give chains, diamonds and cycles of every length
  that matters to a loop: a rejection that reaches a caller visited before it and
  one visited after it. The theorems cover every number. `MCBoundaryRejection` has
  the bodies of one function as its other sides. Four statements over lists are two
  lists, a sharing of them and a mutation; five over arrays carry the caller's array
  through two assignments of a loop in the order that needs a second iteration. A
  body that is refused is not continued: it stays refused. The lists are those of the
  fragment the analysis covers: names, copies, displays and appends of new values,
  no try; `native_lowering` has everything.
* *build_pipeline.* The first command leaves artifacts and reports, the second
  fails or dies over them, the third starts from what that left. The other side of
  `MCBuildPipeline` is the strict executor over the smallest tree that can be read in
  two states. Two writes can change both files, a file and what is made of it, or a file
  there and back: a receipt for two tools that read another leaf than the recorded one,
  and one for a product of others, are reached. A file of a copy that is read otherwise
  needs three writes to end in a receipt, or four; for that case there is the theorem.
* *evidence.* One output path is free, so that absence must be restored too. The
  second build runs over what the first left; a foreign write may hit a path before
  and after it is looked at.
* *publication.* Two publishers are the race for one name. Three roles stand for
  seven: an input captured before the rewritten one and one after it. One loss
  is a crash, an interruption or a power failure at every step. The counters bound
  the environment, not the code.
* *signing_request.* Three calls: one that renames, one that loses the race, one
  that comes later. `MCSigningRequest` has the native output as its other side:
  two calls share a process and two an authority, so that each pair of calls meets
  at one of the locks or at neither; an error, a death, an outage or a change can
  hit every step.
* *bridge.* A third call is needed for a failure between two successes
  (`LossReported`); a dispatcher for each.
* *build_tool.* A cap of one unit is passed by the second, and a third stays in
  the pipe. The other side of `MCBuildTool` is the strict lifecycle, where three
  commands are the shortest way to a publication, with four actions of the owner
  between them (finalize, pin, sign, name the signature). Its `Budgets` share out what
  else may happen: two edits of any one input, an edit and its undoing, at any two
  moments of the three commands; an edit of any input with a fifth action of the
  owner, who reviews it; a fault with two more actions, which remove what is in the way
  of a repetition; three more actions alone, which exchange a policy or a setting. A
  command that is refused or dies is one of the three, so that a publication follows
  it only where it had already written its request.

Each property of a passing run has a mutant in `PROJECT.json`: a definition
changed as a plausible bug would change it, under which the run must fail. The
mutated definition stands before the real one in its module, with a comment.

Some properties deserve a word.

* `PublishedFromOneState` and `CaptureIsSnapshot` are not about the bytes alone: files
  are read one at a time, twice, and the claim is that two equal passes imply one
  instant at which all of them held what was read.
* `VerdictIsLargest` compares the loop with the union of all consistent sets, which
  does not mention an order. It holds under `Monotone`: no shim takes part, and a
  function that may cross the boundary makes no call that fits only when its callee
  stays in Python. Outside that condition the result of the code does depend on
  the order of the names (section 6).
* `EarlierOutputsKept` ends at the commit's own look at all three outputs: from there
  on the new ones are what the owner has. `OthersKept` names the two ways in which the
  code does destroy files of others.
* `RerunsAgree` leaves out what a call took over from one that never finished: the
  name it took over is then not on disk (section 6). `RefusedForCause` allows what
  the code does to a call of another process.
* `SameResult` compares values, not identities, at every end a body may have, and the
  caller's lists too. `AliasNeverEscapes` compares identities: the array returned is
  not the one that was passed.
* `NothingDestroyed`, `SealedTreesHold`, `TableTrue`, `LossReported` and `ReportsTrue`
  each join two claims about one thing that are named apart in their modules:
  `EarlierOutputsKept` and `OthersKept`, `ConfirmedWhole` and `RerunsAgree`,
  `FinalIsExact` and `MarkersReal`, and so on.
* `DecidedByProject` compares the outcome of a command that nobody disturbs with
  `InOrder`, which speaks of the project as a whole and follows no stage: both
  directions, so that neither a refusal without a cause nor a passage over one can hide.
* `PublishedAsApproved` speaks of whatever is edited, at any stage of any command,
  although most inputs are compared by content and each is read only at some of the
  stages. Its one exception is the code's: between the walks before and after the
  builds nothing looks at the members of the support trees that are not critical, so one
  that is exchanged for the builds and put back is published (section 6).
* `ReceiptTrue` likewise says what the executor's looks are worth: a change that stays is
  always caught, although files are looked at before and after their use only, and one
  that is put back is caught unless it is put back while the tool runs or before the next
  look. That others put the same bytes where both products were is an exception too.
* `CaptureIsSnapshot` takes that no file was changed and changed back during the walk in
  question, whatever happened before: two passes cannot tell the difference.
* `CompleteMeansUndone` does not say that a rollback completes, only that the report
  is right.

## 4. Fairness

Liveness is checked in three runs.

* `BoundaryFallback!FairSpec`: weak fairness for the own steps of each call. The
  scheduler runs a thread that can run; it does not hand over a lock in any
  order, so a call waiting for the lock is only weakly fair. Calls still return,
  because each function takes the lock a bounded number of times until its calls
  stay on the fast path. `boundary_fallback_count` and
  `reset_boundary_fallback_state` break that argument and only tests and tools
  call them, so `CallsReturn` assumes that they are not in use for ever.
* `SubprocessBridge!FairSpec`: client and dispatchers are processes of the
  operating system. A delegated function is assumed to end, as the client waits
  without a timeout by design; one that reads standard input is not, and is left
  out of `CallsAnswered` (see section 6).
* `BuildTool!FairSpec`: time passes, the caller runs, and a caller that finds its
  deadline passed acts on it. The tool owes nothing: it may run, write or hold
  its pipe for ever.

The other specifications state safety only.

## 5. What is proved

TLAPS checks the theorems for every value of the constants. The assumptions are
named in the modules that declare the constants: sentinel values are not members
of the sets they are told apart from, thresholds are integers, bounds are natural
numbers, switches are Booleans, given sets have the stated type.

| Module | Theorem | States |
|---|---|---|
| `BoundaryFallbackProofs` | `TypeCorrect` | `TypeOK` |
| | `NoCrossingLost` | `CountsExact` |
| | `CounterBounded` | a counter never passes the largest threshold in force by more than one |
| | `AdmissionBounded` | no more calls run natively against a counter than a threshold in force admits |
| | `DemotionExact` | `DemotedExactly` |
| | `DemotionIsPermanent` | only a completed reset ends a demotion, and it ends all, with all counters at 0 |
| | `CounterImplementsDemotion` | the counter implements `Demotion` |
| `DispatchProofs` | `DispatchTyped`, `LegsAreJustified`, `DemotionHolds` | `DispatchTypeOK`, `LegJustified`, `DemotedStaysOnFallback` |
| `GeneratedCodeProofs` | `ImportTyped`, `LegIsInitialized`, `FaultIsSurfaced` | of the import: `TypeOK`, `InitializedOnSelectedLeg`, `FaultSurfaced` |
| | `OriginalsAreExact`, `FallbackIsTheOriginal` | `OriginalsExact`, `FallbackIsOriginal`, if `Recognizable` |
| | `TableIsTrue` | of final bindings: `TableTrue`, if `Summarized`, for any names and modules of any length |
| | `BridgeTyped`, `AnswersAreMatched`, `RunsAtMostOnce`, `LossIsReported` | of the bridge: `BridgeTypeOK`, `AnswersMatch`, `AtMostOnce`, `LossReported` |
| | `RemIsPython`, `PythonRemUnique` | the emitted remainder is Python's, and Python's laws have no other solution |
| | `OnlyMinimumOverflows`, `SumStepExact`, `ItemIsPython` | negation and magnitude raise at the minimum only; a sum is exact or raises; an index picks Python's element or raises |
| `BoundaryRejectionProofs` | `BoundaryTyped`, `LoweredCalls`, `VerdictLargest`, `CrateExact` | `BoundaryTypeOK`, `LoweredCallsHold`, `VerdictIsLargest`, `CrateExactly`, for any number of functions and any calls |
| | `NoAliasEscapes` | of the ownership analysis: `AliasNeverEscapes`, for any names and any sequence of statements |
| | `LoweringTyped`, `SameInRust` | of the two executions: `LoweringTypeOK`; `SameResult`, if `AllSeen` or `NothingMutates`, for any names and bodies of any length |
| `PublicationProofs` | `PublicationTyped` | `PublicationTypeOK` |
| | `PublishedWhole`, `FromOneState`, `LitterIsExplained` | `BundleWhole`, `PublishedFromOneState`, `LitterExplained` |
| | `PublicationImplementsWriteOnce` | publication implements `WriteOnce` |
| | `EvidenceTyped`, `NothingIsDestroyed`, `CompleteIsUndone` | of the required outputs: `EvidenceTypeOK`, `NothingDestroyed`, `CompleteMeansUndone` |
| `SigningRequestProofs` | `SigningTyped`, `FreshSurvives`, `OnlyConflictsRefuse` | `SigningTypeOK`, `FreshReceiptSurvives`, `RefusalJustified` |
| | `SigningImplementsWriteOnce` | the signing request implements `WriteOnce` |
| | `NativeTyped`, `SealedHold`, `NeverRepairs`, `RefusesForCause` | of the native output: `NativeTypeOK`, `SealedTreesHold`, `NeverRepaired`, `RefusedForCause` |
| `StrictBuildProofs` | `BuildToolTyped`, `TreeIsGone`, `ExitIsTheTools` | of build tools: `BuildToolTypeOK`, `TreeGone`, `ExitIsReal` |
| | `LifecycleTyped`, `PublishesTheApproved` | of the strict lifecycle: `LifecycleTypeOK`, `PublishedAsApproved` |
| | `NothingFailsAfterCommit`, `ProjectDecides` | `CommitIsLast`, `DecidedByProject` |
| `BuildPipelineProofs` | `TwoBuildTyped`, `FrozenIsSnapshot`, `ReceiptsAreTrue` | of the two-build executor: `TwoBuildTypeOK`, `CaptureIsSnapshot`, `ReceiptTrue` |
| | `PipelineTyped`, `ReportsAreTrue`, `ArtifactsAreWhole` | of the build commands: `PipelineTypeOK`, `ReportsTrue`, `PiecesOfOneRun` |

A module of proofs covers what belongs together: `StrictBuildProofs` the strict
command and the tools it runs, `GeneratedCodeProofs` what is emitted into a wrapper
and into an executable, and the analysis of the module below the wrapper,
`BoundaryRejectionProofs` the decisions of code generation, `SigningRequestProofs` the
two stores of a signed build, `PublicationProofs` the two ways in which outputs reach
the user's directory, `BuildPipelineProofs` the commands and the strict executor that
make them.

**Counter.** None of the safety properties is inductive: `CountsExact` says
nothing of what a call in the middle of its read-modify-write is about to store.
The inductive invariant `IInv` adds: a call past its first step names a function
(`NamedInv`); the lock's owner is exactly the call inside the locked block
(`LockInv`); the threshold a call holds is one in force and not 0 (`LimitInv`,
`FreshInv`); what the owner read is still so when it uses it (`SlowPathInv`); a
crossing stored and not yet compared is not an admission (`LedgerInv`). Each
conjunct has its own step lemma with one case per action. `LockExcludes` (two
calls inside the block are one) carries `SlowPathStep`.

*Its refinement.* A crossing takes effect at the comparison or the latch that
settles it, not at the store; so the abstract counter is the concrete one less a
crossing that is still being decided (`SettledCrossings`), and a reset takes effect
at its second clear. The fast path takes effect at its read. With that mapping
every step is one abstract step or a stutter. This is the claim of the comment in
the source that a race with a concurrent insert "only costs one extra slow-path
check, never a wrong answer".

**Dispatch.** The histories of an activation must know the present (`HistoryInv`:
the mode, the exemption and the demotion of now are in `modes`, `exempt` and
`stale`), a slot lent to the counter belongs to the question it was lent for
(`AskInv`), and what the body has tested so far is justified by a moment it saw
(`LegInv`, `GateInv`).

**Import.** `LegInv` says what each place of the body has established about the leg,
`FaultInv` that the faults of the functions bound so far were warned of with debug
off at some moment, `OriginalInv` that each fallback module holds nothing,
originals or wrappers throughout, that what is captured, registered or published
as an original never is a wrapper, and that within one attempt wrappers appear
only at its end. The last needs `Recognizable`: there is a method, whose marker
makes a reload over wrappers fail before anything is captured, or there is neither
a reload nor a missing export. Without it the code captures wrappers (section 6).

**Final bindings.** What the scanner holds a name to be, the name is (`HeldIn`), and a
binder the table names ran last (`LastIn`); a statement keeps both because it rebinds
no more than the scanner makes of it (`Kept`, for every kind of statement). For a call
that is so because every function it enters is one that its summary went through
(`Along`): the scanner does not change while the call runs, and what a function is
about to call still is what the scanner held it to be, as no function rebinds
anything before the call it makes. No induction over calls is needed. A loop that runs
again does nothing new, since either its statements rebind nothing or all is given up
(`Looping`). `Summarized` has the two conditions: every function rebinds names only by
statements that its summary sees, after its call and under the name it spells; and
`~RebindInLoops`. `final_bindings` shows what happens without them.

**Rejection.** `RoundInv`: what the round has visited without a change holds of the
present verdict. `VerdictInv`: no consistent set has lost a member, the maximality
argument. `CrateInv`: the excluded functions are inside every closed set.

**Ownership.** Only names that the fixpoint over the aliases and links collected so far
would add hold an array of the caller (`AliasInv`), and every assignment of the block
that is scanned has left its link, so that running the block again adds no holder.

**Lowering.** Python's lists are objects that names and other lists refer to, Rust's are
values; both executions stay alike (`Alike`: every name is worth the same in both)
until a list is changed that two places refer to. `LowerInv` holds for all forms: every
name that is bound holds an object of its kind (`Objects`, `Named`), and what a loop
reads back was read before (`ReadSoFar`). `SameInRust` then has two cases.
`NothingMutates`: without a mutation, values and objects cannot be told apart, whatever
else the body does. `AllSeen`: the body is made of fresh lists, names, copies, displays,
appends and `return`, in branches and loops. There the list of a name that
the analysis has not seen shared is held by no other name, by no other list and not by
the caller (`Owning`), and what a loop's body does when it runs again has been noticed
when it was read (`Noticed`), so an append that is lowered changes what one name is
worth and no other. The condition is tight: with any
one of the other forms (`element`, `store`, `comprehension`, `result`) or with `try` as a
block, TLC finds a body of four statements on which the languages differ. The run
`boundary` checks the seen forms, with `try` around arrays only.

**Signing request.** Per call, what its program counter implies of its staging
entry, of the target and of durability (`Progress`, `Durable`). A call that
reports a receipt has the entry durable; one that refuses has seen another
request. The refinement maps a call to calling, committed or observed according to
what it has seen of the target.

**Publication.** Per call: where it is and what it has announced (`Progress`), what its
staging directory holds (`Staged`), and how what it captured relates to the inputs
(`Coherence`): a captured file is the present one or its input was rewritten since,
as a stamp is never used twice, and a capture that never was one state of the inputs
has such a file among those that are not captured again yet. So the second capture of
an incoherent bundle cannot end. `Made` is about the bundle under the name: whole,
private and made by a call that had verified it, or not of this program.

**Required outputs.** `EvidenceInv` follows three things through both transactions.
Where the step is decides what has been moved aside, linked, claimed and looked at
(`Placed`, `Claims`, `Looked`, `Backups`). A file of this build is at a path only after
its link (`Dated`). Every earlier output is in the backup, or still at its path, or was
overwritten by others, and from the moment it is moved until the rollback has dealt
with it never only at its path (`Earlier`, where `Past` says from when to when). Every
file of others is somewhere (`Found`), and `Undone` collects what the rollback has seen
of the outputs it is done with, which is what its report says at its end. The steps fall
into four families with a lemma each: a step forward that moves nothing
(`StaysForward`), the looking at an output (`Moved`), a failure, whatever raised it
(`Ready` is what a rollback needs, `Falls` that it suffices), and a step of a rollback
(`RollsOn`).

**Native output.** `NInv` has a part per argument. The locks order the calls
(`Holding`), so that a tree in the making is its holder's alone (`Owned`) and goes
through its stages as the code thinks (`Grown`, `Looked`, for as long as nobody else
changes files). That a tree which is confirmed was whole at one moment follows from
identities: files are read one after the other, twice, and a file that was not whole
under an identity never becomes whole under it (`Confirmed`). That reruns agree,
outages included, is `Lasting`: a transaction remembers who made its tree and who
made the output root; if both have come to their ends, the names are on disk
(`Rooted` for the root, which is synced before its maker seals) and what was sealed
still stands. If one of them died, an outage may take the tree, but then nobody can
seal it again as the same. `Quietly` is for refusals: to a call alone in its process,
the directories it opens without the lock look as it left them.

**Build tools.** A sweep of the group leaves nothing but a leader that cannot be killed,
and while that one lives nobody in the group can fork any more (`Swept`, `Clean`); what
was written is in the pipe or captured until something is thrown away (`Counted`), and
a reader that settles in time has seen the end of the pipe (`Settled`).

**Strict lifecycle.** `LInv` says where a command is in its script (`Placed`) and what the
comparisons so far have bound (`Bound`): the project's Python files by stamps that
tell about edits that were taken back, the tools between two looks, the support trees
from the builds to the walk after them unless an edit has put something back, everything
else by the memory of the run. `PublishedAsApproved` then needs no further look at the disk.
`CommitIsLast` adds that the bundle is as it was found up to the commit, and that no
quarantine is left whose removal could fail after it (`Committed`). `DecidedByProject`
takes a second invariant for a command that nobody disturbs: what the inputs were found
to be at the stages passed so far (`Observed`) and what the written files were
(`Accepted`), so that a stage that refuses contradicts `InOrder` and the last stage
implies it.

**Two builds.** The script is laid out once (`Layout`: which step does what, in each mode),
and a step's whole effect is one predicate (`Effect`), which the invariants use instead
of fifteen actions. `CaptureIsSnapshot` rests on `Passing`: a file that is the same in
both passes, and that did not return during the walk to what it had been, held that
content all the time in between, so one state between the passes equals both. For
`ReceiptTrue`, contents come back, so that a look says nothing of the past by itself. A
file of a copy that is as it was frozen, and has not been put back since the tool began
to read it, has been so ever since (`FileKept`, for support material `SupportKept`): a
fact that no later write can undo, because a write that would put the file back is
recorded. So what a look finds unchanged is what the tool had read, or is in `restored`
(`FileSeen`, `SupportSeen`), and the looks of a build, once passed, settle it for good
(`LookInv`, `RunInv`, `Settled`, `ReadsInv`). Where a product lies and who has replaced it
is apart from that: `PlaceInv` says in which places there is none yet, `ProductInv` that
what nobody exchanged is what the tool made, and `SameInv` what the comparisons of the
closing steps have shown equal.

**Build commands.** What is left of a command's script is a tail of the script
(`InScript`), so that its length, the command's distance from the end, says what has run.
The invariant states by that distance whose the generated tree and its copy are
(`Current`), that between the reset of the build report and its writing no artifact is
listed and what a stage reported built is this command's (`OwnResults`), and that a
script that ended has reported, with its own status (`Reported`). `Kept` then says of
every state, and so of one in which a command raised or was killed anywhere, that a
listed artifact is gone or of the run that lists it; `Whole` that no tree and no artifact
mixes two commands, which only the tree's distance can tell of a copy.

**Bridge.** A request or an answer is under way in one dispatcher at most, the one that
the client holds, and it is for the current call (`Working`, `Holding`); calls run in
their order, and a dispatcher that succeeded and is no longer held was lost to a later
call that said so (`History`).

**Arithmetic.** Uniqueness of quotient and remainder is proved from integer
arithmetic (`PythonRemUnique`), and the emitted remainder then shown to satisfy the
two laws.

The proofs have corrected the models in four places. In `StrictLifecycle` and
`BuildPipeline` a `CASE` had guards that overlap, for which TLC takes the first and the
language leaves the choice open; they are exclusive now. The type invariants of
`Publication` and `SubprocessBridge` were true and not inductive; they now bound the
stamps by the rewrites and the client's bridge by the dispatchers spawned. And in
`BuildPipeline` the stage that resets a report found the report's name by gluing strings,
of which the logic knows nothing; it is a table now (`Drop`). In `FinalBindings` loops
that must not rebind names could hold a star import or a call of a function that
rebinds some: `TableTrue` then fails, in modules of six statements, which the run's four
did not show.

## 6. Where code and documentation disagree

Two runs end in a violation; the findings in `PROJECT.json` quote both sides.

* `final_bindings`: the summary of a call promises the exact global names it rebinds,
  or unknown. It collects only assignments and `del` under a `global` statement at
  the top of the function, so names rebound by `:=`, `for`, `import`, `def`, `class`
  or a nested `global` are missing; a callee shadowed by a parameter is taken for
  the module's function, and so is one that the function itself has rebound; a loop's
  body is read once, with what the module held before it ran. The table then names a
  binder that did not run last.

* `native_lowering`: the ownership analysis looks at names assigned to names and at
  names inside displays, and not into `try`. It accepts functions that share a list
  through an element (`y = yss[0]; y.append(1)`), an append or a subscript assignment
  of a list that is mutated later, a comprehension, a call's result or a name bound
  in a `try`; Rust then mutates a copy, and the two languages return different lists.
  The documentation says that such functions stay in Python.

Further disagreements met while modelling, which no run shows:

* `runtime/boundary_call.py:39`: a boundary call counts against the built-in default,
  not the embedded threshold (REXTIO.md:469, 472). A project that embeds a larger one
  has functions demoted at the smaller. `Dispatch` has both thresholds; its run gives
  them one value.
* `wrapper_gen.py:883, 905`: after `importlib.reload`, or a retry after a missing
  export, the bootstrap captures the previous import's wrapper of a module-level
  shim and registers it as the exact original (original_registry.py:1, 5), when the
  module has no method. `Recognizable` excludes exactly this.
* `codegen/subprocess_dispatcher.py:183`: a delegated function that reads standard
  input reads the request pipe; client and dispatcher then wait for each other
  (docs/unsupported-features.md:831).
* `build/subprocess_utils.py:366` against 164: once the tool has ended, the capped
  reader stops after its drain allowance and reports the tool's exit code with
  truncated output, even when more than the cap had been written.
* `build/orchestrator.py:1508, 652`: what an incomplete rollback or a crash leaves in
  the backup directory is the only copy of the earlier outputs, and the next build's
  reset removes it (docs/source-aot-and-executables.md:178 says it is retained).
* A sidecar that another program writes during the build is taken for an earlier one
  by the inner transaction and destroyed at its commit, even when the outer one then
  rolls back and reports completeness (the same document, 171-173). `OthersKept`
  names the exception.
* `analyzer/boundary.py:203, 207`: a marked caller visited before its callee becomes a
  shim is rejected rather than promoted (docs/unsupported-features.md:297, 355;
  REXTIO.md:456); which one happens depends on the order of the names. `Monotone`
  excludes it.
* `build/full_c6_native_output.py:288`: the state directory and the root are opened,
  listed and compared before the lock on the root is held, so a process that adds an
  authority can make the materialization or a validation of an unrelated good
  transaction fail in another. Line 342: a call that takes over a tree or a root does
  not sync it, so its transaction may rest on names a loss of power undoes. Line 342
  again: a tree left incomplete by a crash is refused for ever, and such trees count
  towards the limit of 1024.
* `build/orchestrator.py:1953`: failures of a plugin or a profile do not clear the
  other reports, so a stale `generate.json` can stand beside a fresh `build.json`.

No disagreement, but a limit of what a strict build promises, which two properties name
as exceptions: between the two full walks of the executor
(`build/full_c6_executor.py:3051, 3104`) only critical leaves of the toolchain are looked
at (`build/full_c6_toolchain_support.py:1033`), and the private copies are compared by
content (4157). A member of a support tree, or a file of a copy, that is exchanged for a
build and put back is not noticed, and neither are equal bytes that others put in the
place of both products before they are taken. The documentation says where the walks are
and claims no more (docs/unsupported-features.md:445). `PublishedAsApproved` and
`ReceiptTrue` show that nothing else goes unnoticed.

## 7. What is only checked, and what is not modelled

Only model-checked, within the bounds of section 3:

* `TableTrue` for functions and loops outside of `Summarized`, where it is violated
  (section 6);
* `SameResult` for mutating bodies with forms that the ownership analysis does not look
  at, where it is violated (section 6);
* liveness (`CallsReturn`, `CallsAnswered`, `NoOrphans`, `Returns`), which the proof
  system does not support under fairness.

Inside the modelled parts, left out on purpose:

* the parsing of environment values (its outcomes are kept), logging and the
  wording of errors;
* a signal handler or finalizer that re-enters the counter while its own thread
  holds the lock (it would wait for itself; the source has no such code);
* two builds of one project at once, which nothing in the code excludes or detects:
  the two only meet other writers of single files (`EvidenceOutputs`, `TwoBuild`);
* in `BuildPipeline`, the steps inside a stage; the transaction of required evidence is
  there one outcome, and `EvidenceOutputs` is its inside;
* the contents of a bundle and the Ed25519 signature; file modes beyond
  private or not;
* in `StrictLifecycle`, two commands at once and an owner who edits `rextio.toml`, the
  license locks or the written files during a command (a command reads the
  configuration once); builds that differ without cause, which `TwoBuild` is about;
  the directories of the native output, which `NativeOutput` is about; the fields of
  a lineage, a coverage decision or a document, which are one value each;
* encoding of arguments and results over the pipe;
* the Windows branches of `run_build_tool` and of the output transactions;
* threads inside an import, which the import lock excludes;
* in `FinalBindings`, statements of class bodies other than rebindings of globals,
  accelerators and built-in decorators, `exec` of literals and scalar facts;
* in `NativeLowering`, dicts and sets beside lists (a subscript assignment is `store`),
  the values of items, blocks inside blocks, and loops over a list;
* in `CheckedArithmetic`, the helpers on floats, which the tools have no numbers for.

The parts of section 1.3 are not modelled at all.

## 8. Plan

1. *Done.* The counter with its abstract specification; dispatch over the abstract
   specification; import; the publication sinks over one abstract specification; the
   subprocess hybrid; build tools; evidence outputs; rejection; the two-build
   executor and the strict lifecycle around it; the build commands; final bindings;
   ownership; arithmetic; the native output. Proofs of every safety property of
   every passing run, and of every refinement.
2. Ownership of dicts and of loop targets in `NativeLowering`; precedence of
   configuration as operators.

No module declares a recursive operator, so every module can be proved about.

## 9. Running

In this directory, with TLC and tlapm on the path:

    tlc -workers 2 -config Counter.cfg MCBoundaryFallback
    tlapm BoundaryFallbackProofs.tla

`PROJECT.json` pairs every run with its module and configuration. The largest
run, `boundary`, takes two minutes; the largest proofs, `PublicationProofs`,
`BuildPipelineProofs` and `BoundaryRejectionProofs`, several minutes each.

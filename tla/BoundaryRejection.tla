------------------------- MODULE BoundaryRejection -------------------------
(***************************************************************************)
(* Which functions of a project are compiled.  analyzer/boundary.py first  *)
(* drops the candidates that fail a gate of their own and then visits the  *)
(* rest, in the order of their names, again and again until nothing        *)
(* changes: a function whose calls cannot be lowered is rejected, one that *)
(* calls a function routed through the Python runtime shim (RXT080) is     *)
(* routed there too, and a call to a function that stays in Python may     *)
(* cross the boundary.  The code generator then leaves out of a Rust crate *)
(* every accepted function that needs the interpreter, and its callers.    *)
(*                                                                         *)
(* The project is an input: any assignment of the given shapes and calls   *)
(* to the functions 1..N, whose order is the order of their names.         *)
(***************************************************************************)
EXTENDS Naturals

CONSTANTS N,        \* number of functions
          Shapes,   \* what a function may be
          Calls(_), \* the sets of calls the function f may make
          Modes     \* subset of {"in process", "delegate"}

Functions == 1..N
Nobody == 0         \* the target of a call that leaves the project

Flaws == {"errors", "stale", "mutated", "stale class", "resident"}
Shape == [candidate : BOOLEAN, marked : BOOLEAN, shim : BOOLEAN, method : BOOLEAN,
          flaws : SUBSET Flaws, scalar : BOOLEAN, plugin : {"none", "typed", "lowered"},
          keywordOnly : BOOLEAN, embeds : BOOLEAN]
Call  == {c \in [to : Functions \cup {Nobody}, via : {"project", "supported", "linked",
                       "claimed", "claim rejected", "package"},
                  scalars : BOOLEAN, fits : BOOLEAN, nested : Functions \cup {Nobody},
                  loop : BOOLEAN] : c.via = "project" => c.to # Nobody}

ASSUME BoundaryAssumption ==
  /\ N \in Nat /\ Shapes \subseteq Shape
  /\ \A f \in Functions : Calls(f) \subseteq SUBSET Call
  /\ Modes \subseteq {"in process", "delegate"}

VARIABLES
  shape, calls, mode,  \* the project and the kind of build, fixed
  accepted,            \* the candidates not rejected so far
  shim,                \* the functions routed through the runtime shim
  crossings,           \* crossings[f]: callees f reaches through the interpreter
  excluded,            \* the functions left out of a Rust crate
  pos, changed, phase  \* the loop: next function, anything changed, which loop

project == <<shape, calls, mode>>
vars    == <<project, accepted, shim, crossings, excluded, pos, changed, phase>>

Candidates == {f \in Functions : shape[f].candidate}

\* Reasons of its own to stay in Python: errors found while it was parsed, a
\* name (or class) of its module that ends up bound to something else or is
\* rebound from outside, an explicit export of a value Python cannot hold.
PassesGates(f) ==
  LET s == shape[f] IN
    /\ s.flaws \cap {"errors", "mutated"} = {}
    /\ IF s.method THEN "stale class" \notin s.flaws ELSE "stale" \notin s.flaws
    /\ ~ (s.marked /\ "resident" \in s.flaws)

Init ==
  /\ calls \in {c \in [Functions -> UNION {Calls(f) : f \in Functions}] :
                  \A f \in Functions : c[f] \in Calls(f)}
  /\ mode \in Modes /\ shape \in [Functions -> Shapes]
  /\ accepted = {f \in Candidates : PassesGates(f)}
  /\ shim = {f \in Functions : shape[f].shim}
  /\ crossings = [f \in Functions |-> {}]
  /\ excluded = {} /\ pos = 1 /\ changed = FALSE /\ phase = "boundary"

----------------------------------------------------------------------------
(* The calls of one function.                                              *)

InPython(g) == g \notin accepted

\* Mutant: an unmarked caller may cross in process too
MayCross_Unmarked(f, c) ==
  /\ c.via = "project" /\ ~ shape[c.to].embeds
  /\ InPython(c.to) /\ shape[c.to].scalar /\ c.scalars

\* A call with scalars on both sides may run in the interpreter: always in
\* the dispatcher of an executable, in process only for a marked caller.
MayCross(f, c) ==
  /\ c.via = "project" /\ ~ shape[c.to].embeds
  /\ InPython(c.to) /\ shape[c.to].scalar /\ c.scalars
  /\ mode = "delegate" \/ shape[f].marked

\* A native call has the callee's exact arity and argument types, and the
\* type of a nested call is known only if that one is lowered too.
Compatible(c) ==
  /\ ~ shape[c.to].keywordOnly /\ c.fits
  /\ c.nested # Nobody => c.nested \in accepted \ shim

IsError(f, c) ==
  \/ c.via \in {"claim rejected", "package"}
  \/ /\ c.via = "project"
     /\ CASE shape[c.to].embeds -> ~ Compatible(c)
          [] MayCross(f, c)     -> mode = "in process" /\ c.loop
          [] OTHER              -> \/ InPython(c.to)
                                   \/ shape[c.to].plugin = "typed"
                                   \/ ~ Compatible(c)

RuntimeDependencies(f) ==
  {c.to : c \in calls[f]} \cap accepted \cap shim

Crossed(f) == {c.to : c \in {d \in calls[f] : MayCross(f, d) /\ ~ IsError(f, d)}}

(* One function of one round.                                              *)

Visiting(f, loop) == phase = loop /\ pos = f

Skip(f) ==
  /\ Visiting(f, "boundary")
  /\ f \notin accepted \/ (f \in shim)
  /\ pos' = pos + 1
  /\ UNCHANGED <<project, accepted, shim, crossings, excluded, changed, phase>>

\* A marked function inherits the shim; another one is rejected.
InheritShim(f) ==
  /\ Visiting(f, "boundary") /\ f \in accepted \ shim
  /\ RuntimeDependencies(f) # {}
  /\ IF shape[f].marked
     THEN shim' = shim \cup {f} /\ UNCHANGED accepted
     ELSE accepted' = accepted \ {f} /\ UNCHANGED shim
  /\ pos' = pos + 1 /\ changed' = TRUE
  /\ UNCHANGED <<project, crossings, excluded, phase>>

\* Mutant: a rejection does not ask for another round
CheckCalls_OneRound(f) ==
  /\ Visiting(f, "boundary") /\ f \in accepted \ shim
  /\ RuntimeDependencies(f) = {}
  /\ crossings' = [crossings EXCEPT ![f] = @ \cup Crossed(f)]
  /\ accepted' = IF \E c \in calls[f] : IsError(f, c) THEN accepted \ {f} ELSE accepted
  /\ pos' = pos + 1
  /\ UNCHANGED <<project, shim, excluded, changed, phase>>

CheckCalls(f) ==
  /\ Visiting(f, "boundary") /\ f \in accepted \ shim
  /\ RuntimeDependencies(f) = {}
  /\ crossings' = [crossings EXCEPT ![f] = @ \cup Crossed(f)]
  /\ IF \E c \in calls[f] : IsError(f, c)
     THEN accepted' = accepted \ {f} /\ changed' = TRUE
     ELSE UNCHANGED <<accepted, changed>>
  /\ pos' = pos + 1
  /\ UNCHANGED <<project, shim, excluded, phase>>

NeedsInterpreter(f) ==
  \/ f \in shim
  \/ mode = "in process" /\ crossings[f] # {}
  \/ shape[f].plugin = "lowered"

\* Another round, or on to what a crate cannot hold.
EndOfRound ==
  /\ phase = "boundary" /\ pos = N + 1
  /\ pos' = 1 /\ changed' = FALSE
  /\ IF changed THEN UNCHANGED <<phase, excluded>>
     ELSE /\ phase' = "exclude"
          /\ excluded' = {f \in accepted : NeedsInterpreter(f)}
  /\ UNCHANGED <<project, accepted, shim, crossings>>

(* The crate: callers of what is excluded are excluded.                    *)

\* Mutant: an exclusion does not ask for another round
Exclude_OneRound(f) ==
  /\ Visiting(f, "exclude")
  /\ excluded' = IF f \in accepted /\ {c.to : c \in calls[f]} \cap excluded # {}
                 THEN excluded \cup {f} ELSE excluded
  /\ pos' = pos + 1
  /\ UNCHANGED <<project, accepted, shim, crossings, changed, phase>>

Exclude(f) ==
  /\ Visiting(f, "exclude")
  /\ IF f \in accepted \ excluded /\ {c.to : c \in calls[f]} \cap excluded # {}
     THEN excluded' = excluded \cup {f} /\ changed' = TRUE
     ELSE UNCHANGED <<excluded, changed>>
  /\ pos' = pos + 1
  /\ UNCHANGED <<project, accepted, shim, crossings, phase>>

EndOfExclusion ==
  /\ phase = "exclude" /\ pos = N + 1
  /\ pos' = 1 /\ changed' = FALSE
  /\ phase' = IF changed THEN "exclude" ELSE "done"
  /\ UNCHANGED <<project, accepted, shim, crossings, excluded>>

Next ==
  \/ EndOfRound \/ EndOfExclusion
  \/ \E f \in Functions : Skip(f) \/ InheritShim(f) \/ CheckCalls(f) \/ Exclude(f)

Spec == Init /\ [][Next]_vars

----------------------------------------------------------------------------
(* Properties.                                                             *)

BoundaryTypeOK ==
  /\ accepted \subseteq Candidates /\ shim \subseteq Functions
  /\ crossings \in [Functions -> SUBSET Functions] /\ excluded \subseteq Functions
  /\ pos \in 1..(N + 1) /\ changed \in BOOLEAN
  /\ phase \in {"boundary", "exclude", "done"}

Settled == phase # "boundary"

\* Once the loop has settled, a function compiled to plain Rust calls only
\* what such code can call: a function that is compiled to plain Rust too, an
\* embedded helper, or, for one that stays in Python, a recorded crossing.
LoweredCallsHold ==
  Settled => \A f \in accepted \ shim : \A c \in calls[f] :
    c.via = "project" =>
      \/ c.to \in accepted \ shim
      \/ shape[c.to].embeds
      \/ c.to \in crossings[f] /\ InPython(c.to) /\ shape[c.to].scalar

\* A set of functions that could all be compiled together, if no function
\* took part in the shim: each passes its gates and has no call in error.
Consistent(s) ==
  \A f \in s : /\ f \in Candidates /\ PassesGates(f)
               /\ \A c \in calls[f] :
                    /\ c.via \notin {"claim rejected", "package"}
                    /\ c.via = "project" =>
                         LET native == /\ ~ shape[c.to].keywordOnly /\ c.fits
                                       /\ c.nested \in s \cup {Nobody}
                             crossing == /\ shape[c.to].scalar /\ c.scalars
                                         /\ mode = "delegate" \/ shape[f].marked
                                         /\ mode = "in process" => ~ c.loop
                         IN  IF c.to \in s \/ shape[c.to].embeds
                             THEN native /\ (~ shape[c.to].embeds => shape[c.to].plugin # "typed")
                             ELSE crossing

\* The verdict is the largest consistent set, so that no function is rejected
\* needlessly and the order of the names does not matter, as long as a
\* rejection cannot help a caller: no shim is involved, and a function that
\* may cross the boundary makes no call that would fail natively.
Monotone ==
  /\ shim = {}
  /\ \A f \in Functions : mode = "delegate" \/ shape[f].marked =>
       \A c \in calls[f] : c.via = "project" =>
         /\ c.fits /\ c.nested = Nobody
         /\ ~ shape[c.to].keywordOnly /\ shape[c.to].plugin # "typed"

VerdictIsLargest ==
  Settled /\ Monotone =>
    accepted = UNION {s \in SUBSET Candidates : Consistent(s)}

\* A crate leaves out the functions that need the interpreter, every accepted
\* caller of one it leaves out, and nothing else, whatever the cycles.
ClosedUnderCallers(x) ==
  /\ {f \in accepted : NeedsInterpreter(f)} \subseteq x
  /\ \A f \in accepted : {c.to : c \in calls[f]} \cap x # {} => f \in x

CrateExactly ==
  phase = "done" =>
    /\ ClosedUnderCallers(excluded)
    /\ \A x \in SUBSET excluded : ClosedUnderCallers(x) => x = excluded

=============================================================================

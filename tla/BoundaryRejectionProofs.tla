----------------------- MODULE BoundaryRejectionProofs -----------------------
(***************************************************************************)
(* The verdicts of the boundary loop and the exclusions of a crate, for    *)
(* projects of any size and shape.  Both loops end with a round that       *)
(* changed nothing: the inductive invariants say what such a round has     *)
(* found out about the functions it has visited so far.  And inside one    *)
(* function, for bodies of any length over any names: the array of a       *)
(* caller never escapes from what is lowered, and the lists are worth the  *)
(* same in Rust as in Python, if the body is made of what the analysis     *)
(* looks at.                                                               *)
(***************************************************************************)
EXTENDS BoundaryRejection, NativeLowering, TLAPS

\* What the project is, and how far the loops are.
Typed ==
  /\ BoundaryTypeOK
  /\ shape \in [Functions -> Shape]
  /\ calls \in [Functions -> SUBSET Call]
  /\ mode \in {"in process", "delegate"}

LEMMA Size == N \in Nat
BY BoundaryAssumption

LEMMA TypedInit == Init => Typed
<1> SUFFICES ASSUME Init PROVE Typed
  OBVIOUS
<1>1. calls \in [Functions -> SUBSET Call]
  <2>1. calls \in [Functions -> UNION {Calls(f) : f \in Functions}]
        /\ \A f \in Functions : calls[f] \in Calls(f)
    BY DEF Init
  <2>2. \A f \in Functions : calls[f] \in SUBSET Call
    BY <2>1, BoundaryAssumption
  <2> QED
    BY <2>1, <2>2
<1>2. shape \in [Functions -> Shape] /\ mode \in {"in process", "delegate"}
  BY BoundaryAssumption DEF Init
<1>3. BoundaryTypeOK
  <2>1. accepted \subseteq Candidates /\ shim \subseteq Functions
    BY DEF Init, Candidates
  <2>2. /\ crossings \in [Functions -> SUBSET Functions] /\ excluded \subseteq Functions
        /\ pos \in 1..(N + 1) /\ phase \in {"boundary", "exclude", "done"}
    BY Size DEF Init
  <2>3. changed \in BOOLEAN
    BY DEF Init
  <2> QED
    BY <2>1, <2>2, <2>3 DEF BoundaryTypeOK
<1> QED
  BY <1>1, <1>2, <1>3 DEF Typed

LEMMA TypedStep == Typed /\ [Next]_vars => Typed'
<1> SUFFICES ASSUME Typed, [Next]_vars PROVE Typed'
  OBVIOUS
<1> DEFINE Sets   == /\ accepted \subseteq Candidates /\ shim \subseteq Functions
                     /\ crossings \in [Functions -> SUBSET Functions]
                     /\ excluded \subseteq Functions
           Where  == pos \in 1..(N + 1) /\ phase \in {"boundary", "exclude", "done"}
           Fixed  == /\ shape \in [Functions -> Shape]
                     /\ calls \in [Functions -> SUBSET Call]
                     /\ mode \in {"in process", "delegate"}
<1>1. Sets /\ Where /\ Fixed /\ changed \in BOOLEAN
  BY DEF Typed, BoundaryTypeOK
<1>2. UNCHANGED project => Fixed' /\ Candidates' = Candidates
  BY <1>1 DEF project, Candidates
<1>3. ASSUME Sets', Where', Fixed', (changed \in BOOLEAN)' PROVE Typed'
  BY <1>3 DEF Typed, BoundaryTypeOK
<1> HIDE DEF Fixed
<1>4. CASE EndOfRound
  <2>1. Sets' /\ Fixed'
    BY <1>1, <1>2, <1>4 DEF EndOfRound, Candidates
  <2>2. Where'
    BY <1>1, <1>4, Size DEF EndOfRound
  <2>3. changed' \in BOOLEAN
    BY <1>1, <1>4 DEF EndOfRound
  <2> QED
    BY <2>1, <2>2, <2>3, <1>3
<1>5. CASE EndOfExclusion
  <2>1. Sets' /\ Fixed'
    BY <1>1, <1>2, <1>5 DEF EndOfExclusion
  <2>2. Where'
    BY <1>1, <1>5, Size DEF EndOfExclusion
  <2>3. changed' \in BOOLEAN
    BY <1>1, <1>5 DEF EndOfExclusion
  <2> QED
    BY <2>1, <2>2, <2>3, <1>3
<1>6. ASSUME NEW f \in Functions, Skip(f) PROVE Typed'
  <2>1. Sets' /\ Fixed'
    BY <1>1, <1>2, <1>6 DEF Skip
  <2>2. Where' /\ (changed \in BOOLEAN)'
    BY <1>1, <1>6, Size DEF Skip, Visiting, Functions
  <2> QED
    BY <2>1, <2>2, <1>3
<1>7. ASSUME NEW f \in Functions, InheritShim(f) PROVE Typed'
  <2>1. Sets' /\ Fixed'
    BY <1>1, <1>2, <1>7 DEF InheritShim
  <2>2. Where' /\ (changed \in BOOLEAN)'
    BY <1>1, <1>7, Size DEF InheritShim, Visiting, Functions
  <2> QED
    BY <2>1, <2>2, <1>3
<1>8. ASSUME NEW f \in Functions, CheckCalls(f) PROVE Typed'
  <2>1. Crossed(f) \subseteq Functions
    <3>1. ASSUME NEW c \in calls[f], MayCross(f, c) PROVE c.to \in Functions
      <4>1. c \in Call /\ c.via = "project"
        BY <1>1, <3>1 DEF Fixed, MayCross
      <4> QED
        BY <4>1 DEF Call
    <3> QED
      BY <3>1 DEF Crossed
  <2>2. (crossings \in [Functions -> SUBSET Functions])'
    BY <1>1, <1>8, <2>1 DEF CheckCalls
  <2>3. Sets' /\ Fixed'
    BY <1>1, <1>2, <1>8, <2>2 DEF CheckCalls
  <2>4. Where'
    BY <1>1, <1>8, Size DEF CheckCalls, Visiting, Functions
  <2>5. changed' \in BOOLEAN
    BY <1>1, <1>8 DEF CheckCalls
  <2> QED
    BY <2>3, <2>4, <2>5, <1>3
<1>9. ASSUME NEW f \in Functions, Exclude(f) PROVE Typed'
  <2>1. Sets' /\ Fixed'
    BY <1>1, <1>2, <1>9 DEF Exclude
  <2>2. Where'
    BY <1>1, <1>9, Size DEF Exclude, Visiting, Functions
  <2>3. changed' \in BOOLEAN
    BY <1>1, <1>9 DEF Exclude
  <2> QED
    BY <2>1, <2>2, <2>3, <1>3
<1>10. CASE UNCHANGED vars
  BY <1>1, <1>2, <1>3, <1>10 DEF vars
<1> QED
  BY <1>4, <1>5, <1>6, <1>7, <1>8, <1>9, <1>10 DEF Next

\* The state of the loops has its types, and what is accepted is a candidate.
THEOREM BoundaryTyped == Spec => []BoundaryTypeOK
<1>1. Typed => BoundaryTypeOK
  BY DEF Typed
<1> QED
  BY TypedInit, TypedStep, <1>1, PTL DEF Spec

------------------------------------------------------------------------------
(* What a visit finds out about a function that it leaves alone.            *)
CallsHold(f) ==
  /\ RuntimeDependencies(f) = {}
  /\ \A c \in calls[f] : ~ IsError(f, c)
  /\ Crossed(f) \subseteq crossings[f]

\* Every function visited in a round without a change, and in the end every one.
RoundInv ==
  \A f \in accepted \ shim :
    (phase = "boundary" => ~ changed /\ f < pos) => CallsHold(f)

LEMMA RoundInit == Init => RoundInv
BY Size DEF Init, RoundInv, Candidates, Functions

LEMMA RoundStep == Typed /\ RoundInv /\ [Next]_vars => RoundInv'
<1> SUFFICES ASSUME Typed, RoundInv, [Next]_vars PROVE RoundInv'
  OBVIOUS
<1> USE Size
<1>1. ASSUME UNCHANGED <<project, accepted, shim, crossings>>, NEW f \in Functions, CallsHold(f)
      PROVE  CallsHold(f)'
  <2>1. RuntimeDependencies(f)' = RuntimeDependencies(f) /\ calls' = calls /\ crossings' = crossings
    BY <1>1 DEF project, RuntimeDependencies
  <2>2. \A c : IsError(f, c)' = IsError(f, c) /\ MayCross(f, c)' = MayCross(f, c)
    BY <1>1 DEF project, IsError, MayCross, InPython, Compatible
  <2>3. Crossed(f)' = Crossed(f)
    BY <2>1, <2>2 DEF Crossed
  <2> QED
    BY <1>1, <2>1, <2>2, <2>3 DEF CallsHold
<1>2. accepted \subseteq Functions /\ (accepted \subseteq Functions)'
  BY TypedStep DEF Typed, BoundaryTypeOK, Candidates
<1>3. CASE EndOfRound
  BY <1>1, <1>2, <1>3 DEF EndOfRound, RoundInv, Functions
<1>4. CASE EndOfExclusion
  BY <1>1, <1>2, <1>4 DEF EndOfExclusion, RoundInv, Functions
<1>5. ASSUME NEW f \in Functions, Skip(f) PROVE RoundInv'
  BY <1>1, <1>2, <1>5 DEF Skip, Visiting, RoundInv, Functions
<1>6. ASSUME NEW f \in Functions, InheritShim(f) PROVE RoundInv'
  BY <1>6 DEF InheritShim, Visiting, RoundInv
<1>7. ASSUME NEW f \in Functions, CheckCalls(f) PROVE RoundInv'
  <2>1. CASE \E c \in calls[f] : IsError(f, c)
    BY <1>7, <2>1 DEF CheckCalls, Visiting, RoundInv
  <2>2. CASE ~ \E c \in calls[f] : IsError(f, c)
    <3>1. /\ UNCHANGED <<project, accepted, shim, phase, changed>>
          /\ crossings' = [crossings EXCEPT ![f] = @ \cup Crossed(f)]
          /\ phase = "boundary" /\ pos = f /\ pos' = pos + 1
          /\ RuntimeDependencies(f) = {}
      BY <1>7, <2>2 DEF CheckCalls, Visiting
    <3>2. /\ \A g \in Functions : crossings[g] \subseteq crossings'[g]
          /\ Crossed(f) \subseteq crossings'[f]
      BY <3>1 DEF Typed, BoundaryTypeOK
    <3>3. \A g \in Functions : /\ Crossed(g)' = Crossed(g)
                               /\ RuntimeDependencies(g)' = RuntimeDependencies(g)
                               /\ \A c \in calls[g] : IsError(g, c)' = IsError(g, c)
      <4> SUFFICES ASSUME NEW g \in Functions
                   PROVE  /\ Crossed(g)' = Crossed(g)
                          /\ RuntimeDependencies(g)' = RuntimeDependencies(g)
                          /\ \A c \in calls[g] : IsError(g, c)' = IsError(g, c)
        OBVIOUS
      <4>1. RuntimeDependencies(g)' = RuntimeDependencies(g)
        BY <3>1 DEF project, RuntimeDependencies
      <4>2. \A c \in calls[g] : IsError(g, c)' = IsError(g, c)
        BY <3>1 DEF project, IsError, MayCross, InPython, Compatible
      <4>3. Crossed(g)' = Crossed(g)
        BY <3>1, <4>2 DEF project, Crossed, IsError, MayCross, InPython, Compatible
      <4> QED
        BY <4>1, <4>2, <4>3
    <3>4. ASSUME NEW g \in accepted' \ shim', ~ changed', g < pos' PROVE CallsHold(g)'
      <4>1. CASE g = f
        BY <2>2, <3>1, <3>2, <3>3, <4>1, <1>2 DEF CallsHold, project
      <4>2. CASE g # f
        <5>1. g < pos
          BY <3>1, <3>4, <4>2, <1>2 DEF Functions
        <5>2. CallsHold(g)
          BY <5>1, <3>1, <3>4 DEF RoundInv
        <5> QED
          BY <5>2, <3>1, <3>2, <3>3, <1>2 DEF CallsHold, project
      <4> QED
        BY <4>1, <4>2
    <3> QED
      BY <3>1, <3>4 DEF RoundInv
  <2> QED
    BY <2>1, <2>2
<1>8. ASSUME NEW f \in Functions, Exclude(f) PROVE RoundInv'
  BY <1>1, <1>2, <1>8 DEF Exclude, Visiting, RoundInv
<1>9. CASE UNCHANGED vars
  BY <1>1, <1>2, <1>9 DEF vars, RoundInv
<1> QED
  BY <1>3, <1>4, <1>5, <1>6, <1>7, <1>8, <1>9 DEF Next

\* A function compiled to plain Rust only calls what plain Rust can call.
THEOREM LoweredCalls == Spec => []LoweredCallsHold
<1>1. Typed /\ RoundInv => LoweredCallsHold
  <2> SUFFICES ASSUME Typed, RoundInv, Settled, NEW f \in accepted \ shim, NEW c \in calls[f],
                      c.via = "project", ~ shape[c.to].embeds
               PROVE  \/ c.to \in accepted \ shim
                      \/ c.to \in crossings[f] /\ InPython(c.to) /\ shape[c.to].scalar
    BY DEF LoweredCallsHold
  <2>1. CallsHold(f)
    BY DEF RoundInv, Settled
  <2>2. CASE MayCross(f, c)
    BY <2>1, <2>2 DEF CallsHold, Crossed, MayCross
  <2>3. CASE ~ MayCross(f, c)
    BY <2>1, <2>3 DEF CallsHold, IsError, InPython, RuntimeDependencies
  <2> QED
    BY <2>2, <2>3
<1> QED
  BY TypedInit, TypedStep, RoundInit, RoundStep, <1>1, PTL DEF Spec

------------------------------------------------------------------------------
(* Once settled, the verdict is the largest consistent set.  Every          *)
(* consistent set stays accepted, whatever the order of the visits, and the *)
(* last round shows that what is left is consistent itself.                 *)
VerdictInv ==
  /\ \A f \in accepted : PassesGates(f)
  /\ Monotone => \A s \in SUBSET Candidates : Consistent(s) => s \subseteq accepted

LEMMA VerdictInit == Init => VerdictInv
BY DEF Init, VerdictInv, Consistent

\* A call in error leaves no consistent set around its caller.
LEMMA ErrorExcludes ==
  ASSUME Typed, Monotone, NEW s \in SUBSET accepted, Consistent(s),
         NEW f \in accepted, NEW c \in calls[f], IsError(f, c)
  PROVE  f \notin s
<1> SUFFICES ASSUME f \in s PROVE FALSE
  OBVIOUS
<1>1. f \in Functions /\ c \in Call /\ mode \in {"in process", "delegate"}
  BY DEF Typed, BoundaryTypeOK, Candidates
<1>2. c.via \notin {"claim rejected", "package"}
  BY DEF Consistent
<1>3. c.via = "project"
  BY <1>2 DEF IsError
<1>4. shim = {}
  BY DEF Monotone
<1>5. CASE shape[c.to].embeds
  <2>1. Compatible(c)
    BY <1>3, <1>4, <1>5 DEF Consistent, Compatible
  <2> QED
    BY <1>2, <1>5, <2>1 DEF IsError, MayCross
<1>6. CASE ~ shape[c.to].embeds /\ MayCross(f, c)
  <2>1. mode = "in process" /\ c.loop
    BY <1>2, <1>6 DEF IsError
  <2>2. c.to \notin s
    BY <1>6 DEF MayCross, InPython
  <2> QED
    BY <1>3, <1>6, <2>1, <2>2 DEF Consistent
<1>7. CASE ~ shape[c.to].embeds /\ ~ MayCross(f, c)
  <2>1. InPython(c.to) \/ shape[c.to].plugin = "typed" \/ ~ Compatible(c)
    BY <1>2, <1>7 DEF IsError
  <2>2. CASE c.to \in s
    <3>1. /\ ~ shape[c.to].keywordOnly /\ c.fits /\ c.nested \in s \cup {Nobody}
          /\ shape[c.to].plugin # "typed"
      BY <1>3, <1>7, <2>2 DEF Consistent
    <3> QED
      BY <1>4, <2>1, <2>2, <3>1 DEF Compatible, InPython
  <2>3. CASE c.to \notin s
    <3>1. /\ shape[c.to].scalar /\ c.scalars
          /\ mode = "delegate" \/ shape[f].marked
      BY <1>3, <1>7, <2>3 DEF Consistent
    <3>2. c.to \in accepted
      BY <1>3, <1>7, <3>1 DEF MayCross, InPython
    <3>3. /\ c.fits /\ c.nested = Nobody
          /\ ~ shape[c.to].keywordOnly /\ shape[c.to].plugin # "typed"
      BY <1>1, <1>3, <3>1 DEF Monotone
    <3> QED
      BY <2>1, <3>2, <3>3 DEF Compatible, InPython
  <2> QED
    BY <2>2, <2>3
<1> QED
  BY <1>5, <1>6, <1>7

LEMMA VerdictStep == Typed /\ VerdictInv /\ [Next]_vars => VerdictInv'
<1> SUFFICES ASSUME Typed, VerdictInv, [Next]_vars PROVE VerdictInv'
  OBVIOUS
<1>1. UNCHANGED project
  BY DEF Next, vars, EndOfRound, EndOfExclusion, Skip, InheritShim, CheckCalls, Exclude
<1>2. /\ Candidates' = Candidates
      /\ \A f \in Functions : PassesGates(f)' = PassesGates(f)
      /\ \A s : Consistent(s)' = Consistent(s)
  BY <1>1 DEF project, Candidates, PassesGates, Consistent
<1>3. UNCHANGED shim => Monotone' = Monotone
  BY <1>1 DEF project, Monotone
<1>4. accepted \subseteq Functions
  BY DEF Typed, BoundaryTypeOK, Candidates
<1>5. ASSUME UNCHANGED <<accepted, shim>> PROVE VerdictInv'
  BY <1>2, <1>3, <1>4, <1>5 DEF VerdictInv
<1>6. CASE EndOfRound \/ EndOfExclusion \/ UNCHANGED vars
  BY <1>5, <1>6 DEF EndOfRound, EndOfExclusion, vars
<1>7. ASSUME NEW f \in Functions, Skip(f) \/ Exclude(f) PROVE VerdictInv'
  BY <1>5, <1>7 DEF Skip, Exclude
<1>8. ASSUME NEW f \in Functions, InheritShim(f) PROVE VerdictInv'
  <2>1. accepted' \subseteq accepted /\ shim' # {}
    BY <1>8 DEF InheritShim, RuntimeDependencies
  <2>2. ~ Monotone'
    BY <2>1 DEF Monotone
  <2> QED
    BY <1>2, <1>4, <2>1, <2>2 DEF VerdictInv
<1>9. ASSUME NEW f \in Functions, CheckCalls(f) PROVE VerdictInv'
  <2>1. UNCHANGED shim /\ (UNCHANGED accepted \/
          (accepted' = accepted \ {f} /\ f \in accepted /\ \E c \in calls[f] : IsError(f, c)))
    BY <1>9 DEF CheckCalls
  <2>2. CASE UNCHANGED accepted
    BY <1>5, <2>1, <2>2
  <2>3. CASE accepted' = accepted \ {f} /\ f \in accepted /\ \E c \in calls[f] : IsError(f, c)
    <3>1. ASSUME Monotone, NEW s \in SUBSET Candidates, Consistent(s) PROVE s \subseteq accepted'
      <4>1. s \in SUBSET accepted
        BY <3>1 DEF VerdictInv
      <4>2. f \notin s
        BY <2>3, <3>1, <4>1, ErrorExcludes
      <4> QED
        BY <2>3, <4>1, <4>2
    <3>2. \A g \in accepted' : PassesGates(g)
      BY <2>3 DEF VerdictInv
    <3> QED
      BY <1>2, <1>3, <1>4, <2>1, <2>3, <3>1, <3>2 DEF VerdictInv
  <2> QED
    BY <2>1, <2>2, <2>3
<1> QED
  BY <1>6, <1>7, <1>8, <1>9 DEF Next

\* The verdict of a settled loop is the largest consistent set of candidates, so
\* that no function is rejected needlessly and the order of names is irrelevant.
THEOREM VerdictLargest == Spec => []VerdictIsLargest
<1>1. Typed /\ RoundInv /\ VerdictInv => VerdictIsLargest
  <2> SUFFICES ASSUME Typed, RoundInv, VerdictInv, Settled, Monotone
               PROVE  accepted = UNION {s \in SUBSET Candidates : Consistent(s)}
    BY DEF VerdictIsLargest
  <2>1. accepted \in SUBSET Candidates /\ shim = {}
    BY DEF Typed, BoundaryTypeOK, Monotone
  <2>2. Consistent(accepted)
    <3> SUFFICES ASSUME NEW f \in accepted, NEW c \in calls[f]
                 PROVE  /\ c.via \notin {"claim rejected", "package"}
                        /\ c.via = "project" =>
                             LET native == /\ ~ shape[c.to].keywordOnly /\ c.fits
                                           /\ c.nested \in accepted \cup {Nobody}
                                 crossing == /\ shape[c.to].scalar /\ c.scalars
                                             /\ mode = "delegate" \/ shape[f].marked
                                             /\ mode = "in process" => ~ c.loop
                             IN  IF c.to \in accepted \/ shape[c.to].embeds
                                 THEN native /\ (~ shape[c.to].embeds => shape[c.to].plugin # "typed")
                                 ELSE crossing
      BY <2>1 DEF Consistent, VerdictInv
    <3>1. ~ IsError(f, c)
      BY <2>1 DEF RoundInv, Settled, CallsHold
    <3>2. c.via \notin {"claim rejected", "package"}
      BY <3>1 DEF IsError
    <3>3. CASE shape[c.to].embeds /\ c.via = "project"
      BY <2>1, <3>1, <3>2, <3>3 DEF IsError, MayCross, Compatible
    <3>4. CASE ~ shape[c.to].embeds /\ c.via = "project" /\ c.to \in accepted
      <4>1. ~ MayCross(f, c)
        BY <3>4 DEF MayCross, InPython
      <4> QED
        BY <2>1, <3>1, <3>2, <3>4, <4>1 DEF IsError, Compatible
    <3>5. CASE ~ shape[c.to].embeds /\ c.via = "project" /\ c.to \notin accepted
      <4>1. MayCross(f, c)
        BY <3>1, <3>5 DEF IsError, InPython
      <4>2. ~ (mode = "in process" /\ c.loop)
        BY <3>1, <3>5, <4>1 DEF IsError
      <4> QED
        BY <3>2, <3>5, <4>1, <4>2 DEF MayCross
    <3> QED
      BY <3>2, <3>3, <3>4, <3>5
  <2>3. \A s \in SUBSET Candidates : Consistent(s) => s \subseteq accepted
    BY DEF VerdictInv
  <2> QED
    BY <2>1, <2>2, <2>3
<1> QED
  BY TypedInit, TypedStep, RoundInit, RoundStep, VerdictInit, VerdictStep, <1>1, PTL DEF Spec

------------------------------------------------------------------------------
(* The crate: what is excluded belongs to every set that is closed under    *)
(* callers, and the last round shows that it is closed itself.              *)
Callees(f) == {c.to : c \in calls[f]}

CrateInv ==
  phase # "boundary" =>
    /\ excluded \subseteq accepted
    /\ {f \in accepted : NeedsInterpreter(f)} \subseteq excluded
    /\ \A x : ClosedUnderCallers(x) => excluded \subseteq x
    /\ \A f \in accepted \ excluded :
         (phase = "exclude" => ~ changed /\ f < pos) => Callees(f) \cap excluded = {}

LEMMA CrateInit == Init => CrateInv
BY DEF Init, CrateInv

LEMMA CrateStep == Typed /\ CrateInv /\ [Next]_vars => CrateInv'
<1> SUFFICES ASSUME Typed, CrateInv, [Next]_vars PROVE CrateInv'
  OBVIOUS
<1>1. ASSUME UNCHANGED <<project, accepted, shim, crossings>>
      PROVE  /\ \A f \in Functions : Callees(f)' = Callees(f)
             /\ {f \in accepted : NeedsInterpreter(f)}' = {f \in accepted : NeedsInterpreter(f)}
             /\ \A x : ClosedUnderCallers(x)' = ClosedUnderCallers(x)
  BY <1>1 DEF project, Callees, NeedsInterpreter, ClosedUnderCallers
<1>2. accepted \subseteq Functions
  BY DEF Typed, BoundaryTypeOK, Candidates
<1>3. ASSUME UNCHANGED vars PROVE CrateInv'
  BY <1>1, <1>2, <1>3 DEF vars, CrateInv
<1>4. CASE EndOfRound
  <2>1. CASE changed
    BY <1>4, <2>1 DEF EndOfRound, CrateInv
  <2>2. CASE ~ changed
    <3>1. /\ UNCHANGED <<project, accepted, shim, crossings>> /\ pos' = 1
          /\ phase' = "exclude" /\ excluded' = {f \in accepted : NeedsInterpreter(f)}
      BY <1>4, <2>2 DEF EndOfRound
    <3>2. \A x : ClosedUnderCallers(x) => excluded' \subseteq x
      BY <3>1 DEF ClosedUnderCallers
    <3>3. \A f \in accepted : ~ (f < 1)
      BY <1>2, Size DEF Functions
    <3> QED
      BY <1>1, <3>1, <3>2, <3>3 DEF CrateInv
  <2> QED
    BY <2>1, <2>2
<1>5. CASE EndOfExclusion
  <2>1. /\ UNCHANGED <<project, accepted, shim, crossings, excluded>>
        /\ phase = "exclude" /\ pos = N + 1 /\ pos' = 1
        /\ changed => phase' = "exclude"
        /\ phase' \in {"exclude", "done"}
    BY <1>5 DEF EndOfExclusion
  <2>2. \A f \in accepted : f < N + 1 /\ ~ (f < 1)
    BY <1>2, Size DEF Functions
  <2>3. \A f \in accepted \ excluded : phase' # "exclude" => Callees(f) \cap excluded = {}
    BY <2>1, <2>2 DEF CrateInv
  <2> QED
    BY <1>1, <1>2, <2>1, <2>2, <2>3 DEF CrateInv
<1>6. ASSUME NEW f \in Functions, Skip(f) \/ InheritShim(f) \/ CheckCalls(f) PROVE CrateInv'
  BY <1>6 DEF Skip, InheritShim, CheckCalls, Visiting, CrateInv
<1>7. ASSUME NEW f \in Functions, Exclude(f) PROVE CrateInv'
  <2>1. /\ UNCHANGED <<project, accepted, shim, crossings, phase>>
        /\ phase = "exclude" /\ pos = f /\ pos' = f + 1
    BY <1>7 DEF Exclude, Visiting
  <2>2. CASE f \in accepted \ excluded /\ Callees(f) \cap excluded # {}
    <3>1. excluded' = excluded \cup {f} /\ changed'
      BY <1>7, <2>2 DEF Exclude, Callees
    <3>2. ASSUME NEW x, ClosedUnderCallers(x) PROVE excluded' \subseteq x
      <4>1. excluded \subseteq x
        BY <2>1, <3>2 DEF CrateInv
      <4>2. f \in x
        BY <2>2, <3>2, <4>1 DEF ClosedUnderCallers, Callees
      <4> QED
        BY <3>1, <4>1, <4>2
    <3> QED
      BY <1>1, <2>1, <2>2, <3>1, <3>2 DEF CrateInv
  <2>3. CASE ~ (f \in accepted \ excluded /\ Callees(f) \cap excluded # {})
    <3>1. UNCHANGED <<excluded, changed>>
      BY <1>7, <2>3 DEF Exclude, Callees
    <3>2. ASSUME NEW g \in accepted \ excluded, ~ changed, g < f + 1
          PROVE  Callees(g) \cap excluded = {}
      BY <1>2, <2>1, <2>3, <3>2 DEF CrateInv, Functions
    <3> QED
      BY <1>1, <1>2, <2>1, <3>1, <3>2 DEF CrateInv
  <2> QED
    BY <2>2, <2>3
<1> QED
  BY <1>3, <1>4, <1>5, <1>6, <1>7 DEF Next

\* A crate leaves out what needs the interpreter, the callers of what it leaves
\* out, and nothing else, whatever the cycles among them.
THEOREM CrateExact == Spec => []CrateExactly
<1>1. CrateInv => CrateExactly
  <2> SUFFICES ASSUME CrateInv, phase = "done"
               PROVE  /\ ClosedUnderCallers(excluded)
                      /\ \A x \in SUBSET excluded : ClosedUnderCallers(x) => x = excluded
    BY DEF CrateExactly
  <2> QED
    BY DEF CrateInv, ClosedUnderCallers, Callees
<1> QED
  BY TypedInit, TypedStep, CrateInit, CrateStep, <1>1, PTL DEF Spec

-----------------------------------------------------------------------------
(* Within one function: arrays.  A name that holds the caller's array is   *)
(* an alias by the fixpoint that ends the block, whatever ran.             *)

\* The least closure contains what it starts from, obeys the assignments and
\* only grows with both.
LEMMA AbsorbFacts ==
  ASSUME NEW A \in SUBSET Array, NEW R \in SUBSET (Array \X Array)
  PROVE  /\ Absorb(A, R) \subseteq Array
         /\ A \subseteq Absorb(A, R)
         /\ \A r \in R : r[2] \in Absorb(A, R) => r[1] \in Absorb(A, R)
         /\ \A x \in Absorb(A, R), T \in SUBSET (Array \X Array) :
              R \subseteq T => x \in Absorb(A, T)
         /\ R = {} => Absorb(A, R) = A
<1>1. Absorb(A, R) \subseteq Array
  BY DEF Absorb
<1>2. A \subseteq Absorb(A, R)
  BY DEF Absorb
<1>3. ASSUME NEW r \in R, r[2] \in Absorb(A, R)
      PROVE  r[1] \in Absorb(A, R)
  <2>1. r[1] \in Array
    OBVIOUS
  <2>2. ASSUME NEW S \in SUBSET Array, A \subseteq S,
               \A q \in R : q[2] \in S => q[1] \in S
        PROVE  r[1] \in S
    BY <1>3, <2>2 DEF Absorb
  <2> QED
    BY <2>1, <2>2 DEF Absorb
<1>4. ASSUME NEW x \in Absorb(A, R), NEW T \in SUBSET (Array \X Array), R \subseteq T
      PROVE  x \in Absorb(A, T)
  <2>1. x \in Array
    BY DEF Absorb
  <2>2. ASSUME NEW S \in SUBSET Array, A \subseteq S,
               \A q \in T : q[2] \in S => q[1] \in S
        PROVE  x \in S
    BY <1>4, <2>2 DEF Absorb
  <2> QED
    BY <2>1, <2>2 DEF Absorb
<1>5. R = {} => Absorb(A, R) = A
  BY DEF Absorb
<1> QED
  BY <1>1, <1>2, <1>3, <1>4, <1>5

\* The names that may be the caller's array when the block being read ends.
MayAlias == Absorb(aliases, links)

\* What the assignments of a loop and its returns have left for the fixpoint.
BodyScanned ==
  \A k \in 1..Len(body) :
    LET s == body[k]
    IN  /\ s.form = "name" /\ s.on[1] \in Array => <<s.on[1], s.on[2]>> \in links
        /\ s.form = "return" => s.on[1] \in returns

\* The inductive invariant.  It speaks of the block that is open: at the top
\* its assignments are none, so that MayAlias is the set of aliases.
AliasInv ==
  /\ DOMAIN bound = Variables
  /\ aliases \subseteq Array /\ returns \subseteq Array /\ links \subseteq Array \X Array
  /\ body \in Seq(Statements) /\ turn \in 0..Len(body)
  /\ runs \in BOOLEAN /\ escaped \in BOOLEAN
  /\ block = "top" => runs /\ links = {} /\ returns = {} /\ body = <<>>
  /\ BodyScanned
  /\ returned = 0 => \A x \in Array : bound[x] = 3 => x \in MayAlias
  /\ returned = 3 => escaped \/ returns \cap MayAlias # {}

\* Statements about arrays name arrays only.
LEMMA OfArrays ==
  ASSUME NEW s \in Statements
  PROVE  /\ s.form \in AllForms /\ s.on[1] \in Variables /\ s.on[2] \in Variables
         /\ s.form = "return" => s.on[1] \in Array /\ s.on[2] = s.on[1]
         /\ s.form = "name" => (s.on[1] \in Array <=> s.on[2] \in Array)
         /\ s.form \in {"copy", "literal", "append", "element", "store",
                        "comprehension", "result"} => s.on[1] \notin Array
         /\ Array \cap Lists = {} /\ Flat \cap Array = {} /\ Nested \cap Array = {}
<1>1. /\ Array \cap Lists = {} /\ Flat \cap Array = {} /\ Nested \cap Array = {}
      /\ Flat \subseteq Variables /\ Nested \subseteq Variables /\ Array \subseteq Variables
      /\ Lists = Flat \cup Nested
  BY NativeLoweringAssumption DEF Lists, Variables
<1>2. PICK k \in Forms : s.form = k /\ s.on \in Operands[k]
  BY DEF Statements
<1>3. k \in AllForms
  BY <1>2, NativeLoweringAssumption
<1>4. CASE k \in {"fresh", "append", "return"}
  BY <1>1, <1>2, <1>4 DEF Operands, Alone, AllForms, Variables
<1>5. CASE k = "name"
  <2>1. s.on \in {p \in (Flat \X Flat) \cup (Nested \X Nested) \cup (Array \X Array) :
                    p[1] # p[2]}
    BY <1>2, <1>5 DEF Operands
  <2> QED
    BY <1>1, <1>2, <1>3, <1>5, <2>1
<1>6. CASE k \in {"copy", "result"}
  BY <1>1, <1>2, <1>6 DEF Operands, AllForms
<1>7. CASE k \in {"literal", "comprehension", "store"}
  BY <1>1, <1>2, <1>7 DEF Operands, AllForms
<1>8. CASE k = "element"
  BY <1>1, <1>2, <1>8 DEF Operands, AllForms
<1> QED
  BY <1>3, <1>4, <1>5, <1>6, <1>7, <1>8 DEF AllForms

LEMMA AliasInit == LoweringInit => AliasInv
<1> SUFFICES ASSUME LoweringInit PROVE AliasInv
  OBVIOUS
<1>1. /\ DOMAIN bound = Variables /\ aliases = Params \cap Array
      /\ returns = {} /\ links = {} /\ body = <<>> /\ turn = 0
      /\ runs = TRUE /\ escaped = FALSE /\ block = "top" /\ returned = 0
  BY DEF LoweringInit
<1>2. BodyScanned
  BY <1>1 DEF BodyScanned
<1>3. aliases \in SUBSET Array /\ links \in SUBSET (Array \X Array)
  BY <1>1
<1>4. aliases \subseteq MayAlias
  BY <1>3, AbsorbFacts DEF MayAlias
<1>5. ASSUME NEW x \in Array, bound[x] = 3 PROVE x \in MayAlias
  <2>1. x \in Variables
    BY DEF Variables
  <2>2. x \in Params
    BY <1>5, <2>1 DEF LoweringInit
  <2> QED
    BY <1>1, <1>4, <2>2
<1>6. body \in Seq(Statements) /\ turn \in 0..Len(body)
  BY <1>1
<1> QED
  <2>1. aliases \subseteq Array /\ returns \subseteq Array /\ links \subseteq Array \X Array
    BY <1>1
  <2>2. /\ runs \in BOOLEAN /\ escaped \in BOOLEAN
        /\ block = "top" => runs /\ links = {} /\ returns = {} /\ body = <<>>
    BY <1>1
  <2>3. ~ (returned = 3)
    BY <1>1
  <2> QED
    BY <1>1, <1>2, <1>5, <1>6, <2>1, <2>2, <2>3 DEF AliasInv

\* What a statement that runs does to the arrays: a return hands out what the
\* name is bound to, an assignment binds it to what the operand is bound to,
\* a new array is not the caller's, and nothing else touches an array name.
LEMMA ArraysRun ==
  ASSUME NEW s \in Statements, DOMAIN bound = Variables, Execute(s), Running
  PROVE  /\ DOMAIN bound' = Variables
         /\ s.form = "return" => returned' = bound[s.on[1]] /\ bound' = bound
         /\ s.form # "return" => returned' = returned
         /\ \A x \in Array :
              x # s.on[1] \/ s.form \notin {"fresh", "name"} => bound'[x] = bound[x]
         /\ s.form = "fresh" /\ s.on[1] \in Array => bound'[s.on[1]] = 4
         /\ s.form = "name" /\ s.on[1] \in Array => bound'[s.on[1]] = bound[s.on[2]]
<1> DEFINE x == s.on[1]
           y == s.on[2]
<1>1. /\ s.form \in AllForms /\ x \in Variables /\ y \in Variables
      /\ s.form = "return" => x \in Array
      /\ s.form \in {"copy", "literal", "append", "element", "store",
                     "comprehension", "result"} => x \notin Array
      /\ Flat \cap Array = {} /\ Nested \cap Array = {}
  BY OfArrays
<1>2. Variables = Flat \cup Nested \cup Array
  BY DEF Variables, Lists
<1>3. CASE s.form = "fresh"
  <2>1. Fresh(x)
    BY <1>3 DEF Execute
  <2>2. CASE x \in Array
    <3>1. Bind(x, 4, 0)
      <4>1. x \notin Nested /\ x \notin Flat
        BY <1>1, <2>2
      <4>2. Bind(x, OwnArray, 0)
        BY <2>1, <2>2, <4>1, Zenon DEF Fresh
      <4> QED
        BY <4>2 DEF OwnArray
    <3> QED
      BY <1>1, <1>3, <3>1 DEF Bind
  <2>3. CASE x \in Nested
    <3>1. x \notin Array
      BY <1>1, <2>3
    <3>2. \E object, value : Bind(x, object, value)
      BY <2>1, <2>3, <3>1, Zenon DEF Fresh
    <3> QED
      BY <1>1, <1>3, <3>1, <3>2 DEF Bind
  <2>4. CASE x \in Flat /\ x \notin Nested
    <3>1. x \notin Array
      BY <1>1, <2>4
    <3>2. \E object, value : Bind(x, object, value)
      BY <2>1, <2>4, <3>1 DEF Fresh
    <3> QED
      BY <1>1, <1>3, <3>1, <3>2 DEF Bind
  <2> QED
    BY <1>1, <1>2, <2>2, <2>3, <2>4
<1>4. CASE s.form = "name"
  <2>1. Bind(x, bound[y], owned[y])
    BY <1>4 DEF Execute, Name
  <2> QED
    BY <1>1, <1>4, <2>1 DEF Bind
<1>5. CASE s.form \in {"copy", "literal", "comprehension", "element", "result"}
  <2>1. \E object, value : Bind(x, object, value)
    BY <1>5 DEF Execute, Name, Copy, Literal, Comprehension, Element
  <2> QED
    BY <1>1, <1>5, <2>1 DEF Bind
<1>6. CASE s.form \in {"append", "store"}
  <2>1. UNCHANGED <<bound, returned>>
    BY <1>6 DEF Execute, AppendTo, Store
  <2> QED
    BY <1>6, <2>1
<1>7. CASE s.form = "return"
  BY <1>7 DEF Execute, Return
<1> QED
  BY <1>1, <1>3, <1>4, <1>5, <1>6, <1>7 DEF AllForms

\* The names that may be an alias when the block ends only become more, but
\* for the target of an assignment at the top.
LEMMA ScanKeepsInv ==
  ASSUME AliasInv, NEW s \in Statements, turn = 0, lines < Lines,
         Scan(s), Execute(s),
         body' = IF block = "loop" THEN Append(body, s) ELSE body,
         UNCHANGED <<runs, block, outer, turn>>
  PROVE  AliasInv'
<1> DEFINE x == s.on[1]
           y == s.on[2]
<1>1. /\ s.form \in AllForms /\ x \in Variables /\ y \in Variables
      /\ s.form = "return" => x \in Array /\ y = x
      /\ s.form = "name" => (x \in Array <=> y \in Array)
  BY OfArrays
<1>2. ScanAliases(s) /\ (s.form = "return" => block # "try")
  BY DEF Scan, InScope
<1>3. /\ DOMAIN bound = Variables
      /\ aliases \subseteq Array /\ returns \subseteq Array /\ links \subseteq Array \X Array
      /\ body \in Seq(Statements) /\ turn \in 0..Len(body)
      /\ runs \in BOOLEAN /\ escaped \in BOOLEAN
      /\ block = "top" => runs /\ links = {} /\ returns = {} /\ body = <<>>
  BY DEF AliasInv
<1> DEFINE Assigns == s.form = "name" /\ x \in Array
           Returns == s.form = "return"
<1>4. /\ Assigns => Binds(s)
      /\ Binds(s) <=> s.form \notin {"append", "store", "return"}
  BY DEF Binds, Mutating
\* What the analysis has noted.
<1>5. /\ aliases' = IF block # "top" \/ x \notin Array \/ ~ Binds(s) THEN aliases
                    ELSE IF Assigns /\ y \in aliases THEN aliases \cup {x}
                    ELSE aliases \ {x}
      /\ links' = IF Assigns /\ block # "top" THEN links \cup {<<x, y>>} ELSE links
      /\ returns' = IF Returns /\ block # "top" THEN returns \cup {x} ELSE returns
      /\ escaped' = (escaped \/ (Returns /\ block = "top" /\ x \in aliases))
  BY <1>1, <1>2, <1>3, <1>4 DEF ScanAliases
<1>6. /\ aliases' \subseteq Array /\ returns' \subseteq Array /\ links' \subseteq Array \X Array
      /\ escaped' \in BOOLEAN
  BY <1>1, <1>3, <1>5
<1>7. /\ runs' \in BOOLEAN
      /\ (block = "top" => runs /\ links = {} /\ returns = {} /\ body = <<>>)'
  BY <1>3, <1>5
<1>8. body' \in Seq(Statements) /\ turn' \in 0..Len(body')
  BY <1>3
<1>9. BodyScanned'
  <2>1. SUFFICES ASSUME NEW k \in 1..Len(body')
                 PROVE  /\ body'[k].form = "name" /\ body'[k].on[1] \in Array
                             => <<body'[k].on[1], body'[k].on[2]>> \in links'
                        /\ body'[k].form = "return" => body'[k].on[1] \in returns'
    BY DEF BodyScanned
  <2>2. CASE k \in 1..Len(body) /\ body'[k] = body[k]
    <3>1. links \subseteq links' /\ returns \subseteq returns'
      BY <1>5
    <3>2. /\ body[k].form = "name" /\ body[k].on[1] \in Array
               => <<body[k].on[1], body[k].on[2]>> \in links
          /\ body[k].form = "return" => body[k].on[1] \in returns
      BY <2>2 DEF AliasInv, BodyScanned
    <3> QED
      BY <2>2, <3>1, <3>2
  <2>3. CASE block = "loop" /\ body'[k] = s
    BY <1>5, <2>3
  <2>4. (k \in 1..Len(body) /\ body'[k] = body[k]) \/ (block = "loop" /\ body'[k] = s)
    BY <1>3, <2>1
  <2> QED
    BY <2>2, <2>3, <2>4
<1> DEFINE After == MayAlias'
<1>10. /\ aliases' \subseteq After /\ \A r \in links' : r[2] \in After => r[1] \in After
       /\ block # "top" => MayAlias \subseteq After
       /\ block = "top" => MayAlias = aliases /\ After = aliases'
  <2>1. /\ aliases' \in SUBSET Array /\ links' \in SUBSET (Array \X Array)
        /\ aliases \in SUBSET Array /\ links \in SUBSET (Array \X Array)
    BY <1>3, <1>6
  <2>2. After = Absorb(aliases', links')
    BY DEF MayAlias, Absorb
  <2>3. aliases' \subseteq After /\ \A r \in links' : r[2] \in After => r[1] \in After
    BY <2>1, <2>2, AbsorbFacts
  <2>4. ASSUME block # "top" PROVE MayAlias \subseteq After
    <3>1. aliases' = aliases /\ links \subseteq links'
      BY <1>5, <2>4
    <3> QED
      BY <2>1, <2>2, <3>1, AbsorbFacts DEF MayAlias
  <2>5. ASSUME block = "top" PROVE MayAlias = aliases /\ After = aliases'
    <3>1. links = {} /\ links' = {}
      BY <1>3, <1>5, <2>5
    <3> QED
      BY <2>1, <2>2, <3>1, AbsorbFacts DEF MayAlias
  <2> QED
    BY <2>3, <2>4, <2>5
<1>11. CASE ~ Running
  <2>1. bound' = bound /\ returned' = returned
    BY <1>11 DEF Execute, memory
  <2>2. ASSUME returned = 0 PROVE block # "top"
    BY <1>3, <1>11, <2>2 DEF Running
  <2>3. ASSUME returned' = 0, NEW z \in Array, bound'[z] = 3 PROVE z \in After
    <3>1. z \in MayAlias
      BY <2>1, <2>3 DEF AliasInv
    <3> QED
      BY <1>10, <2>1, <2>2, <2>3, <3>1
  <2>4. ASSUME returned' = 3 PROVE escaped' \/ returns' \cap After # {}
    <3>1. escaped \/ returns \cap MayAlias # {}
      BY <2>1, <2>4 DEF AliasInv
    <3>2. CASE block = "top"
      BY <1>3, <1>5, <3>1, <3>2
    <3>3. CASE block # "top"
      BY <1>5, <1>10, <3>1, <3>3
    <3> QED
      BY <3>2, <3>3
  <2> HIDE DEF After
  <2>5. (returned = 0 => \A z \in Array : bound[z] = 3 => z \in MayAlias)'
        /\ (returned = 3 => escaped \/ returns \cap MayAlias # {})'
    BY <2>3, <2>4 DEF After
  <2> QED
    BY <1>3, <1>6, <1>7, <1>8, <1>9, <2>1, <2>5 DEF AliasInv
<1>12. CASE Running
  <2>1. /\ runs /\ returned = 0
        /\ \A z \in Array : bound[z] = 3 => z \in MayAlias
    BY <1>12 DEF Running, AliasInv
  <2>2. /\ DOMAIN bound' = Variables
        /\ Returns => returned' = bound[x] /\ bound' = bound
        /\ ~ Returns => returned' = returned
        /\ \A z \in Array : z # x \/ s.form \notin {"fresh", "name"} => bound'[z] = bound[z]
        /\ s.form = "fresh" /\ x \in Array => bound'[x] = 4
        /\ Assigns => bound'[x] = bound[y]
    BY <1>3, <1>12, ArraysRun
  <2>3. ASSUME NEW z \in Array, bound'[z] = 3 PROVE z \in After
    <3>1. CASE z # x \/ s.form \notin {"fresh", "name"}
      <4>1. z \in MayAlias
        BY <2>1, <2>2, <2>3, <3>1
      <4>2. CASE block # "top"
        BY <1>10, <4>1, <4>2
      <4>3. CASE block = "top"
        <5>1. z \in aliases
          BY <1>10, <4>1, <4>3
        <5>2. x \notin Array \/ ~ Binds(s) \/ z # x
          <6>1. x \in Array /\ Binds(s) => s.form \in {"fresh", "name"}
            BY <1>1, <1>4, OfArrays DEF AllForms
          <6> QED
            BY <3>1, <6>1
        <5>3. z \in aliases'
          BY <1>5, <5>1, <5>2
        <5> QED
          BY <1>10, <5>3
      <4> QED
        BY <4>2, <4>3
    <3>2. CASE z = x /\ s.form = "fresh"
      BY <2>2, <2>3, <3>2
    <3>3. CASE z = x /\ s.form = "name"
      <4>1. Assigns /\ y \in Array /\ bound[y] = 3
        BY <1>1, <2>2, <2>3, <3>3
      <4>2. y \in MayAlias
        BY <2>1, <4>1
      <4>3. CASE block = "top"
        <5>1. y \in aliases
          BY <1>10, <4>2, <4>3
        <5>2. x \in aliases'
          BY <1>4, <1>5, <4>1, <4>3, <5>1
        <5> QED
          BY <1>10, <3>3, <5>2
      <4>4. CASE block # "top"
        <5>1. <<x, y>> \in links' /\ y \in After
          BY <1>5, <1>10, <4>1, <4>2, <4>4
        <5>2. <<x, y>>[2] \in After => <<x, y>>[1] \in After
          BY <1>10, <5>1
        <5> QED
          BY <3>3, <5>1, <5>2
      <4> QED
        BY <4>3, <4>4
    <3> QED
      BY <3>1, <3>2, <3>3
  <2>4. ASSUME returned' = 3 PROVE escaped' \/ returns' \cap After # {}
    <3>1. Returns /\ bound[x] = 3
      BY <2>1, <2>2, <2>4
    <3>2. x \in Array /\ x \in MayAlias
      BY <1>1, <2>1, <3>1
    <3>3. CASE block = "top"
      BY <1>5, <1>10, <3>1, <3>2, <3>3
    <3>4. CASE block # "top"
      <4>1. x \in returns' /\ x \in After
        BY <1>5, <1>10, <3>1, <3>2, <3>4
      <4> QED
        BY <4>1
    <3> QED
      BY <3>3, <3>4
  <2> HIDE DEF After
  <2>5. (returned = 0 => \A z \in Array : bound[z] = 3 => z \in MayAlias)'
        /\ (returned = 3 => escaped \/ returns \cap MayAlias # {})'
    BY <2>3, <2>4 DEF After
  <2> QED
    BY <1>3, <1>6, <1>7, <1>8, <1>9, <2>2, <2>5 DEF AliasInv
<1> QED
  BY <1>11, <1>12

\* A second iteration: what its statements assign and return was noted when
\* they were first read.
LEMMA RepeatKeepsInv == AliasInv /\ Repeat => AliasInv'
<1> SUFFICES ASSUME AliasInv, Repeat PROVE AliasInv'
  OBVIOUS
<1> DEFINE s == body[turn + 1]
           x == s.on[1]
           y == s.on[2]
<1>1. /\ block = "loop" /\ runs /\ turn < Len(body) /\ turn' = turn + 1
      /\ Execute(s)
      /\ UNCHANGED <<runs, block, outer, body, scope, declared, mutated, shared,
                     aliases, links, returns, escaped, lines>>
  BY DEF Repeat, analysis
<1>2. /\ DOMAIN bound = Variables
      /\ aliases \subseteq Array /\ returns \subseteq Array /\ links \subseteq Array \X Array
      /\ body \in Seq(Statements) /\ turn \in 0..Len(body)
      /\ runs \in BOOLEAN /\ escaped \in BOOLEAN
      /\ BodyScanned
  BY DEF AliasInv
<1>3. turn + 1 \in 1..Len(body) /\ turn' \in 0..Len(body') /\ s \in Statements
  BY <1>1, <1>2
<1>4. /\ s.form \in AllForms
      /\ s.form = "return" => x \in Array
      /\ s.form = "name" => (x \in Array <=> y \in Array)
  BY <1>3, OfArrays
<1>5. /\ s.form = "name" /\ x \in Array => <<x, y>> \in links
      /\ s.form = "return" => x \in returns
  BY <1>2, <1>3 DEF BodyScanned
<1>6. MayAlias' = MayAlias /\ BodyScanned'
  BY <1>1, <1>2 DEF MayAlias, Absorb, BodyScanned
<1>7. \A r \in links : r[2] \in MayAlias => r[1] \in MayAlias
  <2>1. aliases \in SUBSET Array /\ links \in SUBSET (Array \X Array)
    BY <1>2
  <2> QED
    BY <2>1, AbsorbFacts DEF MayAlias
<1>8. CASE ~ Running
  <2>1. bound' = bound /\ returned' = returned
    BY <1>1, <1>8 DEF Execute, memory
  <2> QED
    BY <1>1, <1>2, <1>3, <1>6, <2>1 DEF AliasInv
<1>9. CASE Running
  <2>1. returned = 0 /\ \A z \in Array : bound[z] = 3 => z \in MayAlias
    BY <1>9 DEF Running, AliasInv
  <2>2. /\ DOMAIN bound' = Variables
        /\ s.form = "return" => returned' = bound[x] /\ bound' = bound
        /\ s.form # "return" => returned' = returned
        /\ \A z \in Array : z # x \/ s.form \notin {"fresh", "name"} => bound'[z] = bound[z]
        /\ s.form = "fresh" /\ x \in Array => bound'[x] = 4
        /\ s.form = "name" /\ x \in Array => bound'[x] = bound[y]
    BY <1>1, <1>2, <1>3, <1>9, ArraysRun
  <2>3. ASSUME NEW z \in Array, bound'[z] = 3 PROVE z \in MayAlias
    <3>1. CASE z # x \/ s.form \notin {"fresh", "name"}
      BY <2>1, <2>2, <2>3, <3>1
    <3>2. CASE z = x /\ s.form = "fresh"
      BY <2>2, <2>3, <3>2
    <3>3. CASE z = x /\ s.form = "name"
      <4>1. y \in MayAlias /\ <<x, y>> \in links
        BY <1>4, <1>5, <2>1, <2>2, <2>3, <3>3
      <4>2. <<x, y>>[2] \in MayAlias => <<x, y>>[1] \in MayAlias
        BY <1>7, <4>1
      <4> QED
        BY <3>3, <4>1, <4>2
    <3> QED
      BY <3>1, <3>2, <3>3
  <2>4. ASSUME returned' = 3 PROVE returns \cap MayAlias # {}
    <3>1. s.form = "return" /\ bound[x] = 3
      BY <2>1, <2>2, <2>4
    <3>2. x \in returns /\ x \in MayAlias
      BY <1>4, <1>5, <2>1, <3>1
    <3> QED
      BY <3>2
  <2> QED
    BY <1>1, <1>2, <1>3, <1>6, <2>2, <2>3, <2>4 DEF AliasInv
<1> QED
  BY <1>8, <1>9

\* The fixpoint at the end of a block takes its assignments into the aliases.
LEMMA CloseKeepsInv == AliasInv /\ Close => AliasInv'
<1> SUFFICES ASSUME AliasInv, Close PROVE AliasInv'
  OBVIOUS
<1>1. /\ runs' = TRUE /\ body' = <<>> /\ turn' = 0 /\ links' = {} /\ returns' = {}
      /\ aliases' = MayAlias /\ escaped' = (escaped \/ returns \cap aliases' # {})
      /\ returned' = returned
      /\ bound' = [x \in Variables |-> IF x \in scope' THEN bound[x] ELSE 0]
  BY DEF Close, MayAlias
<1>2. /\ aliases \in SUBSET Array /\ links \in SUBSET (Array \X Array)
      /\ returned = 0 => \A x \in Array : bound[x] = 3 => x \in MayAlias
      /\ returned = 3 => escaped \/ returns \cap MayAlias # {}
  BY DEF AliasInv
<1>3. MayAlias \subseteq Array
  BY <1>2, AbsorbFacts DEF MayAlias
<1>4. MayAlias' = aliases'
  <2>1. MayAlias' = Absorb(aliases', links')
    BY DEF MayAlias, Absorb
  <2>2. aliases' \in SUBSET Array /\ links' \in SUBSET (Array \X Array)
    BY <1>1, <1>3
  <2> QED
    BY <1>1, <2>1, <2>2, AbsorbFacts
<1>5. BodyScanned'
  BY <1>1 DEF BodyScanned
<1>6. ASSUME returned' = 0, NEW x \in Array, bound'[x] = 3 PROVE x \in MayAlias'
  <2>1. x \in Variables
    BY DEF Variables
  <2>2. bound[x] = 3
    BY <1>1, <1>6, <2>1
  <2> QED
    BY <1>1, <1>2, <1>4, <1>6, <2>2
<1>7. returned' = 3 => escaped'
  BY <1>1, <1>2
<1>8. /\ aliases' \subseteq Array /\ returns' \subseteq Array /\ links' \subseteq Array \X Array
      /\ body' \in Seq(Statements) /\ turn' \in 0..Len(body')
      /\ runs' \in BOOLEAN /\ escaped' \in BOOLEAN /\ DOMAIN bound' = Variables
      /\ runs' /\ links' = {} /\ returns' = {} /\ body' = <<>>
  <2>1. escaped \in BOOLEAN
    BY DEF AliasInv
  <2> QED
    BY <1>1, <1>3, <2>1
<1> QED
  BY <1>5, <1>6, <1>7, <1>8 DEF AliasInv

LEMMA AliasStep == AliasInv /\ [LoweringNext]_loweringVars => AliasInv'
<1> SUFFICES ASSUME AliasInv, [LoweringNext]_loweringVars PROVE AliasInv'
  OBVIOUS
<1>1. ASSUME NEW s \in Statements, Statement(s) PROVE AliasInv'
  BY <1>1, ScanKeepsInv DEF Statement
<1>2. ASSUME NEW kind \in Blocks, Open(kind) PROVE AliasInv'
  <2>1. /\ block = "top" /\ block' = kind /\ runs' \in BOOLEAN
        /\ UNCHANGED <<bound, returned, body, turn, aliases, links, returns, escaped>>
    BY <1>2 DEF Open, memory, analysis
  <2>2. kind # "top"
    BY <1>2, NativeLoweringAssumption
  <2>3. MayAlias' = MayAlias /\ (BodyScanned <=> BodyScanned')
    BY <2>1 DEF MayAlias, Absorb, BodyScanned
  <2> QED
    BY <2>1, <2>2, <2>3 DEF AliasInv
<1>3. CASE Raise
  <2>1. /\ block = "try" /\ runs' = FALSE
        /\ UNCHANGED <<bound, returned, block, body, turn, aliases, links, returns, escaped>>
    BY <1>3 DEF Raise, memory, analysis
  <2>2. MayAlias' = MayAlias /\ (BodyScanned <=> BodyScanned')
    BY <2>1 DEF MayAlias, Absorb, BodyScanned
  <2> QED
    BY <2>1, <2>2 DEF AliasInv
<1>4. CASE UNCHANGED loweringVars
  <2>1. UNCHANGED <<bound, returned, runs, block, body, turn, aliases, links, returns, escaped>>
    BY <1>4 DEF loweringVars, memory, control, analysis
  <2>2. MayAlias' = MayAlias /\ (BodyScanned <=> BodyScanned')
    BY <2>1 DEF MayAlias, Absorb, BodyScanned
  <2> QED
    BY <2>1, <2>2 DEF AliasInv
<1> QED
  BY <1>1, <1>2, <1>3, <1>4, RepeatKeepsInv, CloseKeepsInv DEF LoweringNext

\* A function that is lowered never returns the array object that its caller
\* passed, whichever branches and iterations of any body ran.
THEOREM NoAliasEscapes == LoweringSpec => []AliasNeverEscapes
<1>1. AliasInv => AliasNeverEscapes
  <2> SUFFICES ASSUME AliasInv, Lowered, block = "top", NEW p \in Params \cap Array
               PROVE  returned # Given(p)
    BY DEF AliasNeverEscapes
  <2>1. p \notin Flat /\ p \notin Nested
    BY NativeLoweringAssumption
  <2>2. Given(p) = 3
    BY <2>1, Zenon DEF Given
  <2>3. returned = 3 => escaped
    BY DEF AliasInv
  <2> QED
    BY <2>2, <2>3 DEF Lowered
<1> QED
  BY AliasInit, AliasStep, <1>1, PTL DEF LoweringSpec

-----------------------------------------------------------------------------
(* Within one function: lists.  A list that the analysis has not seen to   *)
(* have a second name or holder has none, so that what is done to it by    *)
(* name is done to nothing else.                                           *)

\* What an object holds: numbers, which count as 0, or other objects, one at least.
PlainList(h, o) == \A i \in 1..Len(h[o]) : h[o][i] = 0
ListOfLists(h, o) ==
  /\ Len(h[o]) > 0
  /\ \A i \in 1..Len(h[o]) : h[o][i] \in 1..Len(h) /\ PlainList(h, h[o][i])

Objects ==
  /\ heap \in Seq(Seq(Nat)) /\ Len(heap) >= 4
  /\ \A o \in 1..Len(heap) : PlainList(heap, o) \/ ListOfLists(heap, o)

Named ==
  /\ bound \in [Variables -> 0..Len(heap)] /\ DOMAIN owned = Variables
  /\ returned \in 0..Len(heap)
  /\ \A x \in Flat : bound[x] # 0 => PlainList(heap, bound[x])
  /\ \A x \in Nested : bound[x] # 0 => ListOfLists(heap, bound[x])

\* Where control is, every name that the analysis knows is bound.
ReadSoFar ==
  /\ runs \in BOOLEAN /\ escaped \in BOOLEAN /\ block \in Blocks \cup {"top"}
  /\ body \in Seq(Statements) /\ turn \in 0..Len(body) /\ lines \in Nat
  /\ scope \subseteq Variables /\ declared \subseteq Variables /\ outer \subseteq scope
  /\ mutated \subseteq Lists /\ shared \subseteq Lists
  /\ aliases \subseteq Array /\ returns \subseteq Array /\ links \subseteq Array \X Array
  /\ block = "top" => runs
  /\ block = "try" => scope = outer
  /\ \A k \in 1..Len(body) : Reads(body[k]) \subseteq scope
  /\ returned = 0 => \A x \in outer : bound[x] # 0
  /\ returned = 0 /\ runs => \A x \in scope : bound[x] # 0

LowerInv == Objects /\ Named /\ ReadSoFar

\* The statements and blocks in which the analysis sees every second name and holder.
SeenForms == {"fresh", "name", "copy", "literal", "append", "return"}
AllSeen == Forms \subseteq SeenForms /\ Blocks \subseteq {"branch", "loop"}

\* No other name has the object of the name, no object holds it, and it is not the caller's.
Private(x) ==
  /\ bound[x] > 4
  /\ \A y \in Lists \ {x} : bound[y] # bound[x]
  /\ \A o \in 1..Len(heap) : \A i \in 1..Len(heap[o]) : heap[o][i] # bound[x]

Unshared == Lists \ (shared \cup Params)
Owning == \A x \in Unshared : bound[x] # 0 => Private(x)

Sharing(s) == IF s.form = "name" THEN {s.on[1], s.on[2]} \ Array
              ELSE IF s.form = "literal" THEN {s.on[2]} ELSE {}
Noticed == \A k \in 1..Len(body) : /\ MutatedNames(body[k]) \subseteq mutated
                                   /\ Sharing(body[k]) \subseteq shared

\* What the names of a lowered function hold, and what its caller has left.
Alike ==
  Lowered => /\ \A x \in Lists : bound[x] # 0 => Worth(heap, x, bound[x]) = owned[x]
             /\ heap[1] = <<>> /\ heap[2] = <<1>>

SameInv == LowerInv /\ Owning /\ Noticed /\ Alike

\* Statements about lists name lists of the right kind.
LEMMA OfLists ==
  ASSUME NEW s \in Statements
  PROVE  /\ s.form \in Forms /\ Flat \cap Nested = {} /\ Lists = Flat \cup Nested
         /\ s.form \in {"name", "copy", "result"} =>
              \/ s.on[1] \in Flat /\ s.on[2] \in Flat
              \/ s.on[1] \in Nested /\ s.on[2] \in Nested
              \/ s.form = "name" /\ s.on[1] \in Array /\ s.on[2] \in Array
         /\ s.form \in {"literal", "comprehension", "store"} =>
              s.on[1] \in Nested /\ s.on[2] \in Flat
         /\ s.form = "element" => s.on[1] \in Flat /\ s.on[2] \in Nested
         /\ s.form = "append" => s.on[1] \in Lists /\ s.on[2] = s.on[1]
         /\ s.form = "name" => s.on[1] # s.on[2]
<1>1. Flat \cap Nested = {} /\ Lists = Flat \cup Nested
  BY NativeLoweringAssumption DEF Lists
<1>2. PICK k \in Forms : s.form = k /\ s.on \in Operands[k]
  BY DEF Statements
<1>3. k \in AllForms
  BY <1>2, NativeLoweringAssumption
<1>4. CASE k \in {"fresh", "return"}
  BY <1>1, <1>2, <1>4
<1>5. CASE k = "append"
  BY <1>1, <1>2, <1>5 DEF Operands, Alone
<1>6. CASE k = "name"
  <2>1. s.on \in {p \in (Flat \X Flat) \cup (Nested \X Nested) \cup (Array \X Array) :
                    p[1] # p[2]}
    BY <1>2, <1>6 DEF Operands
  <2> QED
    BY <1>1, <1>2, <1>6, <2>1
<1>7. CASE k \in {"copy", "result"}
  BY <1>1, <1>2, <1>7 DEF Operands
<1>8. CASE k \in {"literal", "comprehension", "store"}
  BY <1>1, <1>2, <1>8 DEF Operands
<1>9. CASE k = "element"
  BY <1>1, <1>2, <1>9 DEF Operands
<1> QED
  BY <1>3, <1>4, <1>5, <1>6, <1>7, <1>8, <1>9 DEF AllForms

\* Sequences that become longer.
LEMMA OneMore ==
  ASSUME NEW S, NEW t \in Seq(S), NEW e \in S
  PROVE  /\ Append(t, e) \in Seq(S) /\ Len(Append(t, e)) = Len(t) + 1
         /\ Len(t) \in Nat /\ DOMAIN t = 1..Len(t) /\ DOMAIN Append(t, e) = 1..(Len(t) + 1)
         /\ \A i \in 1..Len(t) : Append(t, e)[i] = t[i]
         /\ Append(t, e)[Len(t) + 1] = e
OBVIOUS

LEMMA Lengths ==
  ASSUME NEW h \in Seq(Seq(Nat))
  PROVE  /\ Len(h) \in Nat /\ DOMAIN h = 1..Len(h)
         /\ \A o \in 1..Len(h) :
              /\ h[o] \in Seq(Nat) /\ Len(h[o]) \in Nat /\ DOMAIN h[o] = 1..Len(h[o])
              /\ \A i \in 1..Len(h[o]) : h[o][i] \in Nat
OBVIOUS

LEMMA LastOne == ASSUME NEW n \in Nat, NEW i \in 1..(n + 1) PROVE i \in 1..n \/ i = n + 1
OBVIOUS

LEMMA LastTwo ==
  ASSUME NEW n \in Nat, NEW i \in 1..(n + 2) PROVE i \in 1..n \/ i = n + 1 \/ i = n + 2
OBVIOUS

LEMMA ItemsIn ==
  ASSUME NEW R, NEW S, NEW t \in Seq(R), \A i \in 1..Len(t) : t[i] \in S
  PROVE  t \in Seq(S)
<1>1. Len(t) \in Nat /\ t = [i \in 1..Len(t) |-> t[i]]
  OBVIOUS
<1> DEFINE n == Len(t)
<1> HIDE DEF n
<1>2. n \in Nat /\ t = [i \in 1..n |-> t[i]] /\ \A i \in 1..n : t[i] \in S
  BY <1>1 DEF n
<1>3. [i \in 1..n |-> t[i]] \in Seq(S)
  BY <1>2
<1> QED
  BY <1>2, <1>3

LEMMA Further == ASSUME NEW m \in Nat, NEW n \in Nat, m <= n, NEW k \in 1..m PROVE k \in 1..n
OBVIOUS

\* What is kept of the objects: each is still there, is the list that it was and
\* has not become shorter.
Kinds == /\ Len(heap) <= Len(heap')
         /\ \A o \in 1..Len(heap) : /\ PlainList(heap, o) => PlainList(heap', o)
                                    /\ ListOfLists(heap, o) => ListOfLists(heap', o)

\* A statement that runs binds its target, if it has one, and unbinds nothing.
Executed(s) ==
  /\ Kinds /\ Objects' /\ Named'
  /\ \A x \in Variables : bound[x] # 0 => bound'[x] # 0
  /\ Binds(s) => bound'[s.on[1]] # 0
  /\ returned' = returned \/ returned' # 0

\* The names keep their kinds when one is bound to an object of its own kind.
LEMMA Rebound ==
  ASSUME Named, Kinds, Objects, NEW x \in Variables, NEW b \in 1..Len(heap'), NEW v, Objects',
         bound' = [bound EXCEPT ![x] = b], owned' = [owned EXCEPT ![x] = v], returned' = returned,
         x \in Flat => PlainList(heap', b), x \in Nested => ListOfLists(heap', b)
  PROVE  /\ Named' /\ bound'[x] = b
         /\ \A y \in Variables : y # x => bound'[y] = bound[y]
         /\ \A y \in Variables : bound[y] # 0 => bound'[y] # 0
<1>1. /\ bound'[x] = b /\ \A y \in Variables : y # x => bound'[y] = bound[y]
      /\ Flat \subseteq Variables /\ Nested \subseteq Variables
  BY DEF Named, Variables, Lists
<1>2. Len(heap) \in Nat /\ Len(heap') \in Nat /\ Len(heap) <= Len(heap')
  BY DEF Objects, Kinds
<1>3. bound' \in [Variables -> 0..Len(heap')] /\ DOMAIN owned' = Variables
      /\ returned' \in 0..Len(heap')
  BY <1>2 DEF Named
<1>4. ASSUME NEW y \in Flat, bound'[y] # 0 PROVE PlainList(heap', bound'[y])
  <2>1. y # x => PlainList(heap, bound[y]) /\ bound[y] \in 1..Len(heap)
    BY <1>1, <1>2, <1>4 DEF Named
  <2>2. y # x => PlainList(heap', bound[y])
    BY <2>1 DEF Kinds
  <2> QED
    BY <1>1, <2>2
<1>5. ASSUME NEW y \in Nested, bound'[y] # 0 PROVE ListOfLists(heap', bound'[y])
  <2>1. y # x => ListOfLists(heap, bound[y]) /\ bound[y] \in 1..Len(heap)
    BY <1>1, <1>2, <1>5 DEF Named
  <2>2. y # x => ListOfLists(heap', bound[y])
    BY <2>1 DEF Kinds
  <2> QED
    BY <1>1, <2>2
<1>6. b # 0
  BY <1>2
<1> QED
  BY <1>1, <1>3, <1>4, <1>5, <1>6 DEF Named

\* What a list may hold to be one of the two kinds.
Plain(t)  == \A i \in 1..Len(t) : t[i] = 0
ListsIn(h, t) == Len(t) > 0 /\ \A i \in 1..Len(t) : t[i] \in 1..Len(h) /\ PlainList(h, t[i])

\* Objects are added, and those that there were stay what they were.
LEMMA Added ==
  ASSUME Objects, heap' \in Seq(Seq(Nat)), Len(heap) <= Len(heap'),
         \A o \in 1..Len(heap) : heap'[o] = heap[o]
  PROVE  /\ Kinds
         /\ \A o \in 1..Len(heap) : PlainList(heap', o) \/ ListOfLists(heap', o)
<1>1. \A o \in 1..Len(heap) : PlainList(heap, o) => PlainList(heap', o)
  BY DEF PlainList
<1>2. ASSUME NEW o \in 1..Len(heap), ListOfLists(heap, o) PROVE ListOfLists(heap', o)
  <2>1. heap'[o] = heap[o] /\ Len(heap[o]) > 0
    BY <1>2 DEF ListOfLists
  <2>2. ASSUME NEW i \in 1..Len(heap[o])
        PROVE  heap[o][i] \in 1..Len(heap') /\ PlainList(heap', heap[o][i])
    <3>1. heap[o][i] \in 1..Len(heap) /\ PlainList(heap, heap[o][i])
      BY <1>2 DEF ListOfLists
    <3>2. Len(heap) \in Nat /\ Len(heap') \in Nat
      BY Lengths DEF Objects
    <3> QED
      BY <1>1, <3>1, <3>2
  <2> QED
    BY <2>1, <2>2 DEF ListOfLists
<1> QED
  BY <1>1, <1>2 DEF Kinds, Objects

\* One object is added.
LEMMA Allocated ==
  ASSUME Objects, NEW t \in Seq(Nat), heap' = Append(heap, t), Plain(t) \/ ListsIn(heap, t)
  PROVE  /\ Kinds /\ Objects' /\ Len(heap') = Len(heap) + 1 /\ Len(heap') \in 1..Len(heap')
         /\ heap'[Len(heap')] = t
         /\ \A o \in 1..Len(heap) : heap'[o] = heap[o]
         /\ Plain(t) => PlainList(heap', Len(heap'))
         /\ ListsIn(heap, t) => ListOfLists(heap', Len(heap'))
<1>1. heap \in Seq(Seq(Nat)) /\ Len(heap) \in Nat /\ Len(heap) >= 4
  BY DEF Objects
<1>2. /\ heap' \in Seq(Seq(Nat)) /\ Len(heap') = Len(heap) + 1 /\ heap'[Len(heap) + 1] = t
      /\ \A o \in 1..Len(heap) : heap'[o] = heap[o]
  BY <1>1, OneMore
<1>3. Kinds /\ \A o \in 1..Len(heap) : PlainList(heap', o) \/ ListOfLists(heap', o)
  BY <1>1, <1>2, Added
<1>4. Plain(t) => PlainList(heap', Len(heap'))
  BY <1>2 DEF Plain, PlainList
<1>5. ASSUME ListsIn(heap, t) PROVE ListOfLists(heap', Len(heap'))
  <2>1. Len(t) > 0 /\ heap'[Len(heap')] = t
    BY <1>2, <1>5 DEF ListsIn
  <2>2. ASSUME NEW i \in 1..Len(t) PROVE t[i] \in 1..Len(heap') /\ PlainList(heap', t[i])
    <3>1. t[i] \in 1..Len(heap) /\ PlainList(heap, t[i])
      BY <1>5 DEF ListsIn
    <3>2. PlainList(heap', t[i])
      BY <1>2, <3>1 DEF PlainList
    <3> QED
      BY <1>1, <1>2, <3>1, <3>2
  <2> QED
    BY <2>1, <2>2 DEF ListOfLists
<1>6. ASSUME NEW o \in 1..Len(heap') PROVE PlainList(heap', o) \/ ListOfLists(heap', o)
  <2>1. o \in 1..Len(heap) \/ o = Len(heap')
    BY <1>1, <1>2
  <2> QED
    BY <1>3, <1>4, <1>5, <2>1
<1>7. Objects'
  BY <1>1, <1>2, <1>6 DEF Objects
<1> QED
  BY <1>1, <1>2, <1>3, <1>4, <1>5, <1>7

\* One object becomes longer by an item of its kind.
LEMMA Lengthened ==
  ASSUME Objects, heap' \in Seq(Seq(Nat)), Len(heap) <= Len(heap'),
         NEW b \in 1..Len(heap), NEW e \in Nat, heap'[b] = Append(heap[b], e),
         \A o \in 1..Len(heap) : o # b => heap'[o] = heap[o],
         \/ PlainList(heap, b) /\ e = 0
         \/ ListOfLists(heap, b) /\ e \in 1..Len(heap') /\ e # b /\ PlainList(heap', e)
  PROVE  Kinds /\ \A o \in 1..Len(heap) : PlainList(heap', o) \/ ListOfLists(heap', o)
<1>1. /\ Len(heap) \in Nat /\ Len(heap') \in Nat /\ heap[b] \in Seq(Nat) /\ Len(heap[b]) \in Nat
      /\ Len(heap'[b]) = Len(heap[b]) + 1 /\ heap'[b][Len(heap[b]) + 1] = e
      /\ \A i \in 1..Len(heap[b]) : heap'[b][i] = heap[b][i]
  <2>1. heap[b] \in Seq(Nat) /\ Len(heap) \in Nat /\ Len(heap') \in Nat
    BY Lengths DEF Objects
  <2>2. LET a == Append(heap[b], e) IN
        /\ Len(a) = Len(heap[b]) + 1 /\ a[Len(heap[b]) + 1] = e
        /\ \A i \in 1..Len(heap[b]) : a[i] = heap[b][i]
    BY <2>1, OneMore
  <2>3. Len(heap[b]) \in Nat
    BY <2>1
  <2> QED
    BY <2>1, <2>2, <2>3
<1>2. PlainList(heap, b) => ~ ListOfLists(heap, b)
  <2>1. ASSUME PlainList(heap, b), ListOfLists(heap, b) PROVE FALSE
    <3>1. 1 \in 1..Len(heap[b])
      BY <1>1, <2>1 DEF ListOfLists
    <3>2. heap[b][1] = 0 /\ heap[b][1] \in 1..Len(heap)
      BY <2>1, <3>1 DEF PlainList, ListOfLists
    <3> QED
      BY <1>1, <3>2
  <2> QED
    BY <2>1
<1>3. ASSUME NEW o \in 1..Len(heap), PlainList(heap, o) PROVE PlainList(heap', o)
  <2>1. CASE o = b
    <3>1. e = 0 /\ PlainList(heap, b)
      BY <1>2, <1>3, <2>1
    <3>2. ASSUME NEW i \in 1..Len(heap'[b]) PROVE heap'[b][i] = 0
      <4>1. i \in 1..Len(heap[b]) \/ i = Len(heap[b]) + 1
        BY <1>1, LastOne
      <4> QED
        BY <1>1, <3>1, <4>1 DEF PlainList
    <3> QED
      BY <2>1, <3>2 DEF PlainList
  <2>2. CASE o # b
    BY <1>3, <2>2 DEF PlainList
  <2> QED
    BY <2>1, <2>2
<1>4. ASSUME NEW o \in 1..Len(heap), ListOfLists(heap, o) PROVE ListOfLists(heap', o)
  <2>1. \A i \in 1..Len(heap[o]) : heap[o][i] \in 1..Len(heap') /\ PlainList(heap', heap[o][i])
    <3>1. ASSUME NEW i \in 1..Len(heap[o])
          PROVE  heap[o][i] \in 1..Len(heap) /\ PlainList(heap, heap[o][i])
      BY <1>4 DEF ListOfLists
    <3>2. ASSUME NEW i \in 1..Len(heap[o])
          PROVE  heap[o][i] \in 1..Len(heap') /\ PlainList(heap', heap[o][i])
      <4>1. heap[o][i] \in 1..Len(heap')
        BY <1>1, <3>1, Further
      <4> QED
        BY <1>3, <3>1, <4>1
    <3> QED
      BY <3>2
  <2>2. CASE o = b
    <3>1. e \in 1..Len(heap') /\ PlainList(heap', e)
      BY <1>2, <1>4, <2>2
    <3>2. ASSUME NEW i \in 1..Len(heap'[b])
          PROVE  heap'[b][i] \in 1..Len(heap') /\ PlainList(heap', heap'[b][i])
      <4>1. i \in 1..Len(heap[b]) \/ i = Len(heap[b]) + 1
        BY <1>1, LastOne
      <4> QED
        BY <1>1, <2>1, <2>2, <3>1, <4>1
    <3> QED
      <4>1. Len(heap'[b]) > 0
        BY <1>1
      <4> QED
        BY <2>2, <3>2, <4>1 DEF ListOfLists
  <2>3. CASE o # b
    <3>1. heap'[o] = heap[o] /\ Len(heap[o]) > 0
      BY <1>4, <2>3 DEF ListOfLists
    <3> QED
      BY <2>1, <3>1 DEF ListOfLists
  <2> QED
    BY <2>2, <2>3
<1> QED
  BY <1>3, <1>4 DEF Kinds, Objects

\* What a statement that runs does to the objects and to its names.
LEMMA FreshRuns ==
  ASSUME Objects, Named, NEW x \in Variables, Fresh(x)
  PROVE  Kinds /\ Objects' /\ Named' /\ bound'[x] # 0 /\ returned' = returned
         /\ \A y \in Variables : bound[y] # 0 => bound'[y] # 0
<1>1. /\ Flat \cap Nested = {} /\ Flat \cap Array = {} /\ Nested \cap Array = {}
      /\ Variables = Flat \cup Nested \cup Array /\ Lists = Flat \cup Nested
  BY NativeLoweringAssumption DEF Lists, Variables
<1>2. heap \in Seq(Seq(Nat)) /\ Len(heap) \in Nat /\ Len(heap) >= 4
  BY Lengths DEF Objects
<1>3. CASE x \in Array
  <2>1. Bind(x, 4, 0) /\ heap' = heap
    <3>1. x \notin Nested /\ x \notin Flat
      BY <1>1, <1>3
    <3>2. Bind(x, OwnArray, 0) /\ UNCHANGED heap
      BY <1>3, <3>1, Zenon DEF Fresh
    <3> QED
      BY <3>2 DEF OwnArray
  <2>2. Kinds /\ Objects'
    BY <1>2, <2>1, Added DEF Objects
  <2>3. 4 \in 1..Len(heap') /\ x \notin Flat /\ x \notin Nested
    BY <1>1, <1>2, <1>3, <2>1
  <2>4. bound' = [bound EXCEPT ![x] = 4] /\ owned' = [owned EXCEPT ![x] = 0] /\ returned' = returned
    BY <2>1 DEF Bind
  <2>5. Named' /\ bound'[x] = 4 /\ \A y \in Variables : bound[y] # 0 => bound'[y] # 0
    BY <2>2, <2>3, <2>4, Rebound
  <2> QED
    BY <2>2, <2>4, <2>5
<1>4. CASE x \in Flat
  <2>1. heap' = Append(heap, <<>>) /\ Bind(x, Len(heap) + 1, 0)
    <3>1. x \notin Nested /\ x \notin Array
      BY <1>1, <1>4
    <3> QED
      BY <1>4, <3>1 DEF Fresh
  <2>2. <<>> \in Seq(Nat) /\ Plain(<<>>)
    BY DEF Plain
  <2>3. /\ Kinds /\ Objects' /\ Len(heap') = Len(heap) + 1 /\ Len(heap') \in 1..Len(heap')
        /\ PlainList(heap', Len(heap'))
    BY <2>1, <2>2, Allocated
  <2>4. /\ bound' = [bound EXCEPT ![x] = Len(heap')] /\ owned' = [owned EXCEPT ![x] = 0]
        /\ returned' = returned /\ x \notin Nested /\ Len(heap') # 0
    BY <1>1, <1>2, <1>4, <2>1, <2>3 DEF Bind
  <2>5. Named' /\ bound'[x] = Len(heap') /\ \A y \in Variables : bound[y] # 0 => bound'[y] # 0
    BY <2>3, <2>4, Rebound
  <2> QED
    BY <2>3, <2>4, <2>5
<1>5. CASE x \in Nested
  <2> DEFINE new == Len(heap) + 1
             h == Append(heap, <<>>)
  <2>1. heap' = heap \o << <<>>, <<new>> >> /\ Bind(x, new + 1, <<0>>)
    <3>1. x \notin Array
      BY <1>1, <1>5
    <3>2. /\ heap' = heap \o << <<>>, <<Len(heap) + 1>> >>
          /\ Bind(x, Len(heap) + 1 + 1, <<0>>)
      <4>1. LET next == Len(heap) + 1
            IN  CASE x \in Array  -> Bind(x, OwnArray, 0) /\ UNCHANGED heap
                  [] x \in Nested -> /\ heap' = heap \o << <<>>, <<next>> >>
                                     /\ Bind(x, next + 1, <<0>>)
                  [] x \in Flat   -> heap' = Append(heap, <<>>) /\ Bind(x, next, 0)
        BY DEF Fresh
      <4>2. x \notin Flat
        BY <1>1, <1>5
      <4> HIDE DEF h
      <4> QED
        BY <1>5, <3>1, <4>1, <4>2
    <3> QED
      BY <3>2
  <2>2. /\ heap' \in Seq(Seq(Nat)) /\ Len(heap') = new + 1
        /\ heap'[new] = <<>> /\ heap'[new + 1] = <<new>>
        /\ \A o \in 1..Len(heap) : heap'[o] = heap[o]
    <3>1. << <<>>, <<new>> >> \in Seq(Seq(Nat))
      BY <1>2
    <3> QED
      BY <1>2, <2>1, <3>1
  <2>3. Kinds /\ \A o \in 1..Len(heap) : PlainList(heap', o) \/ ListOfLists(heap', o)
    BY <1>2, <2>2, Added
  <2>4. PlainList(heap', new) /\ ListOfLists(heap', new + 1)
    <3>1. PlainList(heap', new)
      BY <2>2 DEF PlainList
    <3>2. new \in 1..Len(heap')
      BY <1>2, <2>2
    <3>3. Len(<<new>>) = 1 /\ <<new>>[1] = new
      OBVIOUS
    <3> HIDE DEF new
    <3> QED
      BY <2>2, <3>1, <3>2, <3>3 DEF ListOfLists
  <2>5. Objects'
    <3>1. \A o \in 1..Len(heap') : o \in 1..Len(heap) \/ o = new \/ o = new + 1
      <4>1. \A o \in 1..(Len(heap) + 2) :
               o \in 1..Len(heap) \/ o = Len(heap) + 1 \/ o = Len(heap) + 2
        BY <1>2, LastTwo
      <4>2. Len(heap') = Len(heap) + 2 /\ new = Len(heap) + 1 /\ new + 1 = Len(heap) + 2
        BY <1>2, <2>2
      <4> QED
        BY <4>1, <4>2
    <3>2. Len(heap') >= 4
      BY <1>2, <2>2
    <3> QED
      BY <2>2, <2>3, <2>4, <3>1, <3>2 DEF Objects
  <2>6. /\ bound' = [bound EXCEPT ![x] = Len(heap')] /\ owned' = [owned EXCEPT ![x] = <<0>>]
        /\ returned' = returned /\ x \notin Flat /\ Len(heap') \in 1..Len(heap') /\ Len(heap') # 0
    BY <1>1, <1>2, <1>5, <2>1, <2>2 DEF Bind
  <2>7. Named' /\ bound'[x] = Len(heap') /\ \A y \in Variables : bound[y] # 0 => bound'[y] # 0
    BY <2>2, <2>3, <2>4, <2>5, <2>6, Rebound
  <2> QED
    BY <2>3, <2>5, <2>6, <2>7
<1> QED
  BY <1>1, <1>3, <1>4, <1>5

\* An object that a name is bound to.
LEMMA ObjectOf ==
  ASSUME Objects, Named, NEW y \in Variables, bound[y] # 0
  PROVE  /\ bound[y] \in 1..Len(heap) /\ heap[bound[y]] \in Seq(Nat) /\ Len(heap[bound[y]]) \in Nat
         /\ heap \in Seq(Seq(Nat)) /\ Len(heap) \in Nat /\ Len(heap) >= 4
         /\ y \in Flat => PlainList(heap, bound[y])
         /\ y \in Nested => ListOfLists(heap, bound[y])
<1>1. heap \in Seq(Seq(Nat)) /\ Len(heap) \in Nat /\ Len(heap) >= 4
  BY Lengths DEF Objects
<1>2. bound[y] \in 1..Len(heap)
  BY <1>1 DEF Named
<1> QED
  BY <1>1, <1>2, Lengths DEF Named

\* A name is bound to an object that there is.
LEMMA NameRuns ==
  ASSUME Objects, Named, NEW x \in Variables, NEW b \in 1..Len(heap), NEW v,
         Bind(x, b, v), heap' = heap,
         x \in Flat => PlainList(heap, b), x \in Nested => ListOfLists(heap, b)
  PROVE  Kinds /\ Objects' /\ Named' /\ bound'[x] # 0 /\ returned' = returned
         /\ \A y \in Variables : bound[y] # 0 => bound'[y] # 0
<1>1. heap \in Seq(Seq(Nat)) /\ Len(heap) \in Nat
  BY Lengths DEF Objects
<1>2. Kinds /\ Objects'
  BY <1>1, Added DEF Objects
<1>3. /\ bound' = [bound EXCEPT ![x] = b] /\ owned' = [owned EXCEPT ![x] = v]
      /\ returned' = returned
      /\ b \in 1..Len(heap') /\ b # 0
  BY <1>1 DEF Bind
<1>4. Named' /\ bound'[x] = b /\ \A y \in Variables : bound[y] # 0 => bound'[y] # 0
  BY <1>2, <1>3, Rebound
<1> QED
  BY <1>2, <1>3, <1>4

\* A name is bound to an object that is made for it.
LEMMA NewRuns ==
  ASSUME Objects, Named, NEW x \in Variables, NEW t \in Seq(Nat), NEW v,
         heap' = Append(heap, t), Bind(x, Len(heap) + 1, v),
         Plain(t) \/ ListsIn(heap, t),
         x \in Flat => Plain(t), x \in Nested => ListsIn(heap, t)
  PROVE  Kinds /\ Objects' /\ Named' /\ bound'[x] # 0 /\ returned' = returned
         /\ \A y \in Variables : bound[y] # 0 => bound'[y] # 0
<1>1. /\ Kinds /\ Objects' /\ Len(heap') = Len(heap) + 1 /\ Len(heap') \in 1..Len(heap')
      /\ Plain(t) => PlainList(heap', Len(heap'))
      /\ ListsIn(heap, t) => ListOfLists(heap', Len(heap'))
  BY Allocated
<1>2. /\ bound' = [bound EXCEPT ![x] = Len(heap')] /\ owned' = [owned EXCEPT ![x] = v]
      /\ returned' = returned
  BY <1>1 DEF Bind
<1>3. Len(heap') # 0
  BY <1>1
<1>4. Named' /\ bound'[x] = Len(heap') /\ \A y \in Variables : bound[y] # 0 => bound'[y] # 0
  BY <1>1, <1>2, Rebound
<1> QED
  BY <1>1, <1>2, <1>3, <1>4

\* A list becomes longer.
LEMMA Unbound ==
  ASSUME Objects, Named, Kinds, Objects', bound' = bound, DOMAIN owned' = DOMAIN owned,
         returned' = returned
  PROVE  Named' /\ \A y \in Variables : bound[y] # 0 => bound'[y] # 0
<1>1. Len(heap) \in Nat /\ Len(heap') \in Nat /\ Len(heap) <= Len(heap')
  BY Lengths DEF Objects, Kinds
<1>2. /\ bound' \in [Variables -> 0..Len(heap')] /\ returned' \in 0..Len(heap')
      /\ DOMAIN owned' = Variables
  BY <1>1 DEF Named
<1>3. ASSUME NEW y \in Variables, bound[y] # 0
      PROVE  /\ y \in Flat => PlainList(heap', bound[y])
             /\ y \in Nested => ListOfLists(heap', bound[y])
  BY <1>3, ObjectOf DEF Kinds
<1>4. Flat \subseteq Variables /\ Nested \subseteq Variables
  BY DEF Variables, Lists
<1> QED
  BY <1>2, <1>3, <1>4 DEF Named

LEMMA AppendRuns ==
  ASSUME Objects, Named, NEW x \in Lists, bound[x] # 0, AppendTo(x)
  PROVE  Kinds /\ Objects' /\ Named' /\ returned' = returned
         /\ \A y \in Variables : bound[y] # 0 => bound'[y] # 0
<1> DEFINE b == bound[x]
           new == Len(heap) + 1
<1>1. /\ Flat \cap Nested = {} /\ Lists = Flat \cup Nested /\ Lists \subseteq Variables
  BY NativeLoweringAssumption DEF Lists, Variables
<1>2. /\ b \in 1..Len(heap) /\ heap[b] \in Seq(Nat) /\ Len(heap[b]) \in Nat
      /\ heap \in Seq(Seq(Nat)) /\ Len(heap) \in Nat /\ Len(heap) >= 4
      /\ x \in Flat => PlainList(heap, b)
      /\ x \in Nested => ListOfLists(heap, b)
  BY <1>1, ObjectOf
<1>3. UNCHANGED <<bound, returned>> /\ DOMAIN owned' = DOMAIN owned
  BY DEF AppendTo
<1>4. heap' = IF x \in Nested THEN Append([heap EXCEPT ![b] = Append(heap[b], new)], <<>>)
              ELSE [heap EXCEPT ![b] = Append(heap[b], 0)]
  BY DEF AppendTo
<1> HIDE DEF b
<1>5. CASE x \in Nested
  <2>1. Append(heap[b], new) \in Seq(Nat) /\ new \in Nat
    BY <1>2, OneMore
  <2> DEFINE h == [heap EXCEPT ![b] = Append(heap[b], new)]
  <2>2. /\ h \in Seq(Seq(Nat)) /\ Len(h) = Len(heap) /\ h[b] = Append(heap[b], new)
        /\ \A o \in 1..Len(heap) : o # b => h[o] = heap[o]
    BY <1>2, <2>1
  <2>3. heap' = Append(h, <<>>) /\ <<>> \in Seq(Nat)
    BY <1>4, <1>5
  <2> HIDE DEF h
  <2>4. /\ heap' \in Seq(Seq(Nat)) /\ Len(heap') = new /\ heap'[new] = <<>>
        /\ \A o \in 1..Len(heap) : heap'[o] = h[o]
    BY <2>2, <2>3, OneMore
  <2>5. /\ Len(heap) <= Len(heap') /\ new \in 1..Len(heap') /\ new # b
        /\ heap'[b] = Append(heap[b], new) /\ \A o \in 1..Len(heap) : o # b => heap'[o] = heap[o]
    <3>1. heap'[b] = Append(heap[b], new) /\ \A o \in 1..Len(heap) : o # b => heap'[o] = heap[o]
      BY <1>2, <2>2, <2>4
    <3>2. Len(heap) <= Len(heap') /\ new \in 1..Len(heap')
      BY <1>2, <2>4
    <3>3. new # b
      BY <1>2
    <3> QED
      BY <3>1, <3>2, <3>3
  <2>6. PlainList(heap', new)
    BY <2>4 DEF PlainList
  <2>7. Kinds /\ \A o \in 1..Len(heap) : PlainList(heap', o) \/ ListOfLists(heap', o)
    BY <1>2, <1>5, <2>1, <2>4, <2>5, <2>6, Lengthened
  <2>8. Objects'
    <3>1. \A o \in 1..Len(heap') : o \in 1..Len(heap) \/ o = new
      BY <1>2, <2>4, LastOne
    <3>2. Len(heap') >= 4
      BY <1>2, <2>4
    <3> QED
      BY <2>4, <2>6, <2>7, <3>1, <3>2 DEF Objects
  <2> QED
    BY <1>3, <2>7, <2>8, Unbound
<1>6. CASE x \in Flat
  <2>1. Append(heap[b], 0) \in Seq(Nat) /\ x \notin Nested
    BY <1>1, <1>2, <1>6, OneMore
  <2>2. /\ heap' \in Seq(Seq(Nat)) /\ Len(heap') = Len(heap) /\ heap'[b] = Append(heap[b], 0)
        /\ \A o \in 1..Len(heap) : o # b => heap'[o] = heap[o]
    BY <1>2, <1>4, <2>1
  <2>3. Kinds /\ \A o \in 1..Len(heap) : PlainList(heap', o) \/ ListOfLists(heap', o)
    <3>1. Len(heap) <= Len(heap') /\ 0 \in Nat /\ PlainList(heap, b)
      BY <1>2, <1>6, <2>2
    <3> QED
      BY <1>2, <2>2, <3>1, Lengthened
  <2>4. Objects'
    BY <1>2, <2>2, <2>3 DEF Objects
  <2> QED
    BY <1>3, <2>3, <2>4, Unbound
<1> QED
  BY <1>1, <1>5, <1>6

LEMMA StoreRuns ==
  ASSUME Objects, Named, NEW x \in Nested, NEW y \in Flat, bound[x] # 0, bound[y] # 0, Store(x, y)
  PROVE  Kinds /\ Objects' /\ Named' /\ returned' = returned
         /\ \A z \in Variables : bound[z] # 0 => bound'[z] # 0
<1> DEFINE b == bound[x]
           c == bound[y]
<1>1. x \in Variables /\ y \in Variables
  BY DEF Variables, Lists
<1>2. /\ b \in 1..Len(heap) /\ heap[b] \in Seq(Nat) /\ Len(heap[b]) \in Nat
      /\ heap \in Seq(Seq(Nat)) /\ Len(heap) \in Nat /\ Len(heap) >= 4
      /\ ListOfLists(heap, b)
      /\ c \in 1..Len(heap) /\ PlainList(heap, c)
  BY <1>1, ObjectOf
<1>3. UNCHANGED <<bound, returned>> /\ DOMAIN owned' = DOMAIN owned
  BY DEF Store
<1>4. heap' = [heap EXCEPT ![b] = Append(heap[b], c)]
  BY DEF Store
<1> HIDE DEF b, c
<1>5. b # c
  <2>1. ASSUME b = c PROVE FALSE
    <3>1. 1 \in 1..Len(heap[b])
      BY <1>2 DEF ListOfLists
    <3>2. heap[b][1] = 0 /\ heap[b][1] \in 1..Len(heap)
      BY <1>2, <2>1, <3>1 DEF PlainList, ListOfLists
    <3> QED
      BY <1>2, <3>2
  <2> QED
    BY <2>1
<1>6. Append(heap[b], c) \in Seq(Nat) /\ c \in Nat
  BY <1>2, OneMore
<1>7. /\ heap' \in Seq(Seq(Nat)) /\ Len(heap') = Len(heap) /\ heap'[b] = Append(heap[b], c)
      /\ \A o \in 1..Len(heap) : o # b => heap'[o] = heap[o]
  BY <1>2, <1>4, <1>6
<1>8. PlainList(heap', c)
  BY <1>2, <1>5, <1>7 DEF PlainList
<1>9. Kinds /\ \A o \in 1..Len(heap) : PlainList(heap', o) \/ ListOfLists(heap', o)
  <2>1. Len(heap) <= Len(heap') /\ c \in 1..Len(heap')
    BY <1>2, <1>7
  <2> QED
    BY <1>2, <1>5, <1>6, <1>7, <1>8, <2>1, Lengthened
<1>10. Objects'
  BY <1>2, <1>7, <1>9 DEF Objects
<1> QED
  BY <1>3, <1>9, <1>10, Unbound

LEMMA StatementRuns ==
  ASSUME Objects, Named, NEW s \in Statements, Execute(s), Running, \A y \in Reads(s) : bound[y] # 0
  PROVE  Executed(s)
<1> DEFINE x == s.on[1]
           y == s.on[2]
<1>1. /\ s.form \in AllForms /\ x \in Variables /\ y \in Variables
      /\ Flat \cap Array = {} /\ Nested \cap Array = {}
  BY OfArrays
<1>2. /\ Flat \cap Nested = {} /\ Lists = Flat \cup Nested
      /\ s.form \in {"name", "copy", "result"} =>
           \/ x \in Flat /\ y \in Flat
           \/ x \in Nested /\ y \in Nested
           \/ s.form = "name" /\ x \in Array /\ y \in Array
      /\ s.form \in {"literal", "comprehension", "store"} => x \in Nested /\ y \in Flat
      /\ s.form = "element" => x \in Flat /\ y \in Nested
      /\ s.form = "append" => x \in Lists /\ y = x
  BY OfLists
<1>3. s.form # "fresh" => bound[y] # 0 /\ (s.form = "store" => bound[x] # 0)
  BY DEF Reads, Binds, Mutating
<1>4. Binds(s) <=> s.form \notin {"append", "store", "return"}
  BY DEF Binds, Mutating
<1>5. CASE s.form = "fresh"
  <2>1. Fresh(x)
    BY <1>5 DEF Execute
  <2> QED
    BY <1>1, <2>1, FreshRuns DEF Executed
<1>6. CASE s.form # "fresh"
  <2> DEFINE b == bound[y]
  <2>1. /\ b \in 1..Len(heap) /\ heap[b] \in Seq(Nat) /\ Len(heap[b]) \in Nat
        /\ heap \in Seq(Seq(Nat)) /\ Len(heap) \in Nat /\ Len(heap) >= 4
        /\ y \in Flat => PlainList(heap, b)
        /\ y \in Nested => ListOfLists(heap, b)
    BY <1>1, <1>3, <1>6, ObjectOf
  <2> HIDE DEF b
  <2>2. CASE s.form \in {"name", "result"}
    <3>1. Name(x, y)
      BY <2>2 DEF Execute
    <3>2. Bind(x, b, owned[y]) /\ heap' = heap
      BY <3>1 DEF Name, b
    <3>3. /\ x \in Flat => PlainList(heap, b)
          /\ x \in Nested => ListOfLists(heap, b)
      BY <1>1, <1>2, <2>1, <2>2
    <3> QED
      BY <1>1, <2>1, <3>2, <3>3, NameRuns DEF Executed
  <2>3. CASE s.form = "copy"
    <3>1. heap' = Append(heap, heap[b]) /\ Bind(x, Len(heap) + 1, owned[y])
      BY <2>3 DEF Execute, Copy, b
    <3>2. /\ PlainList(heap, b) => Plain(heap[b])
          /\ ListOfLists(heap, b) => ListsIn(heap, heap[b])
      BY DEF PlainList, ListOfLists, Plain, ListsIn
    <3>3. /\ Plain(heap[b]) \/ ListsIn(heap, heap[b])
          /\ x \in Flat => Plain(heap[b])
          /\ x \in Nested => ListsIn(heap, heap[b])
      BY <1>2, <2>1, <2>3, <3>2
    <3> QED
      BY <1>1, <2>1, <3>1, <3>3, NewRuns DEF Executed
  <2>4. CASE s.form \in {"literal", "comprehension"}
    <3>1. x \in Nested /\ x \notin Flat /\ PlainList(heap, b) /\ b \in Nat
      BY <1>2, <2>1, <2>4
    <3>2. PICK t \in {<<b>>, <<b, b>>} : heap' = Append(heap, t) /\ \E v : Bind(x, Len(heap) + 1, v)
      BY <2>4 DEF Execute, Literal, Comprehension, b
    <3>3. t \in Seq(Nat) /\ Len(t) > 0 /\ \A i \in 1..Len(t) : t[i] = b
      <4>1. ASSUME NEW c \in Nat
            PROVE  /\ <<c>> \in Seq(Nat) /\ Len(<<c>>) = 1 /\ <<c>>[1] = c
                   /\ <<c, c>> \in Seq(Nat) /\ Len(<<c, c>>) = 2
                   /\ <<c, c>>[1] = c /\ <<c, c>>[2] = c
        OBVIOUS
      <4>2. CASE t = <<b>>
        BY <3>1, <4>1, <4>2
      <4>3. CASE t = <<b, b>>
        BY <3>1, <4>1, <4>3
      <4> QED
        BY <4>2, <4>3
    <3>4. ListsIn(heap, t)
      BY <2>1, <3>1, <3>3 DEF ListsIn
    <3> QED
      BY <1>1, <3>1, <3>2, <3>3, <3>4, NewRuns DEF Executed
  <2>5. CASE s.form = "element"
    <3>1. Bind(x, heap[b][1], owned[y][1]) /\ heap' = heap
      BY <2>5 DEF Execute, Element, b
    <3>2. x \in Flat /\ x \notin Nested /\ ListOfLists(heap, b)
      BY <1>2, <2>1, <2>5
    <3>3. heap[b][1] \in 1..Len(heap) /\ PlainList(heap, heap[b][1])
      <4>1. 1 \in 1..Len(heap[b])
        BY <2>1, <3>2 DEF ListOfLists
      <4> QED
        BY <3>2, <4>1 DEF ListOfLists
    <3> QED
      BY <1>1, <3>1, <3>2, <3>3, NameRuns DEF Executed
  <2>6. CASE s.form = "append"
    <3>1. AppendTo(x) /\ x \in Lists /\ bound[x] # 0
      BY <1>2, <1>3, <2>6 DEF Execute
    <3> QED
      BY <1>4, <2>6, <3>1, AppendRuns DEF Executed
  <2>7. CASE s.form = "store"
    <3>1. Store(x, y) /\ x \in Nested /\ y \in Flat /\ bound[x] # 0 /\ bound[y] # 0
      BY <1>2, <1>3, <2>7 DEF Execute
    <3> QED
      BY <1>4, <2>7, <3>1, StoreRuns DEF Executed
  <2>8. CASE s.form = "return"
    <3>1. returned' = bound[x] /\ UNCHANGED <<heap, bound, owned>> /\ bound[x] # 0
      <4>1. y = x
        BY <2>8, OfArrays
      <4> QED
        BY <1>3, <2>8, <4>1 DEF Execute, Return
    <3>2. Kinds /\ Objects'
      BY <2>1, <3>1, Added DEF Objects
    <3>3. Named'
      BY <1>1, <3>1 DEF Named
    <3> QED
      BY <1>4, <2>8, <3>1, <3>2, <3>3 DEF Executed
  <2> QED
    BY <1>1, <1>6, <2>2, <2>3, <2>4, <2>5, <2>6, <2>7, <2>8 DEF AllForms
<1> QED
  BY <1>5, <1>6

LEMMA LowerInit == LoweringInit => LowerInv
<1> SUFFICES ASSUME LoweringInit PROVE LowerInv
  OBVIOUS
<1>1. /\ heap = << <<>>, <<1>>, <<>>, <<>> >> /\ returned = 0 /\ runs = TRUE
      /\ block = "top" /\ outer = {} /\ body = <<>> /\ turn = 0
      /\ scope = Params /\ declared = Params
      /\ mutated = {} /\ shared = {} /\ aliases = Params \cap Array /\ links = {} /\ returns = {}
      /\ escaped = FALSE /\ lines = 0
      /\ bound = [x \in Variables |-> IF x \in Params THEN Given(x) ELSE 0]
      /\ DOMAIN owned = Variables
  BY DEF LoweringInit, GivenHeap
<1>2. /\ heap \in Seq(Seq(Nat)) /\ Len(heap) = 4 /\ heap[1] = <<>> /\ heap[2] = <<1>>
      /\ heap[3] = <<>> /\ heap[4] = <<>>
  BY <1>1
<1>3. PlainList(heap, 1) /\ PlainList(heap, 3) /\ PlainList(heap, 4)
  BY <1>2 DEF PlainList
<1>4. ListOfLists(heap, 2)
  <2>1. Len(heap[2]) = 1 /\ heap[2][1] = 1
    BY <1>2
  <2> QED
    BY <1>2, <1>3, <2>1 DEF ListOfLists
<1>5. Objects
  <2>1. \A o \in 1..Len(heap) : o = 1 \/ o = 2 \/ o = 3 \/ o = 4
    BY <1>2
  <2> QED
    BY <1>2, <1>3, <1>4, <2>1 DEF Objects
<1>6. ASSUME NEW x \in Variables
      PROVE  /\ bound[x] \in 0..4
             /\ x \in Params => bound[x] # 0
             /\ x \in Flat => bound[x] \in {0, 1}
             /\ x \in Nested => bound[x] \in {0, 2}
  <2>1. bound[x] = IF x \in Params THEN Given(x) ELSE 0
    BY <1>1
  <2>2. /\ x \in Flat => x \notin Nested /\ x \notin Array
        /\ x \in Nested => x \notin Flat /\ x \notin Array
        /\ x \in Array => x \notin Flat /\ x \notin Nested
        /\ x \in Flat \/ x \in Nested \/ x \in Array
    BY NativeLoweringAssumption DEF Variables, Lists
  <2>3. CASE x \in Flat
    <3>1. Given(x) = 1
      BY <2>2, <2>3 DEF Given
    <3> QED
      BY <2>1, <2>2, <2>3, <3>1
  <2>4. CASE x \in Nested
    <3>1. Given(x) = 2
      BY <2>2, <2>4 DEF Given
    <3> QED
      BY <2>1, <2>2, <2>4, <3>1
  <2>5. CASE x \in Array
    <3>1. Given(x) = 3
      BY <2>2, <2>5 DEF Given
    <3> QED
      BY <2>1, <2>2, <2>5, <3>1
  <2> QED
    BY <2>2, <2>3, <2>4, <2>5
<1>7. Named
  <2>1. bound \in [Variables -> 0..Len(heap)] /\ returned \in 0..Len(heap)
    <3>1. DOMAIN bound = Variables /\ bound = [x \in Variables |-> bound[x]]
      BY <1>1
    <3>2. \A x \in Variables : bound[x] \in 0..4
      BY <1>6
    <3>3. [x \in Variables |-> bound[x]] \in [Variables -> 0..4]
      BY <3>2
    <3> QED
      BY <1>1, <1>2, <3>1, <3>3
  <2>2. Flat \subseteq Variables /\ Nested \subseteq Variables
    BY DEF Variables, Lists
  <2> QED
    BY <1>1, <1>3, <1>4, <1>6, <2>1, <2>2 DEF Named
<1>8. ReadSoFar
  <2>1. Params \subseteq Variables
    BY NativeLoweringAssumption DEF Variables, Lists
  <2>2. body \in Seq(Statements) /\ turn \in 0..Len(body) /\ lines \in Nat /\ ~ (1 <= Len(body))
    BY <1>1
  <2>3. \A k \in 1..Len(body) : Reads(body[k]) \subseteq scope
    BY <1>1
  <2>4. \A x \in scope : bound[x] # 0
    BY <1>1, <1>6, <2>1
  <2> QED
    BY <1>1, <2>1, <2>2, <2>3, <2>4 DEF ReadSoFar
<1> QED
  BY <1>5, <1>7, <1>8 DEF LowerInv

\* The memory, where it changes, changes by a statement whose operands are bound.
LEMMA MemoryKept == ASSUME Objects, Named, UNCHANGED memory PROVE Objects' /\ Named'
<1>1. heap' = heap /\ bound' = bound /\ owned' = owned /\ returned' = returned
  BY DEF memory
<1>2. /\ \A o : PlainList(heap, o) <=> PlainList(heap', o)
      /\ \A o : ListOfLists(heap, o) <=> ListOfLists(heap', o)
  BY <1>1
<1> QED
  BY <1>1, <1>2 DEF Objects, Named

LEMMA BoundReads ==
  ASSUME LowerInv, NEW s \in Statements, Reads(s) \subseteq scope, Running
  PROVE  \A y \in Reads(s) : bound[y] # 0
BY DEF LowerInv, ReadSoFar, Running

LEMMA ReadLower ==
  ASSUME LowerInv, NEW s \in Statements, Statement(s)
  PROVE  LowerInv'
<1>1. /\ turn = 0 /\ InScope(s) /\ ScanOwnership(s) /\ ScanAliases(s)
      /\ scope' = IF Binds(s) THEN scope \cup {s.on[1]} ELSE scope
      /\ declared' = declared \cup scope' /\ lines' = lines + 1 /\ Execute(s)
      /\ body' = IF block = "loop" THEN Append(body, s) ELSE body
      /\ UNCHANGED <<runs, block, outer, turn>>
  BY DEF Statement, Scan
<1>2. Objects /\ Named /\ ReadSoFar
  BY DEF LowerInv
<1>3. s.form \in AllForms /\ s.on[1] \in Variables /\ s.on[2] \in Variables /\ Array \cap Lists = {}
  BY OfArrays
<1>4. Running => Executed(s)
  BY <1>1, <1>2, BoundReads, StatementRuns DEF InScope
<1>5. ~ Running => UNCHANGED memory
  BY <1>1 DEF Execute
<1>6. Objects' /\ Named'
  BY <1>2, <1>4, <1>5, MemoryKept DEF Executed
<1>7. /\ scope \subseteq scope' /\ scope' \subseteq Variables /\ declared' \subseteq Variables
      /\ outer' \subseteq scope' /\ lines' \in Nat
  BY <1>1, <1>2, <1>3 DEF ReadSoFar
<1>8. /\ body' \in Seq(Statements) /\ turn' \in 0..Len(body')
      /\ \A k \in 1..Len(body') : Reads(body'[k]) \subseteq scope'
  <2>1. /\ body \in Seq(Statements) /\ turn \in 0..Len(body) /\ Len(body) \in Nat
        /\ \A k \in 1..Len(body) : Reads(body[k]) \subseteq scope
    BY <1>2 DEF ReadSoFar
  <2>2. CASE body' = body
    BY <1>1, <1>7, <2>1, <2>2
  <2>3. CASE body' = Append(body, s)
    <3>1. /\ body' \in Seq(Statements) /\ Len(body') = Len(body) + 1 /\ body'[Len(body) + 1] = s
          /\ \A k \in 1..Len(body) : body'[k] = body[k]
      BY <2>1, <2>3, OneMore
    <3>2. ASSUME NEW k \in 1..Len(body') PROVE Reads(body'[k]) \subseteq scope'
      <4>1. k \in 1..Len(body) \/ k = Len(body) + 1
        BY <2>1, <3>1, LastOne
      <4>2. Reads(s) \subseteq scope
        BY <1>1 DEF InScope
      <4> QED
        BY <1>7, <2>1, <3>1, <4>1, <4>2
    <3> QED
      BY <1>1, <2>1, <3>1, <3>2
  <2> QED
    BY <1>1, <2>2, <2>3
<1>9. mutated' \subseteq Lists /\ shared' \subseteq Lists
  <2>1. MutatedNames(s) \subseteq Lists
    <3>1. s.form \in Mutating => s.on[1] \in Lists
      BY OfLists DEF Mutating
    <3> QED
      BY <3>1 DEF MutatedNames
  <2>2. SharedNames(s) \subseteq Lists
    <3>1. s.form = "literal" => s.on[2] \in Lists
      BY OfLists
    <3>2. {s.on[1], s.on[2]} \ Array \subseteq Lists
      BY <1>3 DEF Variables
    <3> QED
      BY <3>1, <3>2 DEF SharedNames
  <2> QED
    BY <1>1, <1>2, <2>1, <2>2 DEF ScanOwnership, ReadSoFar
<1>10. /\ aliases' \subseteq Array /\ returns' \subseteq Array
       /\ links' \subseteq Array \X Array /\ escaped' \in BOOLEAN
  <2>1. s.form = "return" => s.on[1] \in Array
    BY OfArrays
  <2>2. s.form = "name" /\ s.on[1] \in Array => s.on[2] \in Array
    BY OfArrays
  <2> QED
    BY <1>1, <1>2, <2>1, <2>2 DEF ScanAliases, ReadSoFar
<1>11. block' = "try" => scope' = outer'
  BY <1>1, <1>2 DEF InScope, ReadSoFar
<1>12. returned' = 0 => \A x \in outer' : bound'[x] # 0
  BY <1>1, <1>2, <1>4, <1>5 DEF ReadSoFar, Executed, memory
<1>13. returned' = 0 /\ runs' => \A x \in scope' : bound'[x] # 0
  BY <1>1, <1>2, <1>4, <1>5 DEF ReadSoFar, Executed, memory, Running
<1> QED
  BY <1>1, <1>2, <1>6, <1>7, <1>8, <1>9, <1>10, <1>11, <1>12, <1>13 DEF LowerInv, ReadSoFar

LEMMA RepeatLower == ASSUME LowerInv, Repeat PROVE LowerInv'
<1>1. /\ block = "loop" /\ runs /\ turn < Len(body) /\ turn' = turn + 1 /\ Execute(body[turn + 1])
      /\ UNCHANGED <<runs, block, outer, body, scope, declared, mutated, shared, aliases, links,
                     returns, escaped, lines>>
  BY DEF Repeat, analysis
<1>2. Objects /\ Named /\ ReadSoFar
  BY DEF LowerInv
<1> DEFINE s == body[turn + 1]
<1>3. /\ turn + 1 \in 1..Len(body) /\ turn' \in 0..Len(body)
      /\ s \in Statements /\ Reads(s) \subseteq scope
  BY <1>1, <1>2 DEF ReadSoFar
<1> HIDE DEF s
<1>4. Running => Executed(s)
  BY <1>1, <1>2, <1>3, BoundReads, StatementRuns DEF s
<1>5. ~ Running => UNCHANGED memory
  BY <1>1 DEF Execute
<1>6. Objects' /\ Named'
  BY <1>2, <1>4, <1>5, MemoryKept DEF Executed
<1>7. returned' = 0 => \A x \in scope : bound'[x] # 0
  <2>1. scope \subseteq Variables
    BY <1>2 DEF ReadSoFar
  <2>2. CASE Running
    BY <1>1, <1>2, <1>4, <2>1, <2>2 DEF ReadSoFar, Executed, Running
  <2>3. CASE ~ Running
    BY <1>1, <1>2, <1>5, <2>3 DEF ReadSoFar, memory, Running
  <2> QED
    BY <2>2, <2>3
<1> QED
  BY <1>1, <1>2, <1>3, <1>6, <1>7 DEF LowerInv, ReadSoFar

LEMMA CloseLower == ASSUME LowerInv, Close PROVE LowerInv'
<1>1. /\ block # "top" /\ block' = "top" /\ runs' = TRUE /\ outer' = {} /\ body' = <<>> /\ turn' = 0
      /\ scope' = IF block = "try" THEN scope ELSE outer
      /\ bound' = [x \in Variables |-> IF x \in scope' THEN bound[x] ELSE 0]
      /\ owned' = [x \in Variables |-> IF x \in scope' THEN owned[x] ELSE 0]
      /\ aliases' = Absorb(aliases, links) /\ links' = {} /\ returns' = {}
      /\ escaped' = (escaped \/ returns \cap aliases' # {})
      /\ UNCHANGED <<heap, returned, declared, mutated, shared, lines>>
  BY DEF Close
<1>2. Objects /\ Named /\ ReadSoFar
  BY DEF LowerInv
<1>3. Flat \subseteq Variables /\ Nested \subseteq Variables
  BY DEF Variables, Lists
<1>4. Objects'
  BY <1>1, <1>2 DEF Objects
<1>5. bound' \in [Variables -> 0..Len(heap)] /\ \A x \in Variables : bound'[x] \in {0, bound[x]}
  <2>1. 0 \in 0..Len(heap)
    BY <1>2, Lengths DEF Objects
  <2> QED
    BY <1>1, <1>2, <2>1 DEF Named
<1>6. Named'
  BY <1>1, <1>2, <1>3, <1>5 DEF Named
<1>7. /\ scope' = outer /\ scope' \subseteq Variables
      /\ body' \in Seq(Statements) /\ turn' \in 0..Len(body')
  BY <1>1, <1>2 DEF ReadSoFar
<1>8. aliases' \subseteq Array
  BY <1>1 DEF Absorb
<1>9. returned' = 0 => \A x \in scope' : bound'[x] # 0
  BY <1>1, <1>2, <1>7 DEF ReadSoFar
<1>10. \A k \in 1..Len(body') : Reads(body'[k]) \subseteq scope'
  BY <1>1
<1> QED
  BY <1>1, <1>2, <1>4, <1>6, <1>7, <1>8, <1>9, <1>10 DEF LowerInv, ReadSoFar

LEMMA LowerStep == LowerInv /\ [LoweringNext]_loweringVars => LowerInv'
<1> SUFFICES ASSUME LowerInv, [LoweringNext]_loweringVars PROVE LowerInv'
  OBVIOUS
<1>1. Objects /\ Named /\ ReadSoFar
  BY DEF LowerInv
<1>2. ASSUME NEW kind \in Blocks, Open(kind) PROVE LowerInv'
  <2>1. /\ block = "top" /\ block' = kind /\ outer' = scope /\ runs' \in BOOLEAN
        /\ UNCHANGED memory
        /\ UNCHANGED <<body, turn, scope, declared, mutated, shared, aliases, links,
                       returns, escaped, lines>>
    BY <1>2 DEF Open, analysis
  <2>2. kind # "top"
    BY NativeLoweringAssumption
  <2>3. Objects' /\ Named'
    BY <1>1, <2>1, MemoryKept
  <2> QED
    BY <1>1, <1>2, <2>1, <2>2, <2>3 DEF LowerInv, ReadSoFar, memory
<1>3. CASE Raise \/ UNCHANGED loweringVars
  <2>1. /\ runs' \in {FALSE, runs} /\ UNCHANGED memory
        /\ runs' = runs \/ block = "try"
        /\ UNCHANGED <<block, outer, body, turn, scope, declared, mutated, shared, aliases, links,
                       returns, escaped, lines>>
    BY <1>3 DEF Raise, loweringVars, control, analysis
  <2>2. Objects' /\ Named'
    BY <1>1, <2>1, MemoryKept
  <2>3. bound' = bound /\ returned' = returned
    BY <2>1 DEF memory
  <2>4. /\ runs' \in BOOLEAN
        /\ block' = "top" => runs'
        /\ returned' = 0 /\ runs' => \A x \in scope' : bound'[x] # 0
    <3>1. CASE runs' = runs
      BY <1>1, <2>1, <2>3, <3>1 DEF ReadSoFar
    <3>2. CASE runs' = FALSE /\ block = "try"
      BY <2>1, <3>2
    <3> QED
      BY <2>1, <3>1, <3>2
  <2>5. returned' = 0 => \A x \in outer' : bound'[x] # 0
    BY <1>1, <2>1, <2>3 DEF ReadSoFar
  <2>6. ReadSoFar'
    BY <1>1, <2>1, <2>4, <2>5 DEF ReadSoFar
  <2> QED
    BY <2>2, <2>6 DEF LowerInv
<1> QED
  BY <1>2, <1>3, ReadLower, RepeatLower, CloseLower DEF LoweringNext

\* Both languages keep to the kinds of the objects, and the analysis to the names
\* of a function, for statements and blocks of every form.
THEOREM LoweringTyped == LoweringSpec => []LoweringTypeOK
<1>1. LowerInv => LoweringTypeOK
  <2> SUFFICES ASSUME LowerInv PROVE LoweringTypeOK
    OBVIOUS
  <2>1. Objects /\ Named /\ ReadSoFar
    BY DEF LowerInv
  <2>2. heap \in Seq(Seq(Nat)) /\ Len(heap) \in Nat /\ DOMAIN heap = 1..Len(heap)
    BY <2>1, Lengths DEF Objects
  <2>3. ASSUME NEW o \in DOMAIN heap PROVE heap[o] \in Seq(0..Len(heap))
    <3>1. heap[o] \in Seq(Nat) /\ Len(heap[o]) \in Nat /\ o \in 1..Len(heap)
      BY <2>2, Lengths
    <3>2. ASSUME NEW i \in 1..Len(heap[o]) PROVE heap[o][i] \in 0..Len(heap)
      <4>1. CASE PlainList(heap, o)
        BY <2>2, <4>1 DEF PlainList
      <4>2. CASE ListOfLists(heap, o)
        BY <2>2, <4>2 DEF ListOfLists
      <4> QED
        BY <2>1, <3>1, <4>1, <4>2 DEF Objects
    <3> QED
      BY <3>1, <3>2, ItemsIn
  <2>4. outer \subseteq Variables
    BY <2>1 DEF ReadSoFar
  <2>5. \A x \in Variables : bound[x] \in 0..Len(heap)
    BY <2>1 DEF Named
  <2> QED
    BY <2>1, <2>3, <2>4, <2>5 DEF LoweringTypeOK, ReadSoFar, Named
<1> QED
  BY LowerInit, LowerStep, <1>1, PTL DEF LoweringSpec

-----------------------------------------------------------------------------
(* Why a lowered function has the values of Python's                       *)

\* What the analysis has noted by the time that a statement is executed.
Scanned(s) ==
  /\ mutated \subseteq mutated' /\ shared \subseteq shared' /\ (escaped => escaped')
  /\ MutatedNames(s) \subseteq mutated' /\ Sharing(s) \subseteq shared'

LEMMA OnlyMore ==
  ASSUME mutated \subseteq mutated', shared \subseteq shared', escaped => escaped'
  PROVE  (Lowered' => Lowered) /\ Unshared' \subseteq Unshared
BY DEF Lowered, Unshared

\* What an object holds has a smaller place than the next object.
LEMMA ItemsBelow ==
  ASSUME Objects, NEW o \in 1..Len(heap), NEW i \in 1..Len(heap[o])
  PROVE  heap[o][i] \in Nat /\ heap[o][i] <= Len(heap)
<1>1. heap \in Seq(Seq(Nat)) /\ Len(heap) \in Nat
  BY Lengths DEF Objects
<1>2. CASE PlainList(heap, o)
  BY <1>1, <1>2 DEF PlainList
<1>3. CASE ListOfLists(heap, o)
  BY <1>1, <1>3 DEF ListOfLists
<1> QED
  BY <1>2, <1>3 DEF Objects

\* A list is worth the same if neither it nor what it holds is the object that changes.
LEMMA WorthKept ==
  ASSUME Objects, NEW z \in Lists, NEW b \in 1..Len(heap), NEW c \in Nat, b # c,
         z \in Nested => ListOfLists(heap, b),
         \A o \in 1..Len(heap) : o # c => heap'[o] = heap[o],
         z \in Nested => \A i \in 1..Len(heap[b]) : heap[b][i] # c
  PROVE  Worth(heap', z, b) = Worth(heap, z, b)
<1>1. /\ heap'[b] = heap[b] /\ heap \in Seq(Seq(Nat))
      /\ DOMAIN heap[b] = 1..Len(heap[b])
  BY Lengths DEF Objects
<1>2. CASE z \in Nested
  <2>1. ASSUME NEW i \in DOMAIN heap[b] PROVE Len(heap'[heap'[b][i]]) = Len(heap[heap[b][i]])
    <3>1. heap[b][i] \in 1..Len(heap) /\ heap[b][i] # c
      BY <1>1, <1>2 DEF ListOfLists
    <3>2. heap'[heap[b][i]] = heap[heap[b][i]]
      BY <3>1
    <3> QED
      BY <1>1, <3>2
  <2>2. [i \in DOMAIN heap'[b] |-> Len(heap'[heap'[b][i]])]
          = [i \in DOMAIN heap[b] |-> Len(heap[heap[b][i]])]
    BY <1>1, <2>1
  <2> QED
    BY <1>2, <2>2 DEF Worth
<1>3. CASE z \notin Nested
  BY <1>1, <1>3 DEF Worth
<1> QED
  BY <1>2, <1>3

\* No object changes.
Still == Len(heap) <= Len(heap') /\ \A o \in 1..Len(heap) : heap'[o] = heap[o]

LEMMA WorthStill ==
  ASSUME Objects, Named, Still, NEW z \in Lists, bound[z] # 0
  PROVE  Worth(heap', z, bound[z]) = Worth(heap, z, bound[z])
<1>1. z \in Variables
  BY DEF Variables
<1>2. bound[z] \in 1..Len(heap) /\ (z \in Nested => ListOfLists(heap, bound[z]))
  BY <1>1, ObjectOf
<1> DEFINE b == bound[z]
<1>3. z \in Nested => \A i \in 1..Len(heap[b]) : heap[b][i] # 0
  BY <1>2 DEF ListOfLists
<1>4. \A o \in 1..Len(heap) : o # 0 => heap'[o] = heap[o]
  BY DEF Still
<1>5. b # 0 /\ 0 \in Nat /\ b \in 1..Len(heap) /\ (z \in Nested => ListOfLists(heap, b))
  BY <1>2
<1> HIDE DEF b
<1>6. Worth(heap', z, b) = Worth(heap, z, b)
  BY <1>3, <1>4, <1>5, WorthKept
<1> QED
  BY <1>6 DEF b

\* The caller's objects stay.
LEMMA GivenStill == ASSUME Objects, Still PROVE heap'[1] = heap[1] /\ heap'[2] = heap[2]
BY DEF Objects, Still

\* A name is bound, and no object changes.
LEMMA ValuesBound ==
  ASSUME Objects, Named, Alike, Still, Lowered' => Lowered,
         NEW x \in Variables, NEW b, NEW v,
         bound' = [bound EXCEPT ![x] = b], owned' = [owned EXCEPT ![x] = v],
         Lowered /\ x \in Lists => Worth(heap', x, b) = v
  PROVE  Alike'
<1>1. /\ Lists \subseteq Variables /\ DOMAIN bound = Variables /\ DOMAIN owned = Variables
      /\ bound'[x] = b /\ owned'[x] = v
      /\ \A y \in Variables : y # x => bound'[y] = bound[y] /\ owned'[y] = owned[y]
  BY DEF Variables, Named
<1>2. ASSUME Lowered', NEW z \in Lists, bound'[z] # 0 PROVE Worth(heap', z, bound'[z]) = owned'[z]
  <2>1. CASE z = x
    BY <1>1, <1>2, <2>1
  <2>2. CASE z # x
    <3>1. bound'[z] = bound[z] /\ owned'[z] = owned[z] /\ bound[z] # 0
      BY <1>1, <1>2, <2>2
    <3>2. Worth(heap, z, bound[z]) = owned[z]
      BY <1>2, <3>1 DEF Alike
    <3>3. Worth(heap', z, bound[z]) = Worth(heap, z, bound[z])
      BY <3>1, WorthStill
    <3> QED
      BY <3>1, <3>2, <3>3
  <2> QED
    BY <2>1, <2>2
<1>3. Lowered' => heap'[1] = <<>> /\ heap'[2] = <<1>>
  BY GivenStill DEF Alike
<1> QED
  BY <1>2, <1>3 DEF Alike

\* Where a name may be put: at an object that no other name has and none holds, if
\* the analysis takes the name to be unshared, and without a new holder of another one.
Place(x, b) ==
  /\ x \in Lists => b > 4 \/ x \notin Unshared'
  /\ x \in Unshared' =>
       /\ \A y \in Lists : bound[y] # b
       /\ \A o \in 1..Len(heap') : \A i \in 1..Len(heap'[o]) : heap'[o][i] # b
  /\ \A z \in Unshared' : z # x /\ bound[z] # 0 =>
       /\ x \in Lists => b # bound[z]
       /\ \A o \in 1..Len(heap') : o > Len(heap) =>
            \A i \in 1..Len(heap'[o]) : heap'[o][i] # bound[z]

LEMMA Rebinding ==
  ASSUME Objects, Named, Owning, Alike, Still,
         mutated \subseteq mutated', shared \subseteq shared', escaped => escaped',
         NEW x \in Variables, NEW b, NEW v,
         bound' = [bound EXCEPT ![x] = b], owned' = [owned EXCEPT ![x] = v],
         Place(x, b),
         Lowered /\ x \in Lists => Worth(heap', x, b) = v
  PROVE  Owning' /\ Alike'
<1>1. (Lowered' => Lowered) /\ Unshared' \subseteq Unshared
  BY OnlyMore
<1>2. /\ Lists \subseteq Variables /\ DOMAIN bound = Variables /\ DOMAIN owned = Variables
      /\ bound'[x] = b /\ owned'[x] = v
      /\ \A y \in Variables : y # x => bound'[y] = bound[y] /\ owned'[y] = owned[y]
  BY DEF Variables, Named
<1>3. ASSUME NEW z \in Unshared', bound'[z] # 0
      PROVE  /\ bound'[z] > 4
             /\ \A y \in Lists \ {z} : bound'[y] # bound'[z]
             /\ \A o \in 1..Len(heap') : \A i \in 1..Len(heap'[o]) : heap'[o][i] # bound'[z]
  <2>1. z \in Lists /\ z \in Variables
    BY <1>2 DEF Unshared
  <2>2. CASE z = x
    BY <1>2, <1>3, <2>1, <2>2 DEF Place
  <2>3. CASE z # x
    <3>1. bound'[z] = bound[z] /\ bound[z] # 0 /\ Private(z)
      BY <1>1, <1>2, <1>3, <2>1, <2>3 DEF Owning
    <3>2. \A y \in Lists \ {z} : bound'[y] # bound'[z]
      BY <1>2, <1>3, <2>3, <3>1 DEF Private, Place
    <3>3. ASSUME NEW o \in 1..Len(heap'), NEW i \in 1..Len(heap'[o]) PROVE heap'[o][i] # bound[z]
      <4>1. CASE o > Len(heap)
        BY <1>3, <2>3, <3>1, <4>1 DEF Place
      <4>2. CASE ~ (o > Len(heap))
        <5>1. o \in 1..Len(heap)
          BY <4>2, Lengths DEF Objects, Still
        <5>2. heap'[o] = heap[o]
          BY <5>1 DEF Still
        <5> QED
          BY <3>1, <5>1, <5>2 DEF Private
      <4> QED
        BY <4>1, <4>2
    <3> QED
      BY <3>1, <3>2, <3>3 DEF Private
  <2> QED
    BY <2>2, <2>3
<1>4. Owning'
  BY <1>3 DEF Owning, Private
<1>5. Alike'
  BY <1>1, ValuesBound
<1> QED
  BY <1>4, <1>5

\* A list made for a name: nothing else has it, and it holds no list of another name
\* that the analysis takes to be unshared.
LEMMA MadeFor ==
  ASSUME Objects, Named, Owning, Alike, NEW x \in Lists, NEW t \in Seq(Nat), NEW v,
         mutated \subseteq mutated', shared \subseteq shared', escaped => escaped',
         heap' = Append(heap, t), Bind(x, Len(heap) + 1, v),
         \A i \in 1..Len(t) : t[i] <= Len(heap),
         \A z \in Unshared' : z # x /\ bound[z] # 0 => \A i \in 1..Len(t) : t[i] # bound[z],
         Lowered => Worth(heap', x, Len(heap) + 1) = v
  PROVE  Owning' /\ Alike'
<1> DEFINE b == Len(heap) + 1
<1>1. /\ heap \in Seq(Seq(Nat)) /\ Len(heap) \in Nat /\ Len(heap) >= 4
      /\ x \in Variables /\ Lists \subseteq Variables
  BY Lengths DEF Objects, Variables
<1>2. /\ Len(heap') = b /\ heap'[b] = t
      /\ \A o \in 1..Len(heap) : heap'[o] = heap[o]
  BY <1>1, OneMore
<1>3. Still
  BY <1>1, <1>2 DEF Still
<1>4. bound' = [bound EXCEPT ![x] = b] /\ owned' = [owned EXCEPT ![x] = v]
  BY DEF Bind
<1>5. b > 4 /\ \A y \in Lists : bound[y] # b
  <2>1. \A y \in Lists : bound[y] \in 0..Len(heap)
    BY <1>1 DEF Named
  <2> QED
    BY <1>1, <2>1
<1>6. ASSUME NEW o \in 1..Len(heap'), NEW i \in 1..Len(heap'[o]) PROVE heap'[o][i] # b
  <2>1. o \in 1..Len(heap) \/ o = b
    BY <1>1, <1>2, LastOne
  <2>2. CASE o \in 1..Len(heap)
    <3>1. heap[o][i] \in Nat /\ heap[o][i] <= Len(heap)
      BY <1>2, <1>6, <2>2, ItemsBelow
    <3> QED
      BY <1>1, <1>2, <2>2, <3>1
  <2>3. CASE o = b
    <3>1. i \in 1..Len(t) /\ heap'[o][i] = t[i]
      BY <1>2, <1>6, <2>3
    <3>2. t[i] <= Len(heap) /\ t[i] \in Nat
      BY <3>1
    <3> QED
      BY <1>1, <3>1, <3>2
  <2> QED
    BY <2>1, <2>2, <2>3
<1>7. ASSUME NEW z \in Unshared', z # x, bound[z] # 0
      PROVE  /\ b # bound[z]
             /\ \A o \in 1..Len(heap') : o > Len(heap) =>
                  \A i \in 1..Len(heap'[o]) : heap'[o][i] # bound[z]
  <2>1. z \in Lists
    BY DEF Unshared
  <2>2. \A o \in 1..Len(heap') : o > Len(heap) => o = b
    BY <1>1, <1>2
  <2>3. \A i \in 1..Len(heap'[b]) : heap'[b][i] # bound[z]
    BY <1>2, <1>7
  <2> QED
    BY <1>5, <2>1, <2>2, <2>3
<1>8. Lowered /\ x \in Lists => Worth(heap', x, b) = v
  OBVIOUS
<1> HIDE DEF b
<1>9. Place(x, b)
  BY <1>5, <1>6, <1>7 DEF Place
<1> QED
  BY <1>1, <1>3, <1>4, <1>8, <1>9, Rebinding

\* What is made afresh is worth nothing, or one list that is.
LEMMA FreshMade ==
  ASSUME Objects, NEW x \in Variables, Fresh(x)
  PROVE  /\ Still
         /\ x \in Array => heap' = heap /\ Bind(x, 4, 0)
         /\ x \in Flat => /\ heap' = Append(heap, <<>>) /\ Bind(x, Len(heap) + 1, 0)
                          /\ Worth(heap', x, Len(heap) + 1) = 0
         /\ x \in Nested => /\ Len(heap') = Len(heap) + 2 /\ Bind(x, Len(heap) + 2, <<0>>)
                            /\ heap'[Len(heap) + 1] = <<>>
                            /\ heap'[Len(heap) + 2] = <<Len(heap) + 1>>
                            /\ Worth(heap', x, Len(heap) + 2) = <<0>>
<1>1. /\ Flat \cap Nested = {} /\ Flat \cap Array = {} /\ Nested \cap Array = {}
      /\ Variables = Flat \cup Nested \cup Array
  BY NativeLoweringAssumption DEF Lists, Variables
<1>2. heap \in Seq(Seq(Nat)) /\ Len(heap) \in Nat
  BY Lengths DEF Objects
<1>3. LET new == Len(heap) + 1
      IN  CASE x \in Array  -> Bind(x, OwnArray, 0) /\ UNCHANGED heap
            [] x \in Nested -> heap' = heap \o << <<>>, <<new>> >> /\ Bind(x, new + 1, <<0>>)
            [] x \in Flat   -> heap' = Append(heap, <<>>) /\ Bind(x, new, 0)
  BY DEF Fresh
<1>4. CASE x \in Array
  <2>1. x \notin Nested /\ x \notin Flat
    BY <1>1, <1>4
  <2>2. heap' = heap /\ Bind(x, 4, 0)
    BY <1>3, <1>4, <2>1 DEF OwnArray
  <2> QED
    BY <1>2, <2>1, <2>2 DEF Still
<1>5. CASE x \in Flat
  <2>1. x \notin Nested /\ x \notin Array
    BY <1>1, <1>5
  <2>2. heap' = Append(heap, <<>>) /\ Bind(x, Len(heap) + 1, 0)
    BY <1>3, <1>5, <2>1
  <2>3. <<>> \in Seq(Nat) /\ Len(<<>>) = 0
    OBVIOUS
  <2>4. /\ Len(heap') = Len(heap) + 1 /\ heap'[Len(heap) + 1] = <<>>
        /\ \A o \in 1..Len(heap) : heap'[o] = heap[o]
    BY <1>2, <2>2, <2>3, OneMore
  <2>5. Worth(heap', x, Len(heap) + 1) = 0
    BY <2>1, <2>3, <2>4 DEF Worth
  <2>6. Still
    BY <1>2, <2>4 DEF Still
  <2> QED
    BY <2>1, <2>2, <2>5, <2>6
<1>6. CASE x \in Nested
  <2>1. x \notin Flat /\ x \notin Array /\ Len(heap) + 1 + 1 = Len(heap) + 2
    BY <1>1, <1>2, <1>6
  <2> DEFINE first == Len(heap) + 1
  <2>2. heap' = heap \o << <<>>, <<first>> >> /\ Bind(x, Len(heap) + 2, <<0>>)
    BY <1>3, <1>6, <2>1
  <2>3. /\ Len(heap') = Len(heap) + 2 /\ heap'[first] = <<>> /\ heap'[Len(heap) + 2] = <<first>>
        /\ \A o \in 1..Len(heap) : heap'[o] = heap[o]
    BY <1>2, <2>2
  <2>4. Len(<<>>) = 0 /\ DOMAIN <<first>> = 1..1 /\ <<first>>[1] = first
    OBVIOUS
  <2>5. Worth(heap', x, Len(heap) + 2) = <<0>>
    <3>1. Worth(heap', x, Len(heap) + 2) = [i \in DOMAIN <<first>> |-> Len(heap'[<<first>>[i]])]
      BY <1>6, <2>3 DEF Worth
    <3>2. \A i \in 1..1 : Len(heap'[<<first>>[i]]) = 0
      BY <2>3, <2>4
    <3>3. <<0>> = [i \in 1..1 |-> 0]
      OBVIOUS
    <3> HIDE DEF first
    <3> QED
      BY <2>4, <3>1, <3>2, <3>3
  <2>6. Still
    BY <1>2, <2>3 DEF Still
  <2> QED
    BY <2>1, <2>2, <2>3, <2>5, <2>6
<1> QED
  BY <1>1, <1>4, <1>5, <1>6

LEMMA FreshSame ==
  ASSUME Objects, Named, Owning, Alike, NEW x \in Variables, Fresh(x),
         mutated \subseteq mutated', shared \subseteq shared', escaped => escaped'
  PROVE  Owning' /\ Alike'
<1>1. /\ Flat \cap Nested = {} /\ Flat \cap Array = {} /\ Nested \cap Array = {}
      /\ Variables = Flat \cup Nested \cup Array /\ Lists = Flat \cup Nested
  BY NativeLoweringAssumption DEF Lists, Variables
<1>2. heap \in Seq(Seq(Nat)) /\ Len(heap) \in Nat /\ Len(heap) >= 4
  BY Lengths DEF Objects
<1>3. /\ Still
      /\ x \in Array => heap' = heap /\ Bind(x, 4, 0)
      /\ x \in Flat => /\ heap' = Append(heap, <<>>) /\ Bind(x, Len(heap) + 1, 0)
                       /\ Worth(heap', x, Len(heap) + 1) = 0
      /\ x \in Nested => /\ Len(heap') = Len(heap) + 2 /\ Bind(x, Len(heap) + 2, <<0>>)
                         /\ heap'[Len(heap) + 1] = <<>>
                         /\ heap'[Len(heap) + 2] = <<Len(heap) + 1>>
                         /\ Worth(heap', x, Len(heap) + 2) = <<0>>
  BY FreshMade
<1>4. CASE x \in Array
  <2>1. x \notin Lists /\ x \notin Unshared'
    BY <1>1, <1>4 DEF Unshared
  <2>2. bound' = [bound EXCEPT ![x] = 4] /\ owned' = [owned EXCEPT ![x] = 0]
    BY <1>3, <1>4 DEF Bind
  <2>3. \A o \in 1..Len(heap') : ~ (o > Len(heap))
    BY <1>2, <1>3, <1>4
  <2>4. Place(x, 4)
    BY <2>1, <2>3 DEF Place
  <2> QED
    BY <1>3, <2>1, <2>2, <2>4, Rebinding
<1>5. CASE x \in Flat
  <2>1. <<>> \in Seq(Nat) /\ Len(<<>>) = 0 /\ x \in Lists
    BY <1>1, <1>5
  <2>2. \A i \in 1..Len(<<>>) : FALSE
    BY <2>1
  <2>3. /\ heap' = Append(heap, <<>>) /\ Bind(x, Len(heap) + 1, 0)
        /\ Worth(heap', x, Len(heap) + 1) = 0
    BY <1>3, <1>5
  <2> QED
    BY <2>1, <2>2, <2>3, MadeFor
<1>6. CASE x \in Nested
  <2> DEFINE new == Len(heap) + 1
             b   == Len(heap) + 2
  <2>1. /\ Len(heap') = b /\ heap'[new] = <<>> /\ heap'[b] = <<new>> /\ Bind(x, b, <<0>>)
        /\ Worth(heap', x, b) = <<0>>
    BY <1>3, <1>6
  <2>2. \A o \in 1..Len(heap) : heap'[o] = heap[o]
    BY <1>3 DEF Still
  <2>3. x \in Lists /\ new \in Nat /\ b \in Nat
    BY <1>1, <1>2, <1>6
  <2>4. bound' = [bound EXCEPT ![x] = b] /\ owned' = [owned EXCEPT ![x] = <<0>>]
    BY <2>1 DEF Bind
  <2>5. b > 4 /\ new # b /\ \A y \in Lists : bound[y] # b /\ bound[y] # new
    <3>1. \A y \in Lists : bound[y] \in 0..Len(heap)
      BY <1>1 DEF Named
    <3> QED
      BY <1>2, <3>1
  <2>6. \A o \in 1..Len(heap') : o \in 1..Len(heap) \/ o = new \/ o = b
    BY <1>2, <2>1, LastTwo
  <2>7. Len(<<new>>) = 1 /\ <<new>>[1] = new /\ Len(<<>>) = 0
    OBVIOUS
  <2>8. ASSUME NEW o \in 1..Len(heap'), NEW i \in 1..Len(heap'[o]) PROVE heap'[o][i] # b
    <3>1. CASE o \in 1..Len(heap)
      <4>1. heap[o][i] \in Nat /\ heap[o][i] <= Len(heap)
        BY <2>2, <2>8, <3>1, ItemsBelow
      <4>2. \A k \in Nat : k <= Len(heap) => k # b
        BY <1>2
      <4> QED
        BY <2>2, <3>1, <4>1, <4>2
    <3>2. CASE o = new
      BY <2>1, <2>7, <2>8, <3>2
    <3>3. CASE o = b
      <4>1. heap'[o] = <<new>> /\ i = 1
        <5>1. heap'[o] = <<new>>
          BY <2>1, <3>3
        <5>2. i \in 1..1
          BY <2>7, <2>8, <5>1
        <5> QED
          BY <5>1, <5>2
      <4> QED
        BY <2>5, <2>7, <4>1
    <3> QED
      BY <2>6, <3>1, <3>2, <3>3
  <2>9. ASSUME NEW z \in Unshared', z # x, bound[z] # 0
        PROVE  /\ b # bound[z]
               /\ \A o \in 1..Len(heap') : o > Len(heap) =>
                    \A i \in 1..Len(heap'[o]) : heap'[o][i] # bound[z]
    <3>1. z \in Lists
      BY DEF Unshared
    <3>2. \A i \in 1..Len(<<new>>) : <<new>>[i] # bound[z]
      BY <2>5, <2>7, <3>1
    <3>3. \A i \in 1..Len(<<>>) : <<>>[i] # bound[z]
      BY <2>7
    <3>4. \A o \in 1..Len(heap') : o > Len(heap) => heap'[o] = <<new>> \/ heap'[o] = <<>>
      <4>1. \A o \in 1..Len(heap') : o > Len(heap) => o = new \/ o = b
        <5>1. \A o \in 1..Len(heap') : o > Len(heap) => o \notin 1..Len(heap)
          BY <1>2
        <5> QED
          BY <2>6, <5>1
      <4> QED
        BY <2>1, <4>1
    <3> HIDE DEF new, b
    <3> QED
      BY <2>5, <3>1, <3>2, <3>3, <3>4
  <2>10. Place(x, b)
    BY <2>5, <2>8, <2>9 DEF Place
  <2> HIDE DEF new, b
  <2> QED
    BY <1>3, <2>1, <2>3, <2>4, <2>10, Rebinding
<1> QED
  BY <1>1, <1>4, <1>5, <1>6

\* What a name is bound to is worth, in Python, what the other name is in Rust.
LEMMA NameWorth ==
  ASSUME Alike, Lowered, NEW x \in Lists, NEW y \in Lists, bound[y] # 0,
         x \in Nested <=> y \in Nested
  PROVE  Worth(heap, x, bound[y]) = owned[y]
<1>1. Worth(heap, y, bound[y]) = owned[y]
  BY DEF Alike
<1>2. Worth(heap, x, bound[y]) = Worth(heap, y, bound[y])
  BY DEF Worth
<1> QED
  BY <1>1, <1>2

LEMMA CopyWorth ==
  ASSUME Objects, Named, Alike, Lowered, NEW x \in Lists, NEW y \in Lists, Copy(x, y),
         bound[y] # 0, x \in Nested <=> y \in Nested
  PROVE  Worth(heap', x, Len(heap) + 1) = owned[y]
<1> DEFINE b == bound[y]
           t == heap[b]
<1>1. heap' = Append(heap, t)
  BY DEF Copy
<1>2. /\ b \in 1..Len(heap) /\ t \in Seq(Nat) /\ heap \in Seq(Seq(Nat)) /\ Len(heap) \in Nat
      /\ Len(t) \in Nat /\ DOMAIN t = 1..Len(t) /\ (y \in Nested => ListOfLists(heap, b))
  <2>1. y \in Variables
    BY DEF Variables
  <2> QED
    BY <2>1, ObjectOf
<1>3. /\ heap'[Len(heap) + 1] = t
      /\ \A o \in 1..Len(heap) : heap'[o] = heap[o]
  BY <1>1, <1>2, OneMore
<1>4. Worth(heap, y, b) = owned[y]
  BY DEF Alike
<1>5. CASE y \in Nested
  <2>1. \A i \in DOMAIN t : Len(heap'[t[i]]) = Len(heap[t[i]])
    <3>1. \A i \in DOMAIN t : t[i] \in 1..Len(heap)
      BY <1>2, <1>5 DEF ListOfLists
    <3> QED
      BY <1>3, <3>1
  <2>2. [i \in DOMAIN t |-> Len(heap'[t[i]])] = [i \in DOMAIN t |-> Len(heap[t[i]])]
    BY <2>1
  <2>3. Worth(heap', x, Len(heap) + 1) = [i \in DOMAIN t |-> Len(heap'[t[i]])]
    BY <1>3, <1>5 DEF Worth
  <2>4. Worth(heap, y, b) = [i \in DOMAIN t |-> Len(heap[t[i]])]
    BY <1>5 DEF Worth
  <2> QED
    BY <1>4, <2>2, <2>3, <2>4
<1>6. CASE y \notin Nested
  <2>1. Worth(heap', x, Len(heap) + 1) = Len(t) /\ Worth(heap, y, b) = Len(t)
    BY <1>3, <1>6 DEF Worth
  <2> QED
    BY <1>4, <2>1
<1> QED
  BY <1>5, <1>6

\* A list of one list, or of one list twice.
LEMMA ListsOf ==
  ASSUME Objects, Named, Alike, Lowered, NEW x \in Nested, NEW y \in Flat, bound[y] # 0,
         NEW t, NEW v, heap' = Append(heap, t),
         \/ t = <<bound[y]>> /\ v = <<owned[y]>>
         \/ t = <<bound[y], bound[y]>> /\ v = <<owned[y], owned[y]>>
  PROVE  Worth(heap', x, Len(heap) + 1) = v
<1> DEFINE b == bound[y]
           w == owned[y]
<1>1. /\ b \in 1..Len(heap) /\ heap \in Seq(Seq(Nat)) /\ Len(heap) \in Nat
      /\ y \in Lists /\ y \notin Nested
  <2>1. y \in Variables /\ y \in Lists /\ y \notin Nested
    BY NativeLoweringAssumption DEF Variables, Lists
  <2> QED
    BY <2>1, ObjectOf
<1>2. Len(heap[b]) = w
  <2>1. Worth(heap, y, b) = w
    BY <1>1 DEF Alike
  <2> QED
    BY <1>1, <2>1 DEF Worth
<1> HIDE DEF b, w
<1>3. PICK n \in {1, 2} : /\ t \in Seq(Nat) /\ DOMAIN t = 1..n /\ \A i \in 1..n : t[i] = b
                          /\ v = [i \in 1..n |-> w]
  <2>1. ASSUME NEW c \in Nat, NEW u
        PROVE  /\ <<c>> \in Seq(Nat) /\ <<c>>[1] = c /\ DOMAIN <<c>> = 1..1
               /\ <<c, c>> \in Seq(Nat) /\ DOMAIN <<c, c>> = 1..2
               /\ <<c, c>>[1] = c /\ <<c, c>>[2] = c
               /\ <<u>> = [i \in 1..1 |-> u] /\ <<u, u>> = [i \in 1..2 |-> u]
    OBVIOUS
  <2>2. b \in Nat
    BY <1>1
  <2>3. CASE t = <<b>> /\ v = <<w>>
    BY <2>1, <2>2, <2>3
  <2>4. CASE t = <<b, b>> /\ v = <<w, w>>
    <3>1. \A i \in 1..2 : i = 1 \/ i = 2
      OBVIOUS
    <3> QED
      BY <2>1, <2>2, <2>4, <3>1
  <2> QED
    BY <2>3, <2>4 DEF b, w
<1>4. /\ heap'[Len(heap) + 1] = t
      /\ \A o \in 1..Len(heap) : heap'[o] = heap[o]
  BY <1>1, <1>3, OneMore
<1>5. Worth(heap', x, Len(heap) + 1) = [i \in 1..n |-> Len(heap'[t[i]])]
  BY <1>3, <1>4 DEF Worth
<1>6. \A i \in 1..n : Len(heap'[t[i]]) = w
  BY <1>1, <1>2, <1>3, <1>4
<1>7. [i \in 1..n |-> Len(heap'[t[i]])] = [i \in 1..n |-> w]
  BY <1>6
<1> QED
  BY <1>3, <1>5, <1>7

LEMMA NameSame ==
  ASSUME Objects, Named, Owning, Alike, NEW x \in Variables, NEW y \in Variables, Name(x, y),
         mutated \subseteq mutated', shared \subseteq shared', escaped => escaped',
         bound[y] # 0, x \in Nested <=> y \in Nested, x \in Lists <=> y \in Lists,
         x \in Lists => x \in shared' /\ y \in shared'
  PROVE  Owning' /\ Alike'
<1> DEFINE b == bound[y]
<1>1. heap' = heap /\ Bind(x, b, owned[y])
  BY DEF Name
<1>2. bound' = [bound EXCEPT ![x] = b] /\ owned' = [owned EXCEPT ![x] = owned[y]]
  BY <1>1 DEF Bind
<1>3. Len(heap) \in Nat /\ Still
  BY <1>1, Lengths DEF Objects, Still
<1>4. (x \notin Unshared' /\ y \notin Unshared') \/ x \notin Lists
  BY DEF Unshared
<1>5. \A z \in Unshared' : z # x /\ bound[z] # 0 => (x \in Lists => b # bound[z])
  <2>1. Unshared' \subseteq Unshared
    BY OnlyMore
  <2> QED
    BY <1>4, <2>1 DEF Owning, Private
<1>6. \A o \in 1..Len(heap') : ~ (o > Len(heap))
  BY <1>1, <1>3
<1>7. x \notin Lists => x \notin Unshared'
  BY DEF Unshared
<1>8. Place(x, b)
  BY <1>4, <1>5, <1>6, <1>7 DEF Place
<1>9. Lowered /\ x \in Lists => Worth(heap', x, b) = owned[y]
  BY <1>1, NameWorth
<1> HIDE DEF b
<1> QED
  BY <1>2, <1>3, <1>8, <1>9, Rebinding

LEMMA CopySame ==
  ASSUME Objects, Named, Owning, Alike, NEW x \in Lists, NEW y \in Lists, Copy(x, y),
         mutated \subseteq mutated', shared \subseteq shared', escaped => escaped',
         bound[y] # 0, x \in Nested <=> y \in Nested
  PROVE  Owning' /\ Alike'
<1> DEFINE b == bound[y]
           t == heap[b]
<1>1. heap' = Append(heap, t) /\ Bind(x, Len(heap) + 1, owned[y])
  BY DEF Copy
<1>2. /\ b \in 1..Len(heap) /\ t \in Seq(Nat) /\ heap \in Seq(Seq(Nat)) /\ Len(heap) \in Nat
      /\ Len(t) \in Nat /\ DOMAIN t = 1..Len(t) /\ (y \in Nested => ListOfLists(heap, b))
  <2>1. y \in Variables
    BY DEF Variables
  <2> QED
    BY <2>1, ObjectOf
<1>3. \A i \in 1..Len(t) : t[i] <= Len(heap)
  BY <1>2, ItemsBelow
<1>4. \A z \in Unshared' : z # x /\ bound[z] # 0 => \A i \in 1..Len(t) : t[i] # bound[z]
  <2>1. Unshared' \subseteq Unshared
    BY OnlyMore
  <2> QED
    BY <1>2, <2>1 DEF Owning, Private
<1>5. Lowered => Worth(heap', x, Len(heap) + 1) = owned[y]
  BY CopyWorth
<1> HIDE DEF b, t
<1> QED
  BY <1>1, <1>2, <1>3, <1>4, <1>5, MadeFor

LEMMA LiteralSame ==
  ASSUME Objects, Named, Owning, Alike, NEW x \in Nested, NEW y \in Flat, Literal(x, y),
         mutated \subseteq mutated', shared \subseteq shared', escaped => escaped',
         bound[y] # 0, y \in shared'
  PROVE  Owning' /\ Alike'
<1> DEFINE b == bound[y]
           t == <<b>>
<1>1. heap' = Append(heap, t) /\ Bind(x, Len(heap) + 1, <<owned[y]>>)
  BY DEF Literal
<1>2. b \in 1..Len(heap) /\ heap \in Seq(Seq(Nat)) /\ Len(heap) \in Nat
      /\ x \in Lists /\ y \in Lists /\ y \notin Nested
  <2>1. y \in Variables /\ x \in Lists /\ y \in Lists /\ y \notin Nested
    BY NativeLoweringAssumption DEF Variables, Lists
  <2> QED
    BY <2>1, ObjectOf
<1>3. ASSUME NEW c \in Nat
      PROVE  <<c>> \in Seq(Nat) /\ Len(<<c>>) = 1 /\ <<c>>[1] = c /\ DOMAIN <<c>> = 1..1
  OBVIOUS
<1>4. t \in Seq(Nat) /\ Len(t) = 1 /\ t[1] = b /\ DOMAIN t = 1..1
  BY <1>2, <1>3
<1> HIDE DEF t
<1>5. \A i \in 1..Len(t) : i = 1 /\ t[i] = b
  BY <1>4
<1>6. \A i \in 1..Len(t) : t[i] <= Len(heap)
  BY <1>2, <1>5
<1>7. \A z \in Unshared' : z # x /\ bound[z] # 0 => \A i \in 1..Len(t) : t[i] # bound[z]
  <2>1. Unshared' \subseteq Unshared /\ y \notin Unshared'
    BY OnlyMore DEF Unshared
  <2>2. \A z \in Unshared' : bound[z] # 0 => b # bound[z]
    BY <1>2, <2>1 DEF Owning, Private
  <2> QED
    BY <1>5, <2>2
<1>8. Lowered => Worth(heap', x, Len(heap) + 1) = <<owned[y]>>
  BY <1>1, ListsOf DEF t
<1> HIDE DEF b
<1> QED
  BY <1>1, <1>2, <1>4, <1>6, <1>7, <1>8, MadeFor

LEMMA OneLonger ==
  ASSUME NEW S, NEW t \in Seq(S), NEW e \in S, NEW u, u = Append(t, e)
  PROVE  /\ Len(u) = Len(t) + 1 /\ u[Len(t) + 1] = e /\ DOMAIN u = 1..(Len(t) + 1)
         /\ \A i \in 1..Len(t) : u[i] = t[i]
BY OneMore

\* What a name's list becomes when something new is appended to it.
LEMMA Longer ==
  ASSUME Objects, Named, NEW x \in Lists, bound[x] # 0, AppendTo(x)
  PROVE  /\ bound' = bound /\ Len(heap) <= Len(heap')
         /\ \A o \in 1..Len(heap) : o # bound[x] => heap'[o] = heap[o]
         /\ x \notin Nested => /\ heap'[bound[x]] = Append(heap[bound[x]], 0)
                               /\ Len(heap') = Len(heap)
         /\ x \in Nested => /\ heap'[bound[x]] = Append(heap[bound[x]], Len(heap) + 1)
                            /\ Len(heap') = Len(heap) + 1 /\ heap'[Len(heap) + 1] = <<>>
<1> DEFINE b   == bound[x]
           new == Len(heap) + 1
<1>1. /\ b \in 1..Len(heap) /\ heap[b] \in Seq(Nat) /\ heap \in Seq(Seq(Nat)) /\ Len(heap) \in Nat
      /\ new \in Nat
  <2>1. x \in Variables
    BY DEF Variables
  <2> QED
    BY <2>1, ObjectOf
<1>2. bound' = bound
  BY DEF AppendTo
<1>3. heap' = IF x \in Nested THEN Append([heap EXCEPT ![b] = Append(heap[b], new)], <<>>)
              ELSE [heap EXCEPT ![b] = Append(heap[b], 0)]
  BY DEF AppendTo
<1> HIDE DEF b, new
<1>4. CASE x \in Nested
  <2> DEFINE h == [heap EXCEPT ![b] = Append(heap[b], new)]
  <2>1. Append(heap[b], new) \in Seq(Nat)
    BY <1>1, OneMore
  <2>2. /\ h \in Seq(Seq(Nat)) /\ Len(h) = Len(heap) /\ h[b] = Append(heap[b], new)
        /\ \A o \in 1..Len(heap) : o # b => h[o] = heap[o]
    BY <1>1, <2>1
  <2>3. heap' = Append(h, <<>>) /\ <<>> \in Seq(Nat)
    BY <1>3, <1>4
  <2> HIDE DEF h
  <2>4. /\ Len(heap') = Len(heap) + 1 /\ heap'[Len(heap) + 1] = <<>>
        /\ \A o \in 1..Len(heap) : heap'[o] = h[o]
    <3>1. /\ Len(heap') = Len(h) + 1 /\ heap'[Len(h) + 1] = <<>>
          /\ \A o \in 1..Len(h) : heap'[o] = h[o]
      <4>1. h \in Seq(Seq(Nat)) /\ <<>> \in Seq(Nat) /\ heap' = Append(h, <<>>)
        BY <2>2, <2>3
      <4> QED
        BY <4>1, OneLonger
    <3> QED
      BY <2>2, <3>1
  <2>5. heap'[b] = Append(heap[b], new) /\ \A o \in 1..Len(heap) : o # b => heap'[o] = heap[o]
    BY <1>1, <2>2, <2>4
  <2>6. Len(heap) <= Len(heap')
    BY <1>1, <2>4
  <2> QED
    BY <1>2, <1>4, <2>4, <2>5, <2>6 DEF b, new
<1>5. CASE x \notin Nested
  <2>1. Append(heap[b], 0) \in Seq(Nat)
    BY <1>1, OneMore
  <2>2. /\ Len(heap') = Len(heap) /\ heap'[b] = Append(heap[b], 0)
        /\ \A o \in 1..Len(heap) : o # b => heap'[o] = heap[o]
    BY <1>1, <1>3, <1>5, <2>1
  <2>3. Len(heap) <= Len(heap')
    BY <1>1, <2>2
  <2> QED
    BY <1>2, <1>5, <2>2, <2>3 DEF b
<1> QED
  BY <1>4, <1>5

\* Appending changes nothing but the list of the name, if that is unshared.
LEMMA AppendSame ==
  ASSUME Objects, Named, Owning, Alike, NEW x \in Lists, AppendTo(x),
         mutated \subseteq mutated', shared \subseteq shared', escaped => escaped',
         bound[x] # 0, x \in mutated'
  PROVE  Owning' /\ Alike'
<1> DEFINE b   == bound[x]
           new == Len(heap) + 1
<1>1. /\ bound' = bound /\ Len(heap) <= Len(heap')
      /\ \A o \in 1..Len(heap) : o # b => heap'[o] = heap[o]
      /\ x \notin Nested => heap'[b] = Append(heap[b], 0) /\ Len(heap') = Len(heap)
      /\ x \in Nested => /\ heap'[b] = Append(heap[b], new)
                         /\ Len(heap') = new /\ heap'[new] = <<>>
  BY Longer
<1>2. /\ b \in 1..Len(heap) /\ heap[b] \in Seq(Nat) /\ heap \in Seq(Seq(Nat)) /\ Len(heap) \in Nat
      /\ new \in Nat /\ Len(heap[b]) \in Nat /\ DOMAIN heap[b] = 1..Len(heap[b]) /\ Len(heap) >= 4
      /\ (x \in Nested => ListOfLists(heap, b))
  <2>1. x \in Variables
    BY DEF Variables
  <2> QED
    BY <2>1, ObjectOf
<1>3. /\ \A y \in Lists : bound[y] \in 0..Len(heap)
      /\ DOMAIN owned = Variables /\ Lists \subseteq Variables
  BY DEF Named, Variables
<1>4. owned' = [owned EXCEPT ![x] = IF x \in Nested THEN Append(owned[x], 0) ELSE owned[x] + 1]
  BY DEF AppendTo
<1> HIDE DEF b, new
<1>5. PICK e \in {0, new} : heap'[b] = Append(heap[b], e)
  BY <1>1
<1>6. ASSUME NEW z \in Unshared', bound'[z] # 0
      PROVE  /\ bound'[z] > 4
             /\ \A y \in Lists \ {z} : bound'[y] # bound'[z]
             /\ \A o \in 1..Len(heap') : \A i \in 1..Len(heap'[o]) : heap'[o][i] # bound'[z]
  <2>1. bound[z] > 4 /\ bound[z] <= Len(heap) /\ bound[z] \in Nat /\ Private(z)
    <3>1. z \in Unshared /\ bound[z] # 0
      BY <1>1, <1>6, OnlyMore
    <3>2. z \in Lists
      BY <3>1 DEF Unshared
    <3> QED
      <4>1. Private(z) /\ bound[z] > 4
        BY <3>1 DEF Owning, Private
      <4>2. bound[z] \in 0..Len(heap)
        BY <1>3, <3>2
      <4> QED
        BY <1>2, <4>1, <4>2
  <2>2. ASSUME NEW o \in 1..Len(heap'), NEW i \in 1..Len(heap'[o]) PROVE heap'[o][i] # bound[z]
    <3>1. CASE o \in 1..Len(heap) /\ o # b
      BY <1>1, <2>1, <3>1 DEF Private
    <3>2. CASE o = b
      <4>1. /\ Len(heap'[b]) = Len(heap[b]) + 1 /\ heap'[b][Len(heap[b]) + 1] = e
            /\ \A k \in 1..Len(heap[b]) : heap'[b][k] = heap[b][k]
        <5>1. e \in Nat
          BY <1>2
        <5>2. heap[b] \in Seq(Nat) /\ heap'[b] = Append(heap[b], e)
          BY <1>2, <1>5
        <5> QED
          BY <5>1, <5>2, OneLonger
      <4>2. i \in 1..Len(heap[b]) \/ i = Len(heap[b]) + 1
        BY <1>2, <3>2, <4>1, LastOne
      <4>3. e # bound[z]
        <5>1. bound[z] # 0 /\ bound[z] # Len(heap) + 1
          <6>1. bound[z] \in Nat /\ bound[z] > 4 /\ bound[z] <= Len(heap) /\ Len(heap) \in Nat
            BY <1>2, <2>1
          <6> QED
            BY <6>1
        <5> QED
          BY <5>1 DEF new
      <4> QED
        BY <1>2, <2>1, <3>2, <4>1, <4>2, <4>3 DEF Private
    <3>3. CASE o \notin 1..Len(heap)
      <4>1. Len(heap') = Len(heap) \/ Len(heap') = Len(heap) + 1
        BY <1>1 DEF new
      <4>2. o = Len(heap) + 1 /\ Len(heap') = Len(heap) + 1
        BY <1>2, <3>3, <4>1, LastOne
      <4>3. x \in Nested
        BY <1>1, <1>2, <4>2
      <4>4. heap'[o] = <<>>
        BY <1>1, <4>2, <4>3 DEF new
      <4> QED
        BY <4>4
    <3> QED
      BY <3>1, <3>2, <3>3
  <2> QED
    BY <1>1, <2>1, <2>2 DEF Private
<1>7. Owning'
  BY <1>6 DEF Owning, Private
<1>8. ASSUME Lowered' PROVE Lowered /\ Private(x)
  <2>1. x \in Unshared' /\ Unshared' \subseteq Unshared
    BY <1>8, OnlyMore DEF Lowered, Unshared
  <2> QED
    BY <1>8, <2>1, OnlyMore DEF Owning
<1>9. ASSUME Lowered' PROVE Worth(heap', x, b) = owned'[x]
  <2>1. Worth(heap, x, b) = owned[x]
    BY <1>8, <1>9 DEF Alike, b
  <2>2. \A i \in 1..Len(heap[b]) : heap[b][i] # b
    BY <1>2, <1>8, <1>9 DEF Private, b
  <2>3. CASE x \notin Nested
    <3>1. Len(heap'[b]) = Len(heap[b]) + 1
      BY <1>1, <1>2, <2>3, OneMore
    <3>2. owned[x] = Len(heap[b]) /\ Worth(heap', x, b) = Len(heap'[b])
      BY <2>1, <2>3 DEF Worth
    <3>3. owned'[x] = owned[x] + 1
      BY <1>3, <1>4, <2>3
    <3> QED
      BY <3>1, <3>2, <3>3
  <2>4. CASE x \in Nested
    <3> DEFINE n == Len(heap[b])
    <3>1. /\ Len(heap'[b]) = n + 1 /\ heap'[b][n + 1] = new /\ DOMAIN heap'[b] = 1..(n + 1)
          /\ \A i \in 1..n : heap'[b][i] = heap[b][i]
      <4>1. heap'[b] = Append(heap[b], new)
        BY <1>1, <2>4
      <4> QED
        BY <1>2, <4>1, OneLonger
    <3>2. owned[x] = [i \in 1..n |-> Len(heap[heap[b][i]])]
      BY <1>2, <2>1, <2>4 DEF Worth
    <3>3. \A i \in 1..n : heap[b][i] \in 1..Len(heap) /\ heap[b][i] # b
      BY <1>2, <2>2, <2>4 DEF ListOfLists
    <3>4. \A i \in 1..n : Len(heap[heap[b][i]]) \in Nat
      BY <1>2, <3>3, Lengths
    <3>5. owned[x] \in Seq(Nat) /\ Len(owned[x]) = n
      BY <1>2, <3>2, <3>4
    <3>6. \A i \in 1..n : Len(heap'[heap'[b][i]]) = owned[x][i]
      <4>1. ASSUME NEW i \in 1..n PROVE Len(heap'[heap'[b][i]]) = owned[x][i]
        <5>1. heap'[b][i] = heap[b][i] /\ heap'[heap[b][i]] = heap[heap[b][i]]
          BY <1>1, <3>1, <3>3
        <5>2. owned[x][i] = Len(heap[heap[b][i]])
          BY <3>2
        <5> QED
          BY <5>1, <5>2
      <4> QED
        BY <4>1
    <3>7. heap'[new] = <<>> /\ Len(<<>>) = 0
      BY <1>1, <2>4
    <3> DEFINE f == [i \in 1..(n + 1) |-> Len(heap'[heap'[b][i]])]
               g == Append(owned[x], 0)
    <3>8. Worth(heap', x, b) = f
      BY <2>4, <3>1 DEF Worth
    <3>9. owned'[x] = g
      BY <1>3, <1>4, <2>4
    <3>10. /\ g \in Seq(Nat) /\ Len(g) = n + 1 /\ DOMAIN g = 1..(n + 1) /\ g[n + 1] = 0
           /\ \A i \in 1..n : g[i] = owned[x][i]
      BY <3>5, OneMore
    <3>11. n \in Nat
      BY <1>2
    <3>12. ASSUME NEW i \in 1..(n + 1) PROVE Len(heap'[heap'[b][i]]) = g[i]
      <4>1. i \in 1..n \/ i = n + 1
        BY <3>11, LastOne
      <4> HIDE DEF n, g
      <4> QED
        BY <3>1, <3>6, <3>7, <3>10, <4>1
    <3>13. g = [i \in 1..(n + 1) |-> g[i]]
      <4> HIDE DEF g
      <4> QED
        BY <3>10
    <3> HIDE DEF g
    <3>14. f = [i \in 1..(n + 1) |-> g[i]]
      BY <3>12
    <3> HIDE DEF f
    <3> QED
      BY <3>8, <3>9, <3>13, <3>14
  <2> QED
    BY <2>3, <2>4
<1>10. ASSUME Lowered', NEW z \in Lists, bound'[z] # 0 PROVE Worth(heap', z, bound'[z]) = owned'[z]
  <2>1. CASE z = x
    BY <1>1, <1>9, <1>10, <2>1 DEF b
  <2>2. CASE z # x
    <3>1. bound'[z] = bound[z] /\ bound[z] # 0 /\ owned'[z] = owned[z]
      BY <1>1, <1>3, <1>4, <1>10, <2>2
    <3>2. Lowered /\ Private(x)
      BY <1>8, <1>10
    <3>3. Worth(heap, z, bound[z]) = owned[z]
      BY <3>1, <3>2 DEF Alike
    <3>4. bound[z] # b
      BY <2>2, <3>2 DEF Private, b
    <3>5. bound[z] \in 1..Len(heap) /\ (z \in Nested => ListOfLists(heap, bound[z]))
      BY <1>3, <3>1, ObjectOf
    <3>6. \A i \in 1..Len(heap[bound[z]]) : heap[bound[z]][i] # b
      BY <3>2, <3>5 DEF Private, b
    <3> DEFINE c == bound[z]
    <3>7. \A i \in 1..Len(heap[c]) : heap[c][i] # b
      BY <3>6
    <3>8. c \in 1..Len(heap) /\ c # b /\ (z \in Nested => ListOfLists(heap, c))
      BY <3>4, <3>5
    <3>9. b \in Nat
      BY <1>2
    <3> HIDE DEF c
    <3>10. Worth(heap', z, c) = Worth(heap, z, c)
      BY <1>1, <3>7, <3>8, <3>9, WorthKept
    <3> QED
      BY <3>1, <3>3, <3>10 DEF c
  <2> QED
    BY <2>1, <2>2
<1>11. Lowered' => heap'[1] = <<>> /\ heap'[2] = <<1>>
  <2>1. ASSUME Lowered' PROVE b > 4 /\ heap[1] = <<>> /\ heap[2] = <<1>>
    BY <1>8, <2>1 DEF Private, Alike, b
  <2>2. b > 4 => 1 # b /\ 2 # b /\ 1 \in 1..Len(heap) /\ 2 \in 1..Len(heap)
    BY <1>2
  <2> QED
    BY <1>1, <2>1, <2>2
<1>12. Alike'
  BY <1>10, <1>11 DEF Alike
<1> QED
  BY <1>7, <1>12

\* A statement that runs leaves both languages alike.
LEMMA SameRuns ==
  ASSUME AllSeen, Objects, Named, Owning, Alike, NEW s \in Statements, Execute(s), Running,
         \A y \in Reads(s) : bound[y] # 0, Scanned(s)
  PROVE  Owning' /\ Alike'
<1> DEFINE x == s.on[1]
           y == s.on[2]
<1>1. s.form \in SeenForms
  BY OfLists DEF AllSeen
<1>2. /\ x \in Variables /\ y \in Variables
      /\ s.form = "return" => y = x
      /\ Array \cap Lists = {} /\ Variables = Lists \cup Array
  BY OfArrays DEF Variables
<1>3. /\ Flat \cap Nested = {} /\ Lists = Flat \cup Nested
      /\ s.form \in {"name", "copy"} =>
           \/ x \in Flat /\ y \in Flat
           \/ x \in Nested /\ y \in Nested
           \/ s.form = "name" /\ x \in Array /\ y \in Array
      /\ s.form = "literal" => x \in Nested /\ y \in Flat
      /\ s.form = "append" => x \in Lists /\ y = x
  BY OfLists
<1>4. s.form # "fresh" => bound[y] # 0
  BY DEF Reads, Binds, Mutating
<1>5. /\ mutated \subseteq mutated' /\ shared \subseteq shared' /\ (escaped => escaped')
      /\ MutatedNames(s) \subseteq mutated' /\ Sharing(s) \subseteq shared'
  BY DEF Scanned
<1>6. CASE s.form = "fresh"
  <2>1. Fresh(x)
    BY <1>6 DEF Execute
  <2> QED
    BY <1>2, <1>5, <2>1, FreshSame
<1>7. CASE s.form = "name"
  <2>1. Name(x, y) /\ bound[y] # 0
    BY <1>4, <1>7 DEF Execute
  <2>2. (x \in Nested <=> y \in Nested) /\ (x \in Lists <=> y \in Lists)
    BY <1>2, <1>3, <1>7
  <2>3. x \in Lists => x \in shared' /\ y \in shared'
    <3>1. Sharing(s) = {x, y} \ Array
      BY <1>7 DEF Sharing
    <3> QED
      BY <1>2, <1>5, <2>2, <3>1
  <2> HIDE DEF x, y
  <2> QED
    BY <1>2, <1>5, <2>1, <2>2, <2>3, NameSame
<1>8. CASE s.form = "copy"
  <2>1. Copy(x, y) /\ bound[y] # 0
    BY <1>4, <1>8 DEF Execute
  <2>2. x \in Lists /\ y \in Lists /\ (x \in Nested <=> y \in Nested)
    BY <1>3, <1>8
  <2> HIDE DEF x, y
  <2> QED
    BY <1>5, <2>1, <2>2, CopySame
<1>9. CASE s.form = "literal"
  <2>1. Literal(x, y) /\ bound[y] # 0 /\ x \in Nested /\ y \in Flat
    BY <1>3, <1>4, <1>9 DEF Execute
  <2>2. y \in shared'
    BY <1>5, <1>9 DEF Sharing
  <2> HIDE DEF x, y
  <2> QED
    BY <1>5, <2>1, <2>2, LiteralSame
<1>10. CASE s.form = "append"
  <2>1. AppendTo(x) /\ bound[x] # 0 /\ x \in Lists
    BY <1>3, <1>4, <1>10 DEF Execute
  <2>2. x \in mutated'
    BY <1>5, <1>10 DEF MutatedNames, Mutating
  <2> HIDE DEF x, y
  <2> QED
    BY <1>5, <2>1, <2>2, AppendSame
<1>11. CASE s.form = "return"
  <2>1. UNCHANGED <<heap, bound, owned>>
    BY <1>11 DEF Execute, Return
  <2> QED
    BY <1>5, <2>1, OnlyMore DEF Owning, Private, Alike, Worth
<1> QED
  BY <1>1, <1>6, <1>7, <1>8, <1>9, <1>10, <1>11 DEF SeenForms

\* A statement that does not run changes nothing.
LEMMA SameStill ==
  ASSUME Owning, Alike, UNCHANGED <<heap, bound, owned>>,
         mutated \subseteq mutated', shared \subseteq shared', escaped => escaped'
  PROVE  Owning' /\ Alike'
BY OnlyMore DEF Owning, Private, Alike, Worth

LEMMA SameInit == LoweringInit => SameInv
<1> SUFFICES ASSUME LoweringInit PROVE SameInv
  OBVIOUS
<1>1. LowerInv
  BY LowerInit
<1>2. /\ heap = << <<>>, <<1>>, <<>>, <<>> >> /\ body = <<>>
      /\ bound = [x \in Variables |-> IF x \in Params THEN Given(x) ELSE 0]
      /\ owned = [x \in Variables |-> IF x \in Params THEN GivenWorth(x) ELSE 0]
  BY DEF LoweringInit, GivenHeap
<1>3. Owning
  <2>1. \A x \in Unshared : bound[x] = 0
    BY <1>2 DEF Unshared, Variables
  <2> QED
    BY <2>1 DEF Owning
<1>4. Noticed
  BY <1>2 DEF Noticed
<1>5. /\ heap[1] = <<>> /\ heap[2] = <<1>>
      /\ Len(heap[1]) = 0 /\ DOMAIN heap[2] = 1..1 /\ heap[2][1] = 1
  BY <1>2
<1>6. ASSUME NEW x \in Lists, bound[x] # 0 PROVE Worth(heap, x, bound[x]) = owned[x]
  <2>1. x \in Params /\ bound[x] = Given(x) /\ owned[x] = GivenWorth(x)
    BY <1>2, <1>6 DEF Variables
  <2>2. x \in Flat => x \notin Nested /\ x \notin Array
    BY NativeLoweringAssumption
  <2>3. x \in Nested => x \notin Flat /\ x \notin Array
    BY NativeLoweringAssumption
  <2>4. CASE x \in Flat
    <3>1. Given(x) = 1 /\ GivenWorth(x) = 0
      BY <2>2, <2>4 DEF Given, GivenWorth
    <3> QED
      BY <1>5, <2>1, <2>2, <2>4, <3>1 DEF Worth
  <2>5. CASE x \in Nested
    <3>1. Given(x) = 2 /\ GivenWorth(x) = <<0>>
      BY <2>3, <2>5 DEF Given, GivenWorth
    <3>2. Worth(heap, x, 2) = [i \in 1..1 |-> Len(heap[heap[2][i]])]
      BY <1>5, <2>5 DEF Worth
    <3>3. \A i \in 1..1 : Len(heap[heap[2][i]]) = 0
      BY <1>5
    <3>4. [i \in 1..1 |-> Len(heap[heap[2][i]])] = [i \in 1..1 |-> 0]
      BY <3>3
    <3>5. <<0>> = [i \in 1..1 |-> 0]
      OBVIOUS
    <3> QED
      BY <2>1, <3>1, <3>2, <3>4, <3>5
  <2> QED
    BY <2>4, <2>5 DEF Lists
<1>7. Alike
  BY <1>5, <1>6 DEF Alike
<1> QED
  BY <1>1, <1>3, <1>4, <1>7 DEF SameInv

LEMMA ReadSame ==
  ASSUME AllSeen, SameInv, NEW s \in Statements, Statement(s)
  PROVE  SameInv'
<1>1. LowerInv /\ Owning /\ Noticed /\ Alike /\ Objects /\ Named /\ ReadSoFar
  BY DEF SameInv, LowerInv
<1>2. /\ InScope(s) /\ ScanOwnership(s) /\ ScanAliases(s) /\ Execute(s)
      /\ body' = IF block = "loop" THEN Append(body, s) ELSE body
  BY DEF Statement, Scan
<1>3. block # "try"
  BY <1>1 DEF AllSeen, ReadSoFar
<1>4. SharedNames(s) = Sharing(s)
  BY <1>3 DEF SharedNames, Sharing
<1>5. /\ mutated' = mutated \cup MutatedNames(s)
      /\ shared' = shared \cup Sharing(s)
      /\ escaped => escaped'
  BY <1>2, <1>4 DEF ScanOwnership, ScanAliases
<1>6. Scanned(s)
  BY <1>5 DEF Scanned
<1>7. Owning' /\ Alike'
  <2>1. CASE Running
    <3>1. \A y \in Reads(s) : bound[y] # 0
      BY <1>1, <1>2, <2>1, BoundReads DEF InScope
    <3> QED
      BY <1>1, <1>2, <1>6, <2>1, <3>1, SameRuns
  <2>2. CASE ~ Running
    <3>1. UNCHANGED <<heap, bound, owned>>
      BY <1>2, <2>2 DEF Execute, memory
    <3> QED
      BY <1>1, <1>5, <3>1, SameStill
  <2> QED
    BY <2>1, <2>2
<1>8. Noticed'
  <2>1. body \in Seq(Statements) /\ Len(body) \in Nat
    BY <1>1 DEF ReadSoFar
  <2>2. CASE body' = body
    BY <1>1, <1>5, <2>2 DEF Noticed
  <2>3. CASE body' = Append(body, s)
    <3>1. /\ Len(body') = Len(body) + 1 /\ body'[Len(body) + 1] = s
          /\ \A k \in 1..Len(body) : body'[k] = body[k]
      BY <2>1, <2>3, OneLonger
    <3>2. ASSUME NEW k \in 1..Len(body')
          PROVE  MutatedNames(body'[k]) \subseteq mutated' /\ Sharing(body'[k]) \subseteq shared'
      <4>1. k \in 1..Len(body) \/ k = Len(body) + 1
        BY <2>1, <3>1, LastOne
      <4>2. CASE k \in 1..Len(body)
        BY <1>1, <1>5, <3>1, <4>2 DEF Noticed
      <4>3. CASE k = Len(body) + 1
        BY <1>5, <3>1, <4>3
      <4> QED
        BY <4>1, <4>2, <4>3
    <3> QED
      BY <3>2 DEF Noticed
  <2> QED
    BY <1>2, <2>2, <2>3
<1>9. LowerInv'
  BY <1>1, ReadLower
<1> QED
  BY <1>7, <1>8, <1>9 DEF SameInv

LEMMA RepeatSame == ASSUME AllSeen, SameInv, Repeat PROVE SameInv'
<1>1. LowerInv /\ Owning /\ Noticed /\ Alike /\ Objects /\ Named /\ ReadSoFar
  BY DEF SameInv, LowerInv
<1>2. /\ runs /\ turn < Len(body) /\ Execute(body[turn + 1])
      /\ UNCHANGED <<body, scope, mutated, shared, escaped>>
  BY DEF Repeat, analysis
<1> DEFINE s == body[turn + 1]
<1>3. turn + 1 \in 1..Len(body) /\ s \in Statements /\ Reads(s) \subseteq scope
  BY <1>1, <1>2 DEF ReadSoFar
<1>4. Scanned(s)
  BY <1>1, <1>2, <1>3 DEF Noticed, Scanned
<1>5. Execute(s)
  BY <1>2
<1> HIDE DEF s
<1>6. Owning' /\ Alike'
  <2>1. CASE Running
    <3>1. \A y \in Reads(s) : bound[y] # 0
      BY <1>1, <1>3, <2>1, BoundReads
    <3> QED
      BY <1>1, <1>3, <1>4, <1>5, <2>1, <3>1, SameRuns
  <2>2. CASE ~ Running
    <3>1. UNCHANGED <<heap, bound, owned>>
      BY <1>5, <2>2 DEF Execute, memory
    <3>2. mutated \subseteq mutated' /\ shared \subseteq shared' /\ (escaped => escaped')
      BY <1>2
    <3> QED
      BY <1>1, <3>1, <3>2, SameStill
  <2> QED
    BY <2>1, <2>2
<1>7. Noticed'
  BY <1>1, <1>2 DEF Noticed
<1>8. LowerInv'
  BY <1>1, RepeatLower
<1> QED
  BY <1>6, <1>7, <1>8 DEF SameInv

\* Where a block ends, its names are gone.
LEMMA CloseValues == ASSUME Alike, Close PROVE Alike'
<1>1. /\ heap' = heap /\ mutated' = mutated /\ shared' = shared
      /\ bound' = [x \in Variables |-> IF x \in scope' THEN bound[x] ELSE 0]
      /\ owned' = [x \in Variables |-> IF x \in scope' THEN owned[x] ELSE 0]
      /\ escaped => escaped'
  BY DEF Close
<1>2. Lowered' => Lowered
  BY <1>1 DEF Lowered
<1>3. \A x \in Lists : bound'[x] # 0 => bound'[x] = bound[x] /\ owned'[x] = owned[x]
  BY <1>1 DEF Variables
<1> QED
  BY <1>1, <1>2, <1>3 DEF Alike

LEMMA CloseSame == ASSUME SameInv, Close PROVE SameInv'
<1>1. LowerInv /\ Owning /\ Noticed /\ Alike /\ Objects /\ Named /\ ReadSoFar
  BY DEF SameInv, LowerInv
<1>2. /\ body' = <<>> /\ heap' = heap /\ mutated' = mutated /\ shared' = shared
      /\ bound' = [x \in Variables |-> IF x \in scope' THEN bound[x] ELSE 0]
      /\ owned' = [x \in Variables |-> IF x \in scope' THEN owned[x] ELSE 0]
      /\ escaped => escaped'
  BY DEF Close
<1>3. (Lowered' => Lowered) /\ Unshared' = Unshared
  BY <1>2 DEF Lowered, Unshared
<1>4. /\ \A x \in Variables : bound'[x] \in {0, bound[x]}
      /\ \A x \in Variables : bound'[x] # 0 => bound'[x] = bound[x] /\ owned'[x] = owned[x]
      /\ Lists \subseteq Variables
  BY <1>2 DEF Variables
<1>5. ASSUME NEW x \in Unshared, bound'[x] # 0 PROVE Private(x)'
  <2>1. x \in Lists /\ bound'[x] = bound[x] /\ Private(x)
    BY <1>1, <1>4, <1>5 DEF Owning, Unshared
  <2>2. bound[x] > 4 /\ bound[x] # 0
    BY <1>5, <2>1 DEF Private
  <2>3. \A y \in Lists \ {x} : bound'[y] # bound[x]
    BY <1>4, <2>1, <2>2 DEF Private
  <2> QED
    BY <1>2, <2>1, <2>2, <2>3 DEF Private
<1>6. Owning'
  BY <1>3, <1>5 DEF Owning
<1>7. Alike'
  BY <1>1, CloseValues
<1>8. Noticed'
  BY <1>2 DEF Noticed
<1>9. LowerInv'
  BY <1>1, CloseLower
<1> QED
  BY <1>6, <1>7, <1>8, <1>9 DEF SameInv

LEMMA SameStep == AllSeen /\ SameInv /\ [LoweringNext]_loweringVars => SameInv'
<1> SUFFICES ASSUME AllSeen, SameInv, [LoweringNext]_loweringVars PROVE SameInv'
  OBVIOUS
<1>1. CASE (\E kind \in Blocks : Open(kind)) \/ Raise \/ UNCHANGED loweringVars
  <2>1. UNCHANGED <<heap, bound, owned, body, mutated, shared, escaped>>
    BY <1>1 DEF Open, Raise, loweringVars, memory, control, analysis
  <2>2. Owning' /\ Alike'
    BY <2>1, SameStill DEF SameInv
  <2>3. Noticed'
    BY <2>1 DEF SameInv, Noticed
  <2>4. LowerInv'
    BY LowerStep DEF SameInv
  <2> QED
    BY <2>2, <2>3, <2>4 DEF SameInv
<1> QED
  BY <1>1, ReadSame, RepeatSame, CloseSame DEF LoweringNext

-----------------------------------------------------------------------------
(* And where no list is mutated at all, who else has it does not matter.   *)

NothingMutates == Forms \cap Mutating = {}

LEMMA ElementWorth ==
  ASSUME Objects, Named, Alike, Lowered, NEW x \in Flat, NEW y \in Nested, bound[y] # 0
  PROVE  Worth(heap, x, heap[bound[y]][1]) = owned[y][1]
<1> DEFINE b == bound[y]
<1>1. y \in Variables /\ y \in Lists /\ x \notin Nested
  BY NativeLoweringAssumption DEF Variables, Lists
<1>2. /\ b \in 1..Len(heap) /\ heap[b] \in Seq(Nat) /\ Len(heap[b]) \in Nat /\ ListOfLists(heap, b)
      /\ DOMAIN heap[b] = 1..Len(heap[b])
  BY <1>1, ObjectOf
<1>3. owned[y] = [i \in DOMAIN heap[b] |-> Len(heap[heap[b][i]])]
  BY <1>1 DEF Alike, Worth
<1>4. 1 \in DOMAIN heap[b]
  BY <1>2 DEF ListOfLists
<1>5. owned[y][1] = Len(heap[heap[b][1]])
  BY <1>3, <1>4
<1>6. Worth(heap, x, heap[b][1]) = Len(heap[heap[b][1]])
  BY <1>1 DEF Worth
<1> QED
  BY <1>5, <1>6

\* An object is added and bound.
LEMMA ValuesMade ==
  ASSUME Objects, Named, Alike, Lowered' => Lowered, NEW x \in Lists, NEW t \in Seq(Nat), NEW v,
         heap' = Append(heap, t), Bind(x, Len(heap) + 1, v),
         Lowered => Worth(heap', x, Len(heap) + 1) = v
  PROVE  Alike'
<1>1. heap \in Seq(Seq(Nat)) /\ Len(heap) \in Nat
  BY Lengths DEF Objects
<1>2. /\ Len(heap') = Len(heap) + 1
      /\ \A o \in 1..Len(heap) : heap'[o] = heap[o]
  BY <1>1, OneMore
<1>3. Still
  BY <1>1, <1>2 DEF Still
<1>4. /\ bound' = [bound EXCEPT ![x] = Len(heap) + 1] /\ owned' = [owned EXCEPT ![x] = v]
      /\ x \in Variables
  BY DEF Bind, Variables
<1> QED
  BY <1>3, <1>4, ValuesBound

LEMMA ValuesNamed ==
  ASSUME Objects, Named, Alike, Lowered' => Lowered, NEW x \in Variables, NEW b, NEW v,
         heap' = heap, Bind(x, b, v), Lowered /\ x \in Lists => Worth(heap, x, b) = v
  PROVE  Alike'
<1>1. Still
  BY Lengths DEF Objects, Still
<1>2. bound' = [bound EXCEPT ![x] = b] /\ owned' = [owned EXCEPT ![x] = v]
  BY DEF Bind
<1>3. Lowered /\ x \in Lists => Worth(heap', x, b) = v
  OBVIOUS
<1> QED
  BY <1>1, <1>2, <1>3, ValuesBound

LEMMA ValuesRun ==
  ASSUME NothingMutates, Objects, Named, Alike, NEW s \in Statements, Execute(s), Running,
         \A y \in Reads(s) : bound[y] # 0, Lowered' => Lowered
  PROVE  Alike'
<1> DEFINE x == s.on[1]
           y == s.on[2]
<1>1. s.form \in AllForms \ Mutating
  BY OfArrays, OfLists DEF NothingMutates
<1>2. /\ x \in Variables /\ y \in Variables
      /\ s.form = "return" => y = x
      /\ Array \cap Lists = {} /\ Variables = Lists \cup Array
  BY OfArrays DEF Variables
<1>3. /\ Flat \cap Nested = {} /\ Lists = Flat \cup Nested
      /\ s.form \in {"name", "copy", "result"} =>
           \/ x \in Flat /\ y \in Flat
           \/ x \in Nested /\ y \in Nested
           \/ s.form = "name" /\ x \in Array /\ y \in Array
      /\ s.form \in {"literal", "comprehension"} => x \in Nested /\ y \in Flat
      /\ s.form = "element" => x \in Flat /\ y \in Nested
  BY OfLists
<1>4. s.form # "fresh" => bound[y] # 0
  BY DEF Reads, Binds, Mutating
<1>5. CASE s.form = "fresh"
  <2>1. Fresh(x)
    BY <1>5 DEF Execute
  <2>2. /\ Still
        /\ \E b, v : Bind(x, b, v) /\ (x \in Lists => Worth(heap', x, b) = v)
    <3>1. /\ Still
          /\ x \in Array => Bind(x, 4, 0)
          /\ x \in Flat => Bind(x, Len(heap) + 1, 0) /\ Worth(heap', x, Len(heap) + 1) = 0
          /\ x \in Nested => Bind(x, Len(heap) + 2, <<0>>) /\ Worth(heap', x, Len(heap) + 2) = <<0>>
      BY <1>2, <2>1, FreshMade
    <3>2. x \in Flat \/ x \in Nested \/ (x \in Array /\ x \notin Lists)
      BY <1>2, <1>3
    <3> HIDE DEF x
    <3> QED
      BY <3>1, <3>2
  <2>3. PICK b, v : Bind(x, b, v) /\ (x \in Lists => Worth(heap', x, b) = v)
    BY <2>2
  <2>4. bound' = [bound EXCEPT ![x] = b] /\ owned' = [owned EXCEPT ![x] = v]
    BY <2>3 DEF Bind
  <2> HIDE DEF x
  <2> QED
    BY <1>2, <2>2, <2>3, <2>4, ValuesBound
<1>6. CASE s.form \in {"name", "result"}
  <2>1. Name(x, y) /\ bound[y] # 0
    BY <1>4, <1>6 DEF Execute
  <2>2. (x \in Nested <=> y \in Nested) /\ (x \in Lists => y \in Lists)
    BY <1>2, <1>3, <1>6
  <2> HIDE DEF x, y
  <2>3. heap' = heap /\ Bind(x, bound[y], owned[y])
    BY <2>1 DEF Name
  <2>4. Lowered /\ x \in Lists => Worth(heap, x, bound[y]) = owned[y]
    BY <2>1, <2>2, NameWorth
  <2> QED
    BY <1>2, <2>3, <2>4, ValuesNamed
<1>7. CASE s.form = "copy"
  <2>1. Copy(x, y) /\ bound[y] # 0
    BY <1>4, <1>7 DEF Execute
  <2>2. x \in Lists /\ y \in Lists /\ (x \in Nested <=> y \in Nested)
    BY <1>3, <1>7
  <2> HIDE DEF x, y
  <2>3. heap' = Append(heap, heap[bound[y]]) /\ Bind(x, Len(heap) + 1, owned[y])
    BY <2>1 DEF Copy
  <2>4. heap[bound[y]] \in Seq(Nat)
    BY <1>2, <2>1, ObjectOf
  <2>5. Lowered => Worth(heap', x, Len(heap) + 1) = owned[y]
    BY <2>1, <2>2, CopyWorth
  <2> QED
    BY <2>2, <2>3, <2>4, <2>5, ValuesMade
<1>8. CASE s.form \in {"literal", "comprehension"}
  <2>1. bound[y] # 0 /\ x \in Nested /\ y \in Flat /\ x \in Lists
    BY <1>3, <1>4, <1>8
  <2>2. PICK t, v : /\ heap' = Append(heap, t) /\ Bind(x, Len(heap) + 1, v)
                    /\ \/ t = <<bound[y]>> /\ v = <<owned[y]>>
                       \/ t = <<bound[y], bound[y]>> /\ v = <<owned[y], owned[y]>>
    BY <1>8 DEF Execute, Literal, Comprehension
  <2> HIDE DEF x, y
  <2>3. t \in Seq(Nat)
    <3>1. bound[y] \in Nat
      BY <1>2, <2>1, ObjectOf
    <3>2. ASSUME NEW c \in Nat PROVE <<c>> \in Seq(Nat) /\ <<c, c>> \in Seq(Nat)
      OBVIOUS
    <3> QED
      BY <2>2, <3>1, <3>2
  <2>4. Lowered => Worth(heap', x, Len(heap) + 1) = v
    BY <2>1, <2>2, ListsOf
  <2> QED
    BY <2>1, <2>2, <2>3, <2>4, ValuesMade
<1>9. CASE s.form = "element"
  <2>1. Element(x, y) /\ bound[y] # 0 /\ x \in Flat /\ y \in Nested
    BY <1>3, <1>4, <1>9 DEF Execute
  <2> HIDE DEF x, y
  <2>2. heap' = heap /\ Bind(x, heap[bound[y]][1], owned[y][1])
    BY <2>1 DEF Element
  <2>3. Lowered /\ x \in Lists => Worth(heap, x, heap[bound[y]][1]) = owned[y][1]
    BY <2>1, ElementWorth
  <2> QED
    BY <1>2, <2>2, <2>3, ValuesNamed
<1>10. CASE s.form = "return"
  <2>1. UNCHANGED <<heap, bound, owned>>
    BY <1>10 DEF Execute, Return
  <2> QED
    BY <2>1 DEF Alike, Worth
<1> QED
  BY <1>1, <1>5, <1>6, <1>7, <1>8, <1>9, <1>10 DEF AllForms, Mutating

LEMMA ValuesStep ==
  NothingMutates /\ LowerInv /\ Alike /\ [LoweringNext]_loweringVars => Alike'
<1> SUFFICES ASSUME NothingMutates, LowerInv, Alike, [LoweringNext]_loweringVars PROVE Alike'
  OBVIOUS
<1>1. Objects /\ Named /\ ReadSoFar
  BY DEF LowerInv
<1>2. ASSUME UNCHANGED <<heap, bound, owned>>, Lowered' => Lowered PROVE Alike'
  BY <1>2 DEF Alike, Worth
<1>3. ASSUME NEW s \in Statements, Statement(s) PROVE Alike'
  <2>1. InScope(s) /\ ScanOwnership(s) /\ ScanAliases(s) /\ Execute(s)
    BY <1>3 DEF Statement, Scan
  <2>2. mutated \subseteq mutated' /\ shared \subseteq shared' /\ (escaped => escaped')
    BY <2>1 DEF ScanOwnership, ScanAliases
  <2>3. Lowered' => Lowered
    BY <2>2, OnlyMore
  <2>4. CASE Running
    <3>1. \A y \in Reads(s) : bound[y] # 0
      BY <2>1, <2>4, BoundReads DEF InScope
    <3> QED
      BY <1>1, <2>1, <2>3, <2>4, <3>1, ValuesRun
  <2>5. CASE ~ Running
    BY <1>2, <2>1, <2>3, <2>5 DEF Execute, memory
  <2> QED
    BY <2>4, <2>5
<1>4. CASE Repeat
  <2>1. /\ runs /\ turn < Len(body) /\ Execute(body[turn + 1])
        /\ UNCHANGED <<scope, mutated, shared, escaped>>
    BY <1>4 DEF Repeat, analysis
  <2>2. Lowered' => Lowered
    BY <2>1 DEF Lowered
  <2> DEFINE s == body[turn + 1]
  <2>3. s \in Statements /\ Reads(s) \subseteq scope /\ Execute(s)
    BY <1>1, <2>1 DEF ReadSoFar
  <2> HIDE DEF s
  <2>4. CASE Running
    <3>1. \A y \in Reads(s) : bound[y] # 0
      BY <2>3, <2>4, BoundReads
    <3> QED
      BY <1>1, <2>2, <2>3, <2>4, <3>1, ValuesRun
  <2>5. CASE ~ Running
    BY <1>2, <2>2, <2>3, <2>5 DEF Execute, memory
  <2> QED
    BY <2>4, <2>5
<1>5. CASE Close
  BY <1>5, CloseValues
<1>6. CASE (\E kind \in Blocks : Open(kind)) \/ Raise \/ UNCHANGED loweringVars
  <2>1. UNCHANGED <<heap, bound, owned, mutated, shared, escaped>>
    BY <1>6 DEF Open, Raise, loweringVars, memory, control, analysis
  <2>2. Lowered' => Lowered
    BY <2>1 DEF Lowered
  <2> QED
    BY <1>2, <2>1, <2>2
<1> QED
  BY <1>3, <1>4, <1>5, <1>6 DEF LoweringNext

\* A lowered function computes the same in Rust as in Python, whatever its body and
\* however many names, statements, branches and iterations it has, if it is made of the
\* statements and blocks in which the analysis sees every second name and holder, or if
\* none of its statements mutates a list.
THEOREM SameInRust ==
  ASSUME AllSeen \/ NothingMutates
  PROVE  LoweringSpec => []SameResult
<1>1. Alike => SameResult
  <2> SUFFICES ASSUME Alike, Lowered PROVE
        /\ \A x \in scope \cap Lists : bound[x] # 0 => Worth(heap, x, bound[x]) = owned[x]
        /\ \A p \in Params \cap Lists : Worth(heap, p, Given(p)) = GivenWorth(p)
    BY DEF SameResult
  <2>1. /\ \A x \in Lists : bound[x] # 0 => Worth(heap, x, bound[x]) = owned[x]
        /\ heap[1] = <<>> /\ heap[2] = <<1>>
    BY DEF Alike
  <2>2. ASSUME NEW p \in Params \cap Lists PROVE Worth(heap, p, Given(p)) = GivenWorth(p)
    <3>1. /\ p \in Flat => p \notin Nested /\ p \notin Array
          /\ p \in Nested => p \notin Flat /\ p \notin Array
      BY NativeLoweringAssumption
    <3>2. CASE p \in Flat
      <4>1. Given(p) = 1 /\ GivenWorth(p) = 0 /\ Len(heap[1]) = 0
        BY <2>1, <3>1, <3>2 DEF Given, GivenWorth
      <4> QED
        BY <3>1, <3>2, <4>1 DEF Worth
    <3>3. CASE p \in Nested
      <4>1. Given(p) = 2 /\ GivenWorth(p) = <<0>> /\ DOMAIN heap[2] = 1..1 /\ heap[2][1] = 1
        BY <2>1, <3>1, <3>3 DEF Given, GivenWorth
      <4>2. Worth(heap, p, 2) = [i \in 1..1 |-> Len(heap[heap[2][i]])]
        BY <3>3, <4>1 DEF Worth
      <4>3. \A i \in 1..1 : Len(heap[heap[2][i]]) = 0
        BY <2>1, <4>1
      <4>4. [i \in 1..1 |-> Len(heap[heap[2][i]])] = [i \in 1..1 |-> 0]
        BY <4>3
      <4>5. <<0>> = [i \in 1..1 |-> 0]
        OBVIOUS
      <4> QED
        BY <4>1, <4>2, <4>4, <4>5
    <3> QED
      BY <3>2, <3>3 DEF Lists
  <2> QED
    BY <2>1, <2>2
<1>2. LoweringInit => SameInv
  BY SameInit
<1>3. CASE AllSeen
  <2>1. SameInv /\ [LoweringNext]_loweringVars => SameInv'
    BY <1>3, SameStep
  <2>2. SameInv => Alike
    BY DEF SameInv
  <2> QED
    BY <1>1, <1>2, <2>1, <2>2, PTL DEF LoweringSpec
<1>4. CASE NothingMutates
  <2>1. (LowerInv /\ Alike) /\ [LoweringNext]_loweringVars => (LowerInv /\ Alike)'
    BY <1>4, LowerStep, ValuesStep
  <2>2. SameInv => LowerInv /\ Alike
    BY DEF SameInv
  <2> QED
    BY <1>1, <1>2, <2>1, <2>2, PTL DEF LoweringSpec
<1> QED
  BY <1>3, <1>4
=============================================================================

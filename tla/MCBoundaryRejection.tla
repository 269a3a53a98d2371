------------------------ MODULE MCBoundaryRejection ------------------------
(***************************************************************************)
(* Which functions the analysis accepts, from two sides; a behaviour       *)
(* follows one.  Between functions: three of six shapes, each of which may *)
(* call each of the others, so that chains, diamonds and cycles of every   *)
(* verdict occur.  Inside one: bodies over a list parameter, another list  *)
(* and a list of lists, or over an array parameter and two more arrays.    *)
(***************************************************************************)
EXTENDS BoundaryRejection, NativeLowering, TLC

CONSTANTS f1, f2, n1, a1, a2, a3

VARIABLE side

Plain == [candidate |-> TRUE, marked |-> TRUE, shim |-> FALSE, method |-> FALSE,
          flaws |-> {}, scalar |-> TRUE, plugin |-> "none", keywordOnly |-> FALSE,
          embeds |-> FALSE]

MCShapes ==
  { Plain,
    [Plain EXCEPT !.marked = FALSE],
    [Plain EXCEPT !.scalar = FALSE, !.plugin = "lowered"],
    [Plain EXCEPT !.shim = TRUE],
    [Plain EXCEPT !.candidate = FALSE, !.marked = FALSE, !.embeds = TRUE],
    [Plain EXCEPT !.marked = FALSE, !.flaws = {"stale"}] }

\* A call that is right either way, and one that fails natively or, for the
\* second function, only across the boundary.
Good(g)   == [to |-> g, via |-> "project", scalars |-> TRUE, fits |-> TRUE,
              nested |-> Nobody, loop |-> FALSE]
Bad(f, g) == IF f = 2 THEN [Good(g) EXCEPT !.loop = TRUE] ELSE [Good(g) EXCEPT !.fits = FALSE]

MCCalls(f) ==
  {s \in SUBSET UNION {{Good(g), Bad(f, g)} : g \in Functions \ {f}} :
     \A c, d \in s : c.to = d.to => c = d}

MCFlat == {f1, f2}
MCNested == {n1}
MCArray == {a1, a2, a3}
MCParams == {f1, a1}
MCForms == {"fresh", "name", "copy", "literal", "append", "return"}
MCBlocks == {"branch", "loop", "try"}
MCSymmetry == Permutations({a2, a3})
ListStatements == {s \in Statements : s.on[1] \in Lists}
ListLines == 4       \* bound on the statements over lists

\* Where one function is followed, the project is one that has no calls.
NoProject == /\ mode = "in process"
             /\ shape = [f \in Functions |-> Plain]
             /\ calls = [f \in Functions |-> {}]

MCInit ==
    \/ side = "project" /\ Init /\ LoweringInit
    \/ side \in {"lists", "arrays"} /\ NoProject /\ Init /\ LoweringInit

\* Lists in a try are where the two languages come apart: the run
\* native_lowering has them.
Lowering ==
    \/ side = "lists" /\ lines < ListLines /\ \E s \in ListStatements : Statement(s)
    \/ side = "arrays" /\ \E s \in Statements \ ListStatements : Statement(s)
    \/ \E kind \in Blocks : (kind = "try" => side = "arrays") /\ Open(kind)
    \/ Raise \/ Repeat \/ Close

\* A body that is refused stays refused, whatever follows.
MCNext ==
    \/ side = "project" /\ Next /\ UNCHANGED <<side, loweringVars>>
    \/ side # "project" /\ Lowered /\ Lowering /\ UNCHANGED <<side, vars>>

MCSpec == MCInit /\ [][MCNext]_<<vars, loweringVars, side>>
=============================================================================

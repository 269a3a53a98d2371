--------------------------- MODULE NativeLowering ---------------------------
(***************************************************************************)
(* Lists and plugin arrays of one function, as Python shares them and as   *)
(* the generated Rust owns them.  A Python name is bound to an object that *)
(* others may be bound to; a Rust variable owns its value, and every read  *)
(* of one is a clone (codegen/rust/generator.py).  The analysis            *)
(* (analyzer/unsupported_patterns.py) therefore refuses a function in      *)
(* which a list that is mutated may have a second name, and one that may   *)
(* return the caller's own array.                                          *)
(*                                                                         *)
(* There is no program as input: a step is one more statement of the body, *)
(* read by the analysis and, where control reaches it, executed by both    *)
(* languages side by side.  So every body of at most Lines statements is   *)
(* covered, and each state is the end of a function.                       *)
(***************************************************************************)
EXTENDS Naturals, Sequences

CONSTANTS
    Flat, Nested, Array,   \* names by type: list[int], list[list[int]], a plugin's
    Params,                \* those that are parameters
    Forms, Blocks,         \* the statements and blocks the bodies are made of
    Lines                  \* bound on the statements of a body

AllForms == {"fresh", "name", "copy", "literal", "append", "return",
             "element", "store", "comprehension", "result"}

ASSUME NativeLoweringAssumption ==
    /\ Flat \cap Nested = {} /\ (Flat \cup Nested) \cap Array = {}
    /\ Params \subseteq Flat \cup Nested \cup Array
    /\ Forms \subseteq AllForms /\ Blocks \subseteq {"branch", "loop", "try"}
    /\ Lines \in Nat

VARIABLES
    heap,        \* Python's objects: a sequence of items each
    bound,       \* the object of each name, 0 for none
    owned,       \* the value of each Rust variable
    returned,    \* the array object Python returned, 0 for none yet
    runs,        \* control is in the statement being read
    block,       \* the block being read, or "top"
    outer,       \* the names in scope where the block began
    body, turn,  \* the statements of a loop, and the one being run again
    scope,       \* names the analysis knows here
    declared,    \* names the generator has declared
    mutated,     \* names of lists that are mutated anywhere
    shared,      \* names of lists seen to have a second name or holder
    aliases,     \* names that may be an array of the caller
    links, returns,   \* in the block: assignments between arrays, names returned
    escaped,     \* such a name is returned
    lines        \* statements read

memory == <<heap, bound, owned, returned>>
control == <<runs, block, outer, body, turn>>
analysis == <<scope, declared, mutated, shared, aliases, links, returns, escaped, lines>>
loweringVars == <<memory, control, analysis>>

Lists == Flat \cup Nested
Variables == Lists \cup Array

-----------------------------------------------------------------------------
(* Statements: target and operand, the same name where there is only one *)

Alone(S) == {<<x, x>> : x \in S}
Operands == [
    fresh |-> Alone(Variables),                       \* x = [...], or a new array
    name |-> {p \in (Flat \X Flat) \cup (Nested \X Nested) \cup (Array \X Array) :
                p[1] # p[2]},                         \* x = y
    copy |-> (Flat \X Flat) \cup (Nested \X Nested),  \* x = y.copy()
    result |-> (Flat \X Flat) \cup (Nested \X Nested),    \* x = g(y), and g returns y
    literal |-> Nested \X Flat,                       \* x = [y]
    comprehension |-> Nested \X Flat,                 \* x = [y for i in range(2)]
    element |-> Flat \X Nested,                       \* x = y[0]
    append |-> Alone(Lists),                          \* x.append of something new
    store |-> Nested \X Flat,                         \* x.append(y), d[k] = y
    return |-> Alone(Array)]                          \* return x

Statements == UNION {[form : {k}, on : Operands[k]] : k \in Forms}
Mutating == {"append", "store"}
Binds(s) == s.form \notin Mutating \cup {"return"}
Reads(s) == IF s.form = "fresh" THEN {}
            ELSE IF Binds(s) THEN {s.on[2]} ELSE {s.on[1], s.on[2]}

\* What a list is worth to whoever looks at it
Worth(h, x, o) == IF x \in Nested THEN [i \in DOMAIN h[o] |-> Len(h[h[o][i]])] ELSE Len(h[o])

\* The caller passes one flat list, a list of it, and one array
Given(p) == CASE p \in Flat -> 1 [] p \in Nested -> 2 [] p \in Array -> 3
OwnArray == 4
GivenHeap == << <<>>, <<1>>, <<>>, <<>> >>
GivenWorth(p) == IF p \in Nested THEN <<0>> ELSE 0

LoweringInit ==
    /\ heap = GivenHeap
    /\ bound = [x \in Variables |-> IF x \in Params THEN Given(x) ELSE 0]
    /\ owned = [x \in Variables |-> IF x \in Params THEN GivenWorth(x) ELSE 0]
    /\ returned = 0 /\ runs = TRUE
    /\ block = "top" /\ outer = {} /\ body = <<>> /\ turn = 0
    /\ scope = Params /\ declared = Params
    /\ mutated = {} /\ shared = {}
    /\ aliases = Params \cap Array /\ links = {} /\ returns = {} /\ escaped = FALSE
    /\ lines = 0

-----------------------------------------------------------------------------
(* What a statement does in Python, and what the Rust emitted for it does  *)

Bind(x, object, value) ==
    /\ bound' = [bound EXCEPT ![x] = object]
    /\ owned' = [owned EXCEPT ![x] = value]
    /\ UNCHANGED returned

\* The arrays that a function makes are not told apart
Fresh(x) ==
    LET new == Len(heap) + 1
    IN  CASE x \in Array  -> Bind(x, OwnArray, 0) /\ UNCHANGED heap
          [] x \in Nested -> heap' = heap \o << <<>>, <<new>> >> /\ Bind(x, new + 1, <<0>>)
          [] x \in Flat   -> heap' = Append(heap, <<>>) /\ Bind(x, new, 0)

\* let mut x = y.clone()
Name(x, y) == Bind(x, bound[y], owned[y]) /\ UNCHANGED heap

\* A copy is shallow in Python
Copy(x, y) == heap' = Append(heap, heap[bound[y]]) /\ Bind(x, Len(heap) + 1, owned[y])

\* vec![y.clone()]
Literal(x, y) ==
    heap' = Append(heap, <<bound[y]>>) /\ Bind(x, Len(heap) + 1, <<owned[y]>>)

Comprehension(x, y) ==
    /\ heap' = Append(heap, <<bound[y], bound[y]>>)
    /\ Bind(x, Len(heap) + 1, <<owned[y], owned[y]>>)

\* y.get(0).cloned()
Element(x, y) == Bind(x, heap[bound[y]][1], owned[y][1]) /\ UNCHANGED heap

\* x.push(...)
AppendTo(x) ==
    /\ heap' = IF x \in Nested
                 THEN Append([heap EXCEPT ![bound[x]] = Append(@, Len(heap) + 1)], <<>>)
                 ELSE [heap EXCEPT ![bound[x]] = Append(@, 0)]
    /\ owned' = [owned EXCEPT ![x] = IF x \in Nested THEN Append(@, 0) ELSE @ + 1]
    /\ UNCHANGED <<bound, returned>>

\* x.push(y.clone())
Store(x, y) ==
    /\ heap' = [heap EXCEPT ![bound[x]] = Append(@, bound[y])]
    /\ owned' = [owned EXCEPT ![x] = Append(@, owned[y])]
    /\ UNCHANGED <<bound, returned>>

Return(x) == returned' = bound[x] /\ UNCHANGED <<heap, bound, owned>>

Running == runs /\ returned = 0

Execute(s) ==
    LET x == s.on[1]
        y == s.on[2]
    IN  IF ~Running THEN UNCHANGED memory
        ELSE CASE s.form = "fresh" -> Fresh(x)
               [] s.form \in {"name", "result"} -> Name(x, y)
               [] s.form = "copy" -> Copy(x, y)
               [] s.form = "literal" -> Literal(x, y)
               [] s.form = "comprehension" -> Comprehension(x, y)
               [] s.form = "element" -> Element(x, y)
               [] s.form = "append" -> AppendTo(x)
               [] s.form = "store" -> Store(x, y)
               [] s.form = "return" -> Return(x)

-----------------------------------------------------------------------------
(* What the analysis reads *)

\* Every append to a name and every subscript assignment, wherever it stands
MutatedNames(s) == IF s.form \in Mutating THEN {s.on[1]} ELSE {}

\* Mutant: what a list display holds is not looked at
SharedNames_NoCaptures(s) ==
    IF s.form = "name" /\ block # "try" THEN {s.on[1], s.on[2]} \ Array ELSE {}

\* Names assigned to names, and names inside displays, but not in a try
SharedNames(s) ==
    IF block = "try" THEN {}
    ELSE IF s.form = "name" THEN {s.on[1], s.on[2]} \ Array
    ELSE IF s.form = "literal" THEN {s.on[2]}
    ELSE {}

ScanOwnership(s) ==
    /\ mutated' = mutated \cup MutatedNames(s)
    /\ shared' = shared \cup SharedNames(s)

\* In a straight line a new array ends an alias; in a block bindings are kept
\* for the fixpoint at its end
ScanAliases(s) ==
    LET x == s.on[1]
        y == s.on[2]
    IN  IF ~(Binds(s) \/ s.form = "return") \/ x \notin Array
          THEN UNCHANGED <<aliases, links, returns, escaped>>
        ELSE IF s.form = "return"
          THEN /\ escaped' = (escaped \/ (block = "top" /\ x \in aliases))
               /\ returns' = IF block = "top" THEN returns ELSE returns \cup {x}
               /\ UNCHANGED <<aliases, links>>
        ELSE IF block = "top"
          THEN /\ aliases' = IF s.form = "name" /\ y \in aliases THEN aliases \cup {x}
                             ELSE aliases \ {x}
               /\ UNCHANGED <<links, returns, escaped>>
        ELSE /\ links' = IF s.form = "name" THEN links \cup {<<x, y>>} ELSE links
             /\ UNCHANGED <<aliases, returns, escaped>>

\* Mutant: the assignments of a block are gone through once
Absorb_Once(A, R) == A \cup {r[1] : r \in {q \in R : q[2] \in A}}

\* The least set that has A and, with the operand of an assignment, its target
Absorb(A, R) ==
    {x \in Array : \A S \in SUBSET Array :
        A \subseteq S /\ (\A r \in R : r[2] \in S => r[1] \in S) => x \in S}

\* A name first bound in a block is unknown after it, and a name that is declared
\* and unknown cannot be bound again; a try binds no new names and returns nothing
InScope(s) ==
    /\ Reads(s) \subseteq scope
    /\ Binds(s) => s.on[1] \in scope \/ (s.on[1] \notin declared /\ block # "try")
    /\ s.form = "return" => block # "try"

Scan(s) ==
    /\ InScope(s) /\ ScanOwnership(s) /\ ScanAliases(s)
    /\ scope' = IF Binds(s) THEN scope \cup {s.on[1]} ELSE scope
    /\ declared' = declared \cup scope'
    /\ lines' = lines + 1

-----------------------------------------------------------------------------
(* Reading a body *)

Statement(s) ==
    /\ turn = 0 /\ lines < Lines
    /\ Scan(s) /\ Execute(s)
    /\ body' = IF block = "loop" THEN Append(body, s) ELSE body
    /\ UNCHANGED <<runs, block, outer, turn>>

\* A branch that is not taken and a loop without iterations do not run
Open(kind) ==
    /\ block = "top" /\ lines < Lines
    /\ block' = kind /\ outer' = scope
    /\ runs' \in IF kind = "try" THEN {TRUE} ELSE BOOLEAN
    /\ UNCHANGED <<memory, body, turn, analysis>>

\* An exception, and a handler with nothing in it
Raise ==
    /\ block = "try" /\ runs
    /\ runs' = FALSE
    /\ UNCHANGED <<memory, block, outer, body, turn, analysis>>

\* The second iteration of a loop
Repeat ==
    /\ block = "loop" /\ runs
    /\ turn < Len(body)
    /\ turn' = turn + 1
    /\ Execute(body[turn + 1])
    /\ UNCHANGED <<runs, block, outer, body, analysis>>

Close ==
    /\ block # "top" /\ turn \in {0, Len(body)}
    /\ block' = "top" /\ runs' = TRUE /\ outer' = {} /\ body' = <<>> /\ turn' = 0
    /\ scope' = IF block = "try" THEN scope ELSE outer
    /\ bound' = [x \in Variables |-> IF x \in scope' THEN bound[x] ELSE 0]
    /\ owned' = [x \in Variables |-> IF x \in scope' THEN owned[x] ELSE 0]
    /\ aliases' = Absorb(aliases, links) /\ links' = {} /\ returns' = {}
    /\ escaped' = (escaped \/ returns \cap aliases' # {})
    /\ UNCHANGED <<heap, returned, declared, mutated, shared, lines>>

LoweringNext ==
    \/ \E s \in Statements : Statement(s)
    \/ \E kind \in Blocks : Open(kind)
    \/ Raise \/ Repeat \/ Close

LoweringSpec == LoweringInit /\ [][LoweringNext]_loweringVars

-----------------------------------------------------------------------------
LoweringTypeOK ==
    /\ \A x \in Variables : bound[x] \in 0..Len(heap)
    /\ \A o \in DOMAIN heap : heap[o] \in Seq(0..Len(heap))
    /\ runs \in BOOLEAN /\ escaped \in BOOLEAN
    /\ block \in Blocks \cup {"top"}
    /\ body \in Seq(Statements) /\ turn \in 0..Len(body)
    /\ scope \subseteq Variables /\ declared \subseteq Variables /\ outer \subseteq Variables
    /\ mutated \subseteq Lists /\ shared \subseteq Lists
    /\ aliases \subseteq Array /\ returns \subseteq Array /\ links \subseteq Array \X Array
    /\ returned \in 0..Len(heap) /\ lines \in Nat

\* The function is lowered: no parameter is mutated, no list that has a second
\* name or holder, and no array of the caller may be returned.
Lowered == mutated \cap (shared \cup Params) = {} /\ ~escaped

\* A lowered function computes the same in Rust: every list it can still use, and
\* every list of its caller, is worth the same in both.
SameResult ==
    Lowered =>
        /\ \A x \in scope \cap Lists :
              bound[x] # 0 => Worth(heap, x, bound[x]) = owned[x]
        /\ \A p \in Params \cap Lists : Worth(heap, p, Given(p)) = GivenWorth(p)

\* A lowered function does not return the array object that its caller passed,
\* whichever branches and iterations ran.
AliasNeverEscapes ==
    Lowered /\ block = "top" => \A p \in Params \cap Array : returned # Given(p)
=============================================================================

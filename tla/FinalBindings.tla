--------------------------- MODULE FinalBindings ---------------------------
(***************************************************************************)
(* What a name of a module is bound to once the module has been imported.  *)
(* analyzer/final_bindings.py reads the module once, in source order: a    *)
(* scanner follows which names are exactly a function, an import or a      *)
(* plain class, to know what a call at module level can rebind, and a      *)
(* table keeps the last binder of each name, unless something that it      *)
(* cannot model came later.                                                *)
(*                                                                         *)
(* The module is read and executed side by side, one statement a step, so  *)
(* that every module of at most Lines statements is covered.  A call of a  *)
(* function of the module runs function by function, a block may be        *)
(* skipped or left half way, a loop may run again, a call of unknown code  *)
(* may rebind names.  Blocks do not nest: the analysis treats a block in a *)
(* block like the outer one, and both sides of an if like two blocks.      *)
(* Importing another module leaves this one alone.                         *)
(***************************************************************************)
EXTENDS Naturals, Sequences, FiniteSets

CONSTANTS
    Names,         \* the names of the module
    NoName,        \* no decorator, no call, a constant on the right
    Bodies,        \* what a function may do when it is called
    Rebindings,    \* sets of names that unknown code may rebind at once
    Lines,         \* bound on the statements of the module
    RebindInLoops  \* whether the body of a loop that runs again may rebind what it names

\* A function calls at most one function, spelled "named" in its body, and
\* rebinds module names: before or after the call, by statements that the
\* summary of a call looks at (assignment, del) or by others (:=, for, import,
\* def, class, a nested global).
Body == [writes : SUBSET Names, seen : BOOLEAN, first : BOOLEAN,
         calls : Names \cup {NoName}, named : Names \cup {NoName}]

ASSUME FinalBindingsAssumption ==
    /\ NoName \notin Names /\ Bodies \subseteq Body /\ Rebindings \subseteq SUBSET Names
    /\ Lines \in Nat /\ RebindInLoops \in BOOLEAN

VARIABLES
    line, body,  \* statements read; what the function defined on a line does
    block,       \* the block being read: "none", or its kind
    loop,        \* the statements read of a loop's body
    scope,       \* the scanner: what it holds names to be
    table,       \* the last binders, as a lookup reports them
    running,     \* the executing module
    now, stack   \* a statement that is calling, and the functions it has entered

bindingsVars == <<line, body, block, loop, scope, table, running, now, stack>>

NoBody == [writes |-> {}, seen |-> TRUE, first |-> FALSE, calls |-> NoName, named |-> NoName]

\* The statement on line d: arg is a decorator, a source or an import's target
Statement(op, n, arg, d, rebinds) ==
    [op |-> op, name |-> n, arg |-> arg, line |-> d, rebinds |-> rebinds]
NoStatement == Statement("none", NoName, NoName, 0, {})

\* Objects that names hold
Function(d) == [is |-> "function", line |-> d]
Object(what) == [is |-> what, line |-> 0]
Nobody == 0

BindingsInit ==
    /\ line = 0 /\ body = [d \in 1..Lines |-> NoBody]
    /\ block = "none" /\ loop = <<>>
    /\ scope = [alias |-> [n \in Names |-> "none"], function |-> [n \in Names |-> 0],
                safe |-> {}, unknownAll |-> FALSE, poisoned |-> FALSE, proven |-> {}]
    /\ table = [n \in Names |-> [kind |-> "unbound", origin |-> 0]]
    /\ running = [env |-> [n \in Names |-> [by |-> Nobody, holds |-> Object("absent")]],
                  genuine |-> TRUE, fakes |-> {}, live |-> TRUE, failed |-> FALSE]
    /\ now = NoStatement /\ stack = <<>>

Conditional == block # "none"
Idle == stack = <<>>

-----------------------------------------------------------------------------
(* The scanner: what may a statement rebind besides its own name? *)

Unknown == [names |-> {}, unknown |-> TRUE]
Rebinds(names) == [names |-> names, unknown |-> FALSE]

\* The function that a function calls, by the name it has in its body; 0 if not known
Callee(d) == IF body[d].named = NoName THEN 0 ELSE scope.function[body[d].named]

\* The functions that the scanner goes through for a call of d
Followed(d) ==
    {e \in 1..Lines : \A S \in SUBSET (1..Lines) :
        d \in S /\ (\A c \in S : Callee(c) # 0 => Callee(c) \in S) => e \in S}

\* The names rebound by a call of an exactly known function; unknown when it is
\* recursive or calls what is not exactly known.
CalledFunctionEffects(d) ==
    LET leaves == {c \in Followed(d) : body[c].named = NoName} IN
    IF leaves # {} /\ \A c \in Followed(d) \ leaves : Callee(c) # 0
    THEN Rebinds(UNION {body[c].writes : c \in {e \in Followed(d) : body[e].seen}})
    ELSE Unknown

CallEffects(n) ==
    IF n \in scope.safe THEN Rebinds({})
    ELSE IF scope.function[n] = 0 THEN Unknown
    ELSE CalledFunctionEffects(scope.function[n])

\* _marker_identity: the decorator is exactly the real marker
IsMarker(n) == n \in Names /\ scope.alias[n] = "marker" /\ ~scope.poisoned

Effects(s) ==
    CASE s.op = "def" -> IF s.arg = NoName \/ IsMarker(s.arg) THEN Rebinds({})
                         ELSE IF scope.function[s.arg] = 0 THEN Unknown
                         ELSE CalledFunctionEffects(scope.function[s.arg])
      [] s.op = "call" -> CallEffects(s.name)
      [] s.op = "class" -> IF scope.unknownAll THEN Unknown ELSE Rebinds(s.rebinds)
      [] s.op \in {"opaque", "hooked"} -> Unknown
      [] OTHER -> Rebinds({})

HasEffect(e) == e.unknown \/ e.names # {}

\* What the scanner still holds after the effect
ClearAll(sc) ==
    [sc EXCEPT !.alias = [n \in Names |-> "none"], !.function = [n \in Names |-> 0],
               !.safe = {}, !.unknownAll = TRUE]

AfterEffect(e) ==
    IF e.unknown THEN [ClearAll(scope) EXCEPT !.poisoned = TRUE]
    ELSE [scope EXCEPT !.alias = [n \in Names |-> IF n \in e.names THEN "none" ELSE @[n]],
                       !.function = [n \in Names |-> IF n \in e.names THEN 0 ELSE @[n]],
                       !.safe = @ \ e.names]

BindExecutionName(sc, n, alias, function) ==
    [sc EXCEPT !.alias[n] = IF Conditional THEN "none" ELSE alias,
               !.function[n] = IF Conditional THEN 0 ELSE function,
               !.safe = @ \ {n}]

\* The scanner's own view of what the statement binds
UpdateBindings(s, sc) ==
    CASE s.op = "def" -> BindExecutionName(sc, s.name, "none",
                             IF s.arg = NoName \/ s.line \in sc.proven THEN s.line ELSE 0)
      [] s.op = "class" -> LET bound == BindExecutionName(sc, s.name, "none", 0)
                           IN  IF Conditional THEN bound
                               ELSE [bound EXCEPT !.safe = @ \cup {s.name}]
      [] s.op = "assign" -> IF s.arg = NoName THEN BindExecutionName(sc, s.name, "none", 0)
                            ELSE BindExecutionName(sc, s.name, sc.alias[s.arg], sc.function[s.arg])
      [] s.op = "import" -> BindExecutionName(sc, s.name, s.arg, 0)
      [] s.op \in {"del", "for"} -> BindExecutionName(sc, s.name, "none", 0)
      [] s.op = "star" -> ClearAll(sc)
      [] OTHER -> sc

Scan(s) ==
    LET held == AfterEffect(Effects(s))
        proven == IF s.op = "def" /\ IsMarker(s.arg) THEN {s.line} ELSE {}
    IN  UpdateBindings(s, [held EXCEPT !.proven = @ \cup proven])

-----------------------------------------------------------------------------
(* The table of last binders *)

BinderKind(s) ==
    CASE s.op = "def" -> "function" [] s.op = "class" -> "class"
      [] s.op = "import" -> "import" [] s.op = "del" -> "deleted"
      [] OTHER -> "value"

Binders == {"def", "class", "assign", "del", "import", "for"}

\* Everything bound so far is older than the star, which may have rebound it
Star == [n \in Names |-> [kind |-> "unknown_star", origin |-> 0]]

\* Mutant: a binder in a block is taken for one that always runs
Bind_Straight(s, t) == [t EXCEPT ![s.name] = [kind |-> BinderKind(s), origin |-> s.line]]

Bind(s, t) ==
    [t EXCEPT ![s.name] =
        [kind |-> IF Conditional \/ s.op = "for" THEN "ambiguous" ELSE BinderKind(s),
         origin |-> s.line]]

\* An effect is a star before the statement's own binding
Walk(s) ==
    LET before == IF s.op = "star" \/ HasEffect(Effects(s)) THEN Star ELSE table
    IN  IF s.op \in Binders THEN Bind(s, before) ELSE before

-----------------------------------------------------------------------------
(* The execution *)

Held(p, n) == p.env[n].holds
BindTo(p, n, by, object) == [p EXCEPT !.env[n] = [by |-> by, holds |-> object]]
Rebind(p, names) ==
    [p EXCEPT !.env = [n \in Names |-> IF n \in names
                                       THEN [by |-> Nobody, holds |-> Object("other")]
                                       ELSE @[n]]]
Raises(p) == {[p EXCEPT !.failed = TRUE]}

\* Unknown code rebinds names, and may replace builtins and the real marker
Opaque(p) ==
    {[Rebind(p, names) EXCEPT !.genuine = g] : names \in Rebindings, g \in {p.genuine, FALSE}}

\* A call of what is not a function of the module, or of one too deep in others
CallObject(object, p) ==
    CASE object.is \in {"absent", "function"} -> Raises(p)
      [] object.is = "other" -> Opaque(p)
      [] OTHER -> {p}

\* A decorator that is not the marker returned something else than the function
Replaced(s, p) ==
    IF p.failed THEN p
    ELSE [BindTo(p, s.name, s.line, Object("other")) EXCEPT !.fakes = @ \cup {s.line}]

\* The outcomes of a decorator that is no function of the module
Decorated(s, p) ==
    LET decorator == Held(p, s.arg) IN
    IF decorator.is = "marker" /\ p.genuine THEN {BindTo(p, s.name, s.line, Function(s.line))}
    ELSE {Replaced(s, q) : q \in IF decorator.is = "marker" THEN Opaque(p)
                                 ELSE CallObject(decorator, p)}

Run(s, p) ==
    CASE s.op = "def" -> IF s.arg = NoName THEN {BindTo(p, s.name, s.line, Function(s.line))}
                         ELSE Decorated(s, p)
      [] s.op = "class" -> {BindTo(Rebind(q, s.rebinds), s.name, s.line, Object("class")) :
                                q \in IF p.genuine THEN {p} ELSE Opaque(p)}
      [] s.op = "assign" /\ s.arg = NoName -> {BindTo(p, s.name, s.line, Object("other"))}
      [] s.op = "assign" /\ s.arg # NoName ->
             IF Held(p, s.arg).is = "absent" THEN Raises(p)
             ELSE {BindTo(p, s.name, s.line, Held(p, s.arg))}
      [] s.op = "del" -> IF Held(p, s.name).is = "absent" THEN Raises(p)
                         ELSE {BindTo(p, s.name, s.line, Object("absent"))}
      [] s.op = "import" -> {BindTo(p, s.name, s.line, Object(s.arg))}
      [] s.op = "for" -> {BindTo(p, s.name, s.line, Object("other"))}
      [] s.op = "star" -> {Rebind(p, names) : names \in Rebindings}
      [] s.op = "call" -> CallObject(Held(p, s.name), p)
      [] s.op \in {"opaque", "hooked"} -> Opaque(p)
      [] OTHER -> {p}

\* In a block a failure, break or continue skips the rest of the block; outside
\* of one a failure ends the import.
Settle(outcomes) ==
    IF ~Conditional THEN running' \in {q \in outcomes : ~q.failed}
    ELSE \E q \in outcomes :
            running' \in {[q EXCEPT !.failed = FALSE, !.live = l] :
                             l \in IF q.failed THEN {FALSE} ELSE {FALSE, q.live}}

-----------------------------------------------------------------------------
(* Calls, function by function *)

\* The function of the module that a statement begins by calling
Caller(s) == IF s.op = "call" THEN s.name ELSE s.arg
CallsFunction(s) ==
    /\ running.live /\ (s.op = "call" \/ (s.op = "def" /\ s.arg # NoName))
    /\ Held(running, Caller(s)).is = "function"

Enter(d) ==
    /\ stack' = Append(stack, d)
    /\ running' = IF body[d].first THEN Rebind(running, body[d].writes) ELSE running

\* What the function entered last is about to call
Inner == body[stack[Len(stack)]].calls
InnerObject == Held(running, Inner)
Nests == Inner # NoName /\ InnerObject.is = "function" /\ Len(stack) <= Lines

EnterInner ==
    /\ ~Idle /\ Nests /\ Enter(InnerObject.line)
    /\ UNCHANGED <<line, body, block, loop, scope, table, now>>

\* The innermost call is answered, and every function entered goes on to its end
CallOutcomes ==
    LET writes == UNION {body[stack[i]].writes : i \in 1..Len(stack)}
        inner == IF Inner = NoName THEN {running} ELSE CallObject(InnerObject, running)
        returned == {IF q.failed THEN q ELSE Rebind(q, writes) : q \in inner}
    IN  IF now.op = "def" THEN {Replaced(now, q) : q \in returned} ELSE returned

-----------------------------------------------------------------------------
Loops == {"for", "while"}

\* A loop that must not run again is a block like others
MayRunAgain(s) ==
    RebindInLoops \/ (s.op \notin Binders \cup {"star"} /\ Effects(s).names = {})

\* The analysis is done with a statement
Scanned(s) ==
    /\ scope' = Scan(s) /\ table' = Walk(s)
    /\ IF block \in Loops /\ MayRunAgain(s)
       THEN loop' = Append(loop, s) /\ UNCHANGED block
       ELSE loop' = <<>> /\ block' = IF Conditional THEN "plain" ELSE "none"

\* A statement of a loop has run again; it is not read again
Rotated ==
    /\ loop' = Append(Tail(loop), Head(loop)) /\ block' = "again"
    /\ UNCHANGED <<scope, table>>

StartCall(s) ==
    /\ Enter(Held(running, Caller(s)).line) /\ now' = s
    /\ UNCHANGED <<loop, scope, table>>

Perform(s) ==
    /\ Settle(IF running.live THEN Run(s, running) ELSE {running})
    /\ UNCHANGED <<now, stack>>

\* Read a simple statement and execute it, up to a call
Read(s, b) ==
    /\ Idle /\ block # "again" /\ line < Lines /\ line' = line + 1
    /\ body' = [body EXCEPT ![line + 1] = b]
    /\ IF CallsFunction(s) THEN StartCall(s) /\ UNCHANGED block
       ELSE Perform(s) /\ Scanned(s)

EndCall ==
    /\ ~Idle /\ ~Nests
    /\ Settle(CallOutcomes)
    /\ IF block = "again" THEN Rotated ELSE Scanned(now)
    /\ now' = NoStatement /\ stack' = <<>>
    /\ UNCHANGED <<line, body>>

Here(op, n, arg) == Statement(op, n, arg, line + 1, {})

\* What the last function of a module does matters only where it can be called
Define == \E n \in Names, d \in Names \cup {NoName}, b \in Bodies :
    /\ line + 1 = Lines /\ block \notin Loops => b = NoBody
    /\ Read(Here("def", n, d), b)
DefineClass == \E n \in Names, b \in Bodies :
    b.calls = NoName /\ Read(Statement("class", n, NoName, line + 1, b.writes), NoBody)
Assign == \E n \in Names, m \in Names \cup {NoName} :
    n # m /\ Read(Here("assign", n, m), NoBody)
Delete == \E n \in Names : Read(Here("del", n, NoName), NoBody)
Import == \E n \in Names, target \in {"marker", "other"} : Read(Here("import", n, target), NoBody)
ImportStar == Read(Here("star", NoName, NoName), NoBody)
CallName == \E n \in Names : Read(Here("call", n, NoName), NoBody)
CallOpaque == Read(Here("opaque", NoName, NoName), NoBody)

\* The header of a block, whose body may be skipped
Open(s) ==
    /\ Idle /\ block = "none" /\ line < Lines /\ line' = line + 1
    /\ block' = s.op /\ loop' = <<>>
    /\ scope' = Scan(s) /\ table' = Walk(s)
    /\ \E q \in Run(s, running), entered \in BOOLEAN : running' = [q EXCEPT !.live = entered]
    /\ UNCHANGED <<body, now, stack>>

\* "hooked": with, match, and tests that may run code of an unknown object
OpenBlock == \E kind \in {"plain", "hooked", "while"} : Open(Here(kind, NoName, NoName))
OpenFor == \E n \in Names : Open(Here("for", n, NoName))

\* The body of a loop runs again
RunAgain ==
    /\ Idle /\ block \in Loops \cup {"again"} /\ loop # <<>> /\ running.live
    /\ IF CallsFunction(Head(loop)) THEN StartCall(Head(loop)) /\ block' = "again"
       ELSE Perform(Head(loop)) /\ Rotated
    /\ UNCHANGED <<line, body>>

Close ==
    /\ Idle /\ block # "none" /\ block' = "none" /\ loop' = <<>>
    /\ running' = [running EXCEPT !.live = TRUE]
    /\ UNCHANGED <<line, body, scope, table, now, stack>>

\* The import is over, or a call has raised outside of a block
End ==
    /\ block = "none"
    /\ IF Idle THEN line = Lines ELSE ~Nests /\ \A q \in CallOutcomes : q.failed
    /\ UNCHANGED bindingsVars

BindingsNext ==
    \/ Define \/ DefineClass \/ Assign \/ Delete \/ Import \/ ImportStar
    \/ CallName \/ EnterInner \/ EndCall \/ CallOpaque
    \/ OpenBlock \/ OpenFor \/ RunAgain \/ Close \/ End

BindingsSpec == BindingsInit /\ [][BindingsNext]_bindingsVars

-----------------------------------------------------------------------------
(* Properties *)

\* Wherever the module may end, a name that the table calls exactly bound was last
\* bound by exactly that statement, whatever ran in between, and a name it calls
\* unbound was never bound: a function is compiled, and a call resolved, by this.
FinalIsExact ==
    block = "none" /\ Idle => \A n \in Names :
        LET final == table[n] IN
        /\ final.kind \in {"function", "class", "import", "value", "deleted"}
               => running.env[n].by = final.origin
        /\ final.kind = "unbound" => running.env[n] = [by |-> Nobody, holds |-> Object("absent")]

\* A function counts as marked only if the decorator that ran on it was the real
\* marker, not a name that something had rebound or an import that no longer
\* delivers the real one.
MarkersReal == scope.proven \cap running.fakes = {}

\* What the table and the markers say of a module is so when it has been imported.
TableTrue == FinalIsExact /\ MarkersReal
=============================================================================

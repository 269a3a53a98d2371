-------------------------- MODULE MCWrapperImport --------------------------
(***************************************************************************)
(* Importing, from both sides, for TLC: the generated wrapper module of a  *)
(* plain function, a module-level shim and a method, and the user's module *)
(* below it, over two names.  The two do not touch each other's state: the *)
(* wrapper relies on what the analysis said of the module when it was      *)
(* built.  A behaviour follows one of them.                                *)
(***************************************************************************)
EXTENDS WrapperImport, FinalBindings, TLC

CONSTANTS plain, shim, method, f, h

VARIABLE side

MCFunctions == {plain, shim, method}
MCShims == {shim, method}

MCNames == {f, h}
MCDoes(writes, calls) ==
    [writes |-> writes, seen |-> TRUE, first |-> FALSE, calls |-> calls, named |-> calls]
MCBodies == {NoBody} \cup {MCDoes({n}, NoName) : n \in MCNames}
                     \cup {MCDoes(w, n) : n \in MCNames, w \in {{}, MCNames}}
MCRebindings == {{}, MCNames}
MCSymmetry == Permutations(MCNames)

MCInit ==
    /\ side \in {"wrapper", "module"}
    /\ ImportInit /\ BindingsInit
    /\ side = "module" =>
         /\ mode = "auto" /\ debug = FALSE /\ artifact = "absent"
         /\ exported = {} /\ missing_export = FALSE

MCNext ==
    \/ side = "wrapper" /\ ImportNext /\ UNCHANGED <<side, bindingsVars>>
    \/ side = "module" /\ BindingsNext /\ UNCHANGED <<side, importVars>>

MCSpec == MCInit /\ [][MCNext]_<<side, importVars, bindingsVars>>
=============================================================================

-------------------------- MODULE MCSigningRequest --------------------------
(***************************************************************************)
(* The two things that are made durable under a fixed name in the owner's  *)
(* private state directory, for TLC.  Three invocations persist one of two *)
(* signing requests; three calls, two threads of one process and one of    *)
(* another, materialize the native output of two authorities under a root  *)
(* that has room for one.  A behaviour follows one of the two.             *)
(***************************************************************************)
EXTENDS SigningRequest, NativeOutput, TLC

CONSTANTS b1, b2, b3, p, q, x, y

VARIABLE side

MCBuilds == {b1, b2, b3}
MCProcesses == {p, q}
MCAuthorities == {x, y}
MCProcessOf == [c \in MCBuilds |-> IF c = b3 THEN q ELSE p]
MCAuthorityOf == [c \in MCBuilds |-> IF c = b2 THEN y ELSE x]
MCSymmetry == Permutations(Call) \cup Permutations(Request)

MCInit ==
    /\ side \in {"request", "output"}
    /\ Init /\ NativeInit
    /\ side = "request" => root = NoRoot
    /\ side = "output" => request = None /\ \E r \in Request : want = [c \in Call |-> r]

MCNext ==
    \/ side = "request" /\ Next /\ UNCHANGED <<side, nativeVars>>
    \/ side = "output" /\ NativeNext /\ UNCHANGED <<side, vars>>

MCSpec == MCInit /\ [][MCNext]_<<side, vars, nativeVars>>
=============================================================================

--------------------------- MODULE SigningRequest ---------------------------
(***************************************************************************)
(* materialize_full_c6_signing_request (build/full_c6_publication.py):     *)
(* persist one request file in the owner's private state directory.  A     *)
(* call looks for an existing request, writes a temporary file, looks      *)
(* again, renames without replacing, syncs the directory and reads the     *)
(* request back.  Each call is one invocation; a retry is another call.    *)
(***************************************************************************)
EXTENDS Naturals

CONSTANTS Call,             \* invocations
          Request,          \* canonical request bytes
          None,             \* no such file
          Other,            \* bytes that are no canonical request
          MaxFaults, MaxLosses, MaxWithdrawals    \* bounds

\* A file with its bytes; a rename is durable once its directory is synced.
File == [data : Request \cup {Other}, durable : BOOLEAN]

ASSUME SigningAssumption ==
  /\ None \notin Request /\ Other \notin Request /\ None # Other
  /\ None \notin File
  /\ {MaxFaults, MaxLosses, MaxWithdrawals} \subseteq Nat

VARIABLES request,          \* the file under the request's name
          temp,             \* each call's temporary file
          pc, want,         \* progress and the request each call was given
          committed,        \* history: calls whose rename the kernel did
          stuck,            \* history: calls whose cleanup failed
          verdict,          \* what the caller learns
          spent             \* how many of each outside event happened

vars == <<request, temp, pc, want, committed, stuck, verdict, spent>>

Limit == [fault |-> MaxFaults, loss |-> MaxLosses, withdrawal |-> MaxWithdrawals]
InTry == {"existing", "create", "fill", "again", "rename", "compare", "sync", "confirm"}
Live == InTry \cup {"cleanup"}
Receipts == {"fresh", "present"}

Goto(c, l) == pc' = [pc EXCEPT ![c] = l]
Spend(k) == /\ spent[k] < Limit[k]
            /\ spent' = [spent EXCEPT ![k] = @ + 1]
Leave(c, v) == /\ verdict' = [verdict EXCEPT ![c] = v]
               /\ Goto(c, "cleanup")
Same(c) == request # None /\ request.data = want[c]

\* The name is free, or holds an earlier file.
Init == /\ request \in {None} \cup [data : Request \cup {Other}, durable : {TRUE}]
        /\ temp = [c \in Call |-> None]
        /\ pc = [c \in Call |-> "idle"]
        /\ want \in [Call -> Request]
        /\ committed = {} /\ stuck = {}
        /\ verdict = [c \in Call |-> "none"]
        /\ spent = [k \in DOMAIN Limit |-> 0]

Start(c) == /\ pc[c] = "idle"
            /\ Goto(c, "existing")
            /\ UNCHANGED <<request, temp, want, committed, stuck, verdict, spent>>

\* A look before or after the temporary file was written: the same bytes are
\* a receipt, other bytes a conflict, and a free name leads on to the next step.
Look(c, from, next) ==
  /\ pc[c] = from
  /\ IF request = None
       THEN Goto(c, next) /\ UNCHANGED verdict
       ELSE Leave(c, IF Same(c) THEN "present" ELSE "failed")
  /\ UNCHANGED <<request, temp, want, committed, stuck, spent>>

Existing(c) == Look(c, "existing", "create")
Again(c) == Look(c, "again", "rename")

Create(c) == /\ pc[c] = "create"
             /\ temp' = [temp EXCEPT ![c] = Other]
             /\ Goto(c, "fill")
             /\ UNCHANGED <<request, want, committed, stuck, verdict, spent>>

\* The bytes are written and synced before the file gets its name.
Fill(c) == /\ pc[c] = "fill"
           /\ temp' = [temp EXCEPT ![c] = want[c]]
           /\ Goto(c, "again")
           /\ UNCHANGED <<request, want, committed, stuck, verdict, spent>>

\* Mutant: a plain rename, which replaces.
Rename_Replaces(c) ==
  /\ pc[c] = "rename"
  /\ request' = [data |-> temp[c], durable |-> FALSE]
  /\ temp' = [temp EXCEPT ![c] = None]
  /\ committed' = committed \cup {c}
  /\ Goto(c, "sync")
  /\ UNCHANGED <<want, stuck, verdict, spent>>

Rename(c) ==
  /\ pc[c] = "rename"
  /\ IF request = None
       THEN /\ request' = [data |-> temp[c], durable |-> FALSE]
            /\ temp' = [temp EXCEPT ![c] = None]
            /\ committed' = committed \cup {c}
            /\ Goto(c, "sync")
       ELSE Goto(c, "compare") /\ UNCHANGED <<request, temp, committed>>
  /\ UNCHANGED <<want, stuck, verdict, spent>>

\* Mutant: losing the race is always a conflict.
Compare_Refuses(c) ==
  /\ pc[c] = "compare"
  /\ Leave(c, "failed")
  /\ UNCHANGED <<request, temp, want, committed, stuck, spent>>

\* The target appeared after the second look, and may be gone again.
Compare(c) ==
  /\ pc[c] = "compare"
  /\ Leave(c, IF Same(c) THEN "present" ELSE "failed")
  /\ UNCHANGED <<request, temp, want, committed, stuck, spent>>

\* Mutant: the directory is not synced.
Sync_Dropped(c) ==
  /\ pc[c] = "sync"
  /\ Goto(c, "confirm")
  /\ UNCHANGED <<request, temp, want, committed, stuck, verdict, spent>>

Sync(c) ==
  /\ pc[c] = "sync"
  /\ request' = IF request = None THEN None ELSE [request EXCEPT !.durable = TRUE]
  /\ Goto(c, "confirm")
  /\ UNCHANGED <<temp, want, committed, stuck, verdict, spent>>

Confirm(c) ==
  /\ pc[c] = "confirm"
  /\ Leave(c, IF Same(c) THEN "fresh" ELSE "failed")
  /\ UNCHANGED <<request, temp, want, committed, stuck, spent>>

\* The unlink of the temporary file, in the finally block or before a receipt.
Cleanup(c) ==
  /\ pc[c] = "cleanup"
  /\ temp' = [temp EXCEPT ![c] = None]
  /\ Goto(c, "done")
  /\ UNCHANGED <<request, want, committed, stuck, verdict, spent>>

-----------------------------------------------------------------------------
\* The unlink fails and is ignored, or closing the directory replaces a receipt.
CleanupFails(c) ==
  /\ pc[c] = "cleanup"
  /\ Spend("fault")
  /\ stuck' = stuck \cup {c}
  /\ \/ UNCHANGED <<verdict, temp>>
     \/ /\ verdict' = [verdict EXCEPT ![c] = IF @ \in Receipts THEN "failed" ELSE @]
        /\ temp' = [temp EXCEPT ![c] = None]
  /\ Goto(c, "done")
  /\ UNCHANGED <<request, want, committed>>

\* An operating-system error or a failed revalidation, also after the rename.
Abort(c) == /\ pc[c] \in InTry
            /\ Spend("fault")
            /\ Leave(c, "failed")
            /\ UNCHANGED <<request, temp, want, committed, stuck>>

\* An asynchronous exception runs the finally block.
Interrupt(c) == /\ pc[c] \in InTry
                /\ Spend("loss")
                /\ Leave(c, "lost")
                /\ UNCHANGED <<request, temp, want, committed, stuck>>

Crash(c) == /\ pc[c] \in Live
            /\ Spend("loss")
            /\ verdict' = [verdict EXCEPT ![c] = "lost"]
            /\ stuck' = stuck \cup {c}
            /\ Goto(c, "done")
            /\ UNCHANGED <<request, temp, want, committed>>

\* Power is lost: a rename that was not synced may be undone.
PowerLoss ==
  /\ Spend("loss")
  /\ LET dead == {c \in Call : pc[c] \in Live} IN
       /\ pc' = [c \in Call |-> IF c \in dead THEN "done" ELSE pc[c]]
       /\ verdict' = [c \in Call |-> IF c \in dead THEN "lost" ELSE verdict[c]]
       /\ stuck' = stuck \cup dead
  /\ \/ UNCHANGED request
     \/ /\ request # None /\ ~request.durable
        /\ request' = None
  /\ UNCHANGED <<temp, want, committed>>

\* The owner moves the request away, for example to sign it.
Withdraw == /\ request # None
            /\ Spend("withdrawal")
            /\ request' = None
            /\ UNCHANGED <<temp, pc, want, committed, stuck, verdict>>

Step(c) == \/ Existing(c) \/ Create(c) \/ Fill(c) \/ Again(c) \/ Rename(c)
           \/ Compare(c) \/ Sync(c) \/ Confirm(c) \/ Cleanup(c)

Next == \/ \E c \in Call : \/ Start(c) \/ Step(c) \/ CleanupFails(c)
                           \/ Abort(c) \/ Interrupt(c) \/ Crash(c)
        \/ PowerLoss \/ Withdraw

Spec == Init /\ [][Next]_vars
-----------------------------------------------------------------------------
\* Types of the request file, the temporary files and the calls.
SigningTypeOK ==
  /\ request \in File \cup {None}
  /\ temp \in [Call -> Request \cup {Other, None}]
  /\ pc \in [Call -> Live \cup {"idle", "done"}]
  /\ want \in [Call -> Request]
  /\ committed \subseteq Call /\ stuck \subseteq Call
  /\ verdict \in [Call -> Receipts \cup {"none", "failed", "lost"}]
  /\ spent \in [DOMAIN Limit -> Nat] /\ \A k \in DOMAIN Limit : spent[k] <= Limit[k]

\* A receipt that says the request is new outlives a loss of power: while the
\* owner has not moved it, the request with exactly these bytes is there.
FreshReceiptSurvives ==
  \A c \in Call : verdict[c] = "fresh" /\ spent["withdrawal"] = 0 => Same(c)

\* Without an I/O fault or a withdrawal a call is refused only for a conflict:
\* racing with the same request, at any of the three looks, is no failure.
RefusalJustified ==
  [][ \A c \in Call :
        /\ verdict[c] # "failed" /\ verdict'[c] = "failed"
        /\ spent'["fault"] = spent["fault"] /\ spent["withdrawal"] = 0
        => request # None /\ request.data # want[c] ]_vars

\* The bytes under the name, and how far a call is, for one who only sees the name and the receipts.
Seen == IF request = None THEN None ELSE request.data
Status(c) ==
  CASE pc[c] = "idle" -> "idle"
    [] pc[c] = "done" /\ verdict[c] \in Receipts -> "receipt"
    [] pc[c] = "done" /\ verdict[c] \notin Receipts -> verdict[c]
    [] pc[c] \in Live /\ c \in committed -> "committed"
    [] pc[c] = "cleanup" /\ verdict[c] = "present" -> "observed"
    [] OTHER -> "calling"

\* Every receipt stands for the exact request seen at its name and nobody
\* replaces a request; here a call may still fail after its own rename.
Promised == INSTANCE WriteOnce WITH
  Content <- Request, Nothing <- None, Alien <- Other, FailsLate <- TRUE,
  content <- Seen, asked <- want, status <- [c \in Call |-> Status(c)]
ImplementsWriteOnce == Promised!Spec

=============================================================================

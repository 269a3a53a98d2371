------------------------ MODULE SigningRequestProofs ------------------------
(***************************************************************************)
(* The signing request for any number of calls, requests and faults: what  *)
(* a receipt is worth, and the refinement of WriteOnce.  A fresh receipt   *)
(* rests on the order of rename, sync and confirmation; the invariant says *)
(* what each of these steps has achieved while nobody moved the request.   *)
(***************************************************************************)
EXTENDS SigningRequest, NativeOutput, FiniteSetTheorems, TLAPS

\* Where a call is, and what it holds and has done.
Progress(c) ==
  /\ pc[c] \in {"idle"} \cup InTry => verdict[c] = "none"
  /\ pc[c] \in {"cleanup", "done"} => verdict[c] # "none"
  /\ pc[c] \in {"again", "rename"} => temp[c] = want[c]
  /\ pc[c] \in {"sync", "confirm"} \/ verdict[c] = "fresh" => c \in committed
  /\ c \in committed => pc[c] \in {"sync", "confirm", "cleanup", "done"} /\ verdict[c] # "present"

\* What each look and each receipt rests on while nobody has moved the request.
Durable(c) ==
  spent["withdrawal"] = 0 =>
    /\ pc[c] = "compare" => request # None
    /\ pc[c] = "sync" => Same(c)
    /\ pc[c] = "confirm" \/ verdict[c] = "fresh" => Same(c) /\ request.durable

Inv == SigningTypeOK /\ \A c \in Call : Progress(c) /\ Durable(c)

LEMMA Constants ==
  /\ None \notin Request /\ Other \notin Request /\ None # Other /\ None \notin File
  /\ DOMAIN Limit = {"fault", "loss", "withdrawal"}
  /\ \A k \in DOMAIN Limit : Limit[k] \in Nat
BY SigningAssumption DEF Limit

LEMMA InvInit == Init => Inv
<1> SUFFICES ASSUME Init PROVE Inv
  OBVIOUS
<1>1. SigningTypeOK
  <2>1. request \in File \cup {None}
    BY DEF Init, File
  <2>2. spent \in [DOMAIN Limit -> Nat] /\ \A k \in DOMAIN Limit : spent[k] <= Limit[k]
    BY Constants DEF Init
  <2> QED
    BY <2>1, <2>2 DEF Init, SigningTypeOK, Live
<1>2. ASSUME NEW c \in Call PROVE Progress(c) /\ Durable(c)
  BY DEF Init, Progress, Durable, InTry
<1> QED
  BY <1>1, <1>2 DEF Inv

\* Spending a fault, a loss or a withdrawal.
LEMMA Spending ==
  ASSUME SigningTypeOK, NEW k \in DOMAIN Limit, Spend(k)
  PROVE  /\ spent' \in [DOMAIN Limit -> Nat] /\ \A j \in DOMAIN Limit : spent'[j] <= Limit[j]
         /\ spent'[k] = spent[k] + 1
         /\ \A j \in DOMAIN Limit \ {k} : spent'[j] = spent[j]
BY Constants DEF SigningTypeOK, Spend

LEMMA InvStep == Inv /\ [Next]_vars => Inv'
<1> SUFFICES ASSUME Inv, [Next]_vars PROVE Inv'
  OBVIOUS
<1> USE Constants
<1>1. SigningTypeOK /\ \A d \in Call : Progress(d) /\ Durable(d)
  BY DEF Inv
<1>2. ASSUME SigningTypeOK', \A d \in Call : Progress(d)' /\ Durable(d)' PROVE Inv'
  BY <1>2 DEF Inv
<1>3. ASSUME NEW c \in Call, Start(c) PROVE Inv'
  <2>1. SigningTypeOK'
    BY <1>1, <1>3 DEF Start, SigningTypeOK, File, Goto, Leave, Live, InTry, Receipts
  <2>2. ASSUME NEW d \in Call PROVE Progress(d)' /\ Durable(d)'
    <3>1. CASE d = c
      BY <1>1, <1>3, <3>1
         DEF Start, SigningTypeOK, Goto, Leave, Live, InTry, Receipts, Progress, Durable, Same
    <3>2. CASE d # c
      BY <1>1, <1>3, <3>2 DEF Start, SigningTypeOK, Goto, Leave, Progress, Durable, Same
    <3> QED
      BY <3>1, <3>2
  <2> QED
    BY <1>2, <2>1, <2>2
<1>4. ASSUME NEW c \in Call, Existing(c) PROVE Inv'
  <2>1. SigningTypeOK'
    BY <1>1, <1>4 DEF Existing, Look, SigningTypeOK, File, Goto, Leave, Live, InTry, Receipts
  <2>2. ASSUME NEW d \in Call PROVE Progress(d)' /\ Durable(d)'
    <3>1. CASE d = c
      BY <1>1, <1>4, <3>1
         DEF Existing, Look, SigningTypeOK, Goto, Leave, Live, InTry, Receipts, Progress, Durable,
             Same
    <3>2. CASE d # c
      BY <1>1, <1>4, <3>2 DEF Existing, Look, SigningTypeOK, Goto, Leave, Progress, Durable, Same
    <3> QED
      BY <3>1, <3>2
  <2> QED
    BY <1>2, <2>1, <2>2
<1>5. ASSUME NEW c \in Call, Again(c) PROVE Inv'
  <2>1. SigningTypeOK'
    BY <1>1, <1>5 DEF Again, Look, SigningTypeOK, File, Goto, Leave, Live, InTry, Receipts
  <2>2. ASSUME NEW d \in Call PROVE Progress(d)' /\ Durable(d)'
    <3>1. CASE d = c
      BY <1>1, <1>5, <3>1
         DEF Again, Look, SigningTypeOK, Goto, Leave, Live, InTry, Receipts, Progress, Durable, Same
    <3>2. CASE d # c
      BY <1>1, <1>5, <3>2 DEF Again, Look, SigningTypeOK, Goto, Leave, Progress, Durable, Same
    <3> QED
      BY <3>1, <3>2
  <2> QED
    BY <1>2, <2>1, <2>2
<1>6. ASSUME NEW c \in Call, Create(c) PROVE Inv'
  <2>1. SigningTypeOK'
    BY <1>1, <1>6 DEF Create, SigningTypeOK, File, Goto, Leave, Live, InTry, Receipts
  <2>2. ASSUME NEW d \in Call PROVE Progress(d)' /\ Durable(d)'
    <3>1. CASE d = c
      BY <1>1, <1>6, <3>1
         DEF Create, SigningTypeOK, Goto, Leave, Live, InTry, Receipts, Progress, Durable, Same
    <3>2. CASE d # c
      BY <1>1, <1>6, <3>2 DEF Create, SigningTypeOK, Goto, Leave, Progress, Durable, Same
    <3> QED
      BY <3>1, <3>2
  <2> QED
    BY <1>2, <2>1, <2>2
<1>7. ASSUME NEW c \in Call, Fill(c) PROVE Inv'
  <2>1. SigningTypeOK'
    BY <1>1, <1>7 DEF Fill, SigningTypeOK, File, Goto, Leave, Live, InTry, Receipts
  <2>2. ASSUME NEW d \in Call PROVE Progress(d)' /\ Durable(d)'
    <3>1. CASE d = c
      BY <1>1, <1>7, <3>1
         DEF Fill, SigningTypeOK, Goto, Leave, Live, InTry, Receipts, Progress, Durable, Same
    <3>2. CASE d # c
      BY <1>1, <1>7, <3>2 DEF Fill, SigningTypeOK, Goto, Leave, Progress, Durable, Same
    <3> QED
      BY <3>1, <3>2
  <2> QED
    BY <1>2, <2>1, <2>2
<1>8. ASSUME NEW c \in Call, Rename(c) PROVE Inv'
  <2>1. CASE request = None
    <3>1. /\ request' = [data |-> want[c], durable |-> FALSE] /\ request' # None
          /\ pc[c] = "rename" /\ pc' = [pc EXCEPT ![c] = "sync"]
          /\ temp' = [temp EXCEPT ![c] = None]
          /\ committed' = committed \cup {c} /\ UNCHANGED <<want, stuck, verdict, spent>>
      <4>1. temp[c] = want[c]
        BY <1>1, <1>8 DEF Rename, Progress
      <4>2. [data |-> want[c], durable |-> FALSE] \in File
        BY <1>1 DEF SigningTypeOK, File
      <4> QED
        BY <1>8, <2>1, <4>1, <4>2 DEF Rename, Goto
    <3>2. SigningTypeOK'
      BY <1>1, <3>1 DEF SigningTypeOK, File, Live, InTry
    <3>3. ASSUME NEW d \in Call PROVE Progress(d)'
      BY <1>1, <3>1, <3>3 DEF SigningTypeOK, Progress, InTry
    <3>4. ASSUME NEW d \in Call PROVE Durable(d)'
      <4>1. CASE d = c
        BY <1>1, <3>1, <4>1 DEF SigningTypeOK, Durable, Same, Progress, InTry
      <4>2. CASE d # c
        BY <1>1, <2>1, <3>1, <4>2 DEF SigningTypeOK, Durable, Same
      <4> QED
        BY <4>1, <4>2
    <3> QED
      BY <1>2, <3>2, <3>3, <3>4
  <2>2. CASE request # None
    <3>1. /\ pc[c] = "rename" /\ pc' = [pc EXCEPT ![c] = "compare"]
          /\ UNCHANGED <<request, temp, want, committed, stuck, verdict, spent>>
      BY <1>8, <2>2 DEF Rename, Goto
    <3>2. SigningTypeOK'
      BY <1>1, <3>1 DEF SigningTypeOK, Live, InTry
    <3>3. ASSUME NEW d \in Call PROVE Progress(d)' /\ Durable(d)'
      BY <1>1, <2>2, <3>1, <3>3 DEF SigningTypeOK, Progress, Durable, Same, InTry
    <3> QED
      BY <1>2, <3>2, <3>3
  <2> QED
    BY <2>1, <2>2
<1>9. ASSUME NEW c \in Call, Compare(c) PROVE Inv'
  <2>1. SigningTypeOK'
    BY <1>1, <1>9 DEF Compare, SigningTypeOK, File, Goto, Leave, Live, InTry, Receipts
  <2>2. ASSUME NEW d \in Call PROVE Progress(d)' /\ Durable(d)'
    <3>1. CASE d = c
      BY <1>1, <1>9, <3>1
         DEF Compare, SigningTypeOK, Goto, Leave, Live, InTry, Receipts, Progress, Durable, Same
    <3>2. CASE d # c
      BY <1>1, <1>9, <3>2 DEF Compare, SigningTypeOK, Goto, Leave, Progress, Durable, Same
    <3> QED
      BY <3>1, <3>2
  <2> QED
    BY <1>2, <2>1, <2>2
<1>10. ASSUME NEW c \in Call, Sync(c) PROVE Inv'
  <2>1. /\ request = None => request' = None
        /\ request # None => /\ request' \in File /\ request' # None
                             /\ request'.data = request.data /\ request'.durable
    BY <1>1, <1>10 DEF Sync, SigningTypeOK, File
  <2>2. /\ pc[c] = "sync" /\ pc' = [pc EXCEPT ![c] = "confirm"]
        /\ UNCHANGED <<temp, want, committed, stuck, verdict, spent>>
    BY <1>10 DEF Sync, Goto
  <2>3. SigningTypeOK'
    BY <1>1, <2>1, <2>2 DEF SigningTypeOK, Live, InTry
  <2>4. ASSUME NEW d \in Call PROVE Progress(d)'
    BY <1>1, <2>2, <2>4 DEF SigningTypeOK, Progress, InTry
  <2>5. ASSUME NEW d \in Call PROVE Same(d) => Same(d)' /\ request'.durable
    BY <2>1, <2>2, <2>5 DEF Same
  <2>6. ASSUME NEW d \in Call PROVE Durable(d)'
    <3>1. CASE d = c
      BY <1>1, <2>1, <2>2, <2>5, <3>1 DEF SigningTypeOK, Durable
    <3>2. CASE d # c
      BY <1>1, <2>1, <2>2, <2>5, <3>2 DEF SigningTypeOK, Durable
    <3> QED
      BY <3>1, <3>2
  <2> QED
    BY <1>2, <2>3, <2>4, <2>6
<1>11. ASSUME NEW c \in Call, Confirm(c) PROVE Inv'
  <2>1. SigningTypeOK'
    BY <1>1, <1>11 DEF Confirm, SigningTypeOK, File, Goto, Leave, Live, InTry, Receipts
  <2>2. ASSUME NEW d \in Call PROVE Progress(d)' /\ Durable(d)'
    <3>1. CASE d = c
      BY <1>1, <1>11, <3>1
         DEF Confirm, SigningTypeOK, Goto, Leave, Live, InTry, Receipts, Progress, Durable, Same
    <3>2. CASE d # c
      BY <1>1, <1>11, <3>2 DEF Confirm, SigningTypeOK, Goto, Leave, Progress, Durable, Same
    <3> QED
      BY <3>1, <3>2
  <2> QED
    BY <1>2, <2>1, <2>2
<1>12. ASSUME NEW c \in Call, Cleanup(c) PROVE Inv'
  <2>1. SigningTypeOK'
    BY <1>1, <1>12 DEF Cleanup, SigningTypeOK, File, Goto, Leave, Live, InTry, Receipts
  <2>2. ASSUME NEW d \in Call PROVE Progress(d)' /\ Durable(d)'
    <3>1. CASE d = c
      BY <1>1, <1>12, <3>1
         DEF Cleanup, SigningTypeOK, Goto, Leave, Live, InTry, Receipts, Progress, Durable, Same
    <3>2. CASE d # c
      BY <1>1, <1>12, <3>2 DEF Cleanup, SigningTypeOK, Goto, Leave, Progress, Durable, Same
    <3> QED
      BY <3>1, <3>2
  <2> QED
    BY <1>2, <2>1, <2>2
<1>13. ASSUME NEW c \in Call, CleanupFails(c) PROVE Inv'
  <2>1. SigningTypeOK'
    BY <1>1, <1>13 DEF CleanupFails, Spend, SigningTypeOK, File, Goto, Leave, Live, InTry, Receipts
  <2>2. ASSUME NEW d \in Call PROVE Progress(d)' /\ Durable(d)'
    <3>1. CASE d = c
      BY <1>1, <1>13, <3>1
         DEF CleanupFails, Spend, SigningTypeOK, Goto, Leave, Live, InTry, Receipts, Progress,
             Durable, Same
    <3>2. CASE d # c
      BY <1>1, <1>13, <3>2
         DEF CleanupFails, Spend, SigningTypeOK, Goto, Leave, Progress, Durable, Same
    <3> QED
      BY <3>1, <3>2
  <2> QED
    BY <1>2, <2>1, <2>2
<1>14. ASSUME NEW c \in Call, Abort(c) PROVE Inv'
  <2>1. SigningTypeOK'
    BY <1>1, <1>14 DEF Abort, Spend, SigningTypeOK, File, Goto, Leave, Live, InTry, Receipts
  <2>2. ASSUME NEW d \in Call PROVE Progress(d)' /\ Durable(d)'
    <3>1. CASE d = c
      BY <1>1, <1>14, <3>1
         DEF Abort, Spend, SigningTypeOK, Goto, Leave, Live, InTry, Receipts, Progress, Durable,
             Same
    <3>2. CASE d # c
      BY <1>1, <1>14, <3>2 DEF Abort, Spend, SigningTypeOK, Goto, Leave, Progress, Durable, Same
    <3> QED
      BY <3>1, <3>2
  <2> QED
    BY <1>2, <2>1, <2>2
<1>15. ASSUME NEW c \in Call, Interrupt(c) PROVE Inv'
  <2>1. SigningTypeOK'
    BY <1>1, <1>15 DEF Interrupt, Spend, SigningTypeOK, File, Goto, Leave, Live, InTry, Receipts
  <2>2. ASSUME NEW d \in Call PROVE Progress(d)' /\ Durable(d)'
    <3>1. CASE d = c
      BY <1>1, <1>15, <3>1
         DEF Interrupt, Spend, SigningTypeOK, Goto, Leave, Live, InTry, Receipts, Progress,
             Durable, Same
    <3>2. CASE d # c
      BY <1>1, <1>15, <3>2 DEF Interrupt, Spend, SigningTypeOK, Goto, Leave, Progress, Durable, Same
    <3> QED
      BY <3>1, <3>2
  <2> QED
    BY <1>2, <2>1, <2>2
<1>16. ASSUME NEW c \in Call, Crash(c) PROVE Inv'
  <2>1. SigningTypeOK'
    BY <1>1, <1>16 DEF Crash, Spend, SigningTypeOK, File, Goto, Leave, Live, InTry, Receipts
  <2>2. ASSUME NEW d \in Call PROVE Progress(d)' /\ Durable(d)'
    <3>1. CASE d = c
      BY <1>1, <1>16, <3>1
         DEF Crash, Spend, SigningTypeOK, Goto, Leave, Live, InTry, Receipts, Progress, Durable,
             Same
    <3>2. CASE d # c
      BY <1>1, <1>16, <3>2 DEF Crash, Spend, SigningTypeOK, Goto, Leave, Progress, Durable, Same
    <3> QED
      BY <3>1, <3>2
  <2> QED
    BY <1>2, <2>1, <2>2
<1>17. CASE PowerLoss
  <2>1. SigningTypeOK'
    BY <1>1, <1>17 DEF PowerLoss, Spend, SigningTypeOK, File, Live, InTry
  <2>2. ASSUME NEW d \in Call PROVE Progress(d)' /\ Durable(d)'
    BY <1>1, <1>17 DEF PowerLoss, Spend, SigningTypeOK, Live, InTry, Progress, Durable, Same
  <2> QED
    BY <1>2, <2>1, <2>2
<1>18. CASE Withdraw
  <2>1. SigningTypeOK'
    BY <1>1, <1>18 DEF Withdraw, Spend, SigningTypeOK, File, Live, InTry
  <2>2. ASSUME NEW d \in Call PROVE Progress(d)' /\ Durable(d)'
    BY <1>1, <1>18 DEF Withdraw, Spend, SigningTypeOK, Live, InTry, Progress, Durable, Same
  <2> QED
    BY <1>2, <2>1, <2>2
<1>19. CASE UNCHANGED vars
  <2>1. SigningTypeOK'
    BY <1>1, <1>19 DEF vars, SigningTypeOK, File, Live, InTry
  <2>2. ASSUME NEW d \in Call PROVE Progress(d)' /\ Durable(d)'
    BY <1>1, <1>19 DEF vars, SigningTypeOK, Live, InTry, Progress, Durable, Same
  <2> QED
    BY <1>2, <2>1, <2>2
<1> QED
  BY <1>3, <1>4, <1>5, <1>6, <1>7, <1>8, <1>9, <1>10, <1>11, <1>12, <1>13, <1>14, <1>15, <1>16,
     <1>17, <1>18, <1>19
     DEF Next, Step

\* Files, temporary files, verdicts and the bounds keep their types.
THEOREM SigningTyped == Spec => []SigningTypeOK
<1>1. Inv => SigningTypeOK
  BY DEF Inv
<1> QED
  BY InvInit, InvStep, <1>1, PTL DEF Spec

\* A receipt that says the request is new outlives every loss of power: while
\* nobody moved the request, exactly these bytes are there.
THEOREM FreshSurvives == Spec => []FreshReceiptSurvives
<1>1. Inv => FreshReceiptSurvives
  BY DEF Inv, Durable, FreshReceiptSurvives
<1> QED
  BY InvInit, InvStep, <1>1, PTL DEF Spec

\* Without a fault or a withdrawal a call is refused for a conflict only.
THEOREM OnlyConflictsRefuse == Spec => RefusalJustified
<1> DEFINE Refused(c) == /\ verdict[c] # "failed" /\ verdict'[c] = "failed"
                         /\ spent'["fault"] = spent["fault"] /\ spent["withdrawal"] = 0
<1>1. ASSUME Inv, Next, NEW d \in Call, Refused(d)
      PROVE  request # None /\ request.data # want[d]
  <2> USE <1>1, Constants DEF Inv
  <2>1. ASSUME NEW c \in Call, Existing(c) \/ Again(c) PROVE request # None /\ request.data # want[d]
    BY <2>1 DEF Existing, Again, Look, Leave, Same, SigningTypeOK
  <2>2. ASSUME NEW c \in Call, Compare(c) PROVE request # None /\ request.data # want[d]
    BY <2>2 DEF Compare, Leave, Same, Durable, SigningTypeOK
  <2>3. ASSUME NEW c \in Call, Confirm(c) PROVE FALSE
    BY <2>3 DEF Confirm, Leave, Durable, SigningTypeOK
  <2>4. ASSUME NEW c \in Call, Start(c) \/ Create(c) \/ Fill(c) \/ Rename(c) \/ Sync(c) \/ Cleanup(c)
        PROVE  FALSE
    BY <2>4 DEF Start, Create, Fill, Rename, Sync, Cleanup
  <2>5. ASSUME NEW c \in Call, CleanupFails(c) \/ Abort(c) PROVE FALSE
    BY <2>5 DEF CleanupFails, Abort, Spend, SigningTypeOK
  <2>6. ASSUME NEW c \in Call, Interrupt(c) \/ Crash(c) PROVE FALSE
    BY <2>6 DEF Interrupt, Crash, Leave, SigningTypeOK
  <2>7. CASE PowerLoss
    BY <2>7 DEF PowerLoss
  <2>8. CASE Withdraw
    BY <2>8 DEF Withdraw
  <2> QED
    BY <2>1, <2>2, <2>3, <2>4, <2>5, <2>6, <2>7, <2>8 DEF Next, Step
<1>2. Inv /\ [Next]_vars =>
        [\A c \in Call : Refused(c) => request # None /\ request.data # want[c]]_vars
  BY <1>1
<1> QED
  BY InvInit, InvStep, <1>2, PTL DEF Spec, RefusalJustified

------------------------------------------------------------------------------
(* The refinement: what each place of a call is in WriteOnce.               *)
StatusFacts ==
  \A c \in Call :
    /\ pc[c] = "idle" => Status(c) = "idle"
    /\ pc[c] = "done" => Status(c) = IF verdict[c] \in Receipts THEN "receipt" ELSE verdict[c]
    /\ c \in committed /\ pc[c] # "done" => Status(c) = "committed"
    /\ pc[c] = "cleanup" /\ verdict[c] = "present" => Status(c) = "observed"
    /\ /\ pc[c] \in Live /\ c \notin committed
       /\ ~ (pc[c] = "cleanup" /\ verdict[c] = "present")
       => Status(c) = "calling"

LEMMA StatusKnown == Inv => StatusFacts
<1> SUFFICES ASSUME Inv, NEW c \in Call
             PROVE  /\ pc[c] = "idle" => Status(c) = "idle"
                    /\ pc[c] = "done" => Status(c) = IF verdict[c] \in Receipts THEN "receipt"
                                                                          ELSE verdict[c]
                    /\ c \in committed /\ pc[c] # "done" => Status(c) = "committed"
                    /\ pc[c] = "cleanup" /\ verdict[c] = "present" => Status(c) = "observed"
                    /\ /\ pc[c] \in Live /\ c \notin committed
                       /\ ~ (pc[c] = "cleanup" /\ verdict[c] = "present")
                       => Status(c) = "calling"
  BY DEF StatusFacts
<1>1. Progress(c)
  BY DEF Inv
<1> QED
  BY <1>1 DEF Progress, Status, Live, InTry

\* A call that keeps its place, as far as WriteOnce can see it.
LEMMA RefinementInit == Init => Promised!Init
<1> SUFFICES ASSUME Init PROVE Promised!Init
  OBVIOUS
<1>1. Seen \in Request \cup {None, Other}
  BY Constants DEF Init, Seen
<1>2. \A c \in Call : Status(c) = "idle"
  BY DEF Init, Status
<1> QED
  BY <1>1, <1>2 DEF Init, Promised!Init

LEMMA RefinementStep ==
  Inv /\ Inv' /\ [Next]_vars => [Promised!Next]_(Promised!abstractVars)
<1> SUFFICES ASSUME Inv, Inv', Next PROVE [Promised!Next]_(Promised!abstractVars)
  <2>1. ASSUME UNCHANGED vars PROVE UNCHANGED Promised!abstractVars
    BY <2>1 DEF vars, Promised!abstractVars, Seen, Status
  <2> QED
    BY <2>1
<1> DEFINE st == [c \in Call |-> Status(c)]
<1>1. /\ SigningTypeOK /\ SigningTypeOK'
      /\ \A c \in Call : Progress(c) /\ Progress(c)'
  BY DEF Inv
<1>2. StatusFacts
  BY StatusKnown
<1>3. StatusFacts'
  BY StatusKnown, PTL
<1>4. ASSUME UNCHANGED <<Seen, want>>, \A c \in Call : Status(c)' = Status(c)
      PROVE  [Promised!Next]_(Promised!abstractVars)
  BY <1>4 DEF Promised!abstractVars
<1> DEFINE Alone(c) == \A d \in Call \ {c} : /\ pc'[d] = pc[d] /\ verdict'[d] = verdict[d]
                                             /\ d \in committed' <=> d \in committed
\* A step of one call changes the status of no other.
<1>5. ASSUME NEW c \in Call, Alone(c) PROVE \A d \in Call \ {c} : Status(d)' = Status(d)
  BY <1>5 DEF Status
<1>6. ASSUME NEW c \in Call, Alone(c) PROVE st' = [st EXCEPT ![c] = Status(c)']
  <2>1. \A d \in Call \ {c} : Status(d)' = Status(d)
    BY <1>5, <1>6
  <2> QED
    BY <2>1
\* A step of one call that WriteOnce cannot see.
<1>7. ASSUME NEW c \in Call, Alone(c), UNCHANGED <<Seen, want>>, Status(c)' = Status(c)
      PROVE  [Promised!Next]_(Promised!abstractVars)
  <2>1. \A d \in Call : Status(d)' = Status(d)
    BY <1>5, <1>7
  <2> QED
    BY <1>4, <1>7, <2>1
\* The other steps of one call.
<1>8. ASSUME NEW c \in Call, Alone(c), UNCHANGED want,
             \/ /\ UNCHANGED Seen
                /\ \/ Status(c) = "idle" /\ Status(c)' = "calling"
                   \/ Status(c) = "calling" /\ Seen = want[c] /\ Status(c)' = "observed"
                   \/ Status(c) \in {"committed", "observed"} /\ Status(c)' = "receipt"
                   \/ Status(c) \in {"calling", "committed", "observed"}
                        /\ Status(c)' \in {"failed", "lost"}
             \/ /\ Seen = None /\ Seen' = want[c]
                /\ Status(c) = "calling" /\ Status(c)' = "committed"
      PROVE  [Promised!Next]_(Promised!abstractVars)
  <2>1. st' = [st EXCEPT ![c] = Status(c)'] /\ st[c] = Status(c)
    BY <1>6, <1>8
  <2>2. \/ Promised!Ask(c) \/ Promised!Commit(c) \/ Promised!Observe(c)
        \/ Promised!Acknowledge(c) \/ Promised!Refuse(c) \/ Promised!Lose(c)
    BY <1>8, <2>1 DEF Promised!Ask, Promised!Commit, Promised!Observe, Promised!Acknowledge,
                      Promised!Refuse, Promised!Lose, Promised!Move, Promised!Running
  <2> QED
    BY <2>2 DEF Promised!Next
<1> HIDE DEF st
<1>9. ASSUME NEW c \in Call, Start(c) PROVE [Promised!Next]_(Promised!abstractVars)
  <2>1. Alone(c) /\ UNCHANGED <<Seen, want>>
    BY <1>1, <1>9 DEF Start, Goto, Seen, SigningTypeOK
  <2>2. Status(c) = "idle" /\ Status(c)' = "calling"
    BY <1>1, <1>2, <1>3, <1>9 DEF Start, Goto, SigningTypeOK, Progress, StatusFacts, Live, InTry
  <2> QED
    BY <1>8, <2>1, <2>2
<1>10. ASSUME NEW c \in Call, Create(c) \/ Fill(c) \/ Sync(c) \/ Confirm(c)
       PROVE  [Promised!Next]_(Promised!abstractVars)
  <2>1. UNCHANGED Seen
    <3>1. CASE Sync(c)
      <4>1. CASE request = None
        BY <3>1, <4>1 DEF Sync, Seen
      <4>2. CASE request # None
        <5>1. request \in File /\ request' = [request EXCEPT !.durable = TRUE]
          BY <1>1, <3>1, <4>2 DEF Sync, SigningTypeOK
        <5>2. request' \in File /\ request'.data = request.data
          BY <5>1 DEF File
        <5> QED
          BY <4>2, <5>2, Constants DEF Seen
      <4> QED
        BY <4>1, <4>2
    <3> QED
      BY <1>10, <3>1 DEF Create, Fill, Confirm, Seen
  <2>2. Alone(c) /\ UNCHANGED want
    BY <1>1, <1>10 DEF Create, Fill, Sync, Confirm, Goto, Leave, SigningTypeOK
  <2>3. pc[c] \in Live /\ pc'[c] \in Live /\ verdict'[c] # "present"
        /\ ~ (pc[c] = "cleanup" /\ verdict[c] = "present") /\ UNCHANGED committed
    BY <1>1, <1>10
       DEF Create, Fill, Sync, Confirm, Goto, Leave, SigningTypeOK, Progress, Live, InTry
  <2>4. Status(c)' = Status(c)
    BY <1>2, <1>3, <2>3 DEF StatusFacts, Live, InTry
  <2> QED
    BY <1>7, <2>1, <2>2, <2>4
<1>11. ASSUME NEW c \in Call, Existing(c) \/ Again(c) \/ Compare(c)
       PROVE  [Promised!Next]_(Promised!abstractVars)
  <2>1. Alone(c) /\ UNCHANGED <<Seen, want, committed>>
    BY <1>1, <1>11 DEF Existing, Again, Look, Compare, Goto, Leave, Seen, SigningTypeOK
  <2>2. pc[c] \in {"existing", "again", "compare"} /\ c \notin committed
    BY <1>1, <1>11 DEF Existing, Again, Look, Compare, Progress
  <2>3. Status(c) = "calling"
    BY <1>2, <2>2 DEF StatusFacts, Live, InTry
  <2>4. CASE Same(c) /\ pc'[c] = "cleanup"
    <3>1. verdict'[c] = "present" /\ Seen = want[c]
      BY <1>1, <1>11, <2>2, <2>4
         DEF Existing, Again, Look, Compare, Leave, Same, Seen, SigningTypeOK
    <3>2. Status(c)' = "observed"
      BY <1>3, <2>4, <3>1 DEF StatusFacts
    <3> QED
      BY <1>8, <2>1, <2>3, <3>1, <3>2
  <2>5. CASE ~ (Same(c) /\ pc'[c] = "cleanup")
    <3>1. pc'[c] \in Live /\ ~ (pc'[c] = "cleanup" /\ verdict'[c] = "present")
      BY <1>1, <1>11, <2>2, <2>5
         DEF Existing, Again, Look, Compare, Goto, Leave, Same, SigningTypeOK, Live, InTry
    <3>2. Status(c)' = "calling"
      BY <1>3, <2>1, <2>2, <3>1 DEF StatusFacts
    <3> QED
      BY <1>7, <2>1, <2>3, <3>2
  <2> QED
    BY <2>4, <2>5
<1>12. ASSUME NEW c \in Call, Rename(c) PROVE [Promised!Next]_(Promised!abstractVars)
  <2>1. Alone(c) /\ UNCHANGED want /\ pc[c] = "rename" /\ c \notin committed /\ temp[c] = want[c]
    BY <1>1, <1>12 DEF Rename, Goto, SigningTypeOK, Progress
  <2>2. Status(c) = "calling"
    BY <1>2, <2>1 DEF StatusFacts, Live, InTry
  <2>3. CASE request = None
    <3>1. request' = [data |-> want[c], durable |-> FALSE] /\ pc'[c] = "sync" /\ c \in committed'
      BY <1>1, <1>12, <2>1, <2>3 DEF Rename, Goto, SigningTypeOK
    <3>2. request' \in File
      BY <1>1, <3>1 DEF SigningTypeOK, File
    <3>3. Seen = None /\ Seen' = want[c]
      BY <2>3, <3>1, <3>2, Constants DEF Seen
    <3>4. Status(c)' = "committed"
      BY <1>3, <3>1 DEF StatusFacts
    <3> QED
      BY <1>8, <2>1, <2>2, <3>3, <3>4
  <2>4. CASE request # None
    <3>1. UNCHANGED <<Seen, committed>> /\ pc'[c] = "compare"
      BY <1>1, <1>12, <2>4 DEF Rename, Goto, Seen, SigningTypeOK
    <3>2. Status(c)' = "calling"
      BY <1>3, <2>1, <3>1 DEF StatusFacts, Live, InTry
    <3> QED
      BY <1>7, <2>1, <2>2, <3>1, <3>2
  <2> QED
    BY <2>3, <2>4
\* A call that is still in its cleanup is one of the three running states.
<1>13. ASSUME NEW c \in Call, pc[c] \in Live PROVE Status(c) \in {"calling", "committed", "observed"}
  BY <1>2, <1>13 DEF StatusFacts, Live, InTry
<1>14. ASSUME NEW c \in Call, Cleanup(c) \/ CleanupFails(c)
       PROVE  [Promised!Next]_(Promised!abstractVars)
  <2>1. Alone(c) /\ UNCHANGED <<Seen, want>> /\ pc[c] = "cleanup" /\ pc'[c] = "done"
    BY <1>1, <1>14 DEF Cleanup, CleanupFails, Goto, Seen, SigningTypeOK
  <2>2. Status(c) \in {"calling", "committed", "observed"}
    BY <1>13, <2>1 DEF Live
  <2>3. verdict'[c] \in Receipts => verdict'[c] = verdict[c]
    BY <1>1, <1>14 DEF Cleanup, CleanupFails, SigningTypeOK, Receipts
  <2>4. CASE verdict'[c] \in Receipts
    <3>1. Status(c)' = "receipt"
      BY <1>3, <2>1, <2>4 DEF StatusFacts
    <3>2. Status(c) \in {"committed", "observed"}
      BY <1>1, <1>2, <2>1, <2>3, <2>4 DEF StatusFacts, Progress, Receipts
    <3> QED
      BY <1>8, <2>1, <3>1, <3>2
  <2>5. CASE verdict'[c] \notin Receipts
    <3>1. verdict'[c] \in {"failed", "lost"}
      BY <1>1, <2>1, <2>5 DEF SigningTypeOK, Progress
    <3>2. Status(c)' \in {"failed", "lost"}
      BY <1>3, <2>1, <2>5, <3>1 DEF StatusFacts
    <3> QED
      BY <1>8, <2>1, <2>2, <3>2
  <2> QED
    BY <2>4, <2>5
<1>15. ASSUME NEW c \in Call, Abort(c) \/ Interrupt(c) PROVE [Promised!Next]_(Promised!abstractVars)
  <2>1. Alone(c) /\ UNCHANGED <<Seen, want, committed>>
    BY <1>1, <1>15 DEF Abort, Interrupt, Leave, Goto, Seen, SigningTypeOK
  <2>2. pc[c] \in InTry /\ pc'[c] = "cleanup" /\ verdict'[c] # "present"
    BY <1>1, <1>15 DEF Abort, Interrupt, Leave, Goto, SigningTypeOK
  <2>3. Status(c)' = Status(c)
    BY <1>2, <1>3, <2>1, <2>2 DEF StatusFacts, Live, InTry
  <2> QED
    BY <1>7, <2>1, <2>3
<1>16. ASSUME NEW c \in Call, Crash(c) PROVE [Promised!Next]_(Promised!abstractVars)
  <2>1. Alone(c) /\ UNCHANGED <<Seen,
                                want>> /\ pc[c] \in Live /\ pc'[c] = "done" /\ verdict'[c] = "lost"
    BY <1>1, <1>16 DEF Crash, Goto, Seen, SigningTypeOK
  <2>2. Status(c)' = "lost"
    BY <1>3, <2>1 DEF StatusFacts, Receipts
  <2> QED
    BY <1>8, <1>13, <2>1, <2>2
<1>17. CASE PowerLoss
  <2>1. /\ UNCHANGED <<want, committed>>
        /\ \A c \in Call : IF pc[c] \in Live THEN pc'[c] = "done" /\ verdict'[c] = "lost"
                                            ELSE pc'[c] = pc[c] /\ verdict'[c] = verdict[c]
    BY <1>17 DEF PowerLoss
  <2>2. Seen' \in {Seen, None}
    BY <1>17 DEF PowerLoss, Seen
  <2>3. ASSUME NEW c \in Call
        PROVE  Status(c)' = IF Status(c) \in {"calling", "committed", "observed"} THEN "lost" ELSE Status(c)
    <3>1. CASE pc[c] \in Live
      BY <1>3, <1>13, <2>1, <3>1 DEF StatusFacts, Receipts
    <3>2. CASE pc[c] \notin Live
      <4>1. Status(c)' = Status(c)
        BY <2>1, <3>2 DEF Status
      <4>2. Status(c) \notin {"calling", "committed", "observed"}
        BY <1>1, <1>2, <3>2 DEF StatusFacts, SigningTypeOK, Receipts, Live, InTry
      <4> QED
        BY <4>1, <4>2
    <3> QED
      BY <3>1, <3>2
  <2>4. Promised!PowerLoss
    BY <2>1, <2>2, <2>3 DEF st, Promised!PowerLoss, Promised!Running
  <2> QED
    BY <2>4 DEF Promised!Next
<1>18. CASE Withdraw
  <2>1. Seen' = None /\ UNCHANGED <<pc, want, committed, verdict>>
    BY <1>18 DEF Withdraw, Seen
  <2>2. Promised!Withdraw
    BY <2>1 DEF Promised!Withdraw, Status
  <2> QED
    BY <2>2 DEF Promised!Next
<1> QED
  BY <1>9, <1>10, <1>11, <1>12, <1>14, <1>15, <1>16, <1>17, <1>18 DEF Next, Step

\* The signing request implements WriteOnce: every receipt stands for the exact
\* bytes seen under the name, and nobody replaces a request.
THEOREM SigningImplementsWriteOnce == Spec => ImplementsWriteOnce
BY InvInit, InvStep, RefinementInit, RefinementStep, PTL
   DEF Spec, ImplementsWriteOnce, Promised!Spec

-----------------------------------------------------------------------------
(***************************************************************************)
(* The persistent native output, for any calls, processes and authorities. *)
(* A sealed tree stays as it was sealed while nobody else changes it: no   *)
(* call is interrupted while it holds the lock (Holding), so a tree in the *)
(* making is its holder's alone (Grown, Owned); who seals it has it on     *)
(* disk, and the output root's name as well (Rooted), so an outage takes   *)
(* only trees that no sealed maker stands behind (Lasting).  A call that   *)
(* is alone meets what it left, and is refused for nothing else (Quietly). *)
(***************************************************************************)

Making  == {"write wheel", "sync wheel", "write native", "sync native", "sync tree", "sync root"}
Reading == {"read wheel", "read native", "sync state", "reread wheel", "reread native", "seal"}
Resting == {"idle", "confirm", "valid", "stale", "refused", "lost"}
Sealed(c) == phase[c] # "make"
Unchanged == events["change"] = 0

FileSet == {Missing} \cup [bytes : {"partial", "exact", "other"}, id : 1..files]
Makers  == Builds \cup {Nobody}
Pairs   == [wheel : Nat, native : Nat]
Roots   == [made : BOOLEAN, maker : Makers, synced : BOOLEAN]
Trees   == [made : BOOLEAN, maker : Makers, wheel : FileSet, native : FileSet,
            filled : BOOLEAN, synced : BOOLEAN]
Transactions == [files : Pairs, maker : Makers, rootMaker : Makers]

NativeTypeOK ==
  /\ root \in Roots /\ tree \in [Authorities -> Trees]
  /\ rootLock \in Makers /\ processLock \in [Processes -> Makers]
  /\ at \in [Builds -> Active \cup Resting]
  /\ phase \in [Builds -> {"make", "confirm", "revalidate"}]
  /\ window = [c \in Builds |-> window[c]]
  /\ created \in [Builds -> BOOLEAN] /\ captured \in [Builds -> Pairs]
  /\ transaction \in [Builds -> {Nobody} \cup Transactions] /\ sawWhole \in [Builds -> BOOLEAN]
  /\ files \in Nat /\ events \in [Outside -> Nat]

\* What is not there has left no traces, and trees are in the root.
Traces == /\ root.made \/ root = NoRoot
          /\ \A a \in Authorities : tree[a].made \/ tree[a] = NoTree
          /\ \A a \in Authorities : tree[a].made => root.made

\* The locks order the calls.
Holding(c) == /\ at[c] \in Locked => rootLock = c
              /\ at[c] \in Active => processLock[ProcessOf[c]] = c
              /\ at[c] \in {"open root", "lock"} \cup Locked => root.made

\* A call makes something until it seals it.
Phased(c) == /\ Sealed(c) => transaction[c] \in Transactions
             /\ ~ Sealed(c) => transaction[c] = Nobody
             /\ at[c] \in {"idle", "make root", "create", "sync state"} \cup Making => ~ Sealed(c)
             /\ at[c] \in {"confirm", "valid", "stale"} => Sealed(c)

\* A tree in the making, stage by stage, when nobody else changes anything.
Grown(c) ==
  Unchanged =>
    /\ at[c] \in Making \cup Reading /\ ~ Sealed(c) => My(c).made
    /\ at[c] = "write wheel" => My(c).wheel = Missing /\ My(c).native = Missing
    /\ at[c] = "sync wheel" => My(c).wheel.bytes = "partial" /\ My(c).native = Missing
    /\ at[c] = "write native" => My(c).wheel.bytes = "exact" /\ My(c).native = Missing
    /\ at[c] = "sync native" => My(c).wheel.bytes = "exact" /\ My(c).native.bytes = "partial"
    /\ at[c] \in {"sync tree", "sync root"} => Whole(My(c))
    /\ at[c] = "sync root" => My(c).filled
    /\ at[c] \in Reading /\ ~ Sealed(c) /\ My(c).maker = c =>
         Whole(My(c)) /\ My(c).filled /\ My(c).synced

\* What a call that makes something has read is there.
Looked(c) ==
  Unchanged /\ ~ Sealed(c) =>
    /\ at[c] = "read native" => captured[c].wheel = My(c).wheel.id /\ My(c).wheel.bytes = "exact"
    /\ at[c] \in {"sync state", "reread wheel", "reread native", "seal"} =>
         /\ Whole(My(c))
         /\ captured[c] = [wheel |-> My(c).wheel.id, native |-> My(c).native.id]

\* What a validation has read is what was sealed.  The native extension that it
\* has read was whole, and a file that is not is never made whole later.
Confirmed(c) ==
  /\ Sealed(c) /\ at[c] \in {"read native", "reread wheel", "reread native", "seal"} =>
       captured[c].wheel = transaction[c].files.wheel
  /\ Sealed(c) /\ at[c] \in {"reread wheel", "reread native", "seal"} =>
       captured[c].native = transaction[c].files.native
  /\ at[c] \in {"sync state", "reread wheel", "reread native"} =>
       /\ captured[c].native <= files
       /\ My(c).native.id = captured[c].native => My(c).native.bytes # "partial"
  /\ at[c] = "reread native" /\ ~ sawWhole[c] =>
       ~ (My(c).native.bytes = "exact" /\ My(c).native.id = captured[c].native)
  /\ at[c] \in {"seal", "valid"} => sawWhole[c]

CallOK(c) == Holding(c) /\ Phased(c) /\ Grown(c) /\ Looked(c) /\ Confirmed(c)

\* A tree has a maker, which is at it, is done with it or is gone.
Gone(c) == at[c] \in {"refused", "lost"}
Owned ==
  /\ \A a \in Authorities :
       tree[a].made => LET m == tree[a].maker IN
                       /\ m \in Builds /\ AuthorityOf[m] = a
                       /\ Sealed(m) \/ Gone(m) \/ at[m] \in Making \cup Reading
  /\ \A c \in Builds : at[c] \in Making /\ My(c).made => My(c).maker = c

\* The output root has at most one maker, which syncs its name before it seals.
RootMaker(c) == root.maker = c \/ \E d \in Builds : Sealed(d) /\ transaction[d].rootMaker = c
RootCall(c) ==
  /\ created[c] => /\ root.made /\ root.maker = c /\ ~ Sealed(c)
                   /\ at[c] \in {"open root", "lock"} \cup Locked
                   /\ at[c] \in {"reread wheel", "reread native", "seal"} => root.synced
  /\ at[c] \in {"idle", "open state", "make root"} /\ ~ Sealed(c) => ~ RootMaker(c)
  /\ at[c] \in Active /\ ~ Sealed(c) /\ RootMaker(c) => created[c]
Rooted == /\ root.made /\ (root.maker = Nobody \/ Sealed(root.maker)) => root.synced
          /\ \A c \in Builds : RootCall(c)

\* What a call that makes something has sealed is there, if its maker and the maker
\* of the root have come to their ends, or if no power was lost.
Stands(c) == /\ Whole(My(c))
             /\ transaction[c].files = [wheel |-> My(c).wheel.id, native |-> My(c).native.id]
Anchored(t) == Sealed(t.maker) /\ (t.rootMaker = Nobody \/ Sealed(t.rootMaker) \/ created[t.rootMaker])
Lasting ==
  Unchanged =>
    /\ \A a \in Authorities :
         tree[a].made /\ Sealed(tree[a].maker) => Whole(tree[a]) /\ tree[a].filled /\ tree[a].synced
    /\ \A c \in Builds : Sealed(c) =>
         LET t == transaction[c] IN
         /\ t.maker \in Builds /\ (Sealed(t.maker) \/ Gone(t.maker))
         /\ Anchored(t) => Stands(c) /\ My(c).maker = t.maker /\ root.maker = t.rootMaker
         /\ events["outage"] = 0 => Stands(c)

\* Alone with the output root, a call finds it as it left it.
Alone(c) == \A d \in Builds : ProcessOf[d] # ProcessOf[c] => at[d] = "idle"
Quietly(c) == Alone(c) /\ Unchanged /\ events["outage"] = 0 =>
                /\ at[c] = "open state" => window[c] = StateStamp
                /\ at[c] \in {"make root", "open root"} => window[c] = RootStamp
Undisturbed ==
  /\ \A c \in Builds : Quietly(c)
  /\ events["outage"] = 0 => \A c \in Builds : Sealed(c) => root.made
  /\ IsFiniteSet(Made) /\ Cardinality(Made) <= MaxAuthorityDirectories

NInv == /\ NativeTypeOK /\ Traces /\ \A c \in Builds : CallOK(c)
        /\ Owned /\ Rooted /\ Lasting /\ Undisturbed


LEMMA Fields ==
  ASSUME NEW c \in Builds, captured[c] = [wheel |-> My(c).wheel.id, native |-> My(c).native.id]
  PROVE  captured[c].wheel = My(c).wheel.id /\ captured[c].native = My(c).native.id
BY DEF My

\* The same as Looked says at the second reading, by the two fields
LEMMA LookedFields ==
  ASSUME NEW c \in Builds, Looked(c), Unchanged, ~ Sealed(c), at[c] \in {"reread wheel", "reread native"}
  PROVE  captured[c].wheel = My(c).wheel.id /\ captured[c].native = My(c).native.id
<1>1. captured[c] = [wheel |-> My(c).wheel.id, native |-> My(c).native.id]
  BY DEF Looked
<1> QED
  BY <1>1, Fields, Zenon

USE NativeOutputAssumption

LEMMA Typed ==
  ASSUME NativeTypeOK
  PROVE  /\ DOMAIN at = Builds /\ DOMAIN phase = Builds /\ DOMAIN window = Builds
         /\ DOMAIN created = Builds /\ DOMAIN captured = Builds /\ DOMAIN transaction = Builds
         /\ DOMAIN sawWhole = Builds /\ DOMAIN tree = Authorities /\ DOMAIN processLock = Processes
         /\ at = [c \in Builds |-> at[c]] /\ phase = [c \in Builds |-> phase[c]]
         /\ window = [c \in Builds |-> window[c]] /\ created = [c \in Builds |-> created[c]]
         /\ captured = [c \in Builds |-> captured[c]]
         /\ transaction = [c \in Builds |-> transaction[c]]
         /\ sawWhole = [c \in Builds |-> sawWhole[c]]
         /\ tree = [a \in Authorities |-> tree[a]]
         /\ processLock = [p \in Processes |-> processLock[p]]
         /\ \A c \in Builds : AuthorityOf[c] \in Authorities /\ ProcessOf[c] \in Processes /\ c # Nobody
BY DEF NativeTypeOK

\* What a call knows is still so, when others move.
Kept(d) ==
  /\ at'[d] = at[d] /\ phase'[d] = phase[d] /\ transaction'[d] = transaction[d]
  /\ captured'[d] = captured[d] /\ sawWhole'[d] = sawWhole[d]
  /\ at[d] \in Active => processLock'[ProcessOf[d]] = processLock[ProcessOf[d]]
  /\ at[d] \in Locked => /\ rootLock' = rootLock
                         /\ tree'[AuthorityOf[d]] = tree[AuthorityOf[d]]
  /\ at[d] \in {"open root", "lock"} \cup Locked => root'.made = root.made

LEMMA KeptOK ==
  ASSUME NInv, NEW d \in Builds, Kept(d), files' \in Nat, files <= files', Unchanged' => Unchanged
  PROVE  CallOK(d)'
<1> DEFINE t == tree[AuthorityOf[d]]
<1>1. CallOK(d) /\ files \in Nat /\ captured[d] \in Pairs
  BY DEF NInv, NativeTypeOK
<1>2. Sealed(d)' = Sealed(d)
  BY DEF Kept, Sealed
<1>3. Holding(d)'
  BY <1>1 DEF CallOK, Holding, Kept, Locked, Active
<1>4. Phased(d)'
  BY <1>1, <1>2 DEF CallOK, Phased, Kept, Transactions, Makers, Pairs
<1>5. at[d] \in Making \cup Reading => at[d] \in Locked /\ My(d)' = My(d)
  BY DEF Kept, Locked, Making, Reading, My
<1>6. Grown(d)'
  <2> SUFFICES ASSUME Unchanged, at[d] \in Making \cup Reading PROVE Grown(d)'
    BY DEF Grown, Kept, Making, Reading
  <2>1. Grown(d) /\ My(d)' = My(d) /\ at'[d] = at[d]
    BY <1>1, <1>5 DEF CallOK, Kept
  <2> QED
    BY <2>1, <1>2 DEF Grown, Whole
<1>7. Looked(d)'
  <2> SUFFICES ASSUME Unchanged, at[d] \in Making \cup Reading PROVE Looked(d)'
    BY DEF Looked, Kept, Making, Reading
  <2>1. Looked(d) /\ My(d)' = My(d) /\ at'[d] = at[d] /\ captured'[d] = captured[d]
    BY <1>1, <1>5 DEF CallOK, Kept
  <2> QED
    BY <2>1, <1>2 DEF Looked, Whole
<1>8. Confirmed(d)'
  <2>1. Confirmed(d) /\ at'[d] = at[d] /\ captured'[d] = captured[d] /\ sawWhole'[d] = sawWhole[d]
        /\ transaction'[d] = transaction[d]
    BY <1>1 DEF CallOK, Kept
  <2>2. at[d] \in {"sync state", "reread wheel", "reread native"} => My(d)' = My(d)
    BY <1>5 DEF Reading
  <2>3. captured[d].native \in Nat /\ (captured[d].native <= files => captured[d].native <= files')
    BY <1>1 DEF Pairs
  <2>4. at'[d] \in {"sync state", "reread wheel", "reread native"} =>
          /\ captured'[d].native <= files'
          /\ My(d)'.native.id = captured'[d].native => My(d)'.native.bytes # "partial"
    BY <2>1, <2>2, <2>3 DEF Confirmed
  <2>5. at'[d] = "reread native" /\ ~ sawWhole'[d] =>
          ~ (My(d)'.native.bytes = "exact" /\ My(d)'.native.id = captured'[d].native)
    BY <2>1, <2>2 DEF Confirmed
  <2> QED
    BY <2>1, <2>4, <2>5, <1>2 DEF Confirmed
<1> QED
  BY <1>3, <1>4, <1>6, <1>7, <1>8 DEF CallOK

\* A call goes on, without making anything, or comes to its end.
Onward(d) ==
  /\ Sealed(d)' = Sealed(d)
  /\ Gone(d) => Gone(d)'
  /\ at[d] \in Making \cup Reading => Sealed(d) \/ Gone(d)' \/ at'[d] \in Making \cup Reading
  /\ at'[d] \in Making => at[d] \in Making
  /\ created'[d] => /\ created[d] /\ at'[d] \in {"open root", "lock"} \cup Locked
                    /\ at'[d] \in {"reread wheel", "reread native", "seal"} =>
                         at[d] \in {"reread wheel", "reread native", "seal"}
  /\ at'[d] \in {"idle", "open state", "make root"} =>
       at[d] \in {"idle", "open state", "make root"} \/ Sealed(d)
  /\ at'[d] \in Active /\ ~ Sealed(d) =>
       at[d] \in {"idle", "open state", "make root"} \/ (at[d] \in Active /\ created'[d] = created[d])

LEMMA OwnedStep ==
  ASSUME NInv, NativeTypeOK',
         \A a \in Authorities : tree'[a].made => tree[a].made /\ tree'[a].maker = tree[a].maker,
         \A d \in Builds :
           /\ Sealed(d) => Sealed(d)'
           /\ Gone(d) => Gone(d)'
           /\ at[d] \in Making \cup Reading => Sealed(d)' \/ Gone(d)' \/ at'[d] \in Making \cup Reading
           /\ at'[d] \in Making => at[d] \in Making
  PROVE  Owned'
<1>1. ASSUME NEW a \in Authorities, tree'[a].made, NEW m, m = tree'[a].maker
      PROVE  m \in Builds /\ AuthorityOf[m] = a /\ (Sealed(m)' \/ Gone(m)' \/ at'[m] \in Making \cup Reading)
  <2>1. m \in Builds /\ AuthorityOf[m] = a /\ (Sealed(m) \/ Gone(m) \/ at[m] \in Making \cup Reading)
    BY <1>1 DEF NInv, Owned
  <2> QED
    BY <2>1
<1>2. ASSUME NEW d \in Builds, at'[d] \in Making, tree'[AuthorityOf[d]].made
      PROVE  tree'[AuthorityOf[d]].maker = d
  <2>1. tree[AuthorityOf[d]].made /\ tree'[AuthorityOf[d]].maker = tree[AuthorityOf[d]].maker
    BY <1>2, Typed DEF NInv
  <2> QED
    BY <1>2, <2>1 DEF NInv, Owned, My
<1> QED
  BY <1>1, <1>2 DEF Owned, My, Sealed, Gone

LEMMA SteadyRooted ==
  ASSUME NInv, UNCHANGED <<root, transaction>>, \A d \in Builds : Onward(d)
  PROVE  Rooted'
<1>1. \A d \in Builds : Sealed(d)' = Sealed(d)
  BY DEF Onward
<1>2. \A d \in Builds : RootMaker(d)' = RootMaker(d)
  BY <1>1 DEF RootMaker
<1>3. ASSUME NEW d \in Builds PROVE RootCall(d)'
  <2>1. RootCall(d) /\ Onward(d)
    BY DEF NInv, Rooted
  <2>2. created'[d] => /\ root'.made /\ root'.maker = d /\ ~ Sealed(d)'
                       /\ at'[d] \in {"open root", "lock"} \cup Locked
                       /\ at'[d] \in {"reread wheel", "reread native", "seal"} => root'.synced
    BY <2>1, <1>1 DEF RootCall, Onward
  <2>3. at'[d] \in {"idle", "open state", "make root"} /\ ~ Sealed(d)' => ~ RootMaker(d)'
    BY <2>1, <1>1, <1>2 DEF RootCall, Onward
  <2>4. at'[d] \in Active /\ ~ Sealed(d)' /\ RootMaker(d)' => created'[d]
    BY <2>1, <1>1, <1>2 DEF RootCall, Onward
  <2> QED
    BY <2>2, <2>3, <2>4 DEF RootCall
<1>4. ASSUME NEW m, m = root.maker, root.made, m = Nobody \/ Sealed(m)' PROVE root.synced
  <2>1. root.made => root.maker \in Builds \cup {Nobody}
    BY DEF NInv, NativeTypeOK, Roots, Makers
  <2>2. root.made /\ (root.maker = Nobody \/ Sealed(root.maker)) => root.synced
    BY DEF NInv, Rooted
  <2> QED
    BY <2>1, <2>2, <1>1, <1>4
<1> QED
  BY <1>3, <1>4 DEF Rooted, Sealed

\* What is sealed lasts, if the trees stay what they were to a validation.
SameTree(a) ==
  /\ tree'[a].made = tree[a].made /\ tree'[a].maker = tree[a].maker
  /\ tree'[a].wheel = tree[a].wheel /\ tree'[a].native = tree[a].native
  /\ tree[a].filled => tree'[a].filled
  /\ tree[a].synced /\ tree[a].made => tree'[a].synced

LEMMA LastingStep ==
  ASSUME NInv, root'.maker = root.maker, UNCHANGED transaction,
         \A a \in Authorities : SameTree(a),
         \A d \in Builds : Sealed(d)' = Sealed(d) /\ (Gone(d) => Gone(d)') /\ (created'[d] => created[d]),
         Unchanged' => Unchanged, events'["outage"] = 0 => events["outage"] = 0
  PROVE  Lasting'
<1> SUFFICES ASSUME Unchanged PROVE Lasting'
  BY DEF Lasting
<1>1. ASSUME NEW a \in Authorities, tree'[a].made, NEW m, m = tree'[a].maker, Sealed(m)'
      PROVE  Whole(tree[a])' /\ tree'[a].filled /\ tree'[a].synced
  <2>1. tree[a].made /\ m \in Builds /\ m = tree[a].maker
    BY <1>1 DEF NInv, Owned, SameTree
  <2>2. Sealed(m)
    BY <2>1, <1>1
  <2>3. Whole(tree[a]) /\ tree[a].filled /\ tree[a].synced
    BY <2>1, <2>2 DEF NInv, Lasting
  <2> QED
    BY <2>1, <2>3 DEF SameTree, Whole
<1>2. ASSUME NEW c \in Builds, Sealed(c)', NEW t, t = transaction[c]
      PROVE  /\ t.maker \in Builds /\ (Sealed(t.maker)' \/ Gone(t.maker)')
             /\ Anchored(t)' => Stands(c)' /\ My(c)'.maker = t.maker /\ root'.maker = t.rootMaker
             /\ events'["outage"] = 0 => Stands(c)'
  <2>1. Sealed(c)
    BY <1>2
  <2>2. /\ t.maker \in Builds /\ (Sealed(t.maker) \/ Gone(t.maker))
        /\ Anchored(t) => Stands(c) /\ My(c).maker = t.maker /\ root.maker = t.rootMaker
        /\ events["outage"] = 0 => Stands(c)
    BY <2>1, <1>2 DEF NInv, Lasting
  <2>3. t \in Transactions
    BY <2>1, <1>2 DEF NInv, CallOK, Phased
  <2>4. Anchored(t)' => Anchored(t)
    BY <2>2, <2>3 DEF Anchored, Transactions, Makers
  <2>5. SameTree(AuthorityOf[c])
    BY Typed DEF NInv
  <2>6. Stands(c) => Stands(c)'
    BY <2>5 DEF SameTree, Stands, Whole, My
  <2>7. My(c)'.maker = My(c).maker
    BY <2>5 DEF SameTree, My
  <2> QED
    BY <2>2, <2>4, <2>6, <2>7
<1>3. \A a \in Authorities : tree'[a].made /\ Sealed(tree[a].maker)' =>
        Whole(tree[a])' /\ tree'[a].filled /\ tree'[a].synced
  BY <1>1 DEF Sealed
<1>4. \A c \in Builds : Sealed(c)' => (LET t == transaction[c] IN
             /\ t.maker \in Builds /\ (Sealed(t.maker) \/ Gone(t.maker))
             /\ Anchored(t) => Stands(c) /\ My(c).maker = t.maker /\ root.maker = t.rootMaker
             /\ events["outage"] = 0 => Stands(c))'
  BY <1>2 DEF Sealed, Gone, Anchored
<1> QED
  BY <1>3, <1>4 DEF Lasting

\* A call that looks again sees what it saw, and one that is not alone sees nothing.
LEMMA QuietSame ==
  ASSUME NInv, StateStamp' = StateStamp, RootStamp' = RootStamp,
         Unchanged' => Unchanged, events'["outage"] = 0 => events["outage"] = 0,
         \A e \in Builds : at'[e] = "idle" => at[e] = "idle", NEW d \in Builds,
         at'[d] \in {"open state", "make root", "open root"} => at'[d] = at[d] /\ window'[d] = window[d]
  PROVE  Quietly(d)'
<1>1. Quietly(d)
  BY DEF NInv, Undisturbed
<1>2. Alone(d)' => Alone(d)
  BY DEF Alone
<1> QED
  BY <1>1, <1>2 DEF Quietly

LEMMA QuietOthers ==
  ASSUME NInv, NEW c \in Builds, at[c] \in Active \/ processLock[ProcessOf[c]] = Nobody,
         at'[c] # "idle", NEW d \in Builds \ {c}, at'[d] = at[d]
  PROVE  Quietly(d)'
<1> SUFFICES ASSUME at[d] \in Active, Alone(d)' PROVE FALSE
  BY DEF Quietly, Active
<1>1. ProcessOf[d] = ProcessOf[c]
  BY DEF Alone
<1>2. processLock[ProcessOf[d]] = d /\ (at[c] \in Active => processLock[ProcessOf[c]] = c)
  BY DEF NInv, CallOK, Holding
<1> QED
  BY <1>1, <1>2

LEMMA SameFiles == ASSUME NInv, files' = files PROVE files' \in Nat /\ files <= files'
BY DEF NInv, NativeTypeOK

\* A step of one call that leaves the disk alone.
LEMMA StepOK ==
  ASSUME NInv, NEW c \in Builds,
         UNCHANGED <<root, tree, files, transaction>>, NativeTypeOK',
         events'["change"] = events["change"], events'["outage"] = events["outage"],
         \A d \in Builds \ {c} : Kept(d) /\ created'[d] = created[d] /\ window'[d] = window[d],
         Onward(c), at'[c] # "idle",
         at'[c] = "open state" => window'[c] = StateStamp,
         at'[c] \in {"make root", "open root"} => window'[c] = RootStamp,
         CallOK(c)'
  PROVE  NInv'
<1>1. files' \in Nat /\ files <= files'
  BY SameFiles
<1>2. \A d \in Builds : CallOK(d)'
  <2>1. ASSUME NEW d \in Builds \ {c} PROVE CallOK(d)'
    <3>1. Kept(d)
      OBVIOUS
    <3>3. Unchanged' => Unchanged
      BY DEF Unchanged
    <3> QED
      BY <3>1, <3>3, <1>1, KeptOK
  <2> QED
    BY <2>1
<1>3. \A d \in Builds : Onward(d)
  <2>1. ASSUME NEW d \in Builds \ {c} PROVE Onward(d)
    <3>1. RootCall(d)
      BY DEF NInv, Rooted
    <3> QED
      BY <3>1 DEF Kept, Onward, Sealed, Gone, RootCall
  <2> QED
    BY <2>1
<1>4. Owned' /\ Rooted'
  <2>1. \A d \in Builds :
           /\ Sealed(d) => Sealed(d)'
           /\ Gone(d) => Gone(d)'
           /\ at[d] \in Making \cup Reading => Sealed(d)' \/ Gone(d)' \/ at'[d] \in Making \cup Reading
           /\ at'[d] \in Making => at[d] \in Making
    BY <1>3 DEF Onward
  <2> QED
    BY <1>3, <2>1, OwnedStep, SteadyRooted
<1>5. Lasting'
  <2>1. \A a \in Authorities : SameTree(a)
    BY DEF SameTree
  <2>2. \A d \in Builds : Sealed(d)' = Sealed(d) /\ (Gone(d) => Gone(d)') /\ (created'[d] => created[d])
    BY <1>3 DEF Onward
  <2> QED
    BY <2>1, <2>2, LastingStep DEF Unchanged
<1>6. Traces'
  BY DEF NInv, Traces
<1>7. Undisturbed'
  <2>1. StateStamp' = StateStamp /\ RootStamp' = RootStamp /\ Made' = Made
    BY DEF StateStamp, RootStamp, Made
  <2>2. \A d \in Builds : at'[d] = "idle" => at[d] = "idle"
    BY DEF Kept
  <2>3. ASSUME NEW d \in Builds \ {c} PROVE Quietly(d)'
    BY <2>1, <2>2, QuietSame DEF Kept, Unchanged
  <2>4. Quietly(c)'
    BY <2>1 DEF Quietly
  <2>5. \A d \in Builds : Sealed(d)' = Sealed(d)
    BY <1>3 DEF Onward
  <2> QED
    BY <2>1, <2>3, <2>4, <2>5 DEF NInv, Undisturbed
<1> QED
  BY <1>2, <1>4, <1>5, <1>6, <1>7 DEF NInv

LEMMA EnterStep == ASSUME NInv, NEW c \in Builds, Enter(c) PROVE NInv'
<1>1. NativeTypeOK /\ CallOK(c)
  BY DEF NInv
<1>2. /\ at[c] \in {"idle", "confirm"} /\ processLock[ProcessOf[c]] = Nobody
      /\ at' = [at EXCEPT ![c] = "open state"] /\ window' = [window EXCEPT ![c] = StateStamp]
      /\ processLock' = [processLock EXCEPT ![ProcessOf[c]] = c]
      /\ UNCHANGED <<root, tree, files, rootLock, phase, created, captured, transaction, sawWhole,
                     events>>
  BY DEF Enter, disk, history
<1>3. /\ at'[c] = "open state" /\ window'[c] = StateStamp /\ processLock'[ProcessOf[c]] = c
      /\ \A d \in Builds \ {c} : at'[d] = at[d] /\ window'[d] = window[d]
      /\ \A p \in Processes \ {ProcessOf[c]} : processLock'[p] = processLock[p]
  BY <1>1, <1>2, Typed
<1>4. NativeTypeOK'
  <2>1. at' \in [Builds -> Active \cup Resting]
    BY <1>1, <1>2 DEF NativeTypeOK, Active
  <2>2. window' = [d \in Builds |-> window'[d]]
    BY <1>2, <1>1, Typed
  <2>3. processLock' \in [Processes -> Makers]
    BY <1>1, <1>2 DEF NativeTypeOK, Makers
  <2> QED
    BY <1>1, <1>2, <2>1, <2>2, <2>3 DEF NativeTypeOK, Trees, FileSet, Roots
<1>5. ASSUME NEW d \in Builds \ {c} PROVE Kept(d)
  <2>1. Holding(d) /\ d # Nobody /\ ProcessOf[d] \in Processes
    BY <1>1, Typed DEF NInv, CallOK
  <2> QED
    BY <1>2, <1>3, <2>1 DEF Kept, Holding
<1>6. CallOK(c)'
  BY <1>1, <1>2, <1>3
     DEF CallOK, Holding, Phased, Grown, Looked, Confirmed, Sealed, Making, Reading,
       Locked, Active
<1>7. Onward(c)
  BY <1>1, <1>2, <1>3 DEF Onward, Sealed, Gone, CallOK, Phased, NInv, Rooted, RootCall, Making,
       Reading, Locked, Active
<1> QED
  BY <1>2, <1>3, <1>4, <1>5, <1>6, <1>7, StepOK

\* What ends a call: a refusal, or an error of the operating system.
LEMMA EndStep ==
  ASSUME NInv, NEW c \in Builds, at[c] \in Active,
         at' = [at EXCEPT ![c] = IF phase[c] = "revalidate" THEN "stale" ELSE "refused"], End(c),
         UNCHANGED <<root, tree, files, phase, transaction, sawWhole>>, events' \in [Outside -> Nat],
         events'["change"] = events["change"], events'["outage"] = events["outage"]
  PROVE  NInv'
<1>1. NativeTypeOK /\ CallOK(c) /\ processLock[ProcessOf[c]] = c
  BY DEF NInv, CallOK, Holding
<1>2. /\ rootLock' = IF rootLock = c THEN Nobody ELSE rootLock
      /\ processLock' = [processLock EXCEPT ![ProcessOf[c]] = Nobody]
      /\ window' = [window EXCEPT ![c] = Nobody] /\ created' = [created EXCEPT ![c] = FALSE]
      /\ captured' = [captured EXCEPT ![c] = NoFiles]
  BY DEF End
<1>3. /\ at'[c] = (IF phase[c] = "revalidate" THEN "stale" ELSE "refused") /\ ~ created'[c]
      /\ \A d \in Builds \ {c} : /\ at'[d] = at[d] /\ window'[d] = window[d]
                                 /\ created'[d] = created[d] /\ captured'[d] = captured[d]
      /\ \A p \in Processes \ {ProcessOf[c]} : processLock'[p] = processLock[p]
  BY <1>1, <1>2, Typed
<1>4. NativeTypeOK'
  <2>1. at' \in [Builds -> Active \cup Resting]
    BY <1>1 DEF NativeTypeOK, Resting
  <2>2. window' = [d \in Builds |-> window'[d]]
    BY <1>2, <1>1, Typed
  <2>3. processLock' \in [Processes -> Makers] /\ rootLock' \in Makers
    BY <1>1, <1>2 DEF NativeTypeOK, Makers
  <2>4. created' \in [Builds -> BOOLEAN]
    BY <1>1, <1>2 DEF NativeTypeOK
  <2>5. captured' \in [Builds -> Pairs]
    BY <1>1, <1>2 DEF NativeTypeOK, Pairs, NoFiles
  <2> QED
    BY <1>1, <2>1, <2>2, <2>3, <2>4, <2>5 DEF NativeTypeOK, Trees, FileSet, Roots
<1>5. ASSUME NEW d \in Builds \ {c} PROVE Kept(d)
  <2>1. Holding(d) /\ d # Nobody /\ ProcessOf[d] \in Processes
    BY <1>1, Typed DEF NInv, CallOK
  <2> QED
    BY <1>1, <1>2, <1>3, <2>1 DEF Kept, Holding
<1>6. /\ at'[c] \in {"stale", "refused"} /\ Sealed(c)' = Sealed(c)
      /\ at'[c] = "stale" => Sealed(c)
  BY <1>3 DEF Sealed
<1>7. CallOK(c)'
  <2>1. Phased(c)'
    BY <1>1, <1>6 DEF CallOK, Phased, Making, Transactions, Makers, Pairs
  <2> QED
    BY <1>6, <2>1 DEF CallOK, Holding, Grown, Looked, Confirmed, Making, Reading, Locked, Active
<1>8. Onward(c)
  BY <1>3, <1>6 DEF Onward, Gone, Making, Reading, Locked, Active
<1>9. at'[c] \notin {"idle", "open state", "make root", "open root"}
  BY <1>6
<1> QED
  BY <1>3, <1>4, <1>5, <1>7, <1>8, <1>9, StepOK

LEMMA RefuseStep == ASSUME NInv, NEW c \in Builds, at[c] \in Active, Refuse(c) PROVE NInv'
BY EndStep DEF Refuse, disk, history, NInv, NativeTypeOK

LEMMA FailsStep == ASSUME NInv, NEW c \in Builds, Fails(c) PROVE NInv'
<1>1. /\ at[c] \in Active /\ events' = [events EXCEPT !["error"] = @ + 1]
      /\ at' = [at EXCEPT ![c] = IF phase[c] = "revalidate" THEN "stale" ELSE "refused"]
      /\ End(c) /\ UNCHANGED <<root, tree, files, phase, transaction, sawWhole>>
  BY DEF Fails, Happens, disk, history
<1>2. /\ events' \in [Outside -> Nat] /\ events'["change"] = events["change"]
      /\ events'["outage"] = events["outage"]
  BY <1>1 DEF NInv, NativeTypeOK, Outside
<1> QED
  BY <1>1, <1>2, EndStep

\* A call that moves on and keeps its locks.
LEMMA MoveOK ==
  ASSUME NInv, NEW c \in Builds, NEW l \in Active \cup Resting, l # "idle", at' = [at EXCEPT ![c] = l],
         UNCHANGED <<root, tree, files, processLock, created, transaction, events>>, NativeTypeOK',
         \A d \in Builds \ {c} : /\ phase'[d] = phase[d] /\ captured'[d] = captured[d]
                                 /\ sawWhole'[d] = sawWhole[d] /\ window'[d] = window[d],
         rootLock' = rootLock \/ rootLock = Nobody,
         l = "open state" => window'[c] = StateStamp,
         l \in {"make root", "open root"} => window'[c] = RootStamp,
         Onward(c), CallOK(c)'
  PROVE  NInv'
<1>1. at'[c] = l /\ \A d \in Builds \ {c} : at'[d] = at[d]
  BY Typed DEF NInv
<1>2. ASSUME NEW d \in Builds \ {c} PROVE Kept(d)
  <2>1. Holding(d) /\ d # Nobody
    BY Typed DEF NInv, CallOK
  <2> QED
    BY <1>1, <2>1 DEF Kept, Holding
<1> QED
  BY <1>1, <1>2, StepOK

LEMMA OpenStateStep == ASSUME NInv, NEW c \in Builds, OpenState(c) PROVE NInv'
<1>1. CASE at[c] = "open state" /\ Refuse(c)
  BY <1>1, RefuseStep DEF Active
<1>2. CASE /\ at[c] = "open state" /\ (root.made \/ phase[c] = "make")
           /\ at' = [at EXCEPT ![c] = IF root.made THEN "open root" ELSE "make root"]
           /\ window' = [window EXCEPT ![c] = RootStamp]
           /\ UNCHANGED <<disk, locks, phase, created, captured, history, events>>
  <2> DEFINE l == IF root.made THEN "open root" ELSE "make root"
  <2>1. NativeTypeOK /\ CallOK(c)
    BY DEF NInv
  <2>2. UNCHANGED <<root, tree, files, rootLock, processLock, phase, created, captured,
                    transaction, sawWhole, events>>
    BY <1>2 DEF disk, locks, history
  <2>3. /\ at'[c] = l /\ window'[c] = RootStamp /\ \A d \in Builds \ {c} : window'[d] = window[d]
        /\ l \in {"open root", "make root"}
    BY <1>2, <2>1, Typed
  <2>4. NativeTypeOK'
    <3>1. at' \in [Builds -> Active \cup Resting]
      BY <1>2, <2>1 DEF NativeTypeOK, Active, Locked
    <3>2. window' = [d \in Builds |-> window'[d]]
      BY <1>2, <2>1, Typed
    <3> QED
      BY <2>1, <2>2, <3>1, <3>2 DEF NativeTypeOK, Trees, FileSet, Roots
  <2>5. Sealed(c)' = Sealed(c) /\ (l = "open root" => root.made) /\ (l = "make root" => ~ Sealed(c))
    BY <1>2, <2>2 DEF Sealed
  <2>6. CallOK(c)'
    <3>1. Holding(c)' /\ Phased(c)'
      BY <1>2, <2>1, <2>2, <2>3, <2>5
         DEF CallOK, Holding, Phased, Locked, Active, Making, Transactions, Makers, Pairs
    <3> QED
      BY <2>3, <3>1 DEF CallOK, Grown, Looked, Confirmed, Making, Reading
  <2>7. Onward(c)
    <3>1. RootCall(c)
      BY DEF NInv, Rooted
    <3> QED
      BY <1>2, <2>2, <2>3, <2>5, <3>1 DEF Onward, Gone, RootCall, Making, Reading, Locked, Active
  <2> QED
    BY <1>2, <2>2, <2>3, <2>4, <2>6, <2>7, MoveOK DEF Active, Locked
<1> QED
  BY <1>1, <1>2 DEF OpenState

LEMMA OpenRootStep == ASSUME NInv, NEW c \in Builds, OpenRoot(c) PROVE NInv'
<1>1. CASE at[c] = "open root" /\ Refuse(c)
  BY <1>1, RefuseStep DEF Active
<1>2. CASE /\ Move(c, "open root", "lock") /\ window' = [window EXCEPT ![c] = Nobody]
           /\ UNCHANGED <<disk, locks, phase, created, captured, history, events>>
  <2>1. NativeTypeOK /\ CallOK(c)
    BY DEF NInv
  <2>2. UNCHANGED <<root, tree, files, rootLock, processLock, phase, created, captured,
                    transaction, sawWhole, events>>
    BY <1>2 DEF disk, locks, history
  <2>3. /\ at[c] = "open root" /\ at' = [at EXCEPT ![c] = "lock"] /\ at'[c] = "lock"
        /\ \A d \in Builds \ {c} : window'[d] = window[d]
    BY <1>2, <2>1, Typed DEF Move
  <2>4. NativeTypeOK'
    <3>1. at' \in [Builds -> Active \cup Resting]
      BY <2>3, <2>1 DEF NativeTypeOK, Active
    <3>2. window' = [d \in Builds |-> window'[d]]
      BY <1>2, <2>1, Typed
    <3> QED
      BY <2>1, <2>2, <3>1, <3>2 DEF NativeTypeOK, Trees, FileSet, Roots
  <2>5. Sealed(c)' = Sealed(c)
    BY <2>2 DEF Sealed
  <2>6. CallOK(c)'
    <3>1. Holding(c)' /\ Phased(c)'
      BY <2>1, <2>2, <2>3, <2>5
         DEF CallOK, Holding, Phased, Locked, Active, Making, Transactions, Makers, Pairs
    <3> QED
      BY <2>3, <3>1 DEF CallOK, Grown, Looked, Confirmed, Making, Reading
  <2>7. Onward(c)
    BY <2>2, <2>3, <2>5 DEF Onward, Gone, Making, Reading, Locked, Active
  <2> QED
    BY <2>2, <2>3, <2>4, <2>6, <2>7, MoveOK DEF Active
<1> QED
  BY <1>1, <1>2 DEF OpenRoot

LEMMA LockStep == ASSUME NInv, NEW c \in Builds, Lock(c) PROVE NInv'
<1> DEFINE l == IF phase[c] = "make" THEN "create" ELSE "read wheel"
<1>1. NativeTypeOK /\ CallOK(c)
  BY DEF NInv
<1>2. UNCHANGED <<root, tree, files, processLock, phase, window, created, captured, transaction,
                  sawWhole, events>>
  BY DEF Lock, disk, history
<1>3. /\ at[c] = "lock" /\ at' = [at EXCEPT ![c] = l] /\ at'[c] = l
      /\ l \in {"create", "read wheel"} /\ rootLock = Nobody /\ rootLock' = c
  BY <1>1, Typed DEF Lock, Move
<1>4. NativeTypeOK'
  <2>1. at' \in [Builds -> Active \cup Resting]
    BY <1>3, <1>1 DEF NativeTypeOK, Active, Locked
  <2>2. rootLock' \in Makers
    BY <1>3 DEF Makers
  <2> QED
    BY <1>1, <1>2, <2>1, <2>2 DEF NativeTypeOK, Trees, FileSet, Roots
<1>5. Sealed(c)' = Sealed(c) /\ (l = "create" <=> ~ Sealed(c))
  BY <1>2 DEF Sealed
<1>6. CallOK(c)'
  <2>1. Holding(c)' /\ Phased(c)'
    BY <1>1, <1>2, <1>3, <1>5
       DEF CallOK, Holding, Phased, Locked, Active, Making, Transactions, Makers, Pairs
  <2> QED
    BY <1>3, <1>5, <2>1 DEF CallOK, Grown, Looked, Confirmed, Making, Reading
<1>7. Onward(c)
  BY <1>2, <1>3, <1>5 DEF Onward, Gone, Making, Reading, Locked, Active
<1> QED
  BY <1>2, <1>3, <1>4, <1>6, <1>7, MoveOK DEF Active, Locked

LEMMA RevalidateStep == ASSUME NInv, NEW c \in Builds, Revalidate(c) PROVE NInv'
<1>1. NativeTypeOK /\ CallOK(c)
  BY DEF NInv
<1>2. /\ phase' = [phase EXCEPT ![c] = "revalidate"] /\ sawWhole' = [sawWhole EXCEPT ![c] = FALSE]
      /\ UNCHANGED <<root, tree, files, rootLock, processLock, window, created, captured,
                     transaction, events>>
  BY DEF Revalidate, disk, locks
<1>3. /\ at[c] = "valid" /\ at' = [at EXCEPT ![c] = "confirm"] /\ at'[c] = "confirm" /\ phase'[c] = "revalidate"
      /\ \A d \in Builds \ {c} : phase'[d] = phase[d] /\ sawWhole'[d] = sawWhole[d]
  BY <1>1, <1>2, Typed DEF Revalidate, Move
<1>4. NativeTypeOK'
  <2>1. at' \in [Builds -> Active \cup Resting]
    BY <1>3, <1>1 DEF NativeTypeOK, Resting
  <2>2. phase' \in [Builds -> {"make", "confirm", "revalidate"}] /\ sawWhole' \in [Builds -> BOOLEAN]
    BY <1>2, <1>1 DEF NativeTypeOK
  <2> QED
    BY <1>1, <1>2, <2>1, <2>2 DEF NativeTypeOK, Trees, FileSet, Roots
<1>5. Sealed(c) /\ Sealed(c)'
  BY <1>1, <1>3 DEF CallOK, Phased, Sealed
<1>6. CallOK(c)'
  <2>1. Holding(c)' /\ Phased(c)'
    BY <1>1, <1>2, <1>3, <1>5
       DEF CallOK, Holding, Phased, Locked, Active, Making, Transactions, Makers, Pairs
  <2> QED
    BY <1>3, <1>5, <2>1 DEF CallOK, Grown, Looked, Confirmed, Making, Reading
<1>7. Onward(c)
  <2>1. RootCall(c)
    BY DEF NInv, Rooted
  <2> QED
    BY <1>2, <1>3, <1>5, <2>1 DEF Onward, Gone, RootCall, Making, Reading, Locked, Active
<1> QED
  BY <1>2, <1>3, <1>4, <1>6, <1>7, MoveOK DEF Active, Resting

\* A tree that is there is taken as it is; the call did not make it.
LEMMA TakeOverStep == ASSUME NInv, NEW c \in Builds, CreateTree(c), My(c).made PROVE NInv'
<1>1. NativeTypeOK /\ CallOK(c)
  BY DEF NInv
<1>2. UNCHANGED <<root, tree, files, rootLock, processLock, phase, window, created, captured,
                  transaction, sawWhole, events>>
  BY DEF CreateTree, Quiet, locks, history
<1>3. at[c] = "create" /\ at' = [at EXCEPT ![c] = "read wheel"] /\ at'[c] = "read wheel"
  BY <1>1, Typed DEF CreateTree, Move
<1>4. NativeTypeOK'
  <2>1. at' \in [Builds -> Active \cup Resting]
    BY <1>3, <1>1 DEF NativeTypeOK, Active, Locked
  <2> QED
    BY <1>1, <1>2, <2>1 DEF NativeTypeOK, Trees, FileSet, Roots
<1>5. Sealed(c)' = Sealed(c) /\ ~ Sealed(c) /\ My(c)' = My(c)
  BY <1>1, <1>2, <1>3 DEF Sealed, CallOK, Phased, My
<1>6. My(c).maker # c
  <2>1. My(c).maker = c => Sealed(c) \/ Gone(c) \/ at[c] \in Making \cup Reading
    BY <1>1, Typed DEF NInv, Owned, My
  <2> QED
    BY <1>3, <1>5, <2>1 DEF Gone, Making, Reading
<1>7. CallOK(c)'
  <2>1. Holding(c)' /\ Phased(c)'
    BY <1>1, <1>2, <1>3, <1>5
       DEF CallOK, Holding, Phased, Locked, Active, Making, Transactions, Makers, Pairs
  <2>2. Grown(c)'
    BY <1>3, <1>5, <1>6 DEF Grown, Making, Reading
  <2> QED
    BY <1>3, <1>5, <2>1, <2>2 DEF CallOK, Looked, Confirmed
<1>8. Onward(c)
  BY <1>2, <1>3, <1>5 DEF Onward, Gone, Making, Reading, Locked, Active
<1> QED
  BY <1>2, <1>3, <1>4, <1>7, <1>8, MoveOK DEF Active, Locked

LEMMA CaptureStep == ASSUME NInv, NEW c \in Builds, CaptureTree(c) PROVE NInv'
<1>1. NativeTypeOK /\ CallOK(c)
  BY DEF NInv
<1>2. at[c] \in {"read wheel", "read native", "reread wheel", "reread native"}
  BY DEF CaptureTree, ReadingAt
<1>3. CASE ~ Reads(c)
  BY <1>2, <1>3, RefuseStep DEF CaptureTree, Active, Locked
<1>4. CASE Reads(c)
  <2> DEFINE f == ReadingAt[at[c]].file
             l == CASE at[c] = "read wheel" -> "read native"
                    [] at[c] = "read native" ->
                           IF phase[c] = "make" /\ created[c] THEN "sync state" ELSE "reread wheel"
                    [] at[c] = "reread wheel" -> "reread native"
                    [] at[c] = "reread native" -> "seal"
  <2>1. /\ at' = [at EXCEPT ![c] = l] /\ captured' = [captured EXCEPT ![c][f] = Expected(c)]
        /\ sawWhole' = [sawWhole EXCEPT ![c] = @ \/ (at[c] = "reread wheel" /\ Whole(My(c)))]
        /\ UNCHANGED <<root, tree, files, rootLock, processLock, phase, window, created,
                       transaction, events>>
    BY <1>4, <1>1, Typed DEF CaptureTree, disk, locks
  <2>2. l \in {"read native", "sync state", "reread wheel", "reread native", "seal"} /\ at'[c] = l
        /\ (at[c] = "read wheel" <=> l = "read native")
        /\ (at[c] = "read native" <=> l \in {"sync state", "reread wheel"})
        /\ (at[c] = "reread wheel" <=> l = "reread native") /\ (at[c] = "reread native" <=> l = "seal")
        /\ (l = "sync state" => ~ Sealed(c)) /\ (l = "reread wheel" => Sealed(c) \/ ~ created[c])
    BY <1>1, <1>2, <2>1, Typed DEF Sealed
  <2>3. f \in {"wheel", "native"} /\ (f = "wheel" <=> at[c] \in {"read wheel", "reread wheel"})
    BY <1>2 DEF ReadingAt
  <2>4. /\ My(c).made /\ Missing \notin {My(c).wheel, My(c).native}
        /\ My(c)[f].bytes = "exact" /\ My(c)[f].id = Expected(c)
    BY <1>4 DEF Reads
  <2>5. My(c) \in Trees /\ My(c)[f] \in FileSet /\ Expected(c) \in 1..files /\ files \in Nat
    <3>1. My(c) \in Trees /\ files \in Nat
      BY <1>1, Typed DEF NativeTypeOK, My
    <3>2. My(c)[f] \in FileSet
      BY <3>1, <2>3 DEF Trees
    <3>3. My(c)[f] # Missing
      BY <2>4 DEF Missing
    <3>4. My(c)[f].id \in 1..files
      BY <3>2, <3>3 DEF FileSet
    <3> QED
      BY <3>1, <3>2, <3>4, <2>4
  <2>6. /\ \A d \in Builds \ {c} : captured'[d] = captured[d] /\ sawWhole'[d] = sawWhole[d]
        /\ captured'[c] = [captured[c] EXCEPT ![f] = Expected(c)]
        /\ sawWhole'[c] = (sawWhole[c] \/ (at[c] = "reread wheel" /\ Whole(My(c))))
    BY <2>1, <1>1, Typed
  <2>7. captured[c] \in Pairs /\ captured'[c] \in Pairs /\ captured'[c][f] = Expected(c)
        /\ (f = "wheel" => captured'[c].native = captured[c].native)
        /\ (f = "native" => captured'[c].wheel = captured[c].wheel)
    <3>1. captured[c] \in Pairs /\ Expected(c) \in Nat
      BY <1>1, <2>5 DEF NativeTypeOK
    <3> HIDE DEF f
    <3>2. CASE f = "wheel"
      BY <3>1, <3>2, <2>6 DEF Pairs
    <3>3. CASE f = "native"
      BY <3>1, <3>3, <2>6 DEF Pairs
    <3> QED
      BY <3>2, <3>3, <2>3
  <2>8. Expected(c) = captured[c][f] => captured'[c] = captured[c]
    <3> HIDE DEF f
    <3>1. captured[c] = [x \in {"wheel", "native"} |-> captured[c][x]]
      BY <2>7 DEF Pairs
    <3> QED
      BY <2>3, <2>6, <3>1
  <2>9. NativeTypeOK'
    <3>1. at' \in [Builds -> Active \cup Resting]
      BY <2>1, <2>2, <1>1 DEF NativeTypeOK, Active, Locked
    <3>2. captured' \in [Builds -> Pairs]
      <4>1. captured' = [captured EXCEPT ![c] = captured'[c]]
        BY <2>1, <2>6, <1>1, Typed
      <4> QED
        BY <4>1, <2>7, <1>1 DEF NativeTypeOK
    <3>3. sawWhole' \in [Builds -> BOOLEAN]
      <4>1. (sawWhole[c] \/ (at[c] = "reread wheel" /\ Whole(My(c)))) \in BOOLEAN
        OBVIOUS
      <4> QED
        BY <4>1, <2>1, <1>1 DEF NativeTypeOK
    <3> QED
      BY <1>1, <2>1, <3>1, <3>2, <3>3 DEF NativeTypeOK, Trees, FileSet, Roots
  <2>10. Sealed(c)' = Sealed(c) /\ My(c)' = My(c) /\ at[c] \in Reading /\ l \in Reading
        /\ at[c] \in Locked /\ l \in Locked /\ l \notin Making
    BY <1>2, <2>1, <2>2 DEF Sealed, My, Reading, Locked, Making
  <2>11. CallOK(c)'
    <3>1. Holding(c)'
      BY <1>1, <2>1, <2>2, <2>10 DEF CallOK, Holding, Active
    <3>2. Phased(c)'
      BY <1>1, <2>1, <2>2, <2>10 DEF CallOK, Phased, Transactions, Makers, Pairs
    <3>3. Grown(c)'
      BY <1>1, <2>1, <2>2, <2>10 DEF CallOK, Grown, Whole, Unchanged
    <3>4. Looked(c)'
      <4> SUFFICES ASSUME Unchanged, ~ Sealed(c) PROVE Looked(c)'
        BY <2>1, <2>10 DEF Looked, Unchanged
      <4>1. at[c] = "read wheel" => Expected(c) = My(c).wheel.id
        BY <2>4, <2>3
      <4>2. at[c] = "read native" => /\ Expected(c) = My(c).native.id /\ My(c).native.bytes = "exact"
                                     /\ captured[c].wheel = My(c).wheel.id /\ My(c).wheel.bytes = "exact"
        BY <1>1, <2>4, <2>3 DEF CallOK, Looked
      <4>3. at[c] \in {"reread wheel", "reread native"} =>
              Whole(My(c)) /\ captured[c] = [wheel |-> My(c).wheel.id, native |-> My(c).native.id]
        BY <1>1 DEF CallOK, Looked
      <4>4. at[c] \in {"reread wheel", "reread native"} => captured'[c] = captured[c]
        <5>1. at[c] \in {"reread wheel", "reread native"} => Expected(c) = captured[c][f]
          BY DEF Expected, ReadingAt
        <5> QED
          BY <5>1, <2>8
      <4>5. l = "read native" => captured'[c].wheel = My(c).wheel.id /\ My(c).wheel.bytes = "exact"
        BY <4>1, <2>2, <2>3, <2>4, <2>7
      <4>6. l \in {"sync state", "reread wheel"} =>
              Whole(My(c)) /\ captured'[c] = [wheel |-> My(c).wheel.id, native |-> My(c).native.id]
        BY <4>2, <2>2, <2>3, <2>4, <2>7 DEF Whole, Pairs
      <4>7. l \in {"reread native", "seal"} =>
              Whole(My(c)) /\ captured'[c] = [wheel |-> My(c).wheel.id, native |-> My(c).native.id]
        BY <4>3, <4>4, <2>2
      <4> QED
        BY <4>5, <4>6, <4>7, <2>2, <2>10 DEF Looked, Whole
    <3>5. Confirmed(c)'
      <4> USE DEF Confirmed
      <4>1. Confirmed(c)
        BY <1>1 DEF CallOK
      <4>2. at[c] \in {"reread wheel", "reread native"} => captured'[c] = captured[c]
        <5>1. at[c] \in {"reread wheel", "reread native"} => Expected(c) = captured[c][f]
          BY DEF Expected, ReadingAt
        <5> QED
          BY <5>1, <2>8
      <4>3. Sealed(c) /\ at[c] \in {"read wheel", "read native"} => Expected(c) = transaction[c].files[f]
        BY DEF Expected, ReadingAt, Sealed
      <4>4. Sealed(c) => captured'[c].wheel = transaction[c].files.wheel
        BY <4>1, <4>2, <4>3, <1>2, <2>3, <2>7
      <4>5. Sealed(c) /\ l \in {"reread wheel", "reread native", "seal"} =>
              captured'[c].native = transaction[c].files.native
        BY <4>1, <4>2, <4>3, <1>2, <2>2, <2>3, <2>7
      <4>6. l \in {"sync state", "reread wheel"} => /\ captured'[c].native = My(c).native.id
                                                    /\ My(c).native.bytes = "exact"
        BY <2>2, <2>3, <2>4, <2>7
      <4>7. l \in {"sync state", "reread wheel", "reread native"} =>
              /\ captured'[c].native <= files
              /\ My(c).native.id = captured'[c].native => My(c).native.bytes # "partial"
        <5>1. l \in {"sync state", "reread wheel"} => captured'[c].native <= files
          <6>1. Expected(c) <= files
            BY <2>5
          <6>2. l \in {"sync state", "reread wheel"} => captured'[c].native = Expected(c)
            BY <2>2, <2>3, <2>7
          <6> QED
            BY <6>1, <6>2
        <5>2. l = "reread native" => /\ captured'[c].native <= files
                                     /\ My(c).native.id = captured'[c].native => My(c).native.bytes # "partial"
          BY <4>1, <4>2, <2>2
        <5> QED
          BY <4>6, <5>1, <5>2
      <4>8. l = "reread native" /\ ~ sawWhole'[c] =>
              ~ (My(c).native.bytes = "exact" /\ My(c).native.id = captured'[c].native)
        BY <2>2, <2>3, <2>4, <2>6 DEF Whole
      <4>9. l = "seal" => sawWhole'[c]
        BY <4>1, <2>2, <2>3, <2>4, <2>6 DEF Expected, ReadingAt
      <4> QED
        BY <4>4, <4>5, <4>7, <4>8, <4>9, <2>1, <2>2, <2>10
    <3> QED
      BY <3>1, <3>2, <3>3, <3>4, <3>5 DEF CallOK
  <2>12. Onward(c)
    <3>1. RootCall(c)
      BY DEF NInv, Rooted
    <3>2. created'[c] = created[c]
      BY <2>1
    <3>3. created[c] => ~ Sealed(c)
      BY <3>1 DEF RootCall
    <3> QED
      BY <2>2, <2>10, <3>2, <3>3, <1>2 DEF Onward, Gone, Active
  <2>13. l \in Active \cup Resting /\ l \notin {"idle", "open state", "make root", "open root"}
    BY <2>2, <2>10 DEF Active
  <2> HIDE DEF l
  <2> QED
    BY <2>1, <2>6, <2>9, <2>11, <2>12, <2>13, MoveOK
<1> QED
  BY <1>3, <1>4

LEMMA MakeRootStep == ASSUME NInv, NEW c \in Builds, MakeRoot(c) PROVE NInv'
<1>1. NativeTypeOK /\ CallOK(c) /\ RootCall(c)
  BY DEF NInv, Rooted
<1>2. /\ UNCHANGED <<tree, files, rootLock, processLock, phase, captured, transaction, sawWhole,
                     events>>
      /\ window' = [window EXCEPT ![c] = RootStamp] /\ at' = [at EXCEPT ![c] = "open root"]
      /\ at[c] = "make root"
  BY DEF MakeRoot, Move, locks, history
<1>3. /\ at'[c] = "open root" /\ window'[c] = RootStamp /\ RootStamp' = RootStamp
      /\ \A d \in Builds \ {c} : at'[d] = at[d] /\ window'[d] = window[d]
  BY <1>1, <1>2, Typed DEF RootStamp, Made
<1>4. /\ at' \in [Builds -> Active \cup Resting] /\ window' = [d \in Builds |-> window'[d]]
  <2>1. window' = [d \in Builds |-> window'[d]]
    BY <1>2, <1>1, Typed
  <2> QED
    BY <2>1, <1>2, <1>1 DEF NativeTypeOK, Active
<1>5. ~ Sealed(c) /\ Sealed(c)' = Sealed(c) /\ ~ RootMaker(c) /\ ~ created[c]
  BY <1>1, <1>2 DEF CallOK, Phased, Sealed, RootCall, Locked
<1>6. root'.made => CallOK(c)'
  <2>1. root'.made => Holding(c)' /\ Phased(c)'
    BY <1>1, <1>2, <1>3, <1>5
       DEF CallOK, Holding, Phased, Locked, Active, Making, Transactions, Makers, Pairs
  <2> QED
    BY <1>3, <2>1 DEF CallOK, Grown, Looked, Confirmed, Making, Reading
<1>7. CASE root.made
  <2>1. root' = root /\ created' = created
    BY <1>7 DEF MakeRoot
  <2>2. NativeTypeOK'
    BY <1>1, <1>2, <1>4, <2>1 DEF NativeTypeOK, Trees, FileSet, Roots
  <2>3. Onward(c)
    BY <1>1, <1>2, <1>3, <1>5, <2>1 DEF Onward, Gone, RootCall, Making, Reading, Locked, Active
  <2> QED
    BY <1>2, <1>3, <1>6, <1>7, <2>1, <2>2, <2>3, MoveOK DEF Active
<1>8. CASE ~ root.made
  <2>1. root' = [made |-> TRUE, maker |-> c, synced |-> FALSE] /\ created' = [created EXCEPT ![c] = TRUE]
    BY <1>8 DEF MakeRoot
  <2>2. NativeTypeOK'
    <3>1. root' \in Roots
      BY <2>1 DEF Roots, Makers
    <3>2. created' \in [Builds -> BOOLEAN]
      BY <2>1, <1>1 DEF NativeTypeOK
    <3> QED
      BY <1>1, <1>2, <1>4, <3>1, <3>2 DEF NativeTypeOK, Trees, FileSet
  <2>3. created'[c] /\ \A d \in Builds : d # c => ~ created'[d]
    <3>1. \A d \in Builds : ~ created[d]
      BY <1>8 DEF NInv, Rooted, RootCall
    <3> QED
      BY <2>1, <3>1, <1>1, Typed
  <2>4. \A d \in Builds : CallOK(d)'
    <3>1. ASSUME NEW d \in Builds \ {c} PROVE CallOK(d)'
      <4>1. Holding(d)
        BY DEF NInv, CallOK
      <4>2. Kept(d)
        BY <1>2, <1>3, <1>8, <4>1 DEF Kept, Holding
      <4>3. files' \in Nat /\ files <= files'
        BY <1>2, SameFiles
      <4>4. Unchanged' => Unchanged
        BY <1>2 DEF Unchanged
      <4> QED
        BY <4>2, <4>3, <4>4, KeptOK
    <3> QED
      BY <3>1, <1>6, <2>1
  <2>5. \A a \in Authorities : ~ tree[a].made
    BY <1>8 DEF NInv, Traces
  <2>6. Traces'
    BY <1>2, <2>1, <2>5 DEF NInv, Traces
  <2>7. Owned'
    BY <1>1, <1>2, <2>5, Typed DEF Owned, My
  <2>8. \A d \in Builds : Sealed(d)' = Sealed(d)
    BY <1>2 DEF Sealed
  <2>9. Rooted'
    <3>1. \A d \in Builds : RootMaker(d)' => RootMaker(d) \/ d = c
      BY <1>2, <2>1, <2>8 DEF RootMaker
    <3>2. ASSUME NEW d \in Builds PROVE RootCall(d)'
      <4>1. RootCall(d)
        BY DEF NInv, Rooted
      <4>2. CASE d = c
        BY <4>2, <1>3, <1>5, <2>1, <2>3 DEF RootCall
      <4>3. CASE d # c
        <5>1. at'[d] = at[d] /\ ~ created'[d] /\ ~ created[d]
          BY <4>1, <4>3, <1>3, <1>8, <2>3 DEF RootCall
        <5> QED
          BY <4>1, <4>3, <5>1, <2>8, <3>1 DEF RootCall
      <4> QED
        BY <4>2, <4>3
    <3>3. root'.maker = c /\ ~ Sealed(c)' /\ c # Nobody
      BY <2>1, <1>5, <1>1, Typed
    <3> QED
      BY <3>2, <3>3 DEF Rooted, Sealed
  <2>10. Lasting'
    <3> SUFFICES ASSUME Unchanged PROVE Lasting'
      BY <1>2 DEF Lasting, Unchanged
    <3>1. ASSUME NEW d \in Builds, Sealed(d), NEW t, t = transaction[d]
          PROVE  /\ t.maker \in Builds /\ (Sealed(t.maker)' \/ Gone(t.maker)')
                 /\ ~ Anchored(t)' /\ events["outage"] # 0
      <4>1. /\ t.maker \in Builds /\ (Sealed(t.maker) \/ Gone(t.maker))
            /\ Anchored(t) => Stands(d)
            /\ events["outage"] = 0 => Stands(d)
        BY <3>1 DEF NInv, Lasting
      <4>2. ~ Stands(d)
        BY <2>5, <1>1, Typed DEF Stands, Whole, My
      <4>3. t \in Transactions
        BY <3>1 DEF NInv, CallOK, Phased
      <4>4. t.rootMaker # c
        BY <3>1, <1>5 DEF RootMaker
      <4>5. Anchored(t)' => Anchored(t)
        BY <4>1, <4>3, <4>4, <2>3, <2>8 DEF Anchored, Transactions, Makers
      <4>6. Gone(t.maker) => Gone(t.maker)'
        BY <4>1, <1>2, <1>3 DEF Gone
      <4> QED
        BY <4>1, <4>2, <4>5, <4>6, <2>8
    <3>2. \A d \in Builds : Sealed(d)' => (LET t == transaction[d] IN
             /\ t.maker \in Builds /\ (Sealed(t.maker) \/ Gone(t.maker))
             /\ Anchored(t) => Stands(d) /\ My(d).maker = t.maker /\ root.maker = t.rootMaker
             /\ events["outage"] = 0 => Stands(d))'
      BY <3>1, <2>8, <1>2 DEF Sealed, Gone, Anchored
    <3> QED
      BY <3>2, <2>5, <1>2 DEF Lasting
  <2>11. Undisturbed'
    <3>1. \A d \in Builds \ {c} : Quietly(d)'
      BY <1>2, <1>3, QuietOthers DEF Active
    <3>2. Quietly(c)'
      BY <1>3 DEF Quietly
    <3>3. Made' = Made
      BY <1>2 DEF Made
    <3> QED
      BY <3>1, <3>2, <3>3, <2>1 DEF NInv, Undisturbed
  <2> QED
    BY <2>2, <2>4, <2>6, <2>7, <2>9, <2>10, <2>11 DEF NInv
<1> QED
  BY <1>7, <1>8

LEMMA SyncStateStep == ASSUME NInv, NEW c \in Builds, SyncState(c) PROVE NInv'
<1>1. NativeTypeOK /\ CallOK(c)
  BY DEF NInv
<1>2. /\ UNCHANGED <<tree, files, rootLock, processLock, phase, window, created, captured,
                     transaction, sawWhole, events>>
      /\ at[c] = "sync state" /\ at' = [at EXCEPT ![c] = "reread wheel"] /\ root' = [root EXCEPT !.synced = TRUE]
  BY DEF SyncState, Move, locks, history
<1>3. /\ at'[c] = "reread wheel" /\ \A d \in Builds \ {c} : at'[d] = at[d]
      /\ root'.made = root.made /\ root'.maker = root.maker /\ root'.synced
  BY <1>1, <1>2, Typed DEF NativeTypeOK, Roots
<1>4. NativeTypeOK'
  <2>1. at' \in [Builds -> Active \cup Resting] /\ root' \in Roots
    BY <1>1, <1>2 DEF NativeTypeOK, Active, Locked, Roots
  <2> QED
    BY <1>1, <1>2, <2>1 DEF NativeTypeOK, Trees, FileSet
<1>5. \A d \in Builds : Sealed(d)' = Sealed(d)
  BY <1>2 DEF Sealed
<1>6. ~ Sealed(c) /\ My(c)' = My(c)
  BY <1>1, <1>2 DEF CallOK, Phased, Sealed, My
<1>7. CallOK(c)'
  <2>1. Holding(c)' /\ Phased(c)'
    BY <1>1, <1>2, <1>3, <1>5
       DEF CallOK, Holding, Phased, Locked, Active, Making, Transactions, Makers, Pairs
  <2>2. Grown(c)'
    BY <1>1, <1>2, <1>3, <1>5, <1>6 DEF CallOK, Grown, Whole, Unchanged, Making, Reading
  <2>3. Looked(c)'
    BY <1>1, <1>2, <1>3, <1>5, <1>6 DEF CallOK, Looked, Whole, Unchanged
  <2>4. Confirmed(c)'
    BY <1>1, <1>2, <1>3, <1>5, <1>6 DEF CallOK, Confirmed
  <2> QED
    BY <2>1, <2>2, <2>3, <2>4 DEF CallOK
<1>8. ASSUME NEW d \in Builds PROVE CallOK(d)'
  <2>1. CASE d # c
    <3>1. Kept(d)
      BY <2>1, <1>2, <1>3 DEF Kept
    <3>2. files' \in Nat /\ files <= files'
      BY <1>2, SameFiles
    <3>3. Unchanged' => Unchanged
      BY <1>2 DEF Unchanged
    <3> QED
      BY <3>1, <3>2, <3>3, KeptOK
  <2> QED
    BY <2>1, <1>7
<1>9. Traces'
  <2>1. root.made
    BY <1>1, <1>2 DEF CallOK, Holding, Locked
  <2> QED
    BY <2>1, <1>2, <1>3 DEF NInv, Traces
<1>10. Owned'
  <2>1. ASSUME NEW d \in Builds
        PROVE  /\ Gone(d) => Gone(d)'
               /\ at[d] \in Making \cup Reading => at'[d] \in Making \cup Reading
               /\ at'[d] \in Making => at[d] \in Making
    BY <1>2, <1>3 DEF Gone, Making, Reading
  <2> QED
    BY <2>1, <1>2, <1>4, <1>5, OwnedStep
<1>11. Rooted'
  <2>1. \A d \in Builds : RootMaker(d)' = RootMaker(d)
    BY <1>2, <1>3, <1>5 DEF RootMaker
  <2>2. ASSUME NEW d \in Builds PROVE RootCall(d)'
    <3>1. RootCall(d)
      BY DEF NInv, Rooted
    <3> QED
      BY <3>1, <2>1, <1>2, <1>3, <1>5 DEF RootCall, Locked, Active
  <2> QED
    BY <2>2, <1>3 DEF Rooted
<1>12. Lasting'
  <2>1. \A d \in Builds : Sealed(d)' = Sealed(d) /\ (Gone(d) => Gone(d)') /\ (created'[d] => created[d])
    BY <1>2, <1>3, <1>5 DEF Gone
  <2>2. \A a \in Authorities : SameTree(a)
    BY <1>2 DEF SameTree
  <2> QED
    BY <2>1, <2>2, <1>2, <1>3, LastingStep DEF Unchanged
<1>13. Undisturbed'
  <2>1. StateStamp' = StateStamp /\ RootStamp' = RootStamp /\ Made' = Made
    BY <1>2, <1>3 DEF StateStamp, RootStamp, Made
  <2>2. ASSUME NEW d \in Builds PROVE Quietly(d)'
    BY <2>1, <1>2, <1>3, QuietSame DEF Unchanged
  <2> QED
    BY <2>1, <2>2, <1>2, <1>3, <1>5 DEF NInv, Undisturbed
<1> QED
  BY <1>4, <1>8, <1>9, <1>10, <1>11, <1>12, <1>13 DEF NInv

\* A step of the call that makes a tree, on that tree.
LEMMA FillOK ==
  ASSUME NInv, NEW c \in Builds, at[c] \in Making, NEW l \in Making \cup {"read wheel"},
         at' = [at EXCEPT ![c] = l],
         UNCHANGED <<root, rootLock, processLock, phase, window, created, captured, transaction,
                     sawWhole, events>>,
         NativeTypeOK', files <= files',
         \A a \in Authorities : /\ tree'[a].made = tree[a].made /\ tree'[a].maker = tree[a].maker
                                /\ tree'[a].made \/ tree'[a] = NoTree,
         Lasting', Grown(c)'
  PROVE  NInv'
<1>1. NativeTypeOK /\ CallOK(c) /\ at[c] \in Locked /\ rootLock = c
  BY DEF NInv, CallOK, Holding, Making, Locked
<1>2. at'[c] = l /\ \A d \in Builds \ {c} : at'[d] = at[d]
  BY <1>1, Typed
<1>3. l \in Locked /\ \A d \in Builds : Sealed(d)' = Sealed(d)
  BY DEF Making, Locked, Sealed
<1>4. ~ Sealed(c)
  BY <1>1 DEF CallOK, Phased
<1>5. CallOK(c)'
  <2>1. Holding(c)'
    BY <1>1, <1>2, <1>3 DEF CallOK, Holding, Active
  <2>2. Phased(c)'
    BY <1>1, <1>2, <1>3, <1>4 DEF CallOK, Phased, Making
  <2>3. Looked(c)' /\ Confirmed(c)'
    BY <1>2, <1>3, <1>4 DEF Looked, Confirmed, Making
  <2> QED
    BY <2>1, <2>2, <2>3 DEF CallOK
<1>6. ASSUME NEW d \in Builds PROVE CallOK(d)'
  <2>1. CASE d # c
    <3>1. Holding(d)
      BY DEF NInv, CallOK
    <3>2. Kept(d)
      BY <2>1, <3>1, <1>1, <1>2 DEF Kept, Holding
    <3>3. files' \in Nat
      BY DEF NativeTypeOK
    <3>4. Unchanged' => Unchanged
      BY DEF Unchanged
    <3> QED
      BY <3>2, <3>3, <3>4, KeptOK
  <2> QED
    BY <2>1, <1>5
<1>7. Traces'
  BY DEF NInv, Traces
<1>8. Owned'
  <2>1. ASSUME NEW d \in Builds
        PROVE  /\ Gone(d) => Gone(d)'
               /\ at[d] \in Making \cup Reading => at'[d] \in Making \cup Reading
               /\ at'[d] \in Making => at[d] \in Making
    BY <1>2 DEF Gone, Making, Reading
  <2> QED
    BY <2>1, <1>3, OwnedStep
<1>9. Rooted'
  <2>1. ASSUME NEW d \in Builds PROVE Onward(d)
    <3>1. RootCall(d)
      BY DEF NInv, Rooted
    <3>2. CASE d = c
      BY <3>2, <1>1, <1>2, <1>3, <1>4 DEF Onward, Gone, Making, Reading, Active
    <3>3. CASE d # c
      BY <3>1, <3>3, <1>2, <1>3 DEF Onward, Gone, RootCall
    <3> QED
      BY <3>2, <3>3
  <2> QED
    BY <2>1, SteadyRooted
<1>10. Undisturbed'
  <2>1. Made' = Made /\ RootStamp' = RootStamp /\ StateStamp' = StateStamp
    BY DEF Made, RootStamp, StateStamp
  <2>2. \A e \in Builds : at'[e] = "idle" => at[e] = "idle"
    BY <1>2 DEF Making
  <2>3. ASSUME NEW d \in Builds PROVE Quietly(d)'
    BY <2>1, <2>2, <1>2, QuietSame DEF Unchanged, Making
  <2> QED
    BY <2>1, <2>3, <1>3 DEF NInv, Undisturbed
<1> QED
  BY <1>6, <1>7, <1>8, <1>9, <1>10 DEF NInv

\* Nothing that was sealed rests on a tree that is not whole.
LEMMA FillLasting ==
  ASSUME NInv, NEW c \in Builds, at[c] \in Making, My(c).made, Unchanged => ~ Whole(My(c)),
         UNCHANGED <<root, phase, created, transaction, events>>,
         \A d \in Builds : Gone(d) => Gone(d)',
         \A a \in Authorities : a # AuthorityOf[c] => tree'[a] = tree[a],
         tree'[AuthorityOf[c]].maker = tree[AuthorityOf[c]].maker
  PROVE  Lasting'
<1> SUFFICES ASSUME Unchanged PROVE Lasting'
  BY DEF Lasting, Unchanged
<1>1. /\ CallOK(c) /\ ~ Sealed(c) /\ My(c).maker = c /\ ~ Whole(My(c))
      /\ \A d \in Builds : Sealed(d)' = Sealed(d)
  BY DEF NInv, CallOK, Phased, Owned, Sealed
<1>2. ASSUME NEW a \in Authorities, tree'[a].made, NEW m, m = tree'[a].maker, Sealed(m)'
      PROVE  Whole(tree[a])' /\ tree'[a].filled /\ tree'[a].synced
  <2>1. a # AuthorityOf[c]
    BY <1>1, <1>2 DEF My
  <2>2. tree'[a] = tree[a] /\ m \in Builds
    BY <1>2, <2>1 DEF NInv, Owned
  <2> QED
    BY <1>1, <1>2, <2>2 DEF NInv, Lasting, Whole
<1>3. ASSUME NEW d \in Builds, Sealed(d), NEW t, t = transaction[d]
      PROVE  /\ t.maker \in Builds /\ (Sealed(t.maker)' \/ Gone(t.maker)')
             /\ Anchored(t)' => Stands(d)' /\ My(d)'.maker = t.maker /\ root.maker = t.rootMaker
             /\ events["outage"] = 0 => Stands(d)'
  <2>1. /\ t.maker \in Builds /\ (Sealed(t.maker) \/ Gone(t.maker))
        /\ Anchored(t) => Stands(d) /\ My(d).maker = t.maker /\ root.maker = t.rootMaker
        /\ events["outage"] = 0 => Stands(d)
    BY <1>3 DEF NInv, Lasting
  <2>2. t \in Transactions
    BY <1>3 DEF NInv, CallOK, Phased
  <2>3. Anchored(t)' => Anchored(t)
    BY <1>1, <2>1, <2>2 DEF Anchored, Transactions, Makers
  <2>4. AuthorityOf[d] = AuthorityOf[c] => ~ Stands(d)
    BY <1>1 DEF Stands, My
  <2>5. AuthorityOf[d] # AuthorityOf[c] => My(d)' = My(d) /\ Stands(d)' = Stands(d)
    BY Typed DEF NInv, Stands, My, Whole
  <2> QED
    BY <1>1, <2>1, <2>3, <2>4, <2>5
<1>4. \A a \in Authorities : tree'[a].made /\ Sealed(tree[a].maker)' =>
        Whole(tree[a])' /\ tree'[a].filled /\ tree'[a].synced
  BY <1>2 DEF Sealed
<1>5. \A d \in Builds : Sealed(d)' => (LET t == transaction[d] IN
             /\ t.maker \in Builds /\ (Sealed(t.maker) \/ Gone(t.maker))
             /\ Anchored(t) => Stands(d) /\ My(d).maker = t.maker /\ root.maker = t.rootMaker
             /\ events["outage"] = 0 => Stands(d))'
  BY <1>1, <1>3 DEF Sealed, Gone, Anchored
<1> QED
  BY <1>4, <1>5 DEF Lasting

LEMMA WriteStep == ASSUME NInv, NEW c \in Builds, Write(c) PROVE NInv'
<1> DEFINE f == IF at[c] = "write wheel" THEN "wheel" ELSE "native"
           l == IF at[c] = "write wheel" THEN "sync wheel" ELSE "sync native"
           a0 == AuthorityOf[c]
           t0 == [tree[a0] EXCEPT ![f] = New]
<1>1. NativeTypeOK /\ CallOK(c) /\ a0 \in Authorities /\ tree[a0] \in Trees /\ My(c) = tree[a0]
  BY Typed DEF NInv, NativeTypeOK, My
<1>2. /\ at[c] \in {"write wheel", "write native"} /\ at' = [at EXCEPT ![c] = l]
      /\ tree[a0].made /\ tree[a0][f] = Missing /\ tree' = [tree EXCEPT ![a0] = t0]
      /\ UNCHANGED <<root, rootLock, processLock, phase, window, created, captured, transaction,
                     sawWhole, events>>
      /\ files' = files + 1
  <2>1. /\ UNCHANGED <<root, rootLock, processLock, phase, window, created, captured, transaction,
                       sawWhole, events>>
        /\ files' = files + 1
    BY DEF Write, Quiet, locks, history
  <2>2. /\ at[c] \in {"write wheel", "write native"} /\ at' = [at EXCEPT ![c] = l]
        /\ tree[a0].made /\ tree[a0][f] = Missing /\ tree' = [tree EXCEPT ![a0] = t0]
    BY <1>1, Typed DEF Write, Move, My
  <2> QED
    BY <2>1, <2>2
<1>3. files \in Nat /\ files' \in Nat /\ files <= files' /\ 1..files \subseteq 1..files' /\ files + 1 \in 1..files'
  <2>1. files \in Nat
    BY <1>1 DEF NativeTypeOK
  <2>2. \A n \in Nat : n <= n + 1 /\ n + 1 \in Nat /\ n + 1 \in 1..(n + 1) /\ 1..n \subseteq 1..(n + 1)
    OBVIOUS
  <2> QED
    BY <1>2, <2>1, <2>2
<1>4. tree'[a0] = t0 /\ \A a \in Authorities : a # a0 => tree'[a] = tree[a]
  BY <1>1, <1>2, Typed
<1>5. /\ t0.made = tree[a0].made /\ t0.maker = tree[a0].maker /\ t0[f] = New
      /\ (f = "wheel" => t0.native = tree[a0].native) /\ (f = "native" => t0.wheel = tree[a0].wheel)
      /\ t0 \in Trees'
  <2>1. New \in FileSet'
    BY <1>3 DEF New, FileSet
  <2>2. FileSet \subseteq FileSet'
    BY <1>3 DEF FileSet
  <2>3. CASE f = "wheel"
    BY <2>1, <2>2, <2>3, <1>1 DEF Trees
  <2>4. CASE f = "native"
    BY <2>1, <2>2, <2>4, <1>1 DEF Trees
  <2> QED
    BY <2>3, <2>4
<1> HIDE DEF t0
<1>6. NativeTypeOK'
  <2>1. at' \in [Builds -> Active \cup Resting]
    BY <1>1, <1>2 DEF NativeTypeOK, Active, Locked
  <2>2. tree' \in [Authorities -> Trees']
    <3>1. Trees \subseteq Trees'
      BY <1>3 DEF Trees, FileSet
    <3> QED
      BY <3>1, <1>1, <1>2, <1>5 DEF NativeTypeOK
  <2> QED
    BY <1>1, <1>2, <1>3, <2>1, <2>2 DEF NativeTypeOK, Roots
<1>7. /\ at[c] \in Making /\ l \in Making /\ at'[c] = l /\ (Unchanged => ~ Whole(My(c)))
      /\ \A d \in Builds \ {c} : at'[d] = at[d]
  <2>1. tree[a0].wheel = Missing \/ tree[a0].native = Missing
    BY <1>2
  <2>2. ~ Whole(tree[a0])
    BY <2>1 DEF Whole, Missing
  <2> QED
    BY <2>2, <1>1, <1>2, Typed DEF Making
<1>8. Lasting'
  <2>1. \A d \in Builds : Gone(d) => Gone(d)'
    BY <1>2, <1>7 DEF Gone
  <2>2. My(c).made /\ at[c] \in Making /\ (Unchanged => ~ Whole(My(c)))
    BY <1>1, <1>2, <1>7
  <2>3. UNCHANGED <<root, phase, created, transaction, events>>
    BY <1>2
  <2>4. tree'[a0].maker = tree[a0].maker /\ \A a \in Authorities : a # a0 => tree'[a] = tree[a]
    BY <1>4, <1>5
  <2> HIDE DEF l, f
  <2> QED
    BY <2>1, <2>2, <2>3, <2>4, FillLasting
<1>9. Grown(c)'
  <2> SUFFICES ASSUME Unchanged PROVE Grown(c)'
    BY <1>2 DEF Grown, Unchanged
  <2>1. /\ at[c] = "write wheel" => tree[a0].native = Missing
        /\ at[c] = "write native" => tree[a0].wheel.bytes = "exact"
    BY <1>1 DEF CallOK, Grown
  <2>2. My(c)' = t0 /\ New.bytes = "partial"
    BY <1>4 DEF My, New
  <2> QED
    BY <1>2, <1>5, <1>7, <2>1, <2>2 DEF Grown, Making, Reading
<1>10. \A a \in Authorities : /\ tree'[a].made = tree[a].made /\ tree'[a].maker = tree[a].maker
                              /\ tree'[a].made \/ tree'[a] = NoTree
  BY <1>2, <1>4, <1>5 DEF NInv, Traces
<1> QED
  BY <1>2, <1>3, <1>6, <1>7, <1>8, <1>9, <1>10, FillOK

LEMMA CompleteStep == ASSUME NInv, NEW c \in Builds, Complete(c) PROVE NInv'
<1> DEFINE f == IF at[c] = "sync wheel" THEN "wheel" ELSE "native"
           l == IF at[c] = "sync wheel" THEN "write native" ELSE "sync tree"
           a0 == AuthorityOf[c]
           file == [tree[a0][f] EXCEPT !.bytes = "exact"]
           t0 == [tree[a0] EXCEPT ![f] = file]
<1>1. NativeTypeOK /\ CallOK(c) /\ a0 \in Authorities /\ tree[a0] \in Trees /\ My(c) = tree[a0]
  BY Typed DEF NInv, NativeTypeOK, My
<1>2. /\ at[c] \in {"sync wheel", "sync native"} /\ at' = [at EXCEPT ![c] = l]
      /\ tree[a0][f].bytes = "partial" /\ tree' = [tree EXCEPT ![a0] = t0]
      /\ UNCHANGED <<root, rootLock, processLock, phase, window, created, captured, transaction,
                     sawWhole, events, files>>
  <2>1. UNCHANGED <<root, rootLock, processLock, phase, window, created, captured, transaction,
                    sawWhole, events, files>>
    BY DEF Complete, Quiet, locks, history
  <2>2. /\ at[c] \in {"sync wheel", "sync native"} /\ at' = [at EXCEPT ![c] = l]
        /\ tree[a0][f].bytes = "partial" /\ tree' = [tree EXCEPT ![a0] = t0]
    BY <1>1, Typed DEF Complete, Move, My
  <2> QED
    BY <2>1, <2>2
<1>3. tree[a0].made
  <2>1. NoTree.wheel.bytes = "none" /\ NoTree.native.bytes = "none"
    BY DEF NoTree, Missing
  <2>2. tree[a0].wheel.bytes = "partial" \/ tree[a0].native.bytes = "partial"
    BY <1>2
  <2> QED
    BY <2>1, <2>2, <1>1 DEF NInv, Traces
<1>4. tree'[a0] = t0 /\ \A a \in Authorities : a # a0 => tree'[a] = tree[a]
  BY <1>1, <1>2, Typed
<1>5. /\ t0.made = tree[a0].made /\ t0.maker = tree[a0].maker /\ t0[f].bytes = "exact"
      /\ (f = "wheel" => t0.native = tree[a0].native) /\ (f = "native" => t0.wheel = tree[a0].wheel)
      /\ t0 \in Trees
  <2>1. tree[a0][f] \in [bytes : {"partial", "exact", "other"}, id : 1..files]
    <3>1. tree[a0][f] \in FileSet
      BY <1>1 DEF Trees
    <3> QED
      <4>1. tree[a0][f] # Missing
        <5>1. Missing.bytes = "none"
          BY DEF Missing
        <5> QED
          BY <5>1, <1>2
      <4> QED
        BY <3>1, <4>1 DEF FileSet
  <2>2. file \in FileSet /\ file.bytes = "exact"
    BY <2>1 DEF FileSet
  <2> HIDE DEF file
  <2>3. CASE f = "wheel"
    BY <2>2, <2>3, <1>1 DEF Trees
  <2>4. CASE f = "native"
    BY <2>2, <2>4, <1>1 DEF Trees
  <2> QED
    BY <2>3, <2>4
<1> HIDE DEF t0
<1>6. NativeTypeOK'
  <2>1. at' \in [Builds -> Active \cup Resting]
    BY <1>1, <1>2 DEF NativeTypeOK, Active, Locked
  <2>2. tree' \in [Authorities -> Trees]
    BY <1>1, <1>2, <1>5 DEF NativeTypeOK
  <2>3. FileSet' = FileSet /\ Roots' = Roots
    BY <1>2 DEF FileSet, Roots
  <2>4. tree' \in [Authorities -> Trees']
    BY <2>2, <2>3 DEF Trees
  <2>5. root' \in Roots' /\ files' \in Nat /\ window' = [b \in Builds |-> window'[b]]
    BY <1>1, <1>2, <2>3 DEF NativeTypeOK
  <2> QED
    BY <1>1, <1>2, <2>1, <2>4, <2>5 DEF NativeTypeOK
<1>7. /\ at[c] \in Making /\ l \in Making /\ at'[c] = l /\ (Unchanged => ~ Whole(My(c)))
      /\ \A d \in Builds \ {c} : at'[d] = at[d]
  BY <1>1, <1>2, Typed DEF Making, Whole
<1>8. Lasting'
  <2>1. \A d \in Builds : Gone(d) => Gone(d)'
    BY <1>2, <1>7 DEF Gone
  <2>2. My(c).made /\ at[c] \in Making /\ (Unchanged => ~ Whole(My(c)))
    BY <1>1, <1>3, <1>7
  <2>3. UNCHANGED <<root, phase, created, transaction, events>>
    BY <1>2
  <2>4. tree'[a0].maker = tree[a0].maker /\ \A a \in Authorities : a # a0 => tree'[a] = tree[a]
    BY <1>4, <1>5
  <2> HIDE DEF l, f
  <2> QED
    BY <2>1, <2>2, <2>3, <2>4, FillLasting
<1>9. Grown(c)'
  <2> SUFFICES ASSUME Unchanged PROVE Grown(c)'
    BY <1>2 DEF Grown, Unchanged
  <2>1. /\ at[c] = "sync wheel" => tree[a0].native = Missing
        /\ at[c] = "sync native" => tree[a0].wheel.bytes = "exact"
    BY <1>1 DEF CallOK, Grown
  <2>2. My(c)' = t0
    BY <1>4 DEF My
  <2> QED
    BY <1>2, <1>3, <1>5, <1>7, <2>1, <2>2 DEF Grown, Whole, Making, Reading
<1>10. \A a \in Authorities : /\ tree'[a].made = tree[a].made /\ tree'[a].maker = tree[a].maker
                              /\ tree'[a].made \/ tree'[a] = NoTree
  BY <1>3, <1>4, <1>5 DEF NInv, Traces
<1> QED
  BY <1>2, <1>6, <1>7, <1>8, <1>9, <1>10, SameFiles, FillOK

LEMMA SyncTreeStep == ASSUME NInv, NEW c \in Builds, SyncTree(c) PROVE NInv'
<1> DEFINE l == IF at[c] = "sync tree" THEN "sync root" ELSE "read wheel"
           a0 == AuthorityOf[c]
           t1(a) == IF at[c] = "sync root" THEN [tree[a] EXCEPT !.synced = tree[a].made]
                    ELSE IF a = a0 THEN [tree[a] EXCEPT !.filled = tree[a].made] ELSE tree[a]
<1>1. NativeTypeOK /\ CallOK(c) /\ a0 \in Authorities /\ My(c) = tree[a0]
  BY Typed DEF NInv, My
<1>2. /\ at[c] \in {"sync tree", "sync root"} /\ at' = [at EXCEPT ![c] = l]
      /\ tree' = [a \in Authorities |-> t1(a)]
      /\ UNCHANGED <<root, rootLock, processLock, phase, window, created, captured, transaction,
                     sawWhole, events, files>>
  <2>1. UNCHANGED <<root, rootLock, processLock, phase, window, created, captured, transaction,
                    sawWhole, events, files>>
    BY DEF SyncTree, Quiet, locks, history
  <2>2. /\ at[c] \in {"sync tree", "sync root"} /\ at' = [at EXCEPT ![c] = l]
        /\ tree' = [a \in Authorities |-> t1(a)]
    <3>1. CASE /\ Move(c, "sync tree", "sync root")
               /\ tree' = [tree EXCEPT ![AuthorityOf[c]].filled = My(c).made]
      <4>1. at[c] = "sync tree" /\ at' = [at EXCEPT ![c] = "sync root"]
        BY <3>1 DEF Move
      <4>2. tree' = [tree EXCEPT ![a0] = [tree[a0] EXCEPT !.filled = tree[a0].made]]
        BY <3>1, <1>1
      <4>3. tree' = [a \in Authorities |-> t1(a)]
        BY <4>1, <4>2, <1>1 DEF NativeTypeOK
      <4> QED
        BY <4>1, <4>3
    <3>2. CASE /\ Move(c, "sync root", "read wheel")
               /\ tree' = [a \in Authorities |-> [tree[a] EXCEPT !.synced = tree[a].made]]
      <4>1. at[c] = "sync root" /\ at' = [at EXCEPT ![c] = "read wheel"]
        BY <3>2 DEF Move
      <4>2. tree' = [a \in Authorities |-> t1(a)]
        BY <3>2, <4>1
      <4> QED
        BY <4>1, <4>2
    <3> QED
      BY <3>1, <3>2 DEF SyncTree
  <2> QED
    BY <2>1, <2>2
<1>3. ASSUME NEW a \in Authorities
      PROVE  /\ tree'[a] = t1(a) /\ t1(a) \in Trees
             /\ t1(a).made = tree[a].made /\ t1(a).maker = tree[a].maker
             /\ t1(a).wheel = tree[a].wheel /\ t1(a).native = tree[a].native
             /\ tree[a].filled /\ tree[a].made => t1(a).filled
             /\ tree[a].synced /\ tree[a].made => t1(a).synced
             /\ at[c] = "sync tree" /\ a = a0 /\ tree[a].made => t1(a).filled
             /\ at[c] = "sync root" /\ tree[a].made => t1(a).synced
             /\ t1(a).made \/ t1(a) = NoTree
  <2>1. tree'[a] = t1(a) /\ tree[a] \in Trees /\ (tree[a].made \/ tree[a] = NoTree)
    BY <1>1, <1>2 DEF NativeTypeOK, NInv, Traces
  <2> DEFINE G == /\ t1(a) \in Trees
                  /\ t1(a).made = tree[a].made /\ t1(a).maker = tree[a].maker
                  /\ t1(a).wheel = tree[a].wheel /\ t1(a).native = tree[a].native
                  /\ t1(a).filled = tree[a].filled \/ t1(a).filled = tree[a].made
                  /\ t1(a).synced = tree[a].synced \/ t1(a).synced = tree[a].made
                  /\ at[c] = "sync tree" /\ a = a0 => t1(a).filled = tree[a].made
                  /\ at[c] = "sync root" => t1(a).synced = tree[a].made
  <2>2. at[c] = "sync root" => G
    BY <2>1 DEF Trees
  <2>3. at[c] = "sync tree" /\ a = a0 => G
    BY <2>1 DEF Trees
  <2>4. at[c] = "sync tree" /\ a # a0 => G
    BY <2>1
  <2>5. G
    BY <2>2, <2>3, <2>4, <1>2
  <2> HIDE DEF t1
  <2>6. NoTree \in Trees /\ NoTree.made = FALSE /\ NoTree.filled = FALSE /\ NoTree.synced = FALSE
    BY DEF NoTree, Trees, Makers, FileSet
  <2>7. tree[a] = NoTree => t1(a) = NoTree
    <3>1. \A s \in Trees : s = [made |-> s.made, maker |-> s.maker, wheel |-> s.wheel,
                               native |-> s.native, filled |-> s.filled, synced |-> s.synced]
      BY DEF Trees
    <3> QED
      BY <3>1, <2>5, <2>6
  <2>8. tree[a].made \in BOOLEAN /\ tree[a].filled \in BOOLEAN /\ tree[a].synced \in BOOLEAN
    BY <2>1 DEF Trees
  <2> QED
    BY <2>1, <2>5, <2>7, <2>8
<1>4. \A a \in Authorities : t1(a) \in Trees
  BY <1>3
<1> HIDE DEF t1
<1>5. NativeTypeOK'
  <2>1. at' \in [Builds -> Active \cup Resting]
    BY <1>1, <1>2 DEF NativeTypeOK, Active, Locked
  <2>2. tree' \in [Authorities -> Trees]
    BY <1>2, <1>4
  <2> QED
    BY <1>1, <1>2, <2>1, <2>2 DEF NativeTypeOK, Roots, Trees, FileSet
<1>6. /\ at[c] \in Making /\ l \in Making \cup {"read wheel"} /\ at'[c] = l
      /\ \A d \in Builds \ {c} : at'[d] = at[d]
  BY <1>1, <1>2, Typed DEF Making
<1>7. Lasting'
  <2>1. \A d \in Builds : Sealed(d)' = Sealed(d) /\ (Gone(d) => Gone(d)') /\ (created'[d] => created[d])
    BY <1>2, <1>6 DEF Gone, Sealed
  <2>2. \A a \in Authorities : SameTree(a)
    <3>1. ASSUME NEW a \in Authorities PROVE SameTree(a)
      <4>1. tree[a].made \/ (~ tree[a].filled /\ ~ tree[a].synced)
        BY DEF NInv, Traces, NoTree
      <4> QED
        BY <4>1, <1>3 DEF SameTree
    <3> QED
      BY <3>1
  <2> QED
    BY <2>1, <2>2, <1>2, LastingStep DEF Unchanged
<1>8. Grown(c)'
  <2> SUFFICES ASSUME Unchanged PROVE Grown(c)'
    BY <1>2 DEF Grown, Unchanged
  <2>1. tree[a0].made /\ Whole(tree[a0]) /\ (at[c] = "sync root" => tree[a0].filled)
    BY <1>1, <1>2 DEF CallOK, Grown, Whole
  <2>2. My(c)' = t1(a0)
    BY <1>1, <1>3 DEF My
  <2>3. Whole(t1(a0)) /\ t1(a0).filled /\ (at[c] = "sync root" => t1(a0).synced)
    BY <2>1, <1>1, <1>2, <1>3 DEF Whole
  <2> QED
    BY <1>2, <1>6, <2>2, <2>3 DEF Grown, Whole, Making, Reading
<1>9. \A a \in Authorities : /\ tree'[a].made = tree[a].made /\ tree'[a].maker = tree[a].maker
                             /\ tree'[a].made \/ tree'[a] = NoTree
  BY <1>3
<1> QED
  BY <1>2, <1>5, <1>6, <1>7, <1>8, <1>9, SameFiles, FillOK

LEMMA MakeTreeStep == ASSUME NInv, NEW c \in Builds, CreateTree(c), ~ My(c).made PROVE NInv'
<1> DEFINE a0 == AuthorityOf[c]
           t0 == [NoTree EXCEPT !.made = TRUE, !.maker = c]
<1>1. NativeTypeOK /\ CallOK(c) /\ a0 \in Authorities /\ My(c) = tree[a0]
  BY Typed DEF NInv, My
<1>2. /\ at[c] = "create" /\ at' = [at EXCEPT ![c] = "write wheel"] /\ Cardinality(Made) < MaxAuthorityDirectories
      /\ tree' = [tree EXCEPT ![a0] = t0]
      /\ UNCHANGED <<root, rootLock, processLock, phase, window, created, captured, transaction,
                     sawWhole, events, files>>
  BY DEF CreateTree, Move, Quiet, locks, history
<1>3. /\ at'[c] = "write wheel" /\ \A d \in Builds \ {c} : at'[d] = at[d]
      /\ tree'[a0] = t0 /\ \A a \in Authorities : a # a0 => tree'[a] = tree[a]
  BY <1>1, <1>2, Typed
<1>4. /\ t0.made /\ t0.maker = c /\ t0.wheel = Missing /\ t0.native = Missing /\ t0 \in Trees
  BY DEF NoTree, Trees, Makers, FileSet
<1> HIDE DEF t0
<1>5. NativeTypeOK'
  <2>1. at' \in [Builds -> Active \cup Resting]
    BY <1>1, <1>2 DEF NativeTypeOK, Active, Locked
  <2>2. tree' \in [Authorities -> Trees]
    BY <1>1, <1>2, <1>4 DEF NativeTypeOK
  <2> QED
    BY <1>1, <1>2, <2>1, <2>2 DEF NativeTypeOK, Roots, Trees, FileSet
<1>6. rootLock = c /\ root.made /\ ~ Sealed(c) /\ \A d \in Builds : Sealed(d)' = Sealed(d)
  BY <1>1, <1>2 DEF CallOK, Holding, Phased, Sealed, Locked
<1>7. CallOK(c)'
  <2>1. Holding(c)'
    BY <1>1, <1>2, <1>3, <1>6 DEF CallOK, Holding, Locked, Active
  <2>2. Phased(c)'
    BY <1>1, <1>2, <1>3, <1>6 DEF CallOK, Phased, Making
  <2>3. Grown(c)'
    BY <1>3, <1>4 DEF Grown, My, Making, Reading
  <2>4. Looked(c)' /\ Confirmed(c)'
    BY <1>3, <1>6 DEF Looked, Confirmed
  <2> QED
    BY <2>1, <2>2, <2>3, <2>4 DEF CallOK
<1>8. ASSUME NEW d \in Builds PROVE CallOK(d)'
  <2>1. CASE d # c
    <3>1. Holding(d)
      BY DEF NInv, CallOK
    <3>2. Kept(d)
      BY <2>1, <3>1, <1>2, <1>3, <1>6 DEF Kept, Holding
    <3>3. files' \in Nat /\ files <= files'
      BY <1>2, SameFiles
    <3>4. Unchanged' => Unchanged
      BY <1>2 DEF Unchanged
    <3> QED
      BY <3>2, <3>3, <3>4, KeptOK
  <2> QED
    BY <2>1, <1>7
<1>9. Traces'
  <2>1. Traces
    BY DEF NInv
  <2>2. \A a \in Authorities : tree'[a] = tree[a] \/ tree'[a].made
    BY <1>3, <1>4
  <2>3. root' = root /\ root.made
    BY <1>2, <1>6
  <2> QED
    BY <2>1, <2>2, <2>3 DEF Traces
<1>10. Owned'
  <2>1. ASSUME NEW a \in Authorities, tree'[a].made, NEW m, m = tree'[a].maker
        PROVE  m \in Builds /\ AuthorityOf[m] = a /\ (Sealed(m)' \/ Gone(m)' \/ at'[m] \in Making \cup Reading)
    <3>1. CASE a = a0
      BY <2>1, <3>1, <1>3, <1>4 DEF Making
    <3>2. CASE a # a0
      <4>1. m \in Builds /\ AuthorityOf[m] = a /\ (Sealed(m) \/ Gone(m) \/ at[m] \in Making \cup Reading)
        BY <2>1, <3>2, <1>3 DEF NInv, Owned
      <4> QED
        BY <4>1, <3>2, <1>3, <1>6 DEF Gone
    <3> QED
      BY <3>1, <3>2
  <2>2. ASSUME NEW d \in Builds, at'[d] \in Making, tree'[AuthorityOf[d]].made
        PROVE  tree'[AuthorityOf[d]].maker = d
    <3>1. CASE d = c
      BY <3>1, <1>3, <1>4
    <3>2. CASE d # c
      <4>1. at[d] \in Making /\ Holding(d)
        BY <2>2, <3>2, <1>3 DEF NInv, CallOK
      <4> QED
        BY <4>1, <3>2, <1>6 DEF Holding, Making, Locked
    <3> QED
      BY <3>1, <3>2
  <2> QED
    BY <2>1, <2>2 DEF Owned, My, Sealed, Gone
<1>11. Rooted'
  <2>1. ASSUME NEW d \in Builds PROVE RootCall(d)'
    <3>1. RootCall(d)
      BY DEF NInv, Rooted
    <3>2. RootMaker(d)' = RootMaker(d)
      BY <1>2, <1>6 DEF RootMaker
    <3>3. CASE d = c
      BY <3>1, <3>2, <3>3, <1>2, <1>3, <1>6 DEF RootCall, Locked, Active
    <3>4. CASE d # c
      BY <3>1, <3>2, <3>4, <1>2, <1>3, <1>6 DEF RootCall
    <3> QED
      BY <3>3, <3>4
  <2>2. root.made /\ (root.maker = Nobody \/ Sealed(root.maker)) => root.synced
    BY DEF NInv, Rooted
  <2> QED
    BY <2>1, <2>2, <1>2 DEF Rooted, Sealed
<1>12. Lasting'
  <2> SUFFICES ASSUME Unchanged PROVE Lasting'
    BY <1>2 DEF Lasting, Unchanged
  <2>1. ASSUME NEW a \in Authorities, tree'[a].made, NEW m, m = tree'[a].maker, Sealed(m)'
        PROVE  Whole(tree[a])' /\ tree'[a].filled /\ tree'[a].synced
    <3>1. a # a0
      <4>1. a = a0 => m = c
        BY <2>1, <1>3, <1>4
      <4>2. ~ Sealed(c)'
        BY <1>6
      <4> QED
        BY <2>1, <4>1, <4>2
    <3>2. tree'[a] = tree[a] /\ m \in Builds
      BY <2>1, <3>1, <1>3 DEF NInv, Owned
    <3> QED
      BY <2>1, <3>2, <1>6 DEF NInv, Lasting, Whole
  <2>2. ASSUME NEW d \in Builds, Sealed(d), NEW t, t = transaction[d]
        PROVE  /\ t.maker \in Builds /\ (Sealed(t.maker)' \/ Gone(t.maker)')
               /\ Anchored(t)' => Stands(d)' /\ My(d)'.maker = t.maker /\ root.maker = t.rootMaker
               /\ events["outage"] = 0 => Stands(d)'
    <3>1. /\ t.maker \in Builds /\ (Sealed(t.maker) \/ Gone(t.maker))
          /\ Anchored(t) => Stands(d) /\ My(d).maker = t.maker /\ root.maker = t.rootMaker
          /\ events["outage"] = 0 => Stands(d)
      BY <2>2 DEF NInv, Lasting
    <3>2. t \in Transactions
      BY <2>2 DEF NInv, CallOK, Phased
    <3>3. Anchored(t)' => Anchored(t)
      BY <3>1, <3>2, <1>2, <1>6 DEF Anchored, Transactions, Makers
    <3>4. AuthorityOf[d] = a0 => ~ Stands(d)
      BY <1>1 DEF Stands, My, Whole
    <3>5. AuthorityOf[d] # a0 => My(d)' = My(d) /\ Stands(d)' = Stands(d)
      BY <1>2, <1>3, <1>1, Typed DEF Stands, My, Whole
    <3>6. Gone(t.maker) => Gone(t.maker)'
      BY <3>1, <1>2, <1>3 DEF Gone
    <3> QED
      BY <1>6, <3>1, <3>3, <3>4, <3>5, <3>6
  <2>3. \A a \in Authorities : tree'[a].made /\ Sealed(tree[a].maker)' =>
          Whole(tree[a])' /\ tree'[a].filled /\ tree'[a].synced
    BY <2>1 DEF Sealed
  <2>4. \A d \in Builds : Sealed(d)' => (LET t == transaction[d] IN
               /\ t.maker \in Builds /\ (Sealed(t.maker) \/ Gone(t.maker))
               /\ Anchored(t) => Stands(d) /\ My(d).maker = t.maker /\ root.maker = t.rootMaker
               /\ events["outage"] = 0 => Stands(d))'
    <3> SUFFICES ASSUME NEW d \in Builds, Sealed(d)'
                 PROVE  (LET t == transaction[d] IN
                         /\ t.maker \in Builds /\ (Sealed(t.maker) \/ Gone(t.maker))
                         /\ Anchored(t) => Stands(d) /\ My(d).maker = t.maker
                                           /\ root.maker = t.rootMaker
                         /\ events["outage"] = 0 => Stands(d))'
      OBVIOUS
    <3>1. Sealed(d) /\ transaction' = transaction /\ root' = root /\ events' = events
      BY <1>2, <1>6
    <3> QED
      BY <3>1, <2>2 DEF Sealed, Gone, Anchored
  <2> QED
    BY <2>3, <2>4 DEF Lasting
<1>13. Undisturbed'
  <2>1. \A d \in Builds \ {c} : Quietly(d)'
    BY <1>2, <1>3, QuietOthers DEF Active, Locked
  <2>2. Quietly(c)'
    BY <1>3 DEF Quietly
  <2>3. Made' = Made \cup {a0} /\ a0 \notin Made
    BY <1>1, <1>3, <1>4 DEF Made
  <2>4. IsFiniteSet(Made) /\ Cardinality(Made) \in Nat
    BY FS_CardinalityType DEF NInv, Undisturbed
  <2>5. IsFiniteSet(Made') /\ Cardinality(Made') = Cardinality(Made) + 1
    BY <2>3, <2>4, FS_AddElement
  <2>6. Cardinality(Made') <= MaxAuthorityDirectories
    <3>1. \A n, k \in Nat : n < k => n + 1 <= k
      OBVIOUS
    <3>2. MaxAuthorityDirectories \in Nat
      OBVIOUS
    <3> QED
      BY <3>1, <3>2, <2>4, <2>5, <1>2
  <2> QED
    BY <2>1, <2>2, <2>5, <2>6, <1>2, <1>6 DEF NInv, Undisturbed
<1> QED
  BY <1>5, <1>8, <1>9, <1>10, <1>11, <1>12, <1>13 DEF NInv

LEMMA SealStep == ASSUME NInv, NEW c \in Builds, Seal(c) PROVE NInv'
<1> DEFINE l == IF phase[c] = "make" THEN "confirm" ELSE "valid"
           t0 == [files |-> captured[c], maker |-> My(c).maker, rootMaker |-> root.maker]
<1>1. NativeTypeOK /\ CallOK(c) /\ RootCall(c) /\ My(c) \in Trees /\ root \in Roots
  BY Typed DEF NInv, Rooted, NativeTypeOK, My
<1>2. /\ at[c] = "seal" /\ at' = [at EXCEPT ![c] = l]
      /\ UNCHANGED <<root, tree, files, events>>
      /\ rootLock' = IF rootLock = c THEN Nobody ELSE rootLock
      /\ processLock' = [processLock EXCEPT ![ProcessOf[c]] = Nobody]
      /\ window' = [window EXCEPT ![c] = Nobody] /\ created' = [created EXCEPT ![c] = FALSE]
      /\ captured' = [captured EXCEPT ![c] = NoFiles]
      /\ transaction' = IF phase[c] # "make" THEN transaction ELSE [transaction EXCEPT ![c] = t0]
      /\ phase' = [phase EXCEPT ![c] = IF @ = "make" THEN "confirm" ELSE @]
      /\ sawWhole' = [sawWhole EXCEPT ![c] = @ /\ phase[c] # "make"]
  BY DEF Seal, Move, End, disk
<1>3. /\ at'[c] = l /\ at'[c] \in {"confirm", "valid"} /\ ~ created'[c] /\ Sealed(c)' /\ (Sealed(c) => phase'[c] = phase[c])
      /\ \A d \in Builds \ {c} : /\ at'[d] = at[d] /\ window'[d] = window[d] /\ created'[d] = created[d]
                                 /\ captured'[d] = captured[d] /\ transaction'[d] = transaction[d]
                                 /\ phase'[d] = phase[d] /\ sawWhole'[d] = sawWhole[d]
                                 /\ Sealed(d)' = Sealed(d)
      /\ \A p \in Processes \ {ProcessOf[c]} : processLock'[p] = processLock[p]
  BY <1>1, <1>2, Typed DEF Sealed
<1>4. /\ Sealed(c) => transaction'[c] = transaction[c]
      /\ ~ Sealed(c) => transaction'[c] = t0
      /\ transaction'[c] \in Transactions
  <2>1. t0 \in Transactions
    BY <1>1 DEF NativeTypeOK, Transactions, Trees, Roots
  <2>2. Sealed(c) => transaction[c] \in Transactions
    BY <1>1 DEF CallOK, Phased
  <2> HIDE DEF t0
  <2> QED
    BY <1>1, <1>2, <2>1, <2>2, Typed DEF Sealed
<1>5. rootLock = c /\ processLock[ProcessOf[c]] = c /\ root.made
  BY <1>1, <1>2 DEF CallOK, Holding, Locked, Active
<1>6. NativeTypeOK'
  <2>1. at' \in [Builds -> Active \cup Resting]
    BY <1>1, <1>2 DEF NativeTypeOK, Resting
  <2>2. window' = [d \in Builds |-> window'[d]]
    BY <1>2, <1>1, Typed
  <2>3. processLock' \in [Processes -> Makers] /\ rootLock' \in Makers
    BY <1>1, <1>2 DEF NativeTypeOK, Makers
  <2>4. created' \in [Builds -> BOOLEAN]
    BY <1>1, <1>2 DEF NativeTypeOK
  <2>5. captured' \in [Builds -> Pairs]
    BY <1>1, <1>2 DEF NativeTypeOK, Pairs, NoFiles
  <2>6. phase' \in [Builds -> {"make", "confirm", "revalidate"}]
    BY <1>1, <1>2 DEF NativeTypeOK
  <2>7. transaction' \in [Builds -> {Nobody} \cup Transactions]
    <3>1. DOMAIN transaction' = Builds /\ transaction' = [d \in Builds |-> transaction'[d]]
      BY <1>1, <1>2, Typed
    <3>2. \A d \in Builds : transaction'[d] \in {Nobody} \cup Transactions
      BY <1>1, <1>3, <1>4 DEF NativeTypeOK
    <3> QED
      BY <3>1, <3>2
  <2>8. sawWhole' \in [Builds -> BOOLEAN]
    <3>1. (sawWhole[c] /\ phase[c] # "make") \in BOOLEAN
      OBVIOUS
    <3> QED
      BY <3>1, <1>1, <1>2 DEF NativeTypeOK
  <2> QED
    BY <1>1, <1>2, <2>1, <2>2, <2>3, <2>4, <2>5, <2>6, <2>7, <2>8
       DEF NativeTypeOK, Trees, FileSet, Roots, Transactions, Makers, Pairs
<1>7. CallOK(c)'
  <2>1. at'[c] \in {"confirm", "valid"} /\ (at'[c] = "valid" => sawWhole'[c])
    <3>1. at'[c] = "valid" => sawWhole[c] /\ phase[c] # "make"
      BY <1>1, <1>2, <1>3 DEF CallOK, Confirmed
    <3> QED
      BY <3>1, <1>1, <1>2, <1>3, Typed
  <2>2. Phased(c)'
    BY <1>3, <1>4, <2>1 DEF Phased, Making, Transactions, Makers, Pairs
  <2> QED
    BY <2>1, <2>2 DEF CallOK, Holding, Grown, Looked, Confirmed, Making, Reading, Locked, Active
<1>8. ASSUME NEW d \in Builds PROVE CallOK(d)'
  <2>1. CASE d # c
    <3>1. Holding(d) /\ d # Nobody /\ ProcessOf[d] \in Processes
      BY <1>1, Typed DEF NInv, CallOK
    <3>2. Kept(d)
      BY <2>1, <3>1, <1>2, <1>3, <1>5 DEF Kept, Holding
    <3>3. files' \in Nat /\ files <= files'
      BY <1>2, SameFiles
    <3>4. Unchanged' => Unchanged
      BY <1>2 DEF Unchanged
    <3> QED
      BY <3>2, <3>3, <3>4, KeptOK
  <2> QED
    BY <2>1, <1>7
<1>9. Traces'
  BY <1>2 DEF NInv, Traces
<1>10. \A d \in Builds : Gone(d) => Gone(d)'
  BY <1>2, <1>3 DEF Gone
<1>11. Owned'
  <2>1. ASSUME NEW d \in Builds
        PROVE  /\ Sealed(d) => Sealed(d)'
               /\ at[d] \in Making \cup Reading => Sealed(d)' \/ Gone(d)' \/ at'[d] \in Making \cup Reading
               /\ at'[d] \in Making => at[d] \in Making
    <3>1. CASE d = c
      BY <3>1, <1>3 DEF Making
    <3>2. CASE d # c
      BY <3>2, <1>3
    <3> QED
      BY <3>1, <3>2
  <2> QED
    BY <2>1, <1>2, <1>6, <1>10, OwnedStep
<1>12. ~ Sealed(c) /\ root.maker = c => created[c]
  BY <1>1, <1>2 DEF RootCall, RootMaker, Active, Locked
<1>13. Rooted'
  <2>1. ASSUME NEW d \in Builds PROVE RootMaker(d)' => RootMaker(d)
    <3>1. ASSUME NEW e \in Builds, Sealed(e)', transaction'[e].rootMaker = d PROVE RootMaker(d)
      BY <3>1, <1>3, <1>4 DEF RootMaker
    <3> QED
      BY <3>1, <1>2 DEF RootMaker
  <2>2. ASSUME NEW d \in Builds PROVE RootCall(d)'
    <3>1. RootCall(d)
      BY DEF NInv, Rooted
    <3>2. CASE d = c
      BY <3>2, <1>2, <1>3 DEF RootCall, Active, Locked
    <3>3. CASE d # c
      <4>1. at'[d] = at[d] /\ created'[d] = created[d] /\ Sealed(d)' = Sealed(d) /\ root' = root
        BY <3>3, <1>2, <1>3
      <4> QED
        BY <3>1, <4>1, <2>1 DEF RootCall
    <3> QED
      BY <3>2, <3>3
  <2>3. ASSUME NEW m, m = root.maker, m = Nobody \/ Sealed(m)' PROVE root.synced
    <3>1. CASE m = c /\ ~ Sealed(c)
      BY <3>1, <2>3, <1>1, <1>2, <1>12 DEF RootCall
    <3>2. CASE m = Nobody \/ Sealed(m)
      BY <3>2, <2>3, <1>5 DEF NInv, Rooted
    <3>3. m \in Builds \cup {Nobody}
      BY <2>3, <1>1 DEF Roots, Makers
    <3> QED
      BY <3>1, <3>2, <3>3, <2>3, <1>3
  <2> QED
    BY <2>2, <2>3, <1>2 DEF Rooted, Sealed
<1>14. Lasting'
  <2> SUFFICES ASSUME Unchanged PROVE Lasting'
    BY <1>2 DEF Lasting, Unchanged
  <2>1. \A d \in Builds : My(d)' = My(d)
    BY <1>2 DEF My
  <2>2. ASSUME NEW a \in Authorities, tree[a].made, NEW m, m = tree[a].maker, Sealed(m)'
        PROVE  Whole(tree[a]) /\ tree[a].filled /\ tree[a].synced
    <3>1. m \in Builds /\ AuthorityOf[m] = a
      BY <2>2 DEF NInv, Owned
    <3>2. CASE Sealed(m)
      BY <2>2, <3>2 DEF NInv, Lasting
    <3>3. CASE ~ Sealed(m)
      <4>1. m = c /\ My(c) = tree[a] /\ My(c).maker = c /\ ~ Sealed(c)
        BY <2>2, <3>1, <3>3, <1>3 DEF My
      <4> QED
        BY <4>1, <1>1, <1>2 DEF CallOK, Grown, Reading
    <3> QED
      BY <3>2, <3>3
  <2>3. ASSUME NEW d \in Builds, Sealed(d)', NEW t, t = transaction'[d]
        PROVE  /\ t.maker \in Builds /\ (Sealed(t.maker)' \/ Gone(t.maker)')
               /\ Anchored(t)' => Stands(d)' /\ My(d)'.maker = t.maker /\ root.maker = t.rootMaker
               /\ events["outage"] = 0 => Stands(d)'
    <3>1. CASE d = c /\ ~ Sealed(c)
      <4>1. /\ Whole(My(c)) /\ captured[c] = [wheel |-> My(c).wheel.id, native |-> My(c).native.id]
            /\ t = t0
        BY <2>3, <3>1, <1>1, <1>2, <1>4 DEF CallOK, Looked
      <4>2. t.maker \in Builds /\ (Sealed(t.maker) \/ Gone(t.maker) \/ at[t.maker] \in Making \cup Reading)
        BY <4>1, <1>1, Typed DEF NInv, Owned, Whole, My
      <4>3. at[t.maker] \in Making \cup Reading => t.maker = c
        <5>1. Holding(t.maker)
          BY <4>2 DEF NInv, CallOK
        <5> QED
          BY <5>1, <1>5 DEF Holding, Making, Reading, Locked
      <4>4. Stands(d)'
        BY <2>1, <3>1, <4>1, <2>3, <1>2 DEF Stands, Whole
      <4> QED
        BY <2>1, <3>1, <4>1, <4>2, <4>3, <4>4, <1>3, <1>10
    <3>2. CASE Sealed(d) /\ transaction'[d] = transaction[d]
      <4>1. /\ t.maker \in Builds /\ (Sealed(t.maker) \/ Gone(t.maker))
            /\ Anchored(t) => Stands(d) /\ My(d).maker = t.maker /\ root.maker = t.rootMaker
            /\ events["outage"] = 0 => Stands(d)
        BY <2>3, <3>2 DEF NInv, Lasting
      <4>2. t \in Transactions
        BY <2>3, <3>2 DEF NInv, CallOK, Phased
      <4>3. t.maker # c \/ Sealed(c)
        BY <4>1, <1>2 DEF Gone
      <4>4. t.rootMaker = c => Sealed(c) \/ created[c]
        BY <2>3, <3>2, <1>1, <1>2 DEF RootCall, RootMaker, Active, Locked
      <4>5. Anchored(t)' => Anchored(t)
        BY <4>1, <4>2, <4>3, <4>4, <1>3 DEF Anchored, Transactions, Makers
      <4>6. Stands(d)' = Stands(d)
        BY <2>1, <3>2 DEF Stands, Whole
      <4> QED
        BY <2>1, <4>1, <4>5, <4>6, <1>3, <1>10
    <3> QED
      BY <3>1, <3>2, <2>3, <1>3, <1>4
  <2>4. \A a \in Authorities : tree[a].made /\ Sealed(tree[a].maker)' =>
          Whole(tree[a]) /\ tree[a].filled /\ tree[a].synced
    BY <2>2, <1>2 DEF Sealed
  <2>5. \A d \in Builds : Sealed(d)' => (LET t == transaction[d] IN
               /\ t.maker \in Builds /\ (Sealed(t.maker) \/ Gone(t.maker))
               /\ Anchored(t) => Stands(d) /\ My(d).maker = t.maker /\ root.maker = t.rootMaker
               /\ events["outage"] = 0 => Stands(d))'
    BY <1>2, <2>3 DEF Sealed, Gone, Anchored
  <2> QED
    BY <2>4, <2>5, <1>2 DEF Lasting, Whole, Sealed
<1>15. Undisturbed'
  <2>1. \A d \in Builds \ {c} : Quietly(d)'
    <3>1. at[c] \in Active /\ at'[c] # "idle"
      BY <1>2, <1>3 DEF Active, Locked
    <3> QED
      BY <3>1, <1>3, QuietOthers
  <2>2. Quietly(c)'
    BY <1>3 DEF Quietly
  <2>3. Made' = Made
    BY <1>2 DEF Made
  <2> QED
    BY <2>1, <2>2, <2>3, <1>2, <1>5 DEF NInv, Undisturbed
<1> QED
  BY <1>6, <1>8, <1>9, <1>11, <1>13, <1>14, <1>15 DEF NInv

LEMMA KillStep == ASSUME NInv, NEW p \in Processes, Kill(p) PROVE NInv'
<1> DEFINE dead == {c \in Builds : ProcessOf[c] \in {p} /\ at[c] \in Active \cup {"confirm"}}
<1>1. NativeTypeOK
  BY DEF NInv
<1>2. /\ events' = [events EXCEPT !["kill"] = @ + 1]
      /\ UNCHANGED <<root, tree, files, phase, transaction, sawWhole>>
      /\ at' = [c \in Builds |-> IF c \in dead THEN "lost" ELSE at[c]]
      /\ rootLock' = IF rootLock \in dead THEN Nobody ELSE rootLock
      /\ processLock' = [r \in Processes |-> IF r \in {p} THEN Nobody ELSE processLock[r]]
      /\ window' = [c \in Builds |-> IF c \in dead THEN Nobody ELSE window[c]]
      /\ created' = [c \in Builds |-> c \notin dead /\ created[c]]
      /\ captured' = [c \in Builds |-> IF c \in dead THEN NoFiles ELSE captured[c]]
  BY DEF Kill, Die, Happens, history
<1>3. \A c \in Builds : c \in dead <=> ProcessOf[c] = p /\ at[c] \in Active \cup {"confirm"}
  OBVIOUS
<1> HIDE DEF dead
<1>4. /\ events' \in [Outside -> Nat] /\ events'["change"] = events["change"]
      /\ events'["outage"] = events["outage"]
  BY <1>1, <1>2 DEF NativeTypeOK, Outside
<1>5. ASSUME NEW c \in Builds
      PROVE  /\ c \in dead => at'[c] = "lost" /\ ~ created'[c]
             /\ c \notin dead => /\ at'[c] = at[c] /\ window'[c] = window[c]
                                 /\ captured'[c] = captured[c] /\ created'[c] = created[c]
             /\ Sealed(c)' = Sealed(c)
  <2>1. created[c] \in BOOLEAN
    BY <1>1 DEF NativeTypeOK
  <2> QED
    BY <1>2, <2>1 DEF Sealed
<1>6. NativeTypeOK'
  <2>1. at' \in [Builds -> Active \cup Resting]
    BY <1>1, <1>2 DEF NativeTypeOK, Resting
  <2>2. window' = [d \in Builds |-> window'[d]]
    BY <1>2
  <2>3. processLock' \in [Processes -> Makers] /\ rootLock' \in Makers
    BY <1>1, <1>2 DEF NativeTypeOK, Makers
  <2>4. created' \in [Builds -> BOOLEAN]
    BY <1>1, <1>2 DEF NativeTypeOK
  <2>5. captured' \in [Builds -> Pairs]
    BY <1>1, <1>2 DEF NativeTypeOK, Pairs, NoFiles
  <2> QED
    BY <1>1, <1>2, <1>4, <2>1, <2>2, <2>3, <2>4, <2>5 DEF NativeTypeOK, Trees, FileSet, Roots
<1>7. Unchanged' = Unchanged
  BY <1>4 DEF Unchanged
<1>8. ASSUME NEW c \in Builds PROVE CallOK(c)'
  <2>1. CallOK(c)
    BY DEF NInv
  <2>2. CASE c \in dead
    <3>1. at'[c] = "lost"
      BY <1>5, <2>2
    <3>2. Phased(c)'
      BY <1>2, <1>5, <2>1, <3>1 DEF CallOK, Phased, Making, Transactions, Makers, Pairs
    <3> QED
      BY <3>1, <3>2 DEF CallOK, Holding, Grown, Looked, Confirmed, Making, Reading, Locked, Active
  <2>3. CASE c \notin dead
    <3>1. at[c] \in Active => ProcessOf[c] # p
      BY <1>3, <2>3
    <3>2. at[c] \in Active => processLock'[ProcessOf[c]] = processLock[ProcessOf[c]]
      BY <3>1, <1>1, <1>2, Typed
    <3>3. at[c] \in Locked => rootLock = c
      BY <2>1 DEF CallOK, Holding
    <3>4. Kept(c)
      BY <1>2, <1>5, <2>3, <3>2, <3>3 DEF Kept
    <3>5. files' \in Nat /\ files <= files'
      BY <1>2, SameFiles
    <3> QED
      BY <3>4, <3>5, <1>7, KeptOK
  <2> QED
    BY <2>2, <2>3
<1>9. ASSUME NEW c \in Builds PROVE Onward(c)
  <2>1. RootCall(c)
    BY DEF NInv, Rooted
  <2>2. CASE c \in dead
    <3>1. at[c] \in Active \cup {"confirm"} /\ at'[c] = "lost" /\ ~ created'[c] /\ Sealed(c)' = Sealed(c)
      BY <1>3, <1>5, <2>2
    <3> QED
      BY <3>1 DEF Onward, Gone, Making, Active, Locked
  <2>3. CASE c \notin dead
    <3>1. at'[c] = at[c] /\ created'[c] = created[c] /\ Sealed(c)' = Sealed(c)
      BY <1>5, <2>3
    <3> QED
      BY <3>1, <2>1 DEF Onward, Gone, RootCall
  <2> QED
    BY <2>2, <2>3
<1>10. Traces'
  BY <1>2 DEF NInv, Traces
<1>11. Owned'
  BY <1>2, <1>6, <1>9, OwnedStep DEF Onward
<1>12. Rooted'
  BY <1>2, <1>9, SteadyRooted
<1>13. Lasting'
  <2>1. \A d \in Builds : Sealed(d)' = Sealed(d) /\ (Gone(d) => Gone(d)') /\ (created'[d] => created[d])
    BY <1>9 DEF Onward
  <2>2. \A a \in Authorities : SameTree(a)
    BY <1>2 DEF SameTree
  <2> QED
    BY <2>1, <2>2, <1>2, <1>4, <1>7, LastingStep
<1>14. Undisturbed'
  <2>1. Made' = Made /\ RootStamp' = RootStamp /\ StateStamp' = StateStamp
    BY <1>2, <1>4 DEF Made, RootStamp, StateStamp
  <2>2. \A e \in Builds : at'[e] = "idle" => at[e] = "idle"
    BY <1>5
  <2>3. ASSUME NEW d \in Builds PROVE Quietly(d)'
    <3>1. at'[d] \in {"open state", "make root", "open root"} => at'[d] = at[d] /\ window'[d] = window[d]
      BY <1>5
    <3> QED
      BY <2>1, <2>2, <3>1, <1>4, <1>7, QuietSame
  <2> QED
    BY <2>1, <2>3, <1>2, <1>4, <1>5 DEF NInv, Undisturbed
<1> QED
  BY <1>6, <1>8, <1>10, <1>11, <1>12, <1>13, <1>14 DEF NInv

\* Less may be there than before; what is there is what was.
LEMMA FewerMade ==
  ASSUME NInv, NEW S \in SUBSET Made
  PROVE  IsFiniteSet(S) /\ Cardinality(S) <= MaxAuthorityDirectories
<1>1. IsFiniteSet(Made) /\ Cardinality(Made) <= MaxAuthorityDirectories
  BY DEF NInv, Undisturbed
<1>2. IsFiniteSet(S) /\ Cardinality(S) <= Cardinality(Made)
  BY <1>1, FS_Subset
<1>3. Cardinality(S) \in Nat /\ Cardinality(Made) \in Nat /\ MaxAuthorityDirectories \in Nat
  BY <1>1, <1>2, FS_CardinalityType
<1> QED
  BY <1>1, <1>2, <1>3

LEMMA ChangeStep ==
  ASSUME NInv, NEW a \in Authorities, NEW f \in {"wheel", "native"}, Change(a, f)
  PROVE  NInv'
<1>1. NativeTypeOK /\ tree[a] \in Trees
  BY DEF NInv, NativeTypeOK
<1>2. /\ events' = [events EXCEPT !["change"] = @ + 1] /\ tree[a].made
      /\ UNCHANGED <<root, rootLock, processLock, at, phase, window, created, captured,
                     transaction, sawWhole>>
  BY DEF Change, Happens, locks, history
<1>3. PICK t \in Trees' : /\ tree' = [tree EXCEPT ![a] = t] /\ files' \in Nat /\ files <= files'
                          /\ t = NoTree \/ (t.made /\ t.maker = tree[a].maker)
                          /\ t = NoTree \/ t.native = tree[a].native
                             \/ t.native.bytes = "other" \/ (t.native.id = files + 1 /\ files' = files + 1)
  <2>1. files \in Nat
    BY <1>1 DEF NativeTypeOK
  <2>2. CASE /\ tree[a][f] # Missing /\ tree' = [tree EXCEPT ![a][f].bytes = "other"] /\ files' = files
    <3> DEFINE x == [tree[a][f] EXCEPT !.bytes = "other"]
               t == [tree[a] EXCEPT ![f] = x]
    <3>1. x \in FileSet /\ x.bytes = "other"
      <4>1. tree[a][f] \in FileSet
        BY <1>1 DEF Trees
      <4> QED
        BY <4>1, <2>2 DEF FileSet
    <3>2. tree' = [tree EXCEPT ![a] = t]
      BY <2>2
    <3> HIDE DEF x
    <3>3. t \in Trees /\ t.made = tree[a].made /\ t.maker = tree[a].maker
          /\ (t.native = tree[a].native \/ t.native.bytes = "other")
      <4>1. f = "wheel" => t \in Trees /\ t.made = tree[a].made /\ t.maker = tree[a].maker /\ t.native = tree[a].native
        BY <1>1, <3>1 DEF Trees
      <4>2. f = "native" => t \in Trees /\ t.made = tree[a].made /\ t.maker = tree[a].maker /\ t.native = x
        BY <1>1, <3>1 DEF Trees
      <4> QED
        BY <4>1, <4>2, <3>1
    <3>4. Trees' = Trees
      BY <2>2 DEF Trees, FileSet
    <3>5. files' \in Nat /\ files <= files'
      BY <2>2, SameFiles
    <3> HIDE DEF t
    <3> QED
      BY <1>2, <3>2, <3>3, <3>4, <3>5
  <2>3. CASE /\ tree[a][f] # Missing /\ tree' = [tree EXCEPT ![a][f].id = files + 1] /\ files' = files + 1
    <3> DEFINE x == [tree[a][f] EXCEPT !.id = files + 1]
               t == [tree[a] EXCEPT ![f] = x]
    <3>0. \A n \in Nat : n <= n + 1 /\ n + 1 \in Nat /\ n + 1 \in 1..(n + 1) /\ 1..n \subseteq 1..(n + 1)
      OBVIOUS
    <3>1. x \in FileSet' /\ x.id = files + 1
      <4>1. tree[a][f] \in FileSet
        BY <1>1 DEF Trees
      <4>2. tree[a][f] \in [bytes : {"partial", "exact", "other"}, id : 1..files]
        BY <4>1, <2>3 DEF FileSet
      <4> QED
        BY <4>2, <3>0, <2>1, <2>3 DEF FileSet
    <3>2. tree' = [tree EXCEPT ![a] = t]
      BY <2>3
    <3>3. FileSet \subseteq FileSet'
      BY <3>0, <2>1, <2>3 DEF FileSet
    <3> HIDE DEF x
    <3>4. t \in Trees' /\ t.made = tree[a].made /\ t.maker = tree[a].maker
          /\ (t.native = tree[a].native \/ t.native.id = files + 1)
      <4>1. f = "wheel" => t \in Trees' /\ t.made = tree[a].made /\ t.maker = tree[a].maker /\ t.native = tree[a].native
        BY <1>1, <3>1, <3>3 DEF Trees
      <4>2. f = "native" => t \in Trees' /\ t.made = tree[a].made /\ t.maker = tree[a].maker /\ t.native = x
        BY <1>1, <3>1, <3>3 DEF Trees
      <4> QED
        BY <4>1, <4>2, <3>1
    <3>5. files' \in Nat /\ files <= files'
      BY <3>0, <2>1, <2>3
    <3> HIDE DEF t
    <3> QED
      BY <1>2, <2>3, <3>2, <3>4, <3>5
  <2>4. CASE tree' = [tree EXCEPT ![a] = NoTree] /\ files' = files
    <3>1. NoTree \in Trees'
      BY DEF NoTree, Trees, Makers, FileSet
    <3>2. files' \in Nat /\ files <= files'
      BY <2>4, SameFiles
    <3> QED
      BY <2>4, <3>1, <3>2
  <2> QED
    BY <2>2, <2>3, <2>4 DEF Change
<1>4. /\ tree'[a] = t /\ \A b \in Authorities : b # a => tree'[b] = tree[b]
      /\ ~ NoTree.made /\ NoTree.native.bytes = "none" /\ NoTree.native.id = 0
  BY <1>1, <1>3, Typed DEF NoTree, Missing
<1>5. ~ Unchanged'
  <2>1. events["change"] \in Nat
    BY <1>1 DEF NativeTypeOK, Outside
  <2>2. events'["change"] = events["change"] + 1
    BY <1>1, <1>2 DEF NativeTypeOK, Outside
  <2> QED
    BY <2>1, <2>2 DEF Unchanged
<1>6. NativeTypeOK'
  <2>1. tree' \in [Authorities -> Trees']
    <3>1. files \in Nat /\ files' \in Nat /\ files <= files'
      BY <1>1, <1>3 DEF NativeTypeOK
    <3>2. 1..files \subseteq 1..files'
      BY <3>1
    <3>3. Trees \subseteq Trees'
      BY <3>2 DEF Trees, FileSet
    <3> QED
      BY <3>3, <1>1, <1>3 DEF NativeTypeOK
  <2>2. events' \in [Outside -> Nat]
    BY <1>1, <1>2 DEF NativeTypeOK, Outside
  <2> QED
    BY <1>1, <1>2, <1>3, <2>1, <2>2 DEF NativeTypeOK, Roots
<1>7. ASSUME NEW c \in Builds PROVE CallOK(c)'
  <2>1. CallOK(c) /\ captured[c] \in Pairs /\ files \in Nat
    BY <1>1 DEF NInv, NativeTypeOK
  <2>2. Holding(c)' /\ Phased(c)'
    BY <1>2, <2>1 DEF CallOK, Holding, Phased, Sealed, Transactions, Makers, Pairs
  <2>3. Grown(c)' /\ Looked(c)'
    BY <1>5 DEF Grown, Looked
  <2>4. Confirmed(c)'
    <3>1. Confirmed(c) /\ Sealed(c)' = Sealed(c)
      BY <1>2, <2>1 DEF CallOK, Sealed
    <3>2. captured[c].native <= files => /\ captured[c].native <= files'
                                         /\ captured[c].native # files + 1
      BY <2>1, <1>3 DEF Pairs
    <3>3. CASE AuthorityOf[c] # a
      <4>1. My(c)' = My(c)
        BY <3>3, <1>1, <1>2, <1>4, Typed DEF My
      <4> QED
        BY <3>1, <3>2, <4>1, <1>2 DEF Confirmed
    <3>4. CASE AuthorityOf[c] = a
      <4>1. My(c)' = t /\ My(c) = tree[a]
        BY <3>4, <1>2, <1>4 DEF My
      <4>2. CASE t.native = tree[a].native
        BY <3>1, <3>2, <4>1, <4>2, <1>2 DEF Confirmed
      <4>3. CASE t.native.bytes \in {"none", "other"}
        BY <3>1, <3>2, <4>1, <4>3, <1>2 DEF Confirmed
      <4>4. CASE t.native.id = files + 1
        BY <3>1, <3>2, <4>1, <4>4, <1>2 DEF Confirmed
      <4> QED
        BY <4>2, <4>3, <4>4, <1>3, <1>4
    <3> QED
      BY <3>3, <3>4
  <2> QED
    BY <2>2, <2>3, <2>4 DEF CallOK
<1>8. Traces'
  <2>1. root.made
    BY <1>2 DEF NInv, Traces
  <2> QED
    BY <2>1, <1>2, <1>3, <1>4 DEF NInv, Traces
<1>9. \A d \in Builds : Sealed(d)' = Sealed(d)
  BY <1>2 DEF Sealed
<1>10. \A b \in Authorities : tree'[b].made => tree[b].made /\ tree'[b].maker = tree[b].maker
  BY <1>2, <1>3, <1>4
<1>11. Owned'
  BY <1>2, <1>6, <1>9, <1>10, OwnedStep DEF Gone
<1>12. Rooted'
  <2>1. \A d \in Builds : Onward(d)
    BY <1>2, <1>9 DEF NInv, Rooted, RootCall, Onward, Gone
  <2> QED
    BY <2>1, <1>2, SteadyRooted
<1>13. Lasting'
  BY <1>5 DEF Lasting
<1>14. Undisturbed'
  <2>1. Made' \subseteq Made
    BY <1>10 DEF Made
  <2>2. events'["outage"] = events["outage"]
    BY <1>1, <1>2 DEF NativeTypeOK, Outside
  <2> QED
    BY <2>1, <2>2, <1>2, <1>5, <1>9, FewerMade DEF NInv, Undisturbed, Quietly
<1> QED
  BY <1>6, <1>7, <1>8, <1>11, <1>12, <1>13, <1>14 DEF NInv

LEMMA OutageStep == ASSUME NInv, Outage PROVE NInv'
<1> DEFINE dead == {c \in Builds : ProcessOf[c] \in Processes /\ at[c] \in Active \cup {"confirm"}}
           Unsynced == /\ \A a \in Authorities : tree'[a] = tree[a] \/ (~ tree[a].synced /\ tree'[a] = NoTree)
                       /\ tree' \in [Authorities -> UNION {{NoTree, tree[a]} : a \in Authorities}]
                       /\ root' = root
           Unfilled == /\ \E a \in Authorities :
                            /\ tree[a].made /\ ~ tree[a].filled
                            /\ tree' = [tree EXCEPT ![a].wheel = Missing, ![a].native = Missing]
                       /\ root' = root
           Unrooted == /\ root.made /\ ~ root.synced /\ root' = NoRoot
                       /\ tree' = [a \in Authorities |-> NoTree]
<1>1. NativeTypeOK
  BY DEF NInv
<1>2. /\ events' = [events EXCEPT !["outage"] = @ + 1]
      /\ UNCHANGED <<files, phase, transaction, sawWhole>>
      /\ at' = [c \in Builds |-> IF c \in dead THEN "lost" ELSE at[c]]
      /\ rootLock' = IF rootLock \in dead THEN Nobody ELSE rootLock
      /\ processLock' = [r \in Processes |-> IF r \in Processes THEN Nobody ELSE processLock[r]]
      /\ window' = [c \in Builds |-> IF c \in dead THEN Nobody ELSE window[c]]
      /\ created' = [c \in Builds |-> c \notin dead /\ created[c]]
      /\ captured' = [c \in Builds |-> IF c \in dead THEN NoFiles ELSE captured[c]]
  BY DEF Outage, Die, Happens, history
<1>3. Unsynced \/ Unfilled \/ Unrooted
  BY DEF Outage
<1>4. \A c \in Builds : c \in dead <=> at[c] \in Active \cup {"confirm"}
  BY <1>1, Typed
<1> HIDE DEF dead
<1>5. /\ events' \in [Outside -> Nat] /\ events'["change"] = events["change"]
      /\ events'["outage"] # 0
  <2>1. events["outage"] \in Nat /\ events'["outage"] = events["outage"] + 1
    BY <1>1, <1>2 DEF NativeTypeOK, Outside
  <2> QED
    BY <2>1, <1>1, <1>2 DEF NativeTypeOK, Outside
<1>6. ASSUME NEW c \in Builds
      PROVE  /\ ~ created'[c] /\ Sealed(c)' = Sealed(c) /\ (Gone(c) => Gone(c)')
             /\ at[c] \in Active => at'[c] = "lost"
             /\ at'[c] \in {"idle", "valid", "stale", "refused", "lost"}
             /\ at'[c] = "lost" \/ at'[c] = at[c]
  <2>1. created[c] => at[c] \in Active
    BY DEF NInv, Rooted, RootCall, Active
  <2>2. at[c] \in Active \cup Resting
    BY <1>1 DEF NativeTypeOK
  <2> QED
    BY <1>2, <1>4, <2>1, <2>2 DEF Sealed, Gone, Resting
<1>7. NoTree \in Trees /\ ~ NoTree.made
  BY DEF NoTree, Trees, Makers, FileSet
\* Whatever is lost: a tree that is there was there, and what was whole on disk still is.
<1>8. /\ tree' \in [Authorities -> Trees] /\ root' \in Roots
      /\ \A a \in Authorities :
           /\ tree'[a].made \/ tree'[a] = NoTree
           /\ tree'[a].made => /\ tree[a].made /\ tree'[a].maker = tree[a].maker
                               /\ tree[a].filled => tree'[a] = tree[a]
  <2>1. CASE Unsynced
    <3>1. tree' \in [Authorities -> Trees]
      BY <2>1, <1>1, <1>7 DEF NativeTypeOK
    <3>2. \A a \in Authorities : tree[a].made \/ tree[a] = NoTree
      BY DEF NInv, Traces
    <3> QED
      BY <2>1, <3>1, <3>2, <1>1, <1>7 DEF NativeTypeOK
  <2>2. CASE Unfilled
    <3>1. PICK a \in Authorities : /\ tree[a].made /\ ~ tree[a].filled
                                   /\ tree' = [tree EXCEPT ![a].wheel = Missing, ![a].native = Missing]
      BY <2>2
    <3> DEFINE t == [tree[a] EXCEPT !.wheel = Missing, !.native = Missing]
    <3>2. tree' = [tree EXCEPT ![a] = t]
      <4>1. /\ tree'[a] = t /\ \A b \in Authorities : b # a => tree'[b] = tree[b]
            /\ tree' = [b \in Authorities |-> tree'[b]]
        BY <3>1, <1>1, Typed
      <4> QED
        BY <4>1, <1>1, Typed
    <3>3. tree[a] \in Trees
      BY <1>1 DEF NativeTypeOK
    <3>4. t \in Trees /\ t.made = tree[a].made /\ t.maker = tree[a].maker
      BY <3>3 DEF Trees, FileSet
    <3> HIDE DEF t
    <3>5. tree' \in [Authorities -> Trees]
      BY <3>2, <3>4, <1>1 DEF NativeTypeOK
    <3>6. tree'[a] = t /\ \A b \in Authorities : b # a => tree'[b] = tree[b]
      BY <3>2, <1>1, Typed
    <3>7. \A b \in Authorities : tree[b].made \/ tree[b] = NoTree
      BY DEF NInv, Traces
    <3> QED
      BY <2>2, <3>1, <3>4, <3>5, <3>6, <3>7, <1>1 DEF NativeTypeOK
  <2>3. CASE Unrooted
    <3>1. tree' \in [Authorities -> Trees] /\ \A a \in Authorities : tree'[a] = NoTree
      BY <2>3, <1>7
    <3>2. root' \in Roots
      BY <2>3 DEF NoRoot, Roots, Makers
    <3> QED
      BY <3>1, <3>2, <1>7
  <2> QED
    BY <1>3, <2>1, <2>2, <2>3
<1>9. NativeTypeOK'
  <2>1. at' \in [Builds -> Active \cup Resting]
    BY <1>1, <1>2 DEF NativeTypeOK, Resting
  <2>2. window' = [d \in Builds |-> window'[d]]
    BY <1>2
  <2>3. processLock' \in [Processes -> Makers] /\ rootLock' \in Makers
    BY <1>1, <1>2 DEF NativeTypeOK, Makers
  <2>4. created' \in [Builds -> BOOLEAN]
    BY <1>1, <1>2 DEF NativeTypeOK
  <2>5. captured' \in [Builds -> Pairs]
    BY <1>1, <1>2 DEF NativeTypeOK, Pairs, NoFiles
  <2> QED
    BY <1>1, <1>2, <1>5, <1>8, <2>1, <2>2, <2>3, <2>4, <2>5 DEF NativeTypeOK, Trees, FileSet, Roots
<1>10. ASSUME NEW c \in Builds PROVE CallOK(c)'
  <2>1. CallOK(c)
    BY DEF NInv
  <2>2. Phased(c)'
    BY <1>2, <1>6, <2>1 DEF CallOK, Phased, Making, Transactions, Makers, Pairs
  <2>3. Confirmed(c)'
    BY <1>2, <1>6, <2>1 DEF CallOK, Confirmed
  <2> QED
    BY <1>6, <2>2, <2>3 DEF CallOK, Holding, Grown, Looked, Making, Reading, Locked, Active
<1>11. Traces'
  <2>1. root' = root \/ (root' = NoRoot /\ \A a \in Authorities : tree'[a] = NoTree)
    BY <1>3
  <2> QED
    BY <2>1, <1>7, <1>8 DEF NInv, Traces
<1>12. Owned'
  <2>1. ASSUME NEW d \in Builds
        PROVE  /\ Sealed(d) => Sealed(d)'
               /\ Gone(d) => Gone(d)'
               /\ at[d] \in Making \cup Reading => Sealed(d)' \/ Gone(d)' \/ at'[d] \in Making \cup Reading
               /\ at'[d] \in Making => at[d] \in Making
    BY <1>6 DEF Gone, Making, Reading, Locked, Active
  <2> QED
    BY <2>1, <1>8, <1>9, OwnedStep
<1>13. Rooted'
  <2>1. root'.made => root' = root
    BY <1>3 DEF NoRoot
  <2>2. ASSUME NEW d \in Builds PROVE RootMaker(d)' => RootMaker(d)
    <3>1. root'.maker = d => root.maker = d
      BY <1>1, <1>3, Typed DEF NoRoot
    <3> QED
      BY <3>1, <1>2, <1>6 DEF RootMaker
  <2>3. ASSUME NEW d \in Builds PROVE RootCall(d)'
    <3>1. RootCall(d)
      BY DEF NInv, Rooted
    <3> QED
      BY <3>1, <2>2, <1>6 DEF RootCall, Locked, Active
  <2>4. ASSUME NEW m, m = root.maker, root.made, m = Nobody \/ Sealed(m)' PROVE root.synced
    <3>1. m \in Builds \cup {Nobody}
      BY <2>4, <1>1 DEF NativeTypeOK, Roots, Makers
    <3> QED
      BY <3>1, <2>4, <1>6 DEF NInv, Rooted
  <2> QED
    BY <2>1, <2>3, <2>4 DEF Rooted, Sealed
<1>14. Lasting'
  <2> SUFFICES ASSUME Unchanged PROVE Lasting'
    BY <1>5 DEF Lasting, Unchanged
  <2>1. ASSUME NEW a \in Authorities, tree'[a].made, NEW m, m = tree'[a].maker, Sealed(m)'
        PROVE  Whole(tree[a])' /\ tree'[a].filled /\ tree'[a].synced
    <3>1. tree[a].made /\ m = tree[a].maker /\ m \in Builds
      BY <2>1, <1>8 DEF NInv, Owned
    <3>2. Whole(tree[a]) /\ tree[a].filled /\ tree[a].synced
      BY <2>1, <3>1, <1>6 DEF NInv, Lasting
    <3> QED
      BY <2>1, <3>2, <1>8 DEF Whole
  <2>2. ASSUME NEW d \in Builds, Sealed(d), NEW t, t = transaction[d]
        PROVE  /\ t.maker \in Builds /\ (Sealed(t.maker)' \/ Gone(t.maker)')
               /\ Anchored(t)' => Stands(d)' /\ My(d)'.maker = t.maker /\ root'.maker = t.rootMaker
    <3>1. /\ t.maker \in Builds /\ (Sealed(t.maker) \/ Gone(t.maker))
          /\ Anchored(t) => Stands(d) /\ My(d).maker = t.maker /\ root.maker = t.rootMaker
      BY <2>2 DEF NInv, Lasting
    <3>2. t \in Transactions
      BY <2>2 DEF NInv, CallOK, Phased
    <3>3. Anchored(t)' => Anchored(t) /\ Sealed(t.maker) /\ (t.rootMaker = Nobody \/ Sealed(t.rootMaker))
      BY <3>1, <3>2, <1>6 DEF Anchored, Transactions, Makers
    <3>4. ASSUME Anchored(t)' PROVE tree'[AuthorityOf[d]] = tree[AuthorityOf[d]] /\ root' = root
      <4> DEFINE a0 == AuthorityOf[d]
      <4>1. /\ a0 \in Authorities /\ tree[a0].made /\ tree[a0].maker = t.maker
            /\ root.maker = t.rootMaker
        BY <3>1, <3>3, <3>4, <1>1, Typed DEF Stands, Whole, My
      <4>2. tree[a0].filled /\ tree[a0].synced
        BY <4>1, <3>3, <3>4 DEF NInv, Lasting
      <4>3. root.made /\ root.synced
        BY <4>1, <3>3, <3>4 DEF NInv, Rooted, Traces
      <4>4. CASE Unsynced
        BY <4>1, <4>2, <4>4
      <4>5. CASE Unfilled
        <5>1. PICK a \in Authorities : /\ tree[a].made /\ ~ tree[a].filled
                                       /\ tree' = [tree EXCEPT ![a].wheel = Missing, ![a].native = Missing]
          BY <4>5
        <5> QED
          BY <4>1, <4>2, <4>5, <5>1, <1>1, Typed
      <4>6. CASE Unrooted
        BY <4>3, <4>6
      <4> QED
        BY <1>3, <4>4, <4>5, <4>6
    <3>5. tree'[AuthorityOf[d]] = tree[AuthorityOf[d]] => My(d)' = My(d) /\ Stands(d)' = Stands(d)
      BY <1>2 DEF My, Stands, Whole
    <3> QED
      BY <3>1, <3>3, <3>4, <3>5, <1>6
  <2>3. \A a \in Authorities : tree'[a].made /\ Sealed(tree[a].maker)' =>
          Whole(tree[a])' /\ tree'[a].filled /\ tree'[a].synced
    BY <2>1 DEF Sealed
  <2>4. \A d \in Builds : Sealed(d)' => (LET t == transaction[d] IN
               /\ t.maker \in Builds /\ (Sealed(t.maker) \/ Gone(t.maker))
               /\ Anchored(t) => Stands(d) /\ My(d).maker = t.maker /\ root.maker = t.rootMaker
               /\ events["outage"] = 0 => Stands(d))'
    BY <1>2, <1>5, <1>6, <2>2 DEF Sealed, Gone, Anchored
  <2> QED
    BY <2>3, <2>4 DEF Lasting
<1>15. Undisturbed'
  <2>1. Made' \subseteq Made
    BY <1>8 DEF Made
  <2> QED
    BY <2>1, <1>5, FewerMade DEF Undisturbed, Quietly
<1> QED
  BY <1>9, <1>10, <1>11, <1>12, <1>13, <1>14, <1>15 DEF NInv

LEMMA InitOK == ASSUME NativeInit PROVE NInv
<1>0. /\ root \in Roots /\ root.maker = Nobody /\ (root.made => root.synced)
      /\ root.made \/ root = NoRoot
  <2>1. NoRoot \in Roots /\ ~ NoRoot.made /\ NoRoot.maker = Nobody
    BY DEF NoRoot, Roots, Makers
  <2>2. CASE root = NoRoot
    BY <2>1, <2>2
  <2>3. CASE root = [NoRoot EXCEPT !.made = TRUE, !.synced = TRUE]
    BY <2>1, <2>3 DEF Roots
  <2> QED
    BY <2>2, <2>3 DEF NativeInit
<1>1. NativeTypeOK
  <2>2. NoTree \in Trees
    BY DEF NoTree, Trees, Makers, FileSet
  <2> QED
    BY <1>0, <2>2 DEF NativeInit, NativeTypeOK, Makers, Pairs, NoFiles, Active, Resting
<1>2. /\ \A c \in Builds : /\ at[c] = "idle" /\ phase[c] = "make" /\ transaction[c] = Nobody
                           /\ ~ created[c] /\ ~ Sealed(c)
      /\ \A a \in Authorities : tree[a] = NoTree /\ ~ tree[a].made
  BY DEF NativeInit, Sealed, NoTree
<1>3. Traces
  BY <1>0, <1>2 DEF Traces
<1>4. ASSUME NEW c \in Builds PROVE CallOK(c)
  BY <1>2 DEF CallOK, Holding, Phased, Grown, Looked, Confirmed, Making, Reading, Locked, Active
<1>5. Owned
  BY <1>2, Typed, <1>1 DEF Owned, Making
<1>6. Rooted
  BY <1>0, <1>1, <1>2, Typed DEF Rooted, RootCall, RootMaker, Active, Locked
<1>7. Lasting
  BY <1>2 DEF Lasting
<1>8. Undisturbed
  <2>1. Made = {}
    BY <1>2 DEF Made
  <2>2. IsFiniteSet(Made) /\ Cardinality(Made) = 0
    BY <2>1, FS_EmptySet
  <2>3. \A n \in Nat : 0 <= n
    OBVIOUS
  <2>4. MaxAuthorityDirectories \in Nat
    OBVIOUS
  <2>5. \A c \in Builds : Quietly(c)
    BY <1>2 DEF Quietly
  <2> QED
    BY <2>2, <2>3, <2>4, <2>5, <1>2 DEF Undisturbed
<1> QED
  BY <1>1, <1>3, <1>4, <1>5, <1>6, <1>7, <1>8 DEF NInv

LEMMA ObstructedStep == ASSUME NInv, NEW c \in Builds, Obstructed(c) PROVE NInv'
BY RefuseStep DEF Obstructed, Active, Locked

LEMMA CreateTreeStep == ASSUME NInv, NEW c \in Builds, CreateTree(c) PROVE NInv'
BY TakeOverStep, MakeTreeStep

LEMMA NextOK == ASSUME NInv, NativeNext PROVE NInv'
<1>1. ASSUME NEW c \in Builds, Open(c) PROVE NInv'
  BY <1>1, EnterStep, OpenStateStep, MakeRootStep, OpenRootStep, LockStep DEF Open
<1>2. ASSUME NEW c \in Builds, WriteTree(c) PROVE NInv'
  BY <1>2, CreateTreeStep, WriteStep, CompleteStep, SyncTreeStep, ObstructedStep DEF WriteTree
<1>3. ASSUME NEW c \in Builds, CaptureTree(c) \/ SyncState(c) \/ Seal(c) \/ Revalidate(c) \/ Fails(c)
      PROVE  NInv'
  BY <1>3, CaptureStep, SyncStateStep, SealStep, RevalidateStep, FailsStep
<1>4. ASSUME NEW p \in Processes, Kill(p) PROVE NInv'
  BY <1>4, KillStep
<1>5. ASSUME NEW a \in Authorities, NEW f \in {"wheel", "native"}, Change(a, f) PROVE NInv'
  BY <1>5, ChangeStep
<1> QED
  BY <1>1, <1>2, <1>3, <1>4, <1>5, OutageStep DEF NativeNext

LEMMA StutterOK == ASSUME NInv, UNCHANGED nativeVars PROVE NInv'
<1> USE DEF nativeVars
<1>1. /\ NativeTypeOK' /\ Traces'
  BY DEF NInv, NativeTypeOK, Traces, Trees, FileSet, Roots, Transactions, Pairs, Makers
<1>2. \A c \in Builds : CallOK(c)'
  <2> SUFFICES ASSUME NEW c \in Builds PROVE CallOK(c)'
    OBVIOUS
  <2>1. Kept(c)
    BY DEF Kept
  <2>2. files' \in Nat /\ files <= files'
    BY SameFiles
  <2>3. Unchanged' => Unchanged
    BY DEF Unchanged
  <2> QED
    BY <2>1, <2>2, <2>3, KeptOK
<1>3. Owned' /\ Rooted'
  BY DEF NInv, Owned, Rooted, RootCall, RootMaker, Sealed, Gone, My
<1>4. Lasting'
  <2>1. /\ \A c \in Builds : Stands(c)' = Stands(c) /\ My(c)' = My(c)
        /\ \A c : Sealed(c)' = Sealed(c) /\ Gone(c)' = Gone(c)
        /\ Unchanged' = Unchanged
    BY DEF Sealed, Gone, Stands, Whole, My, Unchanged
  <2>2. \A c \in Builds : Anchored(transaction[c])' = Anchored(transaction[c])
    BY <2>1 DEF Anchored
  <2>3. Lasting
    BY DEF NInv
  <2> QED
    BY <2>1, <2>2, <2>3 DEF Lasting, Whole
<1>5. Undisturbed'
  BY DEF NInv, Undisturbed, Quietly, Alone, Sealed, Unchanged, StateStamp, RootStamp, Made
<1> QED
  BY <1>1, <1>2, <1>3, <1>4, <1>5 DEF NInv

LEMMA NInvAlways == NativeSpec => []NInv
<1>1. NativeInit => NInv
  BY InitOK
<1>2. NInv /\ [NativeNext]_nativeVars => NInv'
  BY NextOK, StutterOK
<1> QED
  BY <1>1, <1>2, PTL DEF NativeSpec

\* Type correctness of the native output.
THEOREM NativeTyped == NativeSpec => []NativeTypeOK
<1>1. NInv => NativeTypeOK
  BY DEF NInv
<1> QED
  BY <1>1, NInvAlways, PTL

\* What a sealed transaction stands for: a whole tree, the same in every rerun.
THEOREM SealedHold == NativeSpec => []SealedTreesHold
<1>1. NInv => SealedTreesHold
  <2> SUFFICES ASSUME NInv PROVE SealedTreesHold
    OBVIOUS
  <2>1. ConfirmedWhole
    BY DEF NInv, CallOK, Confirmed, ConfirmedWhole
  <2>2. ASSUME NEW c \in Builds, Settled(c), Unchanged
        PROVE  Stands(c)
    <3> DEFINE t == transaction[c]
    <3>1. Sealed(c) /\ t \in Transactions
      BY <2>2 DEF Settled, NInv, CallOK, Phased
    <3>2. t.maker \in Builds /\ (Anchored(t) => Stands(c))
      BY <2>2, <3>1 DEF NInv, Lasting
    <3>3. \A m \in Builds : transaction[m] # Nobody => Sealed(m)
      BY DEF NInv, CallOK, Phased
    <3>4. t.rootMaker \in Builds \cup {Nobody}
      BY <3>1 DEF Transactions, Makers
    <3>5. Anchored(t)
      BY <2>2, <3>2, <3>3, <3>4 DEF Anchored, Settled
    <3> QED
      BY <3>2, <3>5
  <2>3. RerunsAgree
    <3> SUFFICES ASSUME NEW c \in Builds, NEW d \in Builds, Settled(c), Settled(d),
                        AuthorityOf[c] = AuthorityOf[d], events["change"] = 0
                 PROVE  transaction[c].files = transaction[d].files
      BY DEF RerunsAgree
    <3>1. Stands(c) /\ Stands(d) /\ My(c) = My(d)
      BY <2>2 DEF Unchanged, My
    <3> QED
      BY <3>1 DEF Stands
  <2> QED
    BY <2>1, <2>3 DEF SealedTreesHold
<1> QED
  BY <1>1, NInvAlways, PTL

\* An incomplete tree is never completed, and no tree replaced, by a call that did
\* not make it.
THEOREM NeverRepairs == NativeSpec => NeverRepaired
<1> DEFINE A == \A a \in Authorities, c \in Builds :
                  /\ tree[a].made /\ tree[a] # tree'[a] /\ at[c] # at'[c] /\ events' = events
                  => tree[a].maker = c \/ [tree[a] EXCEPT !.synced = TRUE] = tree'[a]
<1>1. ASSUME NInv, [NativeNext]_nativeVars PROVE A
  <2> SUFFICES ASSUME NEW a \in Authorities, NEW c \in Builds, tree[a].made, tree[a] # tree'[a],
                      at[c] # at'[c], events' = events
               PROVE  tree[a].maker = c \/ [tree[a] EXCEPT !.synced = TRUE] = tree'[a]
    BY <1>1
  <2>1. NativeTypeOK
    BY <1>1 DEF NInv
  <2>2. ~ \E e \in Outside : Happens(e)
    <3>1. \A e \in Outside : events[e] \in Nat
      BY <2>1 DEF NativeTypeOK
    <3>2. ASSUME NEW e \in Outside, events' = [events EXCEPT ![e] = @ + 1] PROVE FALSE
      <4>1. events'[e] = events[e] + 1
        BY <3>2, <2>1 DEF NativeTypeOK
      <4>2. \A n \in Nat : n # n + 1
        OBVIOUS
      <4> QED
        BY <4>1, <4>2, <3>1
    <3> QED
      BY <3>2 DEF Happens
  <2>3. PICK d \in Builds : Open(d) \/ WriteTree(d) \/ CaptureTree(d) \/ SyncState(d) \/ Seal(d) \/ Revalidate(d)
    BY <1>1, <2>2 DEF NativeNext, nativeVars, Fails, Kill, Change, Outage, Outside
  <2>4. tree' # tree
    OBVIOUS
  <2>5. CreateTree(d) \/ Write(d) \/ Complete(d) \/ SyncTree(d)
    BY <2>3, <2>4
       DEF Open, Enter, OpenState, MakeRoot, OpenRoot, Lock, WriteTree, Obstructed, CaptureTree,
         SyncState, Seal, Revalidate, Refuse, disk
  <2>6. d = c /\ My(c) = tree[AuthorityOf[c]] /\ AuthorityOf[c] \in Authorities
    BY <2>1, <2>5, Typed DEF CreateTree, Write, Complete, SyncTree, Move, My
  <2>7. at[c] \in Making /\ My(c).made => My(c).maker = c
    BY <1>1 DEF NInv, Owned
  <2>8. CASE CreateTree(c)
    <3>1. tree' = [tree EXCEPT ![AuthorityOf[c]] = [NoTree EXCEPT !.made = TRUE, !.maker = c]]
          /\ ~ My(c).made
      BY <2>4, <2>8 DEF CreateTree
    <3>2. a # AuthorityOf[c]
      BY <2>6, <3>1
    <3> QED
      BY <2>1, <3>1, <3>2, Typed
  <2>9. CASE Write(c)
    BY <2>1, <2>6, <2>7, <2>9, Typed DEF Write, Move, Making
  <2>10. CASE Complete(c)
    BY <2>1, <2>6, <2>7, <2>10, Typed DEF Complete, Move, Making
  <2>11. CASE SyncTree(c)
    <3>1. CASE tree' = [tree EXCEPT ![AuthorityOf[c]].filled = My(c).made] /\ at[c] = "sync tree"
      BY <2>1, <2>6, <2>7, <3>1, Typed DEF Making
    <3>2. CASE tree' = [b \in Authorities |-> [tree[b] EXCEPT !.synced = tree[b].made]]
      <4>1. tree[a] \in Trees /\ tree[a].made = TRUE
        BY <2>1 DEF NativeTypeOK, Trees
      <4> QED
        BY <3>2, <4>1
    <3> QED
      BY <2>11, <3>1, <3>2 DEF SyncTree, Move
  <2> QED
    BY <2>5, <2>6, <2>8, <2>9, <2>10, <2>11
<1> QED
  BY <1>1, NInvAlways, PTL DEF NativeSpec, NeverRepaired

\* With nothing from outside, a call of a process that is alone is refused only for a
\* tree that was left behind, or for the limit.
THEOREM RefusesForCause == NativeSpec => RefusedForCause
<1> DEFINE A == \A c \in Builds :
                  /\ at[c] \in Active /\ at'[c] \in {"refused", "stale"}
                  /\ events' = events /\ events["change"] = 0 /\ events["outage"] = 0
                  => \/ \E d \in Builds : ProcessOf[d] # ProcessOf[c] /\ at[d] # "idle"
                     \/ LeftBehind(AuthorityOf[c])
                     \/ ~My(c).made /\ Cardinality(Made) = MaxAuthorityDirectories
<1>1. ASSUME NInv, [NativeNext]_nativeVars PROVE A
  <2> SUFFICES ASSUME NEW c \in Builds, at[c] \in Active, at'[c] \in {"refused", "stale"}, events' = events,
                      Unchanged, events["outage"] = 0, Alone(c)
               PROVE  \/ LeftBehind(AuthorityOf[c])
                      \/ ~My(c).made /\ Cardinality(Made) = MaxAuthorityDirectories
    BY DEF Alone, Unchanged
  <2>1. NativeTypeOK /\ CallOK(c) /\ Quietly(c)
    BY <1>1 DEF NInv, Undisturbed
  <2>2. ~ \E e \in Outside : Happens(e)
    <3>1. \A e \in Outside : events[e] \in Nat
      BY <2>1 DEF NativeTypeOK
    <3>2. ASSUME NEW e \in Outside, events' = [events EXCEPT ![e] = @ + 1] PROVE FALSE
      <4>1. events'[e] = events[e] + 1
        BY <3>2, <2>1 DEF NativeTypeOK
      <4>2. \A n \in Nat : n # n + 1
        OBVIOUS
      <4> QED
        BY <4>1, <4>2, <3>1
    <3> QED
      BY <3>2 DEF Happens
  <2>3. at'[c] # at[c]
    BY DEF Active, Locked
  <2>4. PICK d \in Builds : Open(d) \/ WriteTree(d) \/ CaptureTree(d) \/ SyncState(d) \/ Seal(d) \/ Revalidate(d)
    BY <1>1, <2>2, <2>3 DEF NativeNext, nativeVars, Fails, Kill, Change, Outage, Outside
  <2>5. d = c
    <3>1. \E l : at' = [at EXCEPT ![d] = l]
      BY <2>4, <2>1, Typed
         DEF Open, Enter, OpenState, MakeRoot, OpenRoot, Lock, WriteTree, CreateTree, Write,
           Complete, SyncTree, Obstructed, CaptureTree, SyncState, Seal, Revalidate, Refuse, Move
    <3> QED
      BY <3>1, <2>1, <2>3, Typed
  <2>6. \A l : at' = [at EXCEPT ![c] = l] => l \in {"refused", "stale"}
    BY <2>1, Typed
  <2>7. My(c) = tree[AuthorityOf[c]] /\ AuthorityOf[c] \in Authorities
    BY <2>1, Typed DEF My
  <2>8. ~ Enter(c) /\ ~ MakeRoot(c) /\ ~ Lock(c) /\ ~ CreateTree(c) /\ ~ Write(c) /\ ~ Complete(c)
        /\ ~ SyncTree(c) /\ ~ SyncState(c) /\ ~ Seal(c) /\ ~ Revalidate(c)
    BY <2>6
       DEF Enter, MakeRoot, Lock, CreateTree, Write, Complete, SyncTree, SyncState, Seal,
           Revalidate, Move
  <2>9. ASSUME OpenState(c) PROVE FALSE
    <3>1. at[c] = "open state" /\ (window[c] # StateStamp \/ (~ root.made /\ phase[c] # "make"))
      BY <2>6, <2>9 DEF OpenState
    <3>2. window[c] = StateStamp
      BY <2>1, <3>1 DEF Quietly
    <3>3. Sealed(c) => root.made
      BY <1>1 DEF NInv, Undisturbed
    <3> QED
      BY <3>1, <3>2, <3>3 DEF Sealed
  <2>10. ASSUME OpenRoot(c) PROVE FALSE
    <3>1. at[c] = "open root" /\ window[c] # RootStamp
      BY <2>6, <2>10 DEF OpenRoot, Move
    <3> QED
      BY <2>1, <3>1 DEF Quietly
  <2>11. CASE Obstructed(c)
    <3>1. at[c] \in {"write wheel", "write native", "sync wheel", "sync native"} => FALSE
      BY <2>1, <2>11 DEF Obstructed, CallOK, Grown, Phased, Making
    <3>2. ~ My(c).made /\ Cardinality(Made) >= MaxAuthorityDirectories
      BY <2>11, <3>1 DEF Obstructed
    <3>3. Cardinality(Made) <= MaxAuthorityDirectories /\ Cardinality(Made) \in Nat
      BY <1>1, FS_CardinalityType DEF NInv, Undisturbed
    <3>4. \A n, m \in Nat : n >= m /\ n <= m => n = m
      OBVIOUS
    <3>5. MaxAuthorityDirectories \in Nat
      OBVIOUS
    <3> QED
      BY <3>2, <3>3, <3>4, <3>5
  <2>12. CASE CaptureTree(c)
    <3>1. at[c] \in {"read wheel", "read native", "reread wheel", "reread native"}
      BY <2>12 DEF CaptureTree, ReadingAt
    <3>2. ~ Reads(c)
      <4> SUFFICES ASSUME Reads(c) PROVE FALSE
        OBVIOUS
      <4>1. \E l \in {"read native", "sync state", "reread wheel", "reread native", "seal"} : at' = [at EXCEPT ![c] = l]
        BY <2>12, <3>1, <2>1, Typed DEF CaptureTree
      <4> QED
        BY <4>1, <2>6
    <3>3. rootLock = c /\ at[c] \in Reading
      BY <2>1, <3>1 DEF CallOK, Holding, Locked, Reading
    <3> DEFINE f == ReadingAt[at[c]].file
    <3>4. /\ f \in {"wheel", "native"} /\ (f = "wheel" <=> at[c] \in {"read wheel", "reread wheel"})
          /\ ReadingAt[at[c]].again <=> at[c] \in {"reread wheel", "reread native"}
      BY <3>1 DEF ReadingAt
    <3> HIDE DEF f
    <3>5. Whole(My(c)) => My(c).made /\ Missing \notin {My(c).wheel, My(c).native} /\ My(c)[f].bytes = "exact"
      <4>1. Missing.bytes = "none"
        BY DEF Missing
      <4> QED
        BY <3>4, <4>1 DEF Whole
    <3>6. CASE Sealed(c)
      <4>1. Stands(c)
        BY <1>1, <3>6 DEF NInv, Lasting
      <4>2. transaction[c].files[f] = My(c)[f].id
        <5>1. /\ transaction[c].files.wheel = My(c).wheel.id
              /\ transaction[c].files.native = My(c).native.id
          BY <4>1 DEF Stands
        <5> QED
          BY <5>1, <3>4
      <4>3. ReadingAt[at[c]].again => captured[c][f] = transaction[c].files[f]
        <5>1. at[c] \in {"reread wheel", "reread native"} =>
                /\ captured[c].wheel = transaction[c].files.wheel
                /\ captured[c].native = transaction[c].files.native
          BY <2>1, <3>6 DEF CallOK, Confirmed
        <5> QED
          BY <5>1, <3>4
      <4>4. Expected(c) = My(c)[f].id
        BY <4>2, <4>3, <3>6 DEF Expected, Sealed, f
      <4> QED
        BY <4>1, <4>4, <3>2, <3>5 DEF Reads, Stands, f
    <3>7. CASE ~ Sealed(c) /\ Whole(My(c))
      <4>2. ReadingAt[at[c]].again => captured[c][f] = My(c)[f].id
        <5>1. at[c] \in {"reread wheel", "reread native"} =>
                captured[c].wheel = My(c).wheel.id /\ captured[c].native = My(c).native.id
          BY <2>1, <3>7, LookedFields DEF CallOK
        <5> QED
          BY <5>1, <3>4
      <4>3. Expected(c) = My(c)[f].id
        BY <4>2, <3>7 DEF Expected, Sealed, f
      <4> QED
        BY <4>3, <3>2, <3>5, <3>7 DEF Reads, f
    <3>8. CASE ~ Sealed(c) /\ ~ Whole(My(c))
      <4> DEFINE m == My(c).maker
      <4>1. My(c).made /\ m # c
        BY <2>1, <3>3, <3>8 DEF CallOK, Grown
      <4>2. m \in Builds /\ (Sealed(m) \/ Gone(m) \/ at[m] \in Making \cup Reading)
        BY <4>1, <2>7, <1>1 DEF NInv, Owned
      <4>3. ~ Sealed(m)
        BY <4>1, <3>8, <2>7, <1>1 DEF NInv, Lasting
      <4>4. at[m] \notin Making \cup Reading
        <5>1. Holding(m)
          BY <4>2, <1>1 DEF NInv, CallOK
        <5> QED
          BY <5>1, <4>1, <3>3 DEF Holding, Making, Reading, Locked
      <4> QED
        BY <4>1, <4>2, <4>3, <4>4, <3>8, <2>7 DEF LeftBehind, Gone
    <3> QED
      BY <3>6, <3>7, <3>8
  <2> QED
    BY <2>4, <2>5, <2>8, <2>9, <2>10, <2>11, <2>12 DEF Open, WriteTree
<1> QED
  BY <1>1, NInvAlways, PTL DEF NativeSpec, RefusedForCause
=============================================================================

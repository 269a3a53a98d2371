-------------------------- MODULE PublicationProofs --------------------------
(***************************************************************************)
(* The two ways in which a build publishes.  A bundle, for any number of   *)
(* calls, payloads, files, faults and losses of power: what is under the   *)
(* name, what it was made of, what is left behind, and the refinement of   *)
(* WriteOnce.  That a published bundle was one state of the inputs rests   *)
(* on the second capture: a capture that never was one state holds a file  *)
(* whose input was rewritten since, and that file keeps the second capture *)
(* from ending.  Then the outputs of a build that must carry evidence, for *)
(* any number of builds and any writes of others: where every earlier file *)
(* and every file of others is, at each step of the two transactions, and  *)
(* what a rollback that calls itself complete has put back.                *)
(***************************************************************************)
EXTENDS Publication, EvidenceOutputs, FiniteSetTheorems, TLAPS

\* Where a call is, what it has announced, and which steps it has behind it.
Progress(c) ==
  /\ pc[c] \in {"idle", "capture"} \cup InTry \cup {"committed"} => verdict[c] = "none"
  /\ pc[c] \in {"cleanup", "done"} => verdict[c] # "none"
  /\ pc[c] = "committed" => c \in committed
  /\ c \in committed => /\ pc[c] \in {"committed", "cleanup", "done"}
                        /\ pc[c] = "cleanup" => verdict[c] = "lost"
                        /\ verdict[c] # "failed"

\* What the staging directory of a call holds.
Staged(c) ==
  /\ pc[c] \in {"identify", "write", "sync"} => staging[c] \in Directory
  /\ pc[c] \in {"idle", "capture", "lookup", "mkdir", "identify"} => c \notin known
  /\ pc[c] \in {"recheck", "absent", "rename"} => staging[c] = Complete(want[c]) /\ c \in synced
  /\ pc[c] = "done" /\ staging[c] # None => c \in stuck \/ c \notin known \/ c \in committed

\* The bundle under the name: made whole and private by a call that knows, or alien.
Made == bundle # None =>
  /\ bundle.whole
  /\ bundle.maker \in Call => /\ bundle.files = Complete(want[bundle.maker])
                              /\ bundle.maker \in committed
  /\ bundle.maker \notin Call => ~ bundle.private /\ bundle.durable

\* The input behind a captured file was rewritten since.
Behind(c, i) == captured[c][i].stamp < source[want[c]][i].stamp

\* A captured file is the present one unless the input was rewritten since; a
\* capture that was never one state of the inputs has such a file among those
\* that are not captured again yet.
Coherence(c) ==
  /\ pc[c] \in {"idle", "capture"} => rechecked[c] = {}
  /\ \A i \in DOMAIN captured[c] : captured[c][i] = source[want[c]][i] \/ Behind(c, i)
  /\ pc[c] \in InTry => /\ DOMAIN captured[c] = Input
                        /\ c \in coherent \/ \E i \in Input \ rechecked[c] : Behind(c, i)
  /\ pc[c] \in {"absent", "rename", "race", "relook"} => c \in coherent
  /\ c \in committed \/ verdict[c] = "receipt" => c \in coherent

CallOK(c) == Progress(c) /\ Staged(c) /\ Coherence(c)

Inv == PublicationTypeOK /\ Made /\ \A c \in Call : CallOK(c)

LEMMA Constants ==
  /\ Key \notin Role /\ Manifest \notin Role
  /\ None # Other /\ Other \notin Call /\ Other \notin Payload /\ None \notin Payload
  /\ None \notin Bundle /\ None \notin Directory
  /\ MaxRewrites \in Nat /\ Limit["rewrite"] = MaxRewrites
  /\ DOMAIN Limit = {"rewrite", "fault", "loss", "withdrawal"}
  /\ \A k \in DOMAIN Limit : Limit[k] \in Nat
BY PublicationAssumption DEF Limit

\* The directories a call makes, file by file, and what power loss leaves of one.
LEMMA Directories ==
  /\ NoFiles \in Directory
  /\ \A d \in Payload : Complete(d) \in Directory
  /\ \A f \in Directory, n \in Name, d \in Payload :
       [m \in DOMAIN f \cup {n} |-> IF m # n THEN f[m] ELSE d] \in Directory
  /\ \A f \in Directory : \A S \in SUBSET DOMAIN f : [n \in S |-> f[n]] \in Directory
<1>1. ASSUME NEW S \in SUBSET Name, NEW f \in [S -> Payload] PROVE f \in Directory
  BY <1>1 DEF Directory
<1>2. NoFiles \in Directory
  <2>1. NoFiles \in [{} -> Payload]
    BY DEF NoFiles
  <2> QED
    BY <1>1, <2>1
<1>3. ASSUME NEW d \in Payload PROVE Complete(d) \in Directory
  <2>1. Complete(d) \in [Name -> Payload]
    BY DEF Complete
  <2> QED
    BY <1>1, <2>1
<1>4. ASSUME NEW f \in Directory, NEW n \in Name, NEW d \in Payload
      PROVE  [m \in DOMAIN f \cup {n} |-> IF m # n THEN f[m] ELSE d] \in Directory
  <2>1. PICK S \in SUBSET Name : f \in [S -> Payload]
    BY DEF Directory
  <2>2. [m \in DOMAIN f \cup {n} |-> IF m # n THEN f[m] ELSE d] \in [S \cup {n} -> Payload]
    BY <2>1
  <2> QED
    BY <1>1, <2>2
<1>5. ASSUME NEW f \in Directory, NEW S \in SUBSET DOMAIN f PROVE [n \in S |-> f[n]] \in Directory
  <2>1. PICK T \in SUBSET Name : f \in [T -> Payload]
    BY DEF Directory
  <2>2. S \in SUBSET Name /\ [n \in S |-> f[n]] \in [S -> Payload]
    BY <2>1
  <2> QED
    BY <1>1, <2>2
<1> QED
  BY <1>2, <1>3, <1>4, <1>5

\* What a capture holds.
LEMMA Captures ==
  /\ [i \in {} |-> None] \in Inputs
  /\ \A f \in Inputs : DOMAIN f \subseteq Input /\ \A i \in DOMAIN f : f[i] \in File
<1>1. [i \in {} |-> None] \in [{} -> File]
  OBVIOUS
<1> QED
  BY <1>1 DEF Inputs

LEMMA InvInit == Init => Inv
<1> SUFFICES ASSUME Init PROVE Inv
  OBVIOUS
<1> USE Constants, Directories, Captures
<1>1. PublicationTypeOK
  <2>1. bundle \in Bundle \cup {None}
    <3>1. CASE bundle = None
      BY <3>1
    <3>2. CASE bundle # None
      <4>1. bundle \in [maker : {Other}, private : {FALSE}, whole : {TRUE}, durable : {TRUE},
                        files : {NoFiles} \cup {Complete(d) : d \in Payload}]
        BY <3>2 DEF Init
      <4> QED
        BY <4>1 DEF Bundle
    <3> QED
      BY <3>1, <3>2
  <2>2. /\ source \in [Payload -> [Input -> File]]
        /\ \A d \in Payload, i \in Input : source[d][i].stamp <= spent["rewrite"]
    BY DEF Init, File
  <2>3. spent \in [DOMAIN Limit -> Nat] /\ \A k \in DOMAIN Limit : spent[k] <= Limit[k]
    BY DEF Init
  <2> QED
    BY <2>1, <2>2, <2>3 DEF Init, PublicationTypeOK
<1>2. Made
  BY DEF Init, Made
<1>3. ASSUME NEW c \in Call PROVE CallOK(c)
  BY DEF Init, CallOK, Progress, Staged, Coherence, InTry
<1> QED
  BY <1>1, <1>2, <1>3 DEF Inv

\* Spending one of the outside events.
LEMMA Spending ==
  ASSUME PublicationTypeOK, NEW k \in DOMAIN Limit, Spend(k)
  PROVE  /\ spent' \in [DOMAIN Limit -> Nat] /\ \A j \in DOMAIN Limit : spent'[j] <= Limit[j]
         /\ spent'[k] = spent[k] + 1
         /\ \A j \in DOMAIN Limit \ {k} : spent'[j] = spent[j]
BY Constants DEF PublicationTypeOK, Spend

\* A step that does nothing to a call keeps what is known of it.
Kept(d) ==
  /\ UNCHANGED <<source, want>>
  /\ pc'[d] = pc[d] /\ verdict'[d] = verdict[d] /\ staging'[d] = staging[d]
  /\ captured'[d] = captured[d] /\ rechecked'[d] = rechecked[d]
  /\ d \in synced' <=> d \in synced
  /\ d \in known' <=> d \in known
  /\ d \in coherent' <=> d \in coherent
  /\ d \in committed' <=> d \in committed
  /\ d \in stuck' <=> d \in stuck

LEMMA KeptOK == ASSUME NEW d \in Call, CallOK(d), Kept(d) PROVE CallOK(d)'
<1>1. Progress(d)'
  BY DEF CallOK, Kept, Progress
<1>2. Staged(d)'
  BY DEF CallOK, Kept, Staged
<1>3. Coherence(d)'
  BY DEF CallOK, Kept, Coherence, Behind
<1> QED
  BY <1>1, <1>2, <1>3 DEF CallOK

\* A step that leaves the name alone and undoes no rename.
LEMMA MadeKept ==
  ASSUME Made, UNCHANGED <<bundle, want>>, committed \subseteq committed' PROVE Made'
BY DEF Made

\* Looking at the files of a call whose own capture and payload stay.
LEMMA CapturedKept ==
  ASSUME NEW c \in Call, UNCHANGED <<source, want>>, captured'[c] = captured[c]
  PROVE  /\ \A i : Behind(c, i)' <=> Behind(c, i)
         /\ Coherence(c) => \A i \in DOMAIN captured'[c] :
                              captured'[c][i] = source'[want'[c]][i] \/ Behind(c, i)'
BY DEF Behind, Coherence

\* A sync of the root changes nothing but the durability of the name.
LEMMA Flushing ==
  ASSUME PublicationTypeOK
  PROVE  /\ Flushed \in Bundle \cup {None}
         /\ bundle = None => Flushed = None
         /\ bundle # None => /\ Flushed # None /\ Flushed.durable
                             /\ Flushed.maker = bundle.maker /\ Flushed.files = bundle.files
                             /\ Flushed.private = bundle.private /\ Flushed.whole = bundle.whole
<1>1. CASE bundle = None
  BY <1>1 DEF Flushed
<1>2. CASE bundle # None
  <2>1. bundle \in Bundle /\ Flushed = [bundle EXCEPT !.durable = TRUE]
    BY <1>2 DEF PublicationTypeOK, Flushed
  <2>2. Flushed \in Bundle
    BY <2>1 DEF Bundle
  <2> QED
    BY <1>2, <2>1, <2>2, Constants DEF Bundle
<1> QED
  BY <1>1, <1>2

LEMMA InvStep == Inv /\ [Next]_vars => Inv'
<1> SUFFICES ASSUME Inv, [Next]_vars PROVE Inv'
  OBVIOUS
<1> USE Constants
<1>1. PublicationTypeOK /\ Made /\ \A d \in Call : CallOK(d)
  BY DEF Inv
<1>2. ASSUME PublicationTypeOK', Made', \A d \in Call : CallOK(d)' PROVE Inv'
  BY <1>2 DEF Inv
<1>3. ASSUME NEW c \in Call, Start(c) PROVE Inv'
  <2>1. PublicationTypeOK'
    BY <1>1, <1>3 DEF Start, PublicationTypeOK, Goto, Leave, Live, InTry
  <2>2. Made'
    BY <1>1, <1>3, MadeKept DEF Start
  <2>3. ASSUME NEW d \in Call PROVE CallOK(d)'
    <3>1. CASE d = c
      <4>1. Progress(c)'
        BY <1>1, <1>3 DEF Start, PublicationTypeOK, Goto, Leave, CallOK, Progress, InTry, Live
      <4>2. Staged(c)'
        BY <1>1, <1>3 DEF Start, PublicationTypeOK, Goto, Leave, CallOK, Staged, InTry, Live
      <4>3. Coherence(c)'
        <5>1. UNCHANGED <<source, want>> /\ captured'[c] = captured[c]
          BY <1>3 DEF Start
        <5> QED
          BY <1>1, <1>3, <5>1, CapturedKept
             DEF Start, PublicationTypeOK, Goto, Leave, CallOK, Progress, Coherence, InTry, Live
      <4> QED
        BY <3>1, <4>1, <4>2, <4>3 DEF CallOK
    <3>2. CASE d # c
      BY <1>1, <1>3, <3>2, KeptOK DEF Start, PublicationTypeOK, Goto, Leave, Kept
    <3> QED
      BY <3>1, <3>2
  <2> QED
    BY <1>2, <2>1, <2>2, <2>3
<1>4. ASSUME NEW c \in Call, Capture(c) PROVE Inv'
  <2>1. PICK i \in Input \ DOMAIN captured[c] :
          captured' = [captured EXCEPT ![c] = [j \in DOMAIN @ \cup {i} |->
                         IF j = i THEN source[want[c]][i] ELSE @[j]]]
    BY <1>4 DEF Capture
  <2>2. /\ captured[c] \in Inputs /\ source[want[c]][i] \in File /\ want[c] \in Payload
        /\ captured'[c] = [j \in DOMAIN captured[c] \cup {i} |->
                            IF j = i THEN source[want[c]][i] ELSE captured[c][j]]
        /\ \A d \in Call \ {c} : captured'[d] = captured[d]
    BY <1>1, <2>1 DEF PublicationTypeOK
  <2>3. captured'[c] \in Inputs
    <3>1. PICK S \in SUBSET Input : captured[c] \in [S -> File]
      BY <2>2 DEF Inputs
    <3>2. captured'[c] \in [S \cup {i} -> File] /\ S \cup {i} \in SUBSET Input
      BY <2>1, <2>2, <3>1
    <3> QED
      BY <3>2 DEF Inputs
  <2>4. captured' \in [Call -> Inputs]
    BY <1>1, <2>1, <2>2, <2>3 DEF PublicationTypeOK
  <2>5. pc[c] = "capture" /\ UNCHANGED <<source, bundle, staging, synced, known, pc, want, rechecked,
                 coherent, committed, stuck, verdict, spent>>
    BY <1>4 DEF Capture
  <2>6. PublicationTypeOK'
    BY <1>1, <2>4, <2>5 DEF PublicationTypeOK
  <2>7. Made'
    BY <1>1, <2>5, MadeKept
  <2>9. ASSUME NEW d \in Call PROVE CallOK(d)'
    <3>1. CASE d = c
      <4>1. Progress(c)' /\ Staged(c)'
        BY <1>1, <2>5 DEF CallOK, Progress, Staged
      <4>2. Coherence(c)'
        <5>1. Coherence(c) /\ UNCHANGED <<source, want, pc, rechecked, coherent, committed, verdict>>
          BY <1>1, <2>5 DEF CallOK
        <5>2. \A j \in DOMAIN captured'[c] :
                captured'[c][j] = source'[want'[c]][j] \/ Behind(c, j)'
          BY <2>2, <5>1 DEF Coherence, Behind
        <5>3. pc'[c] \notin InTry \cup {"absent", "rename", "race", "relook"}
          BY <2>5 DEF InTry
        <5> QED
          BY <5>1, <5>2, <5>3 DEF Coherence
      <4> QED
        BY <3>1, <4>1, <4>2 DEF CallOK
    <3>2. CASE d # c
      BY <1>1, <2>2, <2>5, <3>2, KeptOK DEF Kept
    <3> QED
      BY <3>1, <3>2
  <2> QED
    BY <1>2, <2>6, <2>7, <2>9
<1>5. ASSUME NEW c \in Call, VerifyInputs(c) PROVE Inv'
  <2>1. /\ pc[c] = "capture" /\ DOMAIN captured[c] = Input
        /\ UNCHANGED <<source, bundle, staging, synced, known, want, captured,
                       rechecked, committed, stuck, spent>>
    BY <1>5 DEF VerifyInputs
  <2>2. \/ /\ pc' = [pc EXCEPT ![c] = "lookup"] /\ UNCHANGED verdict
           /\ coherent' = IF captured[c] = source[want[c]] THEN coherent \cup {c} ELSE coherent
        \/ /\ pc' = [pc EXCEPT ![c] = "done"] /\ verdict' = [verdict EXCEPT ![c] = "failed"]
           /\ UNCHANGED coherent
    BY <1>5 DEF VerifyInputs, Goto, Leave
  <2>3. PublicationTypeOK'
    <3>1. pc' \in [Call -> Live \cup {"idle", "done"}]
      BY <1>1, <2>2 DEF PublicationTypeOK, Live, InTry
    <3>2. verdict' \in [Call -> {"none", "receipt", "failed", "lost"}]
      BY <1>1, <2>2 DEF PublicationTypeOK
    <3>3. coherent' \subseteq Call
      BY <1>1, <2>2 DEF PublicationTypeOK
    <3> QED
      BY <1>1, <2>1, <3>1, <3>2, <3>3 DEF PublicationTypeOK
  <2>4. Made'
    BY <1>1, <2>1, MadeKept
  <2>5. ASSUME c \notin coherent', pc'[c] = "lookup" PROVE \E i \in Input : Behind(c, i)
    <3>1. captured[c] # source[want[c]]
      BY <1>1, <2>2, <2>5 DEF PublicationTypeOK
    <3>2. captured[c] \in Inputs /\ source[want[c]] \in [Input -> File]
      BY <1>1 DEF PublicationTypeOK
    <3>3. captured[c] \in [Input -> File]
      BY <2>1, <3>2 DEF Inputs
    <3>4. PICK i \in Input : captured[c][i] # source[want[c]][i]
      BY <3>1, <3>2, <3>3
    <3> QED
      BY <1>1, <2>1, <3>4 DEF CallOK, Coherence
  <2>9. ASSUME NEW d \in Call PROVE CallOK(d)'
    <3>1. CASE d = c
      <4>1. Progress(c)'
        BY <1>1, <2>1, <2>2 DEF PublicationTypeOK, CallOK, Progress, InTry
      <4>2. Staged(c)'
        BY <1>1, <2>1, <2>2 DEF PublicationTypeOK, CallOK, Staged
      <4>3. Coherence(c)'
        <5>1. /\ \A i : Behind(c, i)' <=> Behind(c, i)
              /\ \A i \in DOMAIN captured'[c] :
                   captured'[c][i] = source'[want'[c]][i] \/ Behind(c, i)'
          BY <1>1, <2>1, CapturedKept DEF CallOK
        <5>2. rechecked'[c] = {} /\ c \notin committed' /\ verdict'[c] # "receipt"
          BY <1>1, <2>1, <2>2 DEF PublicationTypeOK, CallOK, Coherence, Progress
        <5>3. pc'[c] \in {"lookup", "done"}
          BY <1>1, <2>2 DEF PublicationTypeOK
        <5> QED
          BY <2>1, <2>5, <5>1, <5>2, <5>3 DEF Coherence, InTry
      <4> QED
        BY <3>1, <4>1, <4>2, <4>3 DEF CallOK
    <3>2. CASE d # c
      <4>1. /\ pc'[d] = pc[d] /\ verdict'[d] = verdict[d]
            /\ d \in coherent' <=> d \in coherent
        BY <1>1, <2>2, <3>2 DEF PublicationTypeOK
      <4>2. Kept(d)
        BY <2>1, <4>1 DEF Kept
      <4> QED
        BY <1>1, <4>2, KeptOK
    <3> QED
      BY <3>1, <3>2
  <2> QED
    BY <1>2, <2>3, <2>4, <2>9
<1>6. ASSUME NEW c \in Call, Lookup(c) PROVE Inv'
  <2>1. PublicationTypeOK'
    BY <1>1, <1>6 DEF Lookup, Look, Matches, PublicationTypeOK, Goto, Leave, Live, InTry
  <2>2. Made'
    BY <1>1, <1>6, MadeKept DEF Lookup, Look, Matches
  <2>3. ASSUME NEW d \in Call PROVE CallOK(d)'
    <3>1. CASE d = c
      <4>1. Progress(c)'
        BY <1>1, <1>6
           DEF Lookup, Look, Matches, PublicationTypeOK, Goto, Leave, CallOK, Progress, InTry, Live
      <4>2. Staged(c)'
        BY <1>1, <1>6
           DEF Lookup, Look, Matches, PublicationTypeOK, Goto, Leave, CallOK, Staged, InTry, Live
      <4>3. Coherence(c)'
        <5>1. UNCHANGED <<source, want>> /\ captured'[c] = captured[c]
          BY <1>6 DEF Lookup, Look, Matches
        <5> QED
          BY <1>1, <1>6, <5>1, CapturedKept
             DEF Lookup, Look, Matches, PublicationTypeOK, Goto, Leave, CallOK, Progress,
                 Coherence, InTry, Live
      <4> QED
        BY <3>1, <4>1, <4>2, <4>3 DEF CallOK
    <3>2. CASE d # c
      BY <1>1, <1>6, <3>2, KeptOK DEF Lookup, Look, Matches, PublicationTypeOK, Goto, Leave, Kept
    <3> QED
      BY <3>1, <3>2
  <2> QED
    BY <1>2, <2>1, <2>2, <2>3
<1>7. ASSUME NEW c \in Call, Race(c) PROVE Inv'
  <2>1. PublicationTypeOK'
    BY <1>1, <1>7 DEF Race, Look, Matches, PublicationTypeOK, Goto, Leave, Live, InTry
  <2>2. Made'
    BY <1>1, <1>7, MadeKept DEF Race, Look, Matches
  <2>3. ASSUME NEW d \in Call PROVE CallOK(d)'
    <3>1. CASE d = c
      <4>1. Progress(c)'
        BY <1>1, <1>7
           DEF Race, Look, Matches, PublicationTypeOK, Goto, Leave, CallOK, Progress, InTry, Live
      <4>2. Staged(c)'
        BY <1>1, <1>7
           DEF Race, Look, Matches, PublicationTypeOK, Goto, Leave, CallOK, Staged, InTry, Live
      <4>3. Coherence(c)'
        <5>1. UNCHANGED <<source, want>> /\ captured'[c] = captured[c]
          BY <1>7 DEF Race, Look, Matches
        <5> QED
          BY <1>1, <1>7, <5>1, CapturedKept
             DEF Race, Look, Matches, PublicationTypeOK, Goto, Leave, CallOK, Progress, Coherence,
                 InTry, Live
      <4> QED
        BY <3>1, <4>1, <4>2, <4>3 DEF CallOK
    <3>2. CASE d # c
      BY <1>1, <1>7, <3>2, KeptOK DEF Race, Look, Matches, PublicationTypeOK, Goto, Leave, Kept
    <3> QED
      BY <3>1, <3>2
  <2> QED
    BY <1>2, <2>1, <2>2, <2>3
<1>8. ASSUME NEW c \in Call, RecheckInput(c) PROVE Inv'
  <2>1. /\ pc[c] \in {"recheck", "reconfirm"}
        /\ UNCHANGED <<source, bundle, staging, synced, known, want, captured,
                       coherent, committed, stuck, spent>>
    BY <1>8 DEF RecheckInput
  <2>2. PICK i \in Input \ rechecked[c] :
          \/ /\ source[want[c]][i] = captured[c][i] /\ UNCHANGED <<pc, verdict>>
             /\ rechecked' = [rechecked EXCEPT ![c] = @ \cup {i}]
          \/ /\ pc' = [pc EXCEPT ![c] = "cleanup"] /\ verdict' = [verdict EXCEPT ![c] = "failed"]
             /\ UNCHANGED rechecked
    BY <1>8, <2>1 DEF RecheckInput, Goto, Leave
  <2>3. PublicationTypeOK'
    <3>1. rechecked' \in [Call -> SUBSET Input]
      <4>1. rechecked \in [Call -> SUBSET Input] /\ rechecked[c] \cup {i} \in SUBSET Input
        BY <1>1, <2>2 DEF PublicationTypeOK
      <4>2. rechecked' = rechecked \/ rechecked' = [rechecked EXCEPT ![c] = rechecked[c] \cup {i}]
        BY <2>2
      <4> QED
        BY <4>1, <4>2
    <3>2. /\ pc' \in [Call -> Live \cup {"idle", "done"}]
          /\ verdict' \in [Call -> {"none", "receipt", "failed", "lost"}]
      BY <1>1, <2>2 DEF PublicationTypeOK, Live
    <3> QED
      BY <1>1, <2>1, <3>1, <3>2 DEF PublicationTypeOK
  <2>4. Made'
    BY <1>1, <2>1, MadeKept
  <2>9. ASSUME NEW d \in Call PROVE CallOK(d)'
    <3>1. CASE d = c
      <4>1. Progress(c)'
        BY <1>1, <2>1, <2>2 DEF PublicationTypeOK, CallOK, Progress, InTry
      <4>2. Staged(c)'
        BY <1>1, <2>1, <2>2 DEF PublicationTypeOK, CallOK, Staged
      <4>3. Coherence(c)'
        <5>1. /\ \A j : Behind(c, j)' <=> Behind(c, j)
              /\ \A j \in DOMAIN captured'[c] :
                   captured'[c][j] = source'[want'[c]][j] \/ Behind(c, j)'
          BY <1>1, <2>1, CapturedKept DEF CallOK
        <5>2. CASE UNCHANGED rechecked
          BY <1>1, <2>1, <2>2, <5>1, <5>2 DEF PublicationTypeOK, CallOK, Coherence, Progress, InTry
        <5>3. CASE source[want[c]][i] = captured[c][i] /\ UNCHANGED <<pc, verdict>>
                   /\ rechecked' = [rechecked EXCEPT ![c] = @ \cup {i}]
          <6>1. ~ Behind(c, i)
            <7>1. want[c] \in Payload /\ source[want[c]][i] \in File
              BY <1>1 DEF PublicationTypeOK
            <7>2. source[want[c]][i].stamp \in Nat
              BY <7>1 DEF File
            <7> QED
              BY <5>3, <7>2 DEF Behind
          <6>2. rechecked'[c] = rechecked[c] \cup {i}
            BY <1>1, <5>3 DEF PublicationTypeOK
          <6>3. ASSUME c \notin coherent PROVE \E j \in Input \ rechecked'[c] : Behind(c, j)'
            <7>1. PICK j \in Input \ rechecked[c] : Behind(c, j)
              BY <1>1, <2>1, <6>3 DEF CallOK, Coherence, InTry
            <7> QED
              BY <5>1, <6>1, <6>2, <7>1
          <6> QED
            BY <1>1, <2>1, <5>1, <5>3, <6>3 DEF CallOK, Coherence, InTry
        <5> QED
          BY <2>2, <5>2, <5>3
      <4> QED
        BY <3>1, <4>1, <4>2, <4>3 DEF CallOK
    <3>2. CASE d # c
      BY <1>1, <2>1, <2>2, <3>2, KeptOK DEF PublicationTypeOK, Kept
    <3> QED
      BY <3>1, <3>2
  <2> QED
    BY <1>2, <2>3, <2>4, <2>9
<1>9. ASSUME NEW c \in Call, RecheckDone(c) PROVE Inv'
  <2>1. PublicationTypeOK'
    BY <1>1, <1>9 DEF RecheckDone, PublicationTypeOK, Goto, Leave, Live, InTry
  <2>2. Made'
    BY <1>1, <1>9, MadeKept DEF RecheckDone
  <2>3. ASSUME NEW d \in Call PROVE CallOK(d)'
    <3>1. CASE d = c
      <4>1. Progress(c)'
        BY <1>1, <1>9 DEF RecheckDone, PublicationTypeOK, Goto, Leave, CallOK, Progress, InTry, Live
      <4>2. Staged(c)'
        BY <1>1, <1>9 DEF RecheckDone, PublicationTypeOK, Goto, Leave, CallOK, Staged, InTry, Live
      <4>3. Coherence(c)'
        <5>1. UNCHANGED <<source, want>> /\ captured'[c] = captured[c]
          BY <1>9 DEF RecheckDone
        <5> QED
          BY <1>1, <1>9, <5>1, CapturedKept
             DEF RecheckDone, PublicationTypeOK, Goto, Leave, CallOK, Progress, Coherence, InTry,
                 Live
      <4> QED
        BY <3>1, <4>1, <4>2, <4>3 DEF CallOK
    <3>2. CASE d # c
      BY <1>1, <1>9, <3>2, KeptOK DEF RecheckDone, PublicationTypeOK, Goto, Leave, Kept
    <3> QED
      BY <3>1, <3>2
  <2> QED
    BY <1>2, <2>1, <2>2, <2>3
<1>10. ASSUME NEW c \in Call, Relook(c) PROVE Inv'
  <2>1. PublicationTypeOK'
    BY <1>1, <1>10 DEF Relook, Matches, PublicationTypeOK, Goto, Leave, Live, InTry
  <2>2. Made'
    BY <1>1, <1>10, MadeKept DEF Relook, Matches
  <2>3. ASSUME NEW d \in Call PROVE CallOK(d)'
    <3>1. CASE d = c
      <4>1. Progress(c)'
        BY <1>1, <1>10
           DEF Relook, Matches, PublicationTypeOK, Goto, Leave, CallOK, Progress, InTry, Live
      <4>2. Staged(c)'
        BY <1>1, <1>10
           DEF Relook, Matches, PublicationTypeOK, Goto, Leave, CallOK, Staged, InTry, Live
      <4>3. Coherence(c)'
        <5>1. UNCHANGED <<source, want>> /\ captured'[c] = captured[c]
          BY <1>10 DEF Relook, Matches
        <5> QED
          BY <1>1, <1>10, <5>1, CapturedKept
             DEF Relook, Matches, PublicationTypeOK, Goto, Leave, CallOK, Progress, Coherence,
                 InTry, Live
      <4> QED
        BY <3>1, <4>1, <4>2, <4>3 DEF CallOK
    <3>2. CASE d # c
      BY <1>1, <1>10, <3>2, KeptOK DEF Relook, Matches, PublicationTypeOK, Goto, Leave, Kept
    <3> QED
      BY <3>1, <3>2
  <2> QED
    BY <1>2, <2>1, <2>2, <2>3
<1>11. ASSUME NEW c \in Call, MakeStaging(c) PROVE Inv'
  <2>1. /\ pc[c] = "mkdir" /\ pc' = [pc EXCEPT ![c] = "identify"]
        /\ staging' = [staging EXCEPT ![c] = NoFiles]
        /\ UNCHANGED <<source, bundle, synced, known, want, captured, rechecked,
                       coherent, committed, stuck, verdict, spent>>
    BY <1>11 DEF MakeStaging, Goto
  <2>2. NoFiles \in Directory
    BY Directories
  <2>3. PublicationTypeOK'
    BY <1>1, <2>1, <2>2 DEF PublicationTypeOK, Live, InTry
  <2>4. Made'
    BY <1>1, <2>1, MadeKept
  <2>9. ASSUME NEW d \in Call PROVE CallOK(d)'
    <3>1. CASE d = c
      <4>1. Progress(c)'
        BY <1>1, <2>1, <2>2 DEF PublicationTypeOK, CallOK, Progress, InTry, Live
      <4>2. Staged(c)'
        BY <1>1, <2>1, <2>2 DEF PublicationTypeOK, CallOK, Staged, Progress, InTry, Live
      <4>3. Coherence(c)'
        BY <1>1, <2>1, <2>2, CapturedKept
           DEF PublicationTypeOK, CallOK, Progress, Coherence, InTry, Live
      <4> QED
        BY <3>1, <4>1, <4>2, <4>3 DEF CallOK
    <3>2. CASE d # c
      BY <1>1, <2>1, <2>2, <3>2, KeptOK DEF PublicationTypeOK, Kept
    <3> QED
      BY <3>1, <3>2
  <2> QED
    BY <1>2, <2>3, <2>4, <2>9
<1>12. ASSUME NEW c \in Call, Identify(c) PROVE Inv'
  <2>1. PublicationTypeOK'
    BY <1>1, <1>12 DEF Identify, PublicationTypeOK, Goto, Leave, Live, InTry
  <2>2. Made'
    BY <1>1, <1>12, MadeKept DEF Identify
  <2>3. ASSUME NEW d \in Call PROVE CallOK(d)'
    <3>1. CASE d = c
      <4>1. Progress(c)'
        BY <1>1, <1>12 DEF Identify, PublicationTypeOK, Goto, Leave, CallOK, Progress, InTry, Live
      <4>2. Staged(c)'
        BY <1>1, <1>12 DEF Identify, PublicationTypeOK, Goto, Leave, CallOK, Staged, InTry, Live
      <4>3. Coherence(c)'
        <5>1. UNCHANGED <<source, want>> /\ captured'[c] = captured[c]
          BY <1>12 DEF Identify
        <5> QED
          BY <1>1, <1>12, <5>1, CapturedKept
             DEF Identify, PublicationTypeOK, Goto, Leave, CallOK, Progress, Coherence, InTry, Live
      <4> QED
        BY <3>1, <4>1, <4>2, <4>3 DEF CallOK
    <3>2. CASE d # c
      BY <1>1, <1>12, <3>2, KeptOK DEF Identify, PublicationTypeOK, Goto, Leave, Kept
    <3> QED
      BY <3>1, <3>2
  <2> QED
    BY <1>2, <2>1, <2>2, <2>3
<1>13. ASSUME NEW c \in Call, WriteFile(c) PROVE Inv'
  <2>1. /\ pc[c] = "write"
        /\ UNCHANGED <<source, bundle, synced, known, want, captured, rechecked,
                       coherent, committed, stuck, verdict, spent>>
    BY <1>13 DEF WriteFile
  <2>2. PICK n \in Name \ DOMAIN staging[c] :
          /\ staging' = [staging EXCEPT ![c] = [m \in DOMAIN @ \cup {n} |->
               IF m # n THEN @[m] ELSE IF n = Manifest THEN want[c] ELSE captured[c][n].data]]
          /\ pc' = [pc EXCEPT ![c] = IF n = Manifest THEN "sync" ELSE "write"]
    BY <1>13 DEF WriteFile, Goto
  <2>3. /\ staging[c] \in Directory /\ DOMAIN captured[c] = Input /\ captured[c] \in Inputs
        /\ want[c] \in Payload
    BY <1>1, <2>1 DEF PublicationTypeOK, CallOK, Staged, Coherence, InTry
  <2> DEFINE data == IF n = Manifest THEN want[c] ELSE captured[c][n].data
  <2>4. data \in Payload
    <3>1. CASE n = Manifest
      BY <2>3, <3>1
    <3>2. CASE n # Manifest
      <4>1. n \in DOMAIN captured[c]
        BY <2>3, <3>2 DEF Name, Input
      <4> QED
        BY <2>3, <3>2, <4>1, Captures DEF File
    <3> QED
      BY <3>1, <3>2
  <2>5. [m \in DOMAIN staging[c] \cup {n} |-> IF m # n THEN staging[c][m] ELSE data] \in Directory
    <3> HIDE DEF data
    <3> QED
      BY <2>3, <2>4, Directories
  <2>6. /\ staging'[c] \in Directory /\ staging' \in [Call -> Directory \cup {None}]
        /\ \A d \in Call \ {c} : staging'[d] = staging[d]
    BY <1>1, <2>2, <2>5 DEF PublicationTypeOK
  <2>7. pc'[c] \in {"sync", "write"} /\ \A d \in Call \ {c} : pc'[d] = pc[d]
    BY <1>1, <2>2 DEF PublicationTypeOK
  <2>10. PublicationTypeOK'
    BY <1>1, <2>1, <2>2, <2>6, <2>7 DEF PublicationTypeOK, Live, InTry
  <2>11. Made'
    BY <1>1, <2>1, MadeKept
  <2>9. ASSUME NEW d \in Call PROVE CallOK(d)'
    <3>1. CASE d = c
      <4>1. Progress(c)'
        BY <1>1, <2>1, <2>6, <2>7 DEF PublicationTypeOK, CallOK, Progress, InTry, Live
      <4>2. Staged(c)'
        BY <1>1, <2>1, <2>6, <2>7 DEF PublicationTypeOK, CallOK, Staged, Progress, InTry, Live
      <4>3. Coherence(c)'
        BY <1>1, <2>1, <2>6, <2>7, CapturedKept
           DEF PublicationTypeOK, CallOK, Progress, Coherence, InTry, Live
      <4> QED
        BY <3>1, <4>1, <4>2, <4>3 DEF CallOK
    <3>2. CASE d # c
      BY <1>1, <2>1, <2>6, <2>7, <3>2, KeptOK DEF PublicationTypeOK, Kept
    <3> QED
      BY <3>1, <3>2
  <2> QED
    BY <1>2, <2>10, <2>11, <2>9
<1>14. ASSUME NEW c \in Call, SyncStaging(c) PROVE Inv'
  <2>1. /\ pc[c] = "sync" /\ synced' = synced \cup {c}
        /\ UNCHANGED <<source, bundle, staging, known, want, captured, rechecked,
                       coherent, committed, stuck, spent>>
        /\ \/ /\ staging[c] = Complete(want[c]) /\ UNCHANGED verdict
              /\ pc' = [pc EXCEPT ![c] = "recheck"]
           \/ /\ pc' = [pc EXCEPT ![c] = "cleanup"]
              /\ verdict' = [verdict EXCEPT ![c] = "failed"]
    BY <1>14 DEF SyncStaging, Goto, Leave
  <2>2. PublicationTypeOK'
    <3>1. (synced' \cup known' \cup coherent' \cup committed' \cup stuck') \subseteq Call
      BY <1>1, <2>1 DEF PublicationTypeOK
    <3>2. /\ pc' \in [Call -> Live \cup {"idle", "done"}]
          /\ verdict' \in [Call -> {"none", "receipt", "failed", "lost"}]
      BY <1>1, <2>1 DEF PublicationTypeOK, Live, InTry
    <3> QED
      BY <1>1, <2>1, <3>1, <3>2 DEF PublicationTypeOK
  <2>3. Made'
    BY <1>1, <2>1, MadeKept
  <2>9. ASSUME NEW d \in Call PROVE CallOK(d)'
    <3>1. CASE d = c
      <4>1. Progress(c)'
        BY <1>1, <2>1 DEF PublicationTypeOK, CallOK, Progress, InTry, Live
      <4>2. Staged(c)'
        BY <1>1, <2>1 DEF PublicationTypeOK, CallOK, Staged, Progress, InTry, Live
      <4>3. Coherence(c)'
        BY <1>1, <2>1, CapturedKept DEF PublicationTypeOK, CallOK, Progress, Coherence, InTry, Live
      <4> QED
        BY <3>1, <4>1, <4>2, <4>3 DEF CallOK
    <3>2. CASE d # c
      BY <1>1, <2>1, <3>2, KeptOK DEF PublicationTypeOK, Kept
    <3> QED
      BY <3>1, <3>2
  <2> QED
    BY <1>2, <2>2, <2>3, <2>9
<1>15. ASSUME NEW c \in Call, RequireAbsent(c) PROVE Inv'
  <2>1. /\ pc[c] = "absent" /\ bundle' = Flushed
        /\ UNCHANGED <<source, staging, synced, known, want, captured, rechecked,
                       coherent, committed, stuck, spent>>
        /\ \/ pc' = [pc EXCEPT ![c] = "rename"] /\ UNCHANGED verdict
           \/ /\ pc' = [pc EXCEPT ![c] = "cleanup"]
              /\ verdict' = [verdict EXCEPT ![c] = "failed"]
    BY <1>15 DEF RequireAbsent, Goto, Leave
  <2>2. PublicationTypeOK'
    BY <1>1, <2>1, Flushing DEF PublicationTypeOK, Live, InTry
  <2>3. Made'
    BY <1>1, <2>1, Flushing DEF Made
  <2>9. ASSUME NEW d \in Call PROVE CallOK(d)'
    <3>1. CASE d = c
      <4>1. Progress(c)'
        BY <1>1, <2>1 DEF PublicationTypeOK, CallOK, Progress, InTry, Live
      <4>2. Staged(c)'
        BY <1>1, <2>1 DEF PublicationTypeOK, CallOK, Staged, Progress, InTry, Live
      <4>3. Coherence(c)'
        BY <1>1, <2>1, CapturedKept DEF PublicationTypeOK, CallOK, Progress, Coherence, InTry, Live
      <4> QED
        BY <3>1, <4>1, <4>2, <4>3 DEF CallOK
    <3>2. CASE d # c
      BY <1>1, <2>1, <3>2, KeptOK DEF PublicationTypeOK, Kept
    <3> QED
      BY <3>1, <3>2
  <2> QED
    BY <1>2, <2>2, <2>3, <2>9
<1>16. ASSUME NEW c \in Call, Rename(c) PROVE Inv'
  <2>1. CASE bundle = None
    <3> DEFINE new == [maker |-> c, files |-> Complete(want[c]), private |-> TRUE,
                       whole |-> TRUE, durable |-> FALSE]
    <3>1. /\ pc[c] = "rename" /\ pc' = [pc EXCEPT ![c] = "committed"] /\ bundle' = new
          /\ staging' = [staging EXCEPT ![c] = None] /\ committed' = committed \cup {c}
          /\ UNCHANGED <<source, synced, known, want, captured, rechecked, coherent,
                         stuck, verdict, spent>>
      <4>1. staging[c] = Complete(want[c]) /\ c \in synced
        BY <1>1, <1>16 DEF Rename, CallOK, Staged
      <4> QED
        BY <1>16, <2>1, <4>1 DEF Rename, Goto
    <3>2. new \in Bundle /\ new # None
      <4>1. Complete(want[c]) \in Directory
        BY <1>1, Directories DEF PublicationTypeOK
      <4>2. new \in Bundle
        BY <4>1 DEF Bundle
      <4> QED
        BY <4>2
    <3>3. PublicationTypeOK'
      <4> HIDE DEF new
      <4>1. (synced' \cup known' \cup coherent' \cup committed' \cup stuck') \subseteq Call
        BY <1>1, <3>1 DEF PublicationTypeOK
      <4>2. staging' \in [Call -> Directory \cup {None}] /\ pc' \in [Call -> Live \cup {"idle", "done"}]
        BY <1>1, <3>1 DEF PublicationTypeOK, Live
      <4> QED
        BY <1>1, <3>1, <3>2, <4>1, <4>2 DEF PublicationTypeOK
    <3>4. Made'
      BY <3>1 DEF Made
    <3>5. ASSUME NEW d \in Call PROVE CallOK(d)'
      <4>1. CASE d = c
        <5>1. Progress(c)'
          BY <1>1, <3>1 DEF PublicationTypeOK, CallOK, Progress, InTry, Live
        <5>2. Staged(c)'
          BY <1>1, <3>1 DEF PublicationTypeOK, CallOK, Staged, Progress, InTry, Live
        <5>3. Coherence(c)'
          BY <1>1, <3>1, CapturedKept
             DEF PublicationTypeOK, CallOK, Progress, Coherence, InTry, Live
        <5> QED
          BY <4>1, <5>1, <5>2, <5>3 DEF CallOK
      <4>2. CASE d # c
        BY <1>1, <3>1, <4>2, KeptOK DEF PublicationTypeOK, Kept
      <4> QED
        BY <4>1, <4>2
    <3> QED
      BY <1>2, <3>3, <3>4, <3>5
  <2>2. CASE bundle # None
    <3>1. /\ pc[c] = "rename" /\ pc' = [pc EXCEPT ![c] = "race"]
          /\ UNCHANGED <<source, bundle, staging, synced, known, want, captured, rechecked,
                         coherent, committed, stuck, verdict, spent>>
      BY <1>16, <2>2 DEF Rename, Goto
    <3>2. PublicationTypeOK'
      BY <1>1, <3>1 DEF PublicationTypeOK, Live, InTry
    <3>3. Made'
      BY <1>1, <3>1, MadeKept
    <3>4. ASSUME NEW d \in Call PROVE CallOK(d)'
      <4>1. CASE d = c
        <5>1. Progress(c)'
          BY <1>1, <3>1 DEF PublicationTypeOK, CallOK, Progress, InTry, Live
        <5>2. Staged(c)'
          BY <1>1, <3>1 DEF PublicationTypeOK, CallOK, Staged, Progress, InTry, Live
        <5>3. Coherence(c)'
          BY <1>1, <3>1, CapturedKept
             DEF PublicationTypeOK, CallOK, Progress, Coherence, InTry, Live
        <5> QED
          BY <4>1, <5>1, <5>2, <5>3 DEF CallOK
      <4>2. CASE d # c
        BY <1>1, <3>1, <4>2, KeptOK DEF PublicationTypeOK, Kept
      <4> QED
        BY <4>1, <4>2
    <3> QED
      BY <1>2, <3>2, <3>3, <3>4
  <2> QED
    BY <2>1, <2>2
<1>17. ASSUME NEW c \in Call, Settle(c) PROVE Inv'
  <2>1. /\ pc[c] = "committed" /\ bundle' \in {bundle, Flushed}
        /\ pc' = [pc EXCEPT ![c] = "done"] /\ verdict' = [verdict EXCEPT ![c] = "receipt"]
        /\ UNCHANGED <<source, staging, synced, known, want, captured, rechecked,
                       coherent, committed, stuck, spent>>
    BY <1>17 DEF Settle, Goto
  <2>2. PublicationTypeOK'
    BY <1>1, <2>1, Flushing DEF PublicationTypeOK, Live, InTry
  <2>3. Made'
    BY <1>1, <2>1, Flushing DEF Made
  <2>9. ASSUME NEW d \in Call PROVE CallOK(d)'
    <3>1. CASE d = c
      <4>1. Progress(c)'
        BY <1>1, <2>1 DEF PublicationTypeOK, CallOK, Progress, InTry, Live
      <4>2. Staged(c)'
        BY <1>1, <2>1 DEF PublicationTypeOK, CallOK, Staged, Progress, InTry, Live
      <4>3. Coherence(c)'
        BY <1>1, <2>1, CapturedKept DEF PublicationTypeOK, CallOK, Progress, Coherence, InTry, Live
      <4> QED
        BY <3>1, <4>1, <4>2, <4>3 DEF CallOK
    <3>2. CASE d # c
      BY <1>1, <2>1, <3>2, KeptOK DEF PublicationTypeOK, Kept
    <3> QED
      BY <3>1, <3>2
  <2> QED
    BY <1>2, <2>2, <2>3, <2>9
<1>18. ASSUME NEW c \in Call, Cleanup(c) PROVE Inv'
  <2>1. PublicationTypeOK'
    BY <1>1, <1>18 DEF Cleanup, PublicationTypeOK, Goto, Leave, Live, InTry
  <2>2. Made'
    BY <1>1, <1>18, MadeKept DEF Cleanup
  <2>3. ASSUME NEW d \in Call PROVE CallOK(d)'
    <3>1. CASE d = c
      <4>1. Progress(c)'
        BY <1>1, <1>18 DEF Cleanup, PublicationTypeOK, Goto, Leave, CallOK, Progress, InTry, Live
      <4>2. Staged(c)'
        BY <1>1, <1>18 DEF Cleanup, PublicationTypeOK, Goto, Leave, CallOK, Staged, InTry, Live
      <4>3. Coherence(c)'
        <5>1. UNCHANGED <<source, want>> /\ captured'[c] = captured[c]
          BY <1>18 DEF Cleanup
        <5> QED
          BY <1>1, <1>18, <5>1, CapturedKept
             DEF Cleanup, PublicationTypeOK, Goto, Leave, CallOK, Progress, Coherence, InTry, Live
      <4> QED
        BY <3>1, <4>1, <4>2, <4>3 DEF CallOK
    <3>2. CASE d # c
      BY <1>1, <1>18, <3>2, KeptOK DEF Cleanup, PublicationTypeOK, Goto, Leave, Kept
    <3> QED
      BY <3>1, <3>2
  <2> QED
    BY <1>2, <2>1, <2>2, <2>3
<1>19. ASSUME NEW c \in Call, CleanupFails(c) PROVE Inv'
  <2>1. PublicationTypeOK'
    BY <1>1, <1>19 DEF CleanupFails, Spend, PublicationTypeOK, Goto, Leave, Live, InTry
  <2>2. Made'
    BY <1>1, <1>19, MadeKept DEF CleanupFails, Spend
  <2>3. ASSUME NEW d \in Call PROVE CallOK(d)'
    <3>1. CASE d = c
      <4>1. Progress(c)'
        BY <1>1, <1>19
           DEF CleanupFails, Spend, PublicationTypeOK, Goto, Leave, CallOK, Progress, InTry, Live
      <4>2. Staged(c)'
        BY <1>1, <1>19
           DEF CleanupFails, Spend, PublicationTypeOK, Goto, Leave, CallOK, Staged, InTry, Live
      <4>3. Coherence(c)'
        <5>1. UNCHANGED <<source, want>> /\ captured'[c] = captured[c]
          BY <1>19 DEF CleanupFails, Spend
        <5> QED
          BY <1>1, <1>19, <5>1, CapturedKept
             DEF CleanupFails, Spend, PublicationTypeOK, Goto, Leave, CallOK, Progress, Coherence,
                 InTry, Live
      <4> QED
        BY <3>1, <4>1, <4>2, <4>3 DEF CallOK
    <3>2. CASE d # c
      BY <1>1, <1>19, <3>2, KeptOK DEF CleanupFails, Spend, PublicationTypeOK, Goto, Leave, Kept
    <3> QED
      BY <3>1, <3>2
  <2> QED
    BY <1>2, <2>1, <2>2, <2>3
<1>20. ASSUME NEW c \in Call, Abort(c) PROVE Inv'
  <2>1. PublicationTypeOK'
    BY <1>1, <1>20 DEF Abort, Spend, PublicationTypeOK, Goto, Leave, Live, InTry
  <2>2. Made'
    BY <1>1, <1>20, MadeKept DEF Abort, Spend
  <2>3. ASSUME NEW d \in Call PROVE CallOK(d)'
    <3>1. CASE d = c
      <4>1. Progress(c)'
        BY <1>1, <1>20
           DEF Abort, Spend, PublicationTypeOK, Goto, Leave, CallOK, Progress, InTry, Live
      <4>2. Staged(c)'
        BY <1>1, <1>20 DEF Abort, Spend, PublicationTypeOK, Goto, Leave, CallOK, Staged, InTry, Live
      <4>3. Coherence(c)'
        <5>1. UNCHANGED <<source, want>> /\ captured'[c] = captured[c]
          BY <1>20 DEF Abort, Spend
        <5> QED
          BY <1>1, <1>20, <5>1, CapturedKept
             DEF Abort, Spend, PublicationTypeOK, Goto, Leave, CallOK, Progress, Coherence, InTry,
                 Live
      <4> QED
        BY <3>1, <4>1, <4>2, <4>3 DEF CallOK
    <3>2. CASE d # c
      BY <1>1, <1>20, <3>2, KeptOK DEF Abort, Spend, PublicationTypeOK, Goto, Leave, Kept
    <3> QED
      BY <3>1, <3>2
  <2> QED
    BY <1>2, <2>1, <2>2, <2>3
<1>21. ASSUME NEW c \in Call, Interrupt(c) PROVE Inv'
  <2>1. PublicationTypeOK'
    BY <1>1, <1>21 DEF Interrupt, Spend, PublicationTypeOK, Goto, Leave, Live, InTry
  <2>2. Made'
    BY <1>1, <1>21, MadeKept DEF Interrupt, Spend
  <2>3. ASSUME NEW d \in Call PROVE CallOK(d)'
    <3>1. CASE d = c
      <4>1. Progress(c)'
        BY <1>1, <1>21
           DEF Interrupt, Spend, PublicationTypeOK, Goto, Leave, CallOK, Progress, InTry, Live
      <4>2. Staged(c)'
        BY <1>1, <1>21
           DEF Interrupt, Spend, PublicationTypeOK, Goto, Leave, CallOK, Staged, InTry, Live
      <4>3. Coherence(c)'
        <5>1. UNCHANGED <<source, want>> /\ captured'[c] = captured[c]
          BY <1>21 DEF Interrupt, Spend
        <5> QED
          BY <1>1, <1>21, <5>1, CapturedKept
             DEF Interrupt, Spend, PublicationTypeOK, Goto, Leave, CallOK, Progress, Coherence,
                 InTry, Live
      <4> QED
        BY <3>1, <4>1, <4>2, <4>3 DEF CallOK
    <3>2. CASE d # c
      BY <1>1, <1>21, <3>2, KeptOK DEF Interrupt, Spend, PublicationTypeOK, Goto, Leave, Kept
    <3> QED
      BY <3>1, <3>2
  <2> QED
    BY <1>2, <2>1, <2>2, <2>3
<1>22. ASSUME NEW c \in Call, Crash(c) PROVE Inv'
  <2>1. PublicationTypeOK'
    BY <1>1, <1>22 DEF Crash, Spend, PublicationTypeOK, Goto, Leave, Live, InTry
  <2>2. Made'
    BY <1>1, <1>22, MadeKept DEF Crash, Spend
  <2>3. ASSUME NEW d \in Call PROVE CallOK(d)'
    <3>1. CASE d = c
      <4>1. Progress(c)'
        BY <1>1, <1>22
           DEF Crash, Spend, PublicationTypeOK, Goto, Leave, CallOK, Progress, InTry, Live
      <4>2. Staged(c)'
        BY <1>1, <1>22 DEF Crash, Spend, PublicationTypeOK, Goto, Leave, CallOK, Staged, InTry, Live
      <4>3. Coherence(c)'
        <5>1. UNCHANGED <<source, want>> /\ captured'[c] = captured[c]
          BY <1>22 DEF Crash, Spend
        <5> QED
          BY <1>1, <1>22, <5>1, CapturedKept
             DEF Crash, Spend, PublicationTypeOK, Goto, Leave, CallOK, Progress, Coherence, InTry,
                 Live
      <4> QED
        BY <3>1, <4>1, <4>2, <4>3 DEF CallOK
    <3>2. CASE d # c
      BY <1>1, <1>22, <3>2, KeptOK DEF Crash, Spend, PublicationTypeOK, Goto, Leave, Kept
    <3> QED
      BY <3>1, <3>2
  <2> QED
    BY <1>2, <2>1, <2>2, <2>3
<1>23. CASE PowerLoss
  <2> DEFINE dead == {c \in Call : pc[c] \in Live}
  <2>1. /\ pc' = [c \in Call |-> IF c \in dead THEN "done" ELSE pc[c]]
        /\ verdict' = [c \in Call |-> IF c \in dead THEN "lost" ELSE verdict[c]]
        /\ stuck' = stuck \cup dead
        /\ UNCHANGED <<source, synced, known, want, captured, rechecked, coherent, committed>>
    BY <1>23 DEF PowerLoss
  <2>2. /\ spent' \in [DOMAIN Limit -> Nat] /\ \A k \in DOMAIN Limit : spent'[k] <= Limit[k]
        /\ spent'["rewrite"] = spent["rewrite"]
    BY <1>1, <1>23, Spending DEF PowerLoss
  <2>3. \/ UNCHANGED <<bundle, staging>>
        \/ /\ bundle # None /\ bundle.maker \in Call /\ bundle' = None
           /\ staging' = [staging EXCEPT ![bundle.maker] = bundle.files]
    BY <1>1, <1>23 DEF PowerLoss, Made
  <2>4. \A c \in Call : \/ staging'[c] = staging[c]
                        \/ c \in committed /\ staging'[c] \in Directory
    BY <1>1, <2>3 DEF Made, PublicationTypeOK, Bundle
  <2>5. staging' \in [Call -> Directory \cup {None}]
    BY <1>1, <2>3, <2>4 DEF PublicationTypeOK
  <2>6. PublicationTypeOK'
    <3>1. (synced' \cup known' \cup coherent' \cup committed' \cup stuck') \subseteq Call
      BY <1>1, <2>1 DEF PublicationTypeOK
    <3>2. /\ pc' \in [Call -> Live \cup {"idle", "done"}]
          /\ verdict' \in [Call -> {"none", "receipt", "failed", "lost"}]
      BY <1>1, <2>1 DEF PublicationTypeOK
    <3> QED
      BY <1>1, <2>1, <2>2, <2>3, <2>5, <3>1, <3>2 DEF PublicationTypeOK
  <2>7. Made'
    BY <1>1, <2>1, <2>3 DEF Made
  <2>8. ASSUME NEW d \in Call PROVE CallOK(d)'
    <3>1. \/ pc[d] \in Live /\ pc'[d] = "done" /\ verdict'[d] = "lost" /\ d \in stuck'
          \/ pc[d] \in {"idle", "done"} /\ pc'[d] = pc[d] /\ verdict'[d] = verdict[d]
      BY <1>1, <2>1 DEF PublicationTypeOK
    <3>2. d \in stuck => d \in stuck'
      BY <2>1
    <3>3. Progress(d)'
      BY <1>1, <2>1, <3>1 DEF CallOK, Progress, InTry
    <3>4. Staged(d)'
      BY <1>1, <2>1, <2>4, <3>1, <3>2 DEF CallOK, Staged, Progress
    <3>5. Coherence(d)'
      BY <1>1, <2>1, <3>1, CapturedKept DEF CallOK, Coherence, InTry
    <3> QED
      BY <3>3, <3>4, <3>5 DEF CallOK
  <2> QED
    BY <1>2, <2>6, <2>7, <2>8
<1>24. CASE Rewrite
  <2>1. PICK d \in Payload, e \in Payload, i \in Input :
          source' = [source EXCEPT ![d][i] = [data |-> e, stamp |-> @.stamp + 1]]
    BY <1>24 DEF Rewrite
  <2>2. /\ Spend("rewrite")
        /\ UNCHANGED <<bundle, staging, synced, known, pc, want, captured, rechecked,
                       coherent, committed, stuck, verdict>>
    BY <1>24 DEF Rewrite
  <2>3. /\ spent' \in [DOMAIN Limit -> Nat] /\ \A k \in DOMAIN Limit : spent'[k] <= Limit[k]
        /\ spent'["rewrite"] = spent["rewrite"] + 1 /\ spent'["rewrite"] <= MaxRewrites
    BY <1>1, <2>2, Spending
  <2>4. /\ source[d][i] \in File /\ source[d][i].stamp \in Nat
        /\ source[d][i].stamp + 1 <= MaxRewrites /\ source[d][i].stamp + 1 <= spent'["rewrite"]
    BY <1>1, <2>3 DEF PublicationTypeOK, File
  <2> DEFINE new == [data |-> e, stamp |-> source[d][i].stamp + 1]
  <2>5. new \in File /\ new.stamp = source[d][i].stamp + 1
    BY <2>4 DEF File
  <2>6. /\ source' \in [Payload -> [Input -> File]]
        /\ source'[d][i] = new
        /\ \A p \in Payload, j \in Input : p # d \/ j # i => source'[p][j] = source[p][j]
    <3> HIDE DEF new
    <3>1. source' = [source EXCEPT ![d][i] = new]
      BY <1>1, <2>1 DEF PublicationTypeOK, new
    <3> QED
      BY <1>1, <2>5, <3>1 DEF PublicationTypeOK
  <2>7. PublicationTypeOK'
    <3>1. ASSUME NEW p \in Payload, NEW j \in Input PROVE source'[p][j].stamp <= spent'["rewrite"]
      <4>1. CASE p = d /\ j = i
        BY <2>4, <2>5, <2>6, <4>1
      <4>2. CASE p # d \/ j # i
        <5>1. source[p][j] \in File
          BY <1>1 DEF PublicationTypeOK
        <5>2. source[p][j].stamp \in Nat
          BY <5>1 DEF File
        <5>3. source[p][j].stamp <= spent["rewrite"] /\ spent["rewrite"] \in Nat
          BY <1>1 DEF PublicationTypeOK
        <5>4. source'[p][j].stamp = source[p][j].stamp
          BY <2>6, <4>2
        <5> QED
          BY <2>3, <5>2, <5>3, <5>4
      <4> QED
        BY <4>1, <4>2
    <3> QED
      BY <1>1, <2>2, <2>3, <2>6, <3>1 DEF PublicationTypeOK
  <2>8. Made'
    BY <1>1, <2>2, MadeKept
  <2>9. ASSUME NEW c \in Call PROVE CallOK(c)'
    <3>1. Progress(c)' /\ Staged(c)'
      BY <1>1, <2>2 DEF CallOK, Progress, Staged
    <3>2. ASSUME NEW j \in DOMAIN captured[c]
          PROVE  /\ Behind(c, j) => Behind(c, j)'
                 /\ captured'[c][j] = source'[want'[c]][j] \/ Behind(c, j)'
      <4>1. want[c] \in Payload /\ j \in Input /\ captured[c][j] \in File
        BY <1>1, Captures DEF PublicationTypeOK
      <4>2. captured[c][j].stamp \in Nat
        BY <4>1 DEF File
      <4>3. captured[c][j] = source[want[c]][j] \/ Behind(c, j)
        BY <1>1 DEF CallOK, Coherence
      <4>4. CASE want[c] = d /\ j = i
        BY <2>2, <2>4, <2>5, <2>6, <4>2, <4>3, <4>4 DEF Behind
      <4>5. CASE want[c] # d \/ j # i
        <5>1. source'[want[c]][j] = source[want[c]][j]
          BY <2>6, <4>1, <4>5
        <5> QED
          BY <2>2, <4>3, <5>1 DEF Behind
      <4> QED
        BY <4>4, <4>5
    <3>3. Coherence(c)'
      BY <1>1, <2>2, <3>2 DEF CallOK, Coherence
    <3> QED
      BY <3>1, <3>3 DEF CallOK
  <2> QED
    BY <1>2, <2>7, <2>8, <2>9
<1>25. CASE Withdraw
  <2>1. PublicationTypeOK'
    BY <1>1, <1>25 DEF Withdraw, Spend, PublicationTypeOK
  <2>2. Made'
    BY <1>1, <1>25 DEF Withdraw, Made
  <2>3. ASSUME NEW d \in Call PROVE CallOK(d)'
    BY <1>1, <1>25, KeptOK DEF Withdraw, Spend, Kept
  <2> QED
    BY <1>2, <2>1, <2>2, <2>3
<1>26. CASE UNCHANGED vars
  <2>1. PublicationTypeOK'
    BY <1>1, <1>26 DEF vars, Spend, PublicationTypeOK
  <2>2. Made'
    BY <1>1, <1>26 DEF vars, Made
  <2>3. ASSUME NEW d \in Call PROVE CallOK(d)'
    BY <1>1, <1>26, KeptOK DEF vars, Spend, Kept
  <2> QED
    BY <1>2, <2>1, <2>2, <2>3
<1> QED
  BY <1>3, <1>4, <1>5, <1>6, <1>7, <1>8, <1>9, <1>10, <1>11, <1>12, <1>13, <1>14, <1>15, <1>16,
     <1>17, <1>18, <1>19, <1>20, <1>21, <1>22, <1>23, <1>24, <1>25, <1>26
     DEF Next, Step, Outside

\* Everything the publisher and its directory hold keeps its type.
THEOREM PublicationTyped == Spec => []PublicationTypeOK
<1>1. Inv => PublicationTypeOK
  BY DEF Inv
<1> QED
  BY InvInit, InvStep, <1>1, PTL DEF Spec

\* The published name never shows part of a bundle or a mix of two, whatever
\* died, failed or was lost, and however often.
THEOREM PublishedWhole == Spec => []BundleWhole
<1>1. Inv => BundleWhole
  BY DEF Inv, Made, BundleWhole
<1> QED
  BY InvInit, InvStep, <1>1, PTL DEF Spec

\* A published or acknowledged bundle was one state of the input files: the
\* second capture never ends for a capture that was not.
THEOREM FromOneState == Spec => []PublishedFromOneState
<1>1. Inv => PublishedFromOneState
  BY DEF Inv, CallOK, Coherence, PublishedFromOneState
<1> QED
  BY InvInit, InvStep, <1>1, PTL DEF Spec

\* A staging directory is left behind by a failed cleanup, by a call that never
\* learned which directory it made, or by power loss undoing a rename.
THEOREM LitterIsExplained == Spec => []LitterExplained
<1>1. Inv => LitterExplained
  BY DEF Inv, CallOK, Staged, LitterExplained
<1> QED
  BY InvInit, InvStep, <1>1, PTL DEF Spec

------------------------------------------------------------------------------
(* The refinement: what each place of a call is in WriteOnce, and what the  *)
(* steps that touch the name show of it.                                    *)
StatusFacts ==
  \A c \in Call :
    /\ pc[c] = "idle" => Status(c) = "idle"
    /\ pc[c] = "done" => Status(c) = verdict[c]
    /\ c \in committed /\ pc[c] # "done" => Status(c) = "committed"
    /\ pc[c] = "cleanup" /\ verdict[c] = "receipt" => Status(c) = "observed"
    /\ /\ pc[c] \in Live /\ c \notin committed
       /\ ~ (pc[c] = "cleanup" /\ verdict[c] = "receipt")
       => Status(c) = "calling"

LEMMA StatusKnown == Inv => StatusFacts
<1> SUFFICES ASSUME Inv, NEW c \in Call
             PROVE  /\ pc[c] = "idle" => Status(c) = "idle"
                    /\ pc[c] = "done" => Status(c) = verdict[c]
                    /\ c \in committed /\ pc[c] # "done" => Status(c) = "committed"
                    /\ pc[c] = "cleanup" /\ verdict[c] = "receipt" => Status(c) = "observed"
                    /\ /\ pc[c] \in Live /\ c \notin committed
                       /\ ~ (pc[c] = "cleanup" /\ verdict[c] = "receipt")
                       => Status(c) = "calling"
  BY DEF StatusFacts
<1>1. Progress(c)
  BY DEF Inv, CallOK
<1> QED
  BY <1>1 DEF Progress, Status, Live, InTry

\* A private directory with exactly the bundle of a payload shows this payload.
LEMMA SeenComplete ==
  ASSUME bundle # None, bundle.private, NEW d \in Payload, bundle.files = Complete(d)
  PROVE  Seen = d
BY DEF Seen, Complete, Name

\* A sync of the root shows what was there before.
LEMMA SeenFlushed == ASSUME PublicationTypeOK, bundle' = Flushed PROVE Seen' = Seen
BY Flushing DEF Seen

LEMMA RefinementInit == Init => Promised!Init
<1> SUFFICES ASSUME Init PROVE Promised!Init
  OBVIOUS
<1>1. Seen \in {None, Other}
  BY DEF Init, Seen
<1>2. \A c \in Call : Status(c) = "idle"
  BY DEF Init, Status
<1> QED
  BY <1>1, <1>2 DEF Init, Promised!Init

LEMMA RefinementStep ==
  Inv /\ Inv' /\ [Next]_vars => [Promised!Next]_(Promised!abstractVars)
<1> SUFFICES ASSUME Inv, Inv', Next PROVE [Promised!Next]_(Promised!abstractVars)
  <2>1. ASSUME UNCHANGED vars PROVE UNCHANGED Promised!abstractVars
    BY <2>1 DEF vars, Promised!abstractVars, Seen, Status
  <2> QED
    BY <2>1
<1> DEFINE st == [c \in Call |-> Status(c)]
<1>1. /\ PublicationTypeOK /\ PublicationTypeOK' /\ Made
      /\ \A c \in Call : /\ Progress(c) /\ Progress(c)' /\ Staged(c)
  BY DEF Inv, CallOK
<1>2. StatusFacts
  BY StatusKnown
<1>3. StatusFacts'
  BY StatusKnown, PTL
<1>4. ASSUME UNCHANGED <<Seen, want>>, \A c \in Call : Status(c)' = Status(c)
      PROVE  [Promised!Next]_(Promised!abstractVars)
  BY <1>4 DEF Promised!abstractVars
<1> DEFINE Alone(c) == \A d \in Call \ {c} : /\ pc'[d] = pc[d] /\ verdict'[d] = verdict[d]
                                             /\ d \in committed' <=> d \in committed
\* A step of one call changes the status of no other.
<1>5. ASSUME NEW c \in Call, Alone(c) PROVE \A d \in Call \ {c} : Status(d)' = Status(d)
  BY <1>5 DEF Status
<1>6. ASSUME NEW c \in Call, Alone(c) PROVE st' = [st EXCEPT ![c] = Status(c)']
  <2>1. \A d \in Call \ {c} : Status(d)' = Status(d)
    BY <1>5, <1>6
  <2> QED
    BY <2>1
\* A step of one call that WriteOnce cannot see.
<1>7. ASSUME NEW c \in Call, Alone(c), UNCHANGED <<Seen, want>>, Status(c)' = Status(c)
      PROVE  [Promised!Next]_(Promised!abstractVars)
  <2>1. \A d \in Call : Status(d)' = Status(d)
    BY <1>5, <1>7
  <2> QED
    BY <1>4, <1>7, <2>1
\* The other steps of one call.
<1>8. ASSUME NEW c \in Call, Alone(c), UNCHANGED want,
             \/ /\ UNCHANGED Seen
                /\ \/ Status(c) = "idle" /\ Status(c)' = "calling"
                   \/ Status(c) = "calling" /\ Seen = want[c] /\ Status(c)' = "observed"
                   \/ Status(c) \in {"committed", "observed"} /\ Status(c)' = "receipt"
                   \/ Status(c) \in {"calling", "observed"} /\ Status(c)' = "failed"
                   \/ Status(c) \in {"calling", "committed", "observed"} /\ Status(c)' = "lost"
             \/ /\ Seen = None /\ Seen' = want[c]
                /\ Status(c) = "calling" /\ Status(c)' = "committed"
      PROVE  [Promised!Next]_(Promised!abstractVars)
  <2>1. st' = [st EXCEPT ![c] = Status(c)'] /\ st[c] = Status(c)
    BY <1>6, <1>8
  <2>2. \/ Promised!Ask(c) \/ Promised!Commit(c) \/ Promised!Observe(c)
        \/ Promised!Acknowledge(c) \/ Promised!Refuse(c) \/ Promised!Lose(c)
    BY <1>8, <2>1 DEF Promised!Ask, Promised!Commit, Promised!Observe, Promised!Acknowledge,
                      Promised!Refuse, Promised!Lose, Promised!Move, Promised!Running
  <2> QED
    BY <2>2 DEF Promised!Next
<1> HIDE DEF st
\* A call that is not at its end is in one of the three running states.
<1>9. ASSUME NEW c \in Call, pc[c] \in Live PROVE Status(c) \in {"calling", "committed", "observed"}
  BY <1>2, <1>9 DEF StatusFacts, Live, InTry
<1>10. ASSUME NEW c \in Call, Start(c) PROVE [Promised!Next]_(Promised!abstractVars)
  <2>1. Alone(c) /\ UNCHANGED <<Seen, want>>
    BY <1>1, <1>10 DEF Start, Goto, Seen, PublicationTypeOK
  <2>2. Status(c) = "idle" /\ Status(c)' = "calling"
    BY <1>1, <1>2, <1>3, <1>10
       DEF Start, Goto, PublicationTypeOK, Progress, StatusFacts, Live, InTry
  <2> QED
    BY <1>8, <2>1, <2>2
\* Inside the try block a call is calling until it renames or reconciles.
<1>11. ASSUME NEW c \in Call, Alone(c), UNCHANGED <<Seen, want, committed>>,
              pc[c] \in InTry \cup {"capture"}, pc'[c] \in Live,
              ~ (pc'[c] = "cleanup" /\ verdict'[c] = "receipt")
       PROVE  [Promised!Next]_(Promised!abstractVars)
  <2>1. Status(c) = "calling" /\ Status(c)' = "calling"
    BY <1>1, <1>2, <1>3, <1>11 DEF StatusFacts, Progress, Live, InTry
  <2> QED
    BY <1>7, <1>11, <2>1
<1>12. ASSUME NEW c \in Call, Capture(c) \/ RecheckDone(c) \/ MakeStaging(c) \/ Identify(c)
       PROVE  [Promised!Next]_(Promised!abstractVars)
  <2>1. Alone(c) /\ UNCHANGED <<Seen, want, committed>>
    BY <1>1, <1>12 DEF Capture, RecheckDone, MakeStaging, Identify, Goto, Seen, PublicationTypeOK
  <2>2. pc[c] \in InTry \cup {"capture"} /\ pc'[c] \in Live /\ pc'[c] # "cleanup"
    BY <1>1, <1>12
       DEF Capture, RecheckDone, MakeStaging, Identify, Goto, PublicationTypeOK, Live, InTry
  <2> QED
    BY <1>11, <2>1, <2>2
<1>13. ASSUME NEW c \in Call, WriteFile(c) \/ SyncStaging(c) \/ Lookup(c) \/ Race(c) \/ RecheckInput(c)
       PROVE  [Promised!Next]_(Promised!abstractVars)
  <2>1. Alone(c) /\ UNCHANGED <<Seen, want, committed>>
    <3>1. UNCHANGED <<Seen, want, committed>>
      BY <1>13 DEF WriteFile, SyncStaging, Lookup, Race, Look, RecheckInput, Seen
    <3>2. ASSUME NEW d \in Call \ {c} PROVE pc'[d] = pc[d] /\ verdict'[d] = verdict[d]
      <4>0. /\ pc \in [Call -> Live \cup {"idle", "done"}]
            /\ verdict \in [Call -> {"none", "receipt", "failed", "lost"}]
        BY <1>1 DEF PublicationTypeOK
      <4>1. CASE WriteFile(c)
        BY <3>2, <4>0, <4>1 DEF WriteFile, Goto
      <4>4. CASE SyncStaging(c)
        BY <3>2, <4>0, <4>4 DEF SyncStaging, Goto, Leave
      <4>2. CASE Lookup(c) \/ Race(c)
        BY <1>1, <4>2 DEF Lookup, Race, Look, Goto, Leave, PublicationTypeOK
      <4>3. CASE RecheckInput(c)
        BY <1>1, <4>3 DEF RecheckInput, Goto, Leave, PublicationTypeOK
      <4> QED
        BY <1>13, <4>1, <4>2, <4>3, <4>4
    <3> QED
      BY <3>1, <3>2
  <2>2. pc[c] \in InTry
    BY <1>13 DEF WriteFile, SyncStaging, Lookup, Race, Look, RecheckInput, InTry
  <2>3. pc'[c] \in Live /\ (pc'[c] = "cleanup" => verdict'[c] = "failed")
    <3>0. /\ pc \in [Call -> Live \cup {"idle", "done"}]
          /\ verdict \in [Call -> {"none", "receipt", "failed", "lost"}]
      BY <1>1 DEF PublicationTypeOK
    <3>1. CASE WriteFile(c)
      BY <3>0, <3>1 DEF WriteFile, Goto, Live, InTry
    <3>2. CASE SyncStaging(c)
      BY <3>0, <3>2 DEF SyncStaging, Goto, Leave, Live, InTry
    <3>3. CASE Lookup(c) \/ Race(c)
      BY <3>0, <3>3 DEF Lookup, Race, Look, Goto, Leave, Live, InTry
    <3>4. CASE RecheckInput(c)
      BY <2>2, <3>0, <3>4 DEF RecheckInput, Goto, Leave, Live, InTry
    <3> QED
      BY <1>13, <3>1, <3>2, <3>3, <3>4
  <2> QED
    BY <1>11, <2>1, <2>2, <2>3
<1>14. ASSUME NEW c \in Call, RequireAbsent(c) PROVE [Promised!Next]_(Promised!abstractVars)
  <2>1. UNCHANGED Seen
    BY <1>1, <1>14, SeenFlushed DEF RequireAbsent
  <2>2. Alone(c) /\ UNCHANGED <<want, committed>>
    BY <1>1, <1>14 DEF RequireAbsent, Goto, Leave, PublicationTypeOK
  <2>3. pc[c] \in InTry /\ pc'[c] \in Live /\ (pc'[c] = "cleanup" => verdict'[c] = "failed")
    BY <1>1, <1>14 DEF RequireAbsent, Goto, Leave, PublicationTypeOK, Live, InTry
  <2> QED
    BY <1>11, <2>1, <2>2, <2>3
<1>15. ASSUME NEW c \in Call, VerifyInputs(c) PROVE [Promised!Next]_(Promised!abstractVars)
  <2>1. Alone(c) /\ UNCHANGED <<Seen, want, committed>> /\ pc[c] = "capture"
    BY <1>1, <1>15 DEF VerifyInputs, Goto, Leave, Seen, PublicationTypeOK
  <2>2. pc'[c] = "lookup" \/ (pc'[c] = "done" /\ verdict'[c] = "failed")
    BY <1>1, <1>15 DEF VerifyInputs, Goto, Leave, PublicationTypeOK
  <2>3. CASE pc'[c] = "lookup"
    BY <1>11, <2>1, <2>3 DEF Live, InTry
  <2>4. CASE pc'[c] = "done" /\ verdict'[c] = "failed"
    <3>1. Status(c) = "calling" /\ Status(c)' = "failed"
      BY <1>1, <1>2, <1>3, <2>1, <2>4 DEF StatusFacts, Progress, Live
    <3> QED
      BY <1>8, <2>1, <3>1
  <2> QED
    BY <2>2, <2>3, <2>4
<1>16. ASSUME NEW c \in Call, Relook(c) PROVE [Promised!Next]_(Promised!abstractVars)
  <2>1. Alone(c) /\ UNCHANGED <<Seen, want, committed>> /\ pc[c] = "relook" /\ pc'[c] = "cleanup"
    BY <1>1, <1>16 DEF Relook, Goto, Leave, Seen, PublicationTypeOK
  <2>2. CASE Matches(c)
    <3>1. Seen = want[c]
      BY <1>1, <2>2, SeenComplete DEF Matches, PublicationTypeOK
    <3>2. verdict'[c] = "receipt"
      BY <1>1, <1>16, <2>2 DEF Relook, Leave, PublicationTypeOK
    <3>3. Status(c) = "calling" /\ Status(c)' = "observed"
      BY <1>1, <1>2, <1>3, <2>1, <3>2 DEF StatusFacts, Progress, Live, InTry
    <3> QED
      BY <1>8, <2>1, <3>1, <3>3
  <2>3. CASE ~ Matches(c)
    <3>1. verdict'[c] = "failed"
      BY <1>1, <1>16, <2>3 DEF Relook, Leave, PublicationTypeOK
    <3> QED
      BY <1>11, <2>1, <3>1 DEF Live, InTry
  <2> QED
    BY <2>2, <2>3
<1>17. ASSUME NEW c \in Call, Rename(c) PROVE [Promised!Next]_(Promised!abstractVars)
  <2>1. Alone(c) /\ UNCHANGED want /\ pc[c] = "rename" /\ staging[c] = Complete(want[c])
    BY <1>1, <1>17 DEF Rename, Goto, PublicationTypeOK, Staged
  <2>2. Status(c) = "calling"
    BY <1>1, <1>2, <2>1 DEF StatusFacts, Progress, Live, InTry
  <2>3. CASE bundle = None
    <3>1. /\ bundle' = [maker |-> c, files |-> Complete(want[c]), private |-> TRUE,
                        whole |-> c \in synced, durable |-> FALSE]
          /\ pc'[c] = "committed" /\ c \in committed'
      BY <1>1, <1>17, <2>1, <2>3 DEF Rename, Goto, PublicationTypeOK
    <3>2. /\ bundle' # None /\ bundle'.private /\ bundle'.files = Complete(want'[c])
          /\ want'[c] \in Payload /\ want'[c] = want[c]
      <4>1. Complete(want[c]) \in Directory
        BY <1>1, Directories DEF PublicationTypeOK
      <4>2. bundle' \in Bundle
        BY <3>1, <4>1 DEF Bundle
      <4> QED
        BY <1>1, <2>1, <3>1, <4>2, Constants DEF PublicationTypeOK
    <3>3. Seen = None /\ Seen' = want[c]
      BY <2>3, <3>2 DEF Seen, Complete, Name
    <3>4. Status(c)' = "committed"
      BY <1>3, <3>1 DEF StatusFacts
    <3> QED
      BY <1>8, <2>1, <2>2, <3>3, <3>4
  <2>4. CASE bundle # None
    <3>1. UNCHANGED <<Seen, committed>> /\ pc'[c] = "race"
      BY <1>1, <1>17, <2>4 DEF Rename, Goto, Seen, PublicationTypeOK
    <3> QED
      BY <1>11, <2>1, <3>1 DEF Live, InTry
  <2> QED
    BY <2>3, <2>4
<1>18. ASSUME NEW c \in Call, Settle(c) PROVE [Promised!Next]_(Promised!abstractVars)
  <2>1. UNCHANGED Seen
    BY <1>1, <1>18, SeenFlushed DEF Settle, Seen
  <2>2. /\ Alone(c) /\ UNCHANGED want /\ pc[c] = "committed"
        /\ pc'[c] = "done" /\ verdict'[c] = "receipt"
    BY <1>1, <1>18 DEF Settle, Goto, PublicationTypeOK
  <2>3. Status(c) = "committed" /\ Status(c)' = "receipt"
    BY <1>1, <1>2, <1>3, <2>2 DEF StatusFacts, Progress
  <2> QED
    BY <1>8, <2>1, <2>2, <2>3
<1>19. ASSUME NEW c \in Call, Cleanup(c) \/ CleanupFails(c)
       PROVE  [Promised!Next]_(Promised!abstractVars)
  <2>1. /\ Alone(c) /\ UNCHANGED <<Seen, want, committed>>
        /\ pc[c] = "cleanup" /\ pc'[c] = "done"
    BY <1>1, <1>19 DEF Cleanup, CleanupFails, Goto, Seen, PublicationTypeOK
  <2>2. verdict'[c] = verdict[c] \/ (verdict[c] = "receipt" /\ verdict'[c] = "failed")
    BY <1>1, <1>19 DEF Cleanup, CleanupFails, PublicationTypeOK
  <2>3. Status(c)' = verdict'[c]
    BY <1>3, <2>1 DEF StatusFacts
  <2>4. verdict[c] \in {"receipt", "failed", "lost"}
    BY <1>1, <2>1 DEF PublicationTypeOK, Progress
  <2>5. CASE verdict[c] = "receipt"
    <3>1. Status(c) = "observed"
      BY <1>2, <2>1, <2>5 DEF StatusFacts
    <3> QED
      BY <1>8, <2>1, <2>2, <2>3, <2>5, <3>1
  <2>6. CASE verdict[c] = "failed"
    <3>1. Status(c) = "calling"
      BY <1>1, <1>2, <2>1, <2>6 DEF StatusFacts, Progress, Live
    <3> QED
      BY <1>8, <2>1, <2>2, <2>3, <2>6, <3>1
  <2>7. CASE verdict[c] = "lost"
    BY <1>8, <1>9, <2>1, <2>2, <2>3, <2>7 DEF Live
  <2> QED
    BY <2>4, <2>5, <2>6, <2>7
<1>20. ASSUME NEW c \in Call, Abort(c) PROVE [Promised!Next]_(Promised!abstractVars)
  <2>1. /\ Alone(c) /\ UNCHANGED <<Seen, want, committed>> /\ pc[c] \in InTry \cup {"capture"}
        /\ verdict'[c] = "failed" /\ pc'[c] = IF pc[c] = "capture" THEN "done" ELSE "cleanup"
    BY <1>1, <1>20 DEF Abort, Leave, Goto, Seen, PublicationTypeOK
  <2>2. CASE pc[c] = "capture"
    <3>1. Status(c) = "calling" /\ Status(c)' = "failed"
      BY <1>1, <1>2, <1>3, <2>1, <2>2 DEF StatusFacts, Progress, Live
    <3> QED
      BY <1>8, <2>1, <3>1
  <2>3. CASE pc[c] # "capture"
    BY <1>11, <2>1, <2>3 DEF Live
  <2> QED
    BY <2>2, <2>3
<1>21. ASSUME NEW c \in Call, Interrupt(c) PROVE [Promised!Next]_(Promised!abstractVars)
  <2>1. /\ Alone(c) /\ UNCHANGED <<Seen, want, committed>> /\ pc[c] \in Live \ {"cleanup"}
        /\ verdict'[c] = "lost" /\ pc'[c] = IF pc[c] = "capture" THEN "done" ELSE "cleanup"
    BY <1>1, <1>21 DEF Interrupt, Leave, Goto, Seen, PublicationTypeOK
  <2>2. CASE pc[c] = "capture"
    <3>1. Status(c)' = "lost"
      BY <1>3, <2>1, <2>2 DEF StatusFacts
    <3> QED
      BY <1>8, <1>9, <2>1, <3>1
  <2>3. CASE pc[c] = "committed"
    <3>1. Status(c) = "committed" /\ Status(c)' = "committed"
      BY <1>1, <1>2, <1>3, <2>1, <2>3 DEF StatusFacts, Progress
    <3> QED
      BY <1>7, <2>1, <3>1
  <2>4. CASE pc[c] \in InTry
    BY <1>11, <2>1, <2>4 DEF Live, InTry
  <2> QED
    BY <2>1, <2>2, <2>3, <2>4 DEF Live
<1>22. ASSUME NEW c \in Call, Crash(c) PROVE [Promised!Next]_(Promised!abstractVars)
  <2>1. Alone(c) /\ UNCHANGED <<Seen, want>> /\ pc[c] \in Live /\ pc'[c] = "done" /\ verdict'[c] = "lost"
    BY <1>1, <1>22 DEF Crash, Goto, Seen, PublicationTypeOK
  <2>2. Status(c)' = "lost"
    BY <1>3, <2>1 DEF StatusFacts
  <2> QED
    BY <1>8, <1>9, <2>1, <2>2
<1>23. CASE PowerLoss
  <2>1. /\ UNCHANGED <<want, committed>>
        /\ \A c \in Call : IF pc[c] \in Live THEN pc'[c] = "done" /\ verdict'[c] = "lost"
                                            ELSE pc'[c] = pc[c] /\ verdict'[c] = verdict[c]
    BY <1>23 DEF PowerLoss
  <2>2. bundle' \in {bundle, None}
    BY <1>1, <1>23 DEF PowerLoss, Made
  <2>3. Seen' \in {Seen, None}
    BY <2>2 DEF Seen
  <2>4. ASSUME NEW c \in Call
        PROVE  Status(c)' = IF Status(c) \in {"calling", "committed", "observed"} THEN "lost" ELSE Status(c)
    <3>1. CASE pc[c] \in Live
      BY <1>3, <1>9, <2>1, <3>1 DEF StatusFacts
    <3>2. CASE pc[c] \notin Live
      <4>1. pc[c] \in {"idle", "done"}
        BY <1>1, <3>2 DEF PublicationTypeOK
      <4>2. Status(c) = Status(c)' /\ Status(c) \in {"idle", "none", "receipt", "failed", "lost"}
        BY <1>1, <1>2, <1>3, <2>1, <3>2, <4>1 DEF StatusFacts, PublicationTypeOK
      <4> QED
        BY <4>2
    <3> QED
      BY <3>1, <3>2
  <2>5. Promised!PowerLoss
    BY <2>1, <2>3, <2>4 DEF st, Promised!PowerLoss, Promised!Running
  <2> QED
    BY <2>5 DEF Promised!Next
<1>24. CASE Rewrite
  <2>1. UNCHANGED <<Seen, want>> /\ \A c \in Call : Status(c)' = Status(c)
    BY <1>24 DEF Rewrite, Seen, Status
  <2> QED
    BY <1>4, <2>1
<1>25. CASE Withdraw
  <2>1. Seen' = None /\ UNCHANGED <<pc, want, committed, verdict>>
    BY <1>25 DEF Withdraw, Seen
  <2>2. Promised!Withdraw
    BY <2>1 DEF Promised!Withdraw, Status
  <2> QED
    BY <2>2 DEF Promised!Next
<1> QED
  BY <1>10, <1>12, <1>13, <1>14, <1>15, <1>16, <1>17, <1>18, <1>19, <1>20, <1>21, <1>22, <1>23,
     <1>24, <1>25 DEF Next, Step, Outside

\* The publisher implements WriteOnce: every receipt stands for the exact bundle
\* seen under the name, a call whose rename happened never reports a failure,
\* and nobody replaces a bundle.
THEOREM PublicationImplementsWriteOnce == Spec => ImplementsWriteOnce
BY InvInit, InvStep, RefinementInit, RefinementStep, PTL
   DEF Spec, ImplementsWriteOnce, Promised!Spec

-----------------------------------------------------------------------------
(* The output transactions of a required build: the inductive invariant.    *)
In(lv, steps) == at.lv = lv /\ at.s \in steps

\* The outputs that a transaction has not moved aside yet, those that have no
\* new file yet, and those that a rollback has still to look at or is done with.
Unmoved(lv, j) ==
  \/ In(lv, {"receipt", "move"}) /\ j >= at.i
  \/ lv = "inner" /\ In("outer", {"receipt", "move", "wheel", "link", "verify", "emit"})
Unlinked(j) ==
  \/ In("outer", {"receipt", "move", "wheel", "link"})
  \/ j \in Sidecars /\ (In("outer", {"verify", "emit"}) \/ In("inner", {"receipt", "move"}))
Pending(lv, j) ==
  \/ ~ RollingBack
  \/ at.lv = "inner" /\ (lv = "outer" \/ j < at.i \/ (j = at.i /\ at.s = "take"))
  \/ at.lv = "outer" /\ lv = "outer" /\ (j > at.i \/ (j = at.i /\ at.s = "take"))
Done(j) ==
  \/ In("outer", {"take", "dispose", "restore", "restored"}) /\ j < at.i
  \/ In("outer", {"end"})

\* Where the steps are, and which are behind them.
Placed ==
  /\ In("outer", {"wheel", "link", "verify", "emit"}) => at.i = 1
  /\ at.lv = "inner" => at.i \in Sidecars
  /\ In("outer", {"end"}) => at.i = 3
  /\ ~ In("outer", {"recheck", "claim"})
  /\ ~ RollingBack => (verified <=> In("outer", {"discard", "close"}))
  /\ at.lv = "inner" => ~ verified
  /\ outcome = "running" => at.s # "start"

Claims ==
  /\ In("outer", {"receipt", "move", "wheel", "link", "verify"}) => mine["outer"] = {}
  /\ In("outer", {"emit"}) \/ In("inner", {"receipt", "move", "link", "verify", "recheck"}) =>
       Sidecars \cap mine["outer"] = {}
  /\ In("inner", {"close", "discard"}) => Sidecars \subseteq mine["outer"]

Looked ==
  /\ at.lv = "inner" \/ (~ RollingBack /\ ~ In("outer", {"start", "receipt", "move"})) =>
       handled["outer"] = Outputs
  /\ In("outer", {"receipt", "move"}) =>
       \A j \in Outputs : j < at.i \/ (j = at.i /\ at.s = "move") => j \in handled["outer"]
  /\ \A j \in Outputs : orig["outer"][j] # NoFile => j \in handled["outer"]

\* What the backup directories hold.
Backups ==
  /\ \A lv \in Levels, j \in Outputs : Unmoved(lv, j) => prev[lv][j] = NoFile
  /\ ~ RollingBack => \A lv \in Levels, j \in Outputs : prev[lv][j] \in {NoFile, orig[lv][j]}
  /\ at.s = "restored" => prev[at.lv][at.i] = orig[at.lv][at.i]
  /\ \A lv \in Levels, j \in Outputs : Pending(lv, j) => quar[lv][j] = NoFile
  /\ \A lv \in Levels, j \in Outputs : stage[lv][j] \in {NoFile, Own(j)}

\* No file is of a build to come, and a file is this build's only once linked.
Old(f) == f.by = "build" => f.n <= build
Dated ==
  /\ \A j \in Outputs : Old(dist[j])
  /\ \A lv \in Levels, j \in Outputs : Old(prev[lv][j]) /\ Old(quar[lv][j]) /\ Old(orig[lv][j])
  /\ \A lv \in Levels, j \in Outputs : orig[lv][j] # Own(j)
  /\ at.s # "start" => \A j \in Outputs : Unlinked(j) \/ j \notin handled["outer"] => dist[j] # Own(j)

\* An earlier output is where it was, in the backup, or was overwritten by
\* others; once it is moved aside it is not at its path.
Safe(j) == prev["outer"][j] = orig["outer"][j] \/ orig["outer"][j] \in taken
Past(j) ==
  \/ at.lv = "inner"
  \/ In("outer", {"wheel", "link", "verify", "emit", "revalidate", "check"})
  \/ In("outer", {"receipt", "move"}) /\ j < at.i
  \/ RollingBack /\ Pending("outer", j) /\ j \in mine["outer"]
Earlier ==
  ~ verified => \A j \in Outputs : orig["outer"][j] # NoFile =>
    /\ Safe(j) \/ dist[j] = orig["outer"][j]
    /\ Past(j) => Safe(j)

\* What a rollback says of the outputs it is done with.
Undone ==
  /\ In("outer", {"restore", "restored"}) /\ clean.removed => dist[at.i] # Own(at.i)
  /\ \A j \in Outputs : Done(j) =>
       /\ clean.removed => dist[j] # Own(j)
       /\ clean.restored /\ orig["outer"][j] # NoFile =>
            dist[j] = orig["outer"][j] \/ orig["outer"][j] \in taken

\* Where a file of others may be.
Found(g) ==
  \/ g \in lost \/ g \in taken \/ g \in strays
  \/ \E j \in Outputs : g = dist[j]
  \/ \E lv \in Levels, j \in Outputs : g = prev[lv][j] \/ g = quar[lv][j]
  \/ verified /\ \E j \in Outputs : g = orig["outer"][j]
  \/ Sidecars \subseteq mine["outer"] /\ \E j \in Outputs : g = orig["inner"][j]

Accounted == \A g \in others : g.by # "build" /\ Found(g)

Typed == EvidenceTypeOK /\ IsFiniteSet(others)

EvidenceInv == Typed /\ Placed /\ Claims /\ Looked /\ Backups /\ Dated /\ Earlier /\ Accounted
         /\ Undone /\ CompleteMeansUndone

-----------------------------------------------------------------------------
(* Files, places and steps.                                                 *)
LEMMA Files ==
  /\ NoFile \in MaybeFile /\ NoFile \notin OutputFile /\ OutputFile \subseteq MaybeFile
  /\ build \in 0..Builds => \A j \in Outputs : Own(j) \in OutputFile /\ Own(j) # NoFile
<1>1. NoFile \in MaybeFile /\ OutputFile \subseteq MaybeFile
  BY DEF MaybeFile
<1>2. NoFile \notin OutputFile
  BY DEF NoFile, OutputFile
<1>3. ASSUME build \in 0..Builds, NEW j \in Outputs PROVE Own(j) \in OutputFile
  BY <1>3 DEF Own, OutputFile
<1> QED
  BY <1>1, <1>2, <1>3

LEMMA Three == Outputs = {1, 2, 3} /\ Sidecars = {2, 3} /\ 1 \in Outputs /\ 2 \in Outputs /\ 3 \in Outputs
BY DEF Outputs, Sidecars

LEMMA Standing ==
  ASSUME NEW lv, NEW s, NEW i, At(lv, s, i)
  PROVE  outcome = "running" /\ at.lv = lv /\ at.s = s /\ at.i = i
BY DEF At, StepOf

LEMMA Going ==
  ASSUME NEW lv \in Levels, NEW s \in Steps, NEW i \in Outputs, GoTo(lv, s, i)
  PROVE  /\ at'.lv = lv /\ at'.s = s /\ at'.i = i
         /\ at' \in [lv : Levels, s : Steps, i : Outputs]
BY DEF GoTo, StepOf

LEMMA FoundIsKept ==
  ASSUME \A g \in others : Found(g), others \subseteq OutputFile
  PROVE  OthersKept
<1>1. SUFFICES ASSUME NEW g \in others, g \notin Present, g \notin taken, g \notin lost
               PROVE  \/ verified /\ g \in FilesOf(orig["outer"])
                      \/ Sidecars \subseteq mine["outer"] /\ g \in FilesOf(orig["inner"])
  BY DEF OthersKept, Gone
<1>2. g # NoFile
  BY Files
<1>3. \A j \in Outputs : g # dist[j]
  BY <1>1, <1>2 DEF Present, FilesOf
<1>4. \A lv \in Levels, j \in Outputs : g # prev[lv][j] /\ g # quar[lv][j]
  BY <1>1, <1>2 DEF Present, Held, FilesOf, Levels
<1>5. g \notin strays
  BY <1>1 DEF Present
<1>6. \/ verified /\ \E j \in Outputs : g = orig["outer"][j]
      \/ Sidecars \subseteq mine["outer"] /\ \E j \in Outputs : g = orig["inner"][j]
  BY <1>1, <1>3, <1>4, <1>5 DEF Found
<1> QED
  BY <1>2, <1>6 DEF FilesOf

LEMMA StillFound ==
  ASSUME Typed, Accounted, UNCHANGED <<others, lost, strays>>, taken \subseteq taken',
         verified => verified', mine["outer"] \subseteq mine'["outer"],
         verified => orig'["outer"] = orig["outer"],
         Sidecars \subseteq mine["outer"] => orig'["inner"] = orig["inner"],
         \A g \in others : g # NoFile /\ g.by # "build" =>
            /\ \A j \in Outputs : g = dist[j] => Found(g)'
            /\ \A lv \in Levels, j \in Outputs : g = prev[lv][j] \/ g = quar[lv][j] => Found(g)'
  PROVE  Accounted'
<1>1. SUFFICES ASSUME NEW g \in others PROVE Found(g)'
  BY DEF Accounted
<1>2. g # NoFile /\ g.by # "build" /\ Found(g)
  BY Files DEF Typed, EvidenceTypeOK, Accounted
<1>3. CASE g \in lost \/ g \in taken \/ g \in strays
  BY <1>3 DEF Found
<1>4. CASE \E j \in Outputs : g = dist[j]
  BY <1>2, <1>4
<1>5. CASE \E lv \in Levels, j \in Outputs : g = prev[lv][j] \/ g = quar[lv][j]
  BY <1>2, <1>5
<1>6. CASE verified /\ \E j \in Outputs : g = orig["outer"][j]
  BY <1>2, <1>6 DEF Found
<1>7. CASE Sidecars \subseteq mine["outer"] /\ \E j \in Outputs : g = orig["inner"][j]
  <2>1. Sidecars \subseteq mine'["outer"]
    BY <1>7
  <2>2. \E j \in Outputs : g = orig'["inner"][j]
    BY <1>7
  <2> QED
    BY <2>1, <2>2 DEF Found
<1> QED
  BY <1>2, <1>3, <1>4, <1>5, <1>6, <1>7 DEF Found

\* Steps that move no file.
LEMMA QuietlyFound ==
  ASSUME Typed, Accounted, UNCHANGED <<others, lost, strays, taken, dist, prev, quar>>,
         verified => verified', mine["outer"] \subseteq mine'["outer"],
         verified => orig'["outer"] = orig["outer"],
         Sidecars \subseteq mine["outer"] => orig'["inner"] = orig["inner"]
  PROVE  Accounted'
<1>1. ASSUME NEW g, NEW j \in Outputs, g = dist[j] PROVE Found(g)'
  BY <1>1 DEF Found
<1>2. ASSUME NEW g, NEW lv \in Levels, NEW j \in Outputs, g = prev[lv][j] \/ g = quar[lv][j]
      PROVE  Found(g)'
  BY <1>2 DEF Found
<1> QED
  BY <1>1, <1>2, StillFound

-----------------------------------------------------------------------------
(* What a rollback needs when it begins.                                    *)
Ready(lv) ==
  /\ Typed /\ Accounted
  /\ lv = "inner" => ~ verified /\ handled["outer"] = Outputs
  /\ \A j \in Outputs : orig["outer"][j] # NoFile => j \in handled["outer"]
  /\ \A l \in Levels, j \in Outputs : stage[l][j] \in {NoFile, Own(j)}
  /\ \A j \in Outputs : quar["outer"][j] = NoFile /\ (lv = "inner" => quar["inner"][j] = NoFile)
  /\ \A j \in Outputs : Old(dist[j])
  /\ \A l \in Levels, j \in Outputs : Old(prev[l][j]) /\ Old(quar[l][j]) /\ Old(orig[l][j])
  /\ \A l \in Levels, j \in Outputs : orig[l][j] # Own(j)
  /\ \A j \in Outputs : j \notin handled["outer"] => dist[j] # Own(j)
  /\ ~ verified => \A j \in Outputs : orig["outer"][j] # NoFile =>
       /\ Safe(j) \/ dist[j] = orig["outer"][j]
       /\ lv = "inner" \/ j \in mine["outer"] => Safe(j)

LEMMA FailTypes ==
  ASSUME NEW lv \in Levels, FailFrom(lv)
  PROVE  /\ at'.lv = lv /\ at'.s = "take" /\ at'.i = (IF lv = "inner" THEN 3 ELSE 1)
         /\ at' \in [lv : Levels, s : Steps, i : Outputs]
BY Going, Three DEF FailFrom, Steps

LEMMA Falls ==
  ASSUME NEW lv \in Levels, FailFrom(lv), outcome' = "running", Ready(lv)'
  PROVE  EvidenceInv'
<1> DEFINE b == IF lv = "inner" THEN 3 ELSE 1
<1>1. at'.lv = lv /\ at'.s = "take" /\ at'.i = b
  BY FailTypes
<1>2. RollingBack' /\ Typed' /\ Accounted' /\ lv \in {"outer", "inner"}
  BY <1>1 DEF RollingBack, Ready, Levels
<1>3. \A l, steps : In(l, steps)' <=> l = lv /\ "take" \in steps
  BY <1>1 DEF In
<1>4. Placed' /\ Claims'
  BY <1>1, <1>2, Three DEF Placed, Claims, Ready, In, RollingBack
<1>5. Looked'
  BY <1>1, <1>2 DEF Looked, Ready, In
<1>6. Backups'
  <2>1. \A l \in Levels, j \in Outputs : ~ Unmoved(l, j)'
    BY <1>1 DEF Unmoved, In
  <2>2. \A l \in Levels, j \in Outputs : Pending(l, j)' => l = "outer" \/ lv = "inner"
    BY <1>1, <1>2 DEF Pending, Levels
  <2>3. \A l \in Levels, j \in Outputs : Pending(l, j)' => quar'[l][j] = NoFile
    BY <2>2 DEF Ready, Levels
  <2> QED
    BY <1>1, <1>2, <2>1, <2>3 DEF Backups, Ready
<1>7. Dated'
  <2>1. \A j \in Outputs : ~ Unlinked(j)'
    BY <1>1 DEF Unlinked, In
  <2> QED
    BY <2>1 DEF Dated, Ready
<1>8. Earlier'
  <2>1. \A j \in Outputs : Past(j)' => lv = "inner" \/ j \in mine'["outer"]
    BY <1>1 DEF Past, In
  <2> QED
    BY <2>1 DEF Earlier, Ready
<1>9. Undone'
  <2>1. \A j \in Outputs : j \in 1..3
    BY DEF Outputs
  <2>2. \A j \in Outputs : ~ Done(j)'
    BY <1>1, <1>2, <2>1 DEF Done, In
  <2> QED
    BY <1>1, <2>2 DEF Undone, In
<1>10. CompleteMeansUndone'
  BY DEF CompleteMeansUndone
<1> QED
  BY <1>2, <1>4, <1>5, <1>6, <1>7, <1>8, <1>9, <1>10 DEF EvidenceInv

\* From a step that is not of a rollback, every failure is ready for one; into
\* the inner rollback the evidence writer and the inner transaction fail.
LEMMA ForwardIsReady ==
  ASSUME EvidenceInv, ~ RollingBack, NEW lv \in Levels,
         lv = "inner" => at.lv = "inner" \/ In("outer", {"emit"}),
         at.s # "start"
  PROVE  Ready(lv)
<1>1. Typed /\ Accounted
  BY DEF EvidenceInv
<1>2. /\ \A l \in Levels, j \in Outputs : stage[l][j] \in {NoFile, Own(j)}
      /\ \A l \in Levels, j \in Outputs : quar[l][j] = NoFile
  BY DEF EvidenceInv, Backups, Pending
<1>3. lv = "inner" => ~ verified /\ handled["outer"] = Outputs
  BY DEF EvidenceInv, Placed, Looked, In
<1>4. \A j \in Outputs : orig["outer"][j] # NoFile => j \in handled["outer"]
  BY DEF EvidenceInv, Looked
<1>5. /\ \A j \in Outputs : Old(dist[j])
      /\ \A l \in Levels, j \in Outputs : Old(prev[l][j]) /\ Old(quar[l][j]) /\ Old(orig[l][j])
      /\ \A l \in Levels, j \in Outputs : orig[l][j] # Own(j)
      /\ \A j \in Outputs : j \notin handled["outer"] => dist[j] # Own(j)
  BY DEF EvidenceInv, Dated
<1>6. ASSUME ~ verified, NEW j \in Outputs, orig["outer"][j] # NoFile
      PROVE  /\ Safe(j) \/ dist[j] = orig["outer"][j]
             /\ lv = "inner" \/ j \in mine["outer"] => Safe(j)
  <2>1. (Safe(j) \/ dist[j] = orig["outer"][j]) /\ (Past(j) => Safe(j))
    BY <1>6 DEF EvidenceInv, Earlier
  <2>2. lv = "inner" => Past(j)
    BY DEF Past, In
  <2>3. j \in mine["outer"] => Past(j)
    <3>1. ~ In("outer", {"discard", "close"})
      BY <1>6 DEF EvidenceInv, Placed
    <3>2. j \in mine["outer"] => ~ In("outer", {"receipt", "move", "wheel", "link", "verify"})
      BY DEF EvidenceInv, Claims
    <3>3. at.lv \in {"outer", "inner"} /\ at.s \in Steps /\ ~ In("outer", {"recheck", "claim"})
      BY DEF EvidenceInv, Typed, EvidenceTypeOK, Levels, Placed
    <3> QED
      BY <3>1, <3>2, <3>3 DEF Past, In, RollingBack, Steps
  <2> QED
    BY <2>1, <2>2, <2>3
<1> QED
  BY <1>1, <1>2, <1>3, <1>4, <1>5, <1>6 DEF Ready, Levels

Rollback == {"take", "dispose", "restore", "restored", "end"}

LEMMA Onward ==
  ASSUME NEW lv \in Levels, NEW s \in Steps \ Rollback, NEW i \in Outputs, GoTo(lv, s, i),
         outcome' = "running"
  PROVE  /\ at'.lv = lv /\ at'.s = s /\ at'.i = i
         /\ at' \in [lv : Levels, s : Steps, i : Outputs]
         /\ ~ RollingBack' /\ Undone' /\ CompleteMeansUndone'
         /\ \A l, steps : In(l, steps)' <=> l = lv /\ s \in steps
         /\ \A l \in Levels, j \in Outputs : Pending(l, j)'
<1>1. /\ at'.lv = lv /\ at'.s = s /\ at'.i = i /\ s \in Steps
      /\ at' \in [lv : Levels, s : Steps, i : Outputs]
  BY Going
<1>2. ~ RollingBack' /\ \A l, steps : In(l, steps)' <=> l = lv /\ s \in steps
  BY <1>1 DEF RollingBack, In, Rollback
<1>3. Undone'
  <2>1. \A j \in Outputs : ~ Done(j)'
    BY <1>2 DEF Done, Rollback
  <2> QED
    BY <1>2, <2>1 DEF Undone, Rollback
<1>4. CompleteMeansUndone' /\ \A l \in Levels, j \in Outputs : Pending(l, j)'
  BY <1>2 DEF CompleteMeansUndone, Pending
<1> QED
  BY <1>1, <1>2, <1>3, <1>4

\* A failure at a step that has changed nothing.
LEMMA FailsQuietly ==
  ASSUME EvidenceInv, ~ RollingBack, at.s # "start", NEW lv \in Levels, FailFrom(lv), outcome' = "running",
         lv = "inner" => at.lv = "inner" \/ In("outer", {"emit"}),
         UNCHANGED <<dist, prev, quar, orig, handled, clean, build, world, strays, lost>>,
         verified' = verified, mine' = mine,
         stage' \in [Levels -> [Outputs -> MaybeFile]],
         \A l \in Levels, j \in Outputs : stage'[l][j] \in {NoFile, Own(j)}
  PROVE  EvidenceInv'
<1>1. Ready(lv)
  BY ForwardIsReady
<1>2. Typed'
  BY FailTypes DEF EvidenceInv, Typed, EvidenceTypeOK, world
<1>3. Accounted'
  BY QuietlyFound DEF EvidenceInv, world
<1>4. Own(1)' = Own(1) /\ \A j \in Outputs : Own(j)' = Own(j)
  BY DEF Own
<1>5. Ready(lv)'
  BY <1>1, <1>2, <1>3, <1>4 DEF Ready, Old, Safe, world
<1> QED
  BY <1>5, Falls

\* A step forward that moves no file and takes no receipt.
LEMMA StaysForward ==
  ASSUME EvidenceInv, ~ RollingBack, at.s # "start", outcome' = "running",
         NEW lv \in Levels, NEW s \in Steps \ Rollback, NEW i \in Outputs, GoTo(lv, s, i),
         UNCHANGED <<dist, prev, quar, orig, handled, clean, build, world, strays, lost>>,
         stage' \in [Levels -> [Outputs -> MaybeFile]], mine' \in [Levels -> SUBSET Outputs],
         verified' \in BOOLEAN, verified => verified', mine["outer"] \subseteq mine'["outer"],
         \A l \in Levels, j \in Outputs : stage'[l][j] \in {NoFile, Own(j)},
         \A l \in Levels, j \in Outputs : Unmoved(l, j)' => Unmoved(l, j),
         \A j \in Outputs : Unlinked(j)' => Unlinked(j),
         ~ verified' => \A j \in Outputs : Past(j)' => Past(j),
         handled["outer"] = Outputs, ~ In("outer", {"receipt", "move"})',
         Placed', Claims'
  PROVE  EvidenceInv'
<1>1. /\ ~ RollingBack' /\ Undone' /\ CompleteMeansUndone'
      /\ at' \in [lv : Levels, s : Steps, i : Outputs] /\ at'.s = s /\ s \notin Rollback
  BY Onward
<1>2. Typed'
  BY <1>1 DEF EvidenceInv, Typed, EvidenceTypeOK, world
<1>3. Accounted'
  BY QuietlyFound DEF EvidenceInv, world
<1>4. \A j \in Outputs : Own(j)' = Own(j)
  BY DEF Own
<1>5. Looked'
  <2>1. \A j \in Outputs : orig["outer"][j] # NoFile => j \in handled["outer"]
    BY DEF EvidenceInv, Looked
  <2> QED
    BY <2>1 DEF Looked
<1>6. Backups'
  <2>1. \A l \in Levels, j \in Outputs :
          /\ Unmoved(l, j)' => prev[l][j] = NoFile
          /\ prev[l][j] \in {NoFile, orig[l][j]} /\ quar[l][j] = NoFile
    BY DEF EvidenceInv, Backups, Pending
  <2>2. s # "restored"
    BY <1>1 DEF Rollback
  <2> QED
    BY <1>1, <1>4, <2>1, <2>2 DEF Backups
<1>7. Dated'
  <2>1. \A j \in Outputs : Unlinked(j)' \/ j \notin handled["outer"] => dist[j] # Own(j)
    BY DEF EvidenceInv, Dated
  <2> QED
    BY <1>4, <2>1 DEF EvidenceInv, Dated, Old
<1>8. Earlier'
  <2>1. ~ verified' => ~ verified
    OBVIOUS
  <2> QED
    BY <2>1 DEF EvidenceInv, Earlier, Safe, world
<1> QED
  BY <1>1, <1>2, <1>3, <1>5, <1>6, <1>7, <1>8 DEF EvidenceInv

-----------------------------------------------------------------------------
(* The steps that move no file.                                             *)
LEMMA Forward ==
  ASSUME EvidenceInv, NEW lv \in Levels, NEW s \in Steps \ (Rollback \cup {"start"}), NEW i, At(lv, s, i)
  PROVE  /\ outcome = "running" /\ at.lv = lv /\ at.s = s /\ at.i = i
         /\ ~ RollingBack /\ at.s # "start"
         /\ \A l, steps : In(l, steps) <=> l = lv /\ s \in steps
         /\ verified <=> lv = "outer" /\ s \in {"discard", "close"}
         /\ ~ (lv = "outer" /\ s \in {"receipt", "move"}) => handled["outer"] = Outputs
<1>1. outcome = "running" /\ at.lv = lv /\ at.s = s /\ at.i = i
  BY Standing
<1>2. ~ RollingBack /\ at.s # "start"
  BY <1>1 DEF RollingBack, Rollback
<1>3. \A l, steps : In(l, steps) <=> l = lv /\ s \in steps
  BY <1>1 DEF In
<1>4. verified <=> lv = "outer" /\ s \in {"discard", "close"}
  BY <1>2, <1>3 DEF EvidenceInv, Placed
<1>5. ~ (lv = "outer" /\ s \in {"receipt", "move"}) => handled["outer"] = Outputs
  BY <1>1, <1>2, <1>3 DEF EvidenceInv, Looked, Levels
<1> QED
  BY <1>1, <1>2, <1>3, <1>4, <1>5

LEMMA StageKept ==
  ASSUME EvidenceInv, NEW l \in Levels, NEW j \in Outputs
  PROVE  stage[l][j] \in {NoFile, Own(j)}
BY DEF EvidenceInv, Backups

LEMMA WheelStep == ASSUME EvidenceInv, BuildWheel PROVE EvidenceInv'
<1>1. /\ outcome = "running" /\ ~ RollingBack /\ at.s # "start" /\ ~ verified
      /\ \A l, steps : In(l, steps) <=> l = "outer" /\ "wheel" \in steps
      /\ handled["outer"] = Outputs
  <2>1. At("outer", "wheel", 1) /\ "outer" \in Levels /\ "wheel" \in Steps \ (Rollback \cup {"start"})
    BY DEF BuildWheel, Levels, Steps, Rollback
  <2> QED
    BY <2>1, Forward
<1>2. /\ UNCHANGED <<dist, prev, quar, orig, handled, clean, build, world, strays, lost>>
      /\ verified' = verified /\ mine' = mine /\ outcome' = "running"
  BY <1>1 DEF BuildWheel, past
<1>3. CASE stage' = [stage EXCEPT !["outer"][1] = Own(1)] /\ GoTo("outer", "link", 1)
  <2>1. stage' \in [Levels -> [Outputs -> MaybeFile]]
    BY <1>3, Files, Three DEF EvidenceInv, Typed, EvidenceTypeOK, Levels
  <2>2. \A l \in Levels, j \in Outputs : stage'[l][j] \in {NoFile, Own(j)}
    BY <1>3, Three, StageKept DEF EvidenceInv, Typed, EvidenceTypeOK, Levels
  <2>3. "outer" \in Levels /\ "link" \in Steps \ Rollback /\ 1 \in Outputs
    BY Three DEF Levels, Steps, Rollback
  <2>4. /\ at'.lv = "outer" /\ at'.s = "link" /\ at'.i = 1 /\ ~ RollingBack'
        /\ \A l, steps : In(l, steps)' <=> l = "outer" /\ "link" \in steps
    BY <1>2, <1>3, <2>3, Onward
  <2>5. /\ \A l \in Levels, j \in Outputs : Unmoved(l, j)' => Unmoved(l, j)
        /\ \A j \in Outputs : Unlinked(j)' => Unlinked(j)
        /\ \A j \in Outputs : Past(j)' => Past(j)
    BY <1>1, <2>4 DEF Unmoved, Unlinked, Past
  <2>6. Placed'
    BY <1>1, <1>2, <2>4 DEF Placed
  <2>7. Claims'
    BY <1>1, <1>2, <2>4 DEF EvidenceInv, Claims
  <2>8. mine' \in [Levels -> SUBSET Outputs] /\ verified' \in BOOLEAN /\ mine["outer"] \subseteq mine'["outer"]
    BY <1>2 DEF EvidenceInv, Typed, EvidenceTypeOK
  <2>9. ~ In("outer", {"receipt", "move"})' /\ GoTo("outer", "link", 1)
    BY <1>3, <2>4
  <2> QED
    BY <1>1, <1>2, <2>1, <2>2, <2>3, <2>5, <2>6, <2>7, <2>8, <2>9, StaysForward
<1>4. CASE UNCHANGED stage /\ FailFrom("outer")
  BY <1>1, <1>2, <1>4, FailsQuietly, StageKept DEF EvidenceInv, Typed, EvidenceTypeOK, Levels
<1> QED
  BY <1>3, <1>4 DEF BuildWheel

LEMMA VerifyStep == ASSUME EvidenceInv, NEW lv \in Levels, NEW i \in Covers(lv), VerifyLink(lv, i) PROVE EvidenceInv'
<1>1. /\ outcome = "running" /\ ~ RollingBack /\ at.s # "start" /\ ~ verified
      /\ at.lv = lv /\ at.i = i
      /\ \A l, steps : In(l, steps) <=> l = lv /\ "verify" \in steps
      /\ handled["outer"] = Outputs
  <2>1. At(lv, "verify", i) /\ "verify" \in Steps \ (Rollback \cup {"start"})
    BY DEF VerifyLink, Steps, Rollback
  <2> QED
    BY <2>1, Forward
<1>2. /\ UNCHANGED <<dist, prev, quar, orig, handled, clean, build, world, strays, lost>>
      /\ verified' = verified /\ outcome' = "running"
  BY <1>1 DEF VerifyLink, past
<1>3. i \in Outputs /\ (lv = "inner" => i \in {2, 3}) /\ lv \in {"outer", "inner"}
  BY Three DEF Covers, Levels
<1>4. CASE dist[i] = Own(i)
  <2>1. /\ mine' = [mine EXCEPT ![lv] = @ \cup {i}]
        /\ stage' = IF lv = "outer" THEN [stage EXCEPT ![lv][i] = NoFile] ELSE stage
    BY <1>4 DEF VerifyLink
  <2>2. stage' \in [Levels -> [Outputs -> MaybeFile]]
    BY <1>3, <2>1, Files DEF EvidenceInv, Typed, EvidenceTypeOK
  <2>3. \A l \in Levels, j \in Outputs : stage'[l][j] \in {NoFile, Own(j)}
    BY <1>3, <2>1, StageKept DEF EvidenceInv, Typed, EvidenceTypeOK
  <2>4. mine' \in [Levels -> SUBSET Outputs] /\ mine["outer"] \subseteq mine'["outer"]
    BY <1>3, <2>1 DEF EvidenceInv, Typed, EvidenceTypeOK, Levels
  <2>5. PICK s \in {"emit", "link", "recheck"}, k \in Outputs :
          /\ GoTo(lv, s, k) /\ (lv = "outer" => s = "emit" /\ k = 1)
          /\ (lv = "inner" => s # "emit" /\ k \in Sidecars)
    BY <1>3, <1>4, Three DEF VerifyLink
  <2>6. s \in Steps \ Rollback
    BY DEF Steps, Rollback
  <2>7. /\ at'.lv = lv /\ at'.s = s /\ at'.i = k /\ ~ RollingBack'
        /\ \A l, steps : In(l, steps)' <=> l = lv /\ s \in steps
    BY <1>2, <2>5, <2>6, Onward
  <2>8. /\ \A l \in Levels, j \in Outputs : Unmoved(l, j)' => Unmoved(l, j)
        /\ \A j \in Outputs : Unlinked(j)' => Unlinked(j)
    BY <1>1, <1>3, <2>5, <2>7 DEF Unmoved, Unlinked
  <2>9. \A j \in Outputs : Past(j)
    BY <1>1, <1>3 DEF Past
  <2>10. Placed'
    BY <1>1, <1>2, <1>3, <2>5, <2>7 DEF Placed
  <2>11. Claims'
    <3>1. CASE lv = "outer"
      <4>1. mine["outer"] = {} /\ mine'["outer"] = {1}
        BY <1>1, <1>3, <2>1, <3>1 DEF EvidenceInv, Claims, Placed, Typed, EvidenceTypeOK, Levels
      <4> QED
        BY <2>5, <2>7, <3>1, <4>1, Three DEF Claims
    <3>2. CASE lv = "inner"
      <4>1. Sidecars \cap mine["outer"] = {} /\ mine'["outer"] = mine["outer"]
        BY <1>1, <2>1, <3>2 DEF EvidenceInv, Claims, Typed, EvidenceTypeOK, Levels
      <4> QED
        BY <2>5, <2>7, <3>2, <4>1 DEF Claims
    <3> QED
      BY <1>3, <3>1, <3>2
  <2>12. ~ In("outer", {"receipt", "move"})'
    BY <2>7
  <2> QED
    BY <1>1, <1>2, <2>2, <2>3, <2>4, <2>5, <2>6, <2>8, <2>9, <2>10, <2>11, <2>12, StaysForward
      DEF EvidenceInv, Typed, EvidenceTypeOK
<1>5. CASE dist[i] # Own(i)
  <2>1. UNCHANGED <<mine, stage>> /\ FailFrom(lv)
    BY <1>5 DEF VerifyLink
  <2> QED
    BY <1>1, <1>2, <2>1, FailsQuietly, StageKept DEF EvidenceInv, Typed, EvidenceTypeOK
<1> QED
  BY <1>4, <1>5

LEMMA EmitStep == ASSUME EvidenceInv, EmitEvidence PROVE EvidenceInv'
<1>1. /\ outcome = "running" /\ ~ RollingBack /\ at.s # "start" /\ ~ verified
      /\ \A l, steps : In(l, steps) <=> l = "outer" /\ "emit" \in steps
      /\ handled["outer"] = Outputs
  <2>1. At("outer", "emit", 1) /\ "outer" \in Levels /\ "emit" \in Steps \ (Rollback \cup {"start"})
    BY DEF EmitEvidence, Levels, Steps, Rollback
  <2> QED
    BY <2>1, Forward
<1>2. /\ UNCHANGED <<dist, prev, quar, orig, handled, clean, build, world, strays, lost>>
      /\ verified' = verified /\ mine' = mine /\ outcome' = "running"
  BY <1>1 DEF EmitEvidence, past
<1>3. CASE UNCHANGED stage /\ FailFrom("outer")
  BY <1>1, <1>2, <1>3, FailsQuietly, StageKept DEF EvidenceInv, Typed, EvidenceTypeOK, Levels
<1>4. ASSUME NEW n \in 1..3,
             stage' = [stage EXCEPT !["inner"] = [i \in Outputs |->
                         IF i \in Sidecars /\ i <= n THEN Own(i) ELSE NoFile]],
             IF n = 3 THEN GoTo("inner", "receipt", 2) ELSE FailFrom("inner")
      PROVE  EvidenceInv'
  <2>1. [i \in Outputs |-> IF i \in Sidecars /\ i <= n THEN Own(i) ELSE NoFile]
          \in [Outputs -> MaybeFile]
    BY Files DEF EvidenceInv, Typed, EvidenceTypeOK
  <2>2. stage' \in [Levels -> [Outputs -> MaybeFile]]
    BY <1>4, <2>1 DEF EvidenceInv, Typed, EvidenceTypeOK
  <2>3. \A l \in Levels, j \in Outputs : stage'[l][j] \in {NoFile, Own(j)}
    BY <1>4, StageKept DEF EvidenceInv, Typed, EvidenceTypeOK, Levels
  <2>4. CASE n = 3
    <3>1. GoTo("inner", "receipt", 2)
      BY <1>4, <2>4
    <3>2. "inner" \in Levels /\ "receipt" \in Steps \ Rollback /\ 2 \in Outputs
      BY Three DEF Levels, Steps, Rollback
    <3>3. /\ at'.lv = "inner" /\ at'.s = "receipt" /\ at'.i = 2 /\ ~ RollingBack'
          /\ \A l, steps : In(l, steps)' <=> l = "inner" /\ "receipt" \in steps
      BY <1>2, <3>1, <3>2, Onward
    <3>4. /\ \A l \in Levels, j \in Outputs : Unmoved(l, j)' => Unmoved(l, j)
          /\ \A j \in Outputs : Unlinked(j)' => Unlinked(j)
          /\ \A j \in Outputs : Past(j)' => Past(j)
      BY <1>1, <3>3 DEF Unmoved, Unlinked, Past
    <3>5. Placed'
      BY <1>1, <1>2, <3>3, Three DEF Placed
    <3>6. Claims'
      BY <1>1, <1>2, <3>3 DEF EvidenceInv, Claims
    <3> QED
      BY <1>1, <1>2, <2>2, <2>3, <3>1, <3>2, <3>3, <3>4, <3>5, <3>6, StaysForward
        DEF EvidenceInv, Typed, EvidenceTypeOK
  <2>5. CASE n # 3
    <3>1. FailFrom("inner") /\ In("outer", {"emit"}) /\ "inner" \in Levels
      BY <1>1, <1>4, <2>5 DEF Levels
    <3> QED
      BY <1>1, <1>2, <2>2, <2>3, <3>1, FailsQuietly
  <2> QED
    BY <2>4, <2>5
<1> QED
  BY <1>3, <1>4 DEF EmitEvidence

LEMMA RecheckStep == ASSUME EvidenceInv, NEW i \in Sidecars, Recheck(i) PROVE EvidenceInv'
<1>1. PICK s \in {"recheck", "claim"} : At("inner", s, i)
  BY DEF Recheck
<1>2. /\ outcome = "running" /\ ~ RollingBack /\ at.s # "start" /\ ~ verified
      /\ at.lv = "inner" /\ at.s = s /\ at.i = i
      /\ \A l, steps : In(l, steps) <=> l = "inner" /\ s \in steps
      /\ handled["outer"] = Outputs /\ at = StepOf("inner", s, i)
  <2>1. /\ at = StepOf("inner", s, i) /\ "inner" \in Levels
        /\ s \in Steps \ (Rollback \cup {"start"}) /\ s \notin {"receipt", "move"}
    BY <1>1 DEF At, Levels, Steps, Rollback
  <2> QED
    BY <1>1, <2>1, Forward
<1>3. /\ UNCHANGED <<dist, prev, quar, stage, orig, handled, clean, build, world, strays, lost>>
      /\ verified' = verified /\ outcome' = "running"
      /\ mine' = IF at = StepOf("inner", "claim", 3) /\ dist[3] = Own(3)
                 THEN [mine EXCEPT !["outer"] = @ \cup Sidecars] ELSE mine
  BY <1>2 DEF Recheck, past
<1>4. i \in {2, 3} /\ (at = StepOf("inner", "claim", 3) <=> s = "claim" /\ i = 3)
  BY <1>2, Three DEF StepOf
<1>5. stage' \in [Levels -> [Outputs -> MaybeFile]]
      /\ \A l \in Levels, j \in Outputs : stage'[l][j] \in {NoFile, Own(j)}
  BY <1>3, StageKept DEF EvidenceInv, Typed, EvidenceTypeOK
<1>6. CASE dist[i] # Own(i)
  <2>1. FailFrom("inner") /\ mine' = mine /\ "inner" \in Levels
    BY <1>3, <1>4, <1>6 DEF Recheck, Levels
  <2> QED
    BY <1>2, <1>3, <1>5, <2>1, FailsQuietly
<1>7. CASE dist[i] = Own(i)
  <2>1. PICK t \in {"recheck", "claim", "close"}, k \in Sidecars :
          GoTo("inner", t, k) /\ (t = "close" => s = "claim" /\ i = 3) /\ (t = "recheck" => s = "recheck")
    <3>1. CASE i = 2
      BY <1>2, <1>7, <3>1, Three DEF Recheck
    <3>2. CASE i = 3
      BY <1>2, <1>7, <3>2, Three DEF Recheck
    <3> QED
      BY <1>4, <3>1, <3>2
  <2>2. mine' \in [Levels -> SUBSET Outputs] /\ mine["outer"] \subseteq mine'["outer"]
        /\ (t = "close" => Sidecars \subseteq mine'["outer"])
    <3>1. CASE s = "claim" /\ i = 3
      <4>1. mine' = [mine EXCEPT !["outer"] = @ \cup Sidecars]
        BY <1>3, <1>4, <1>7, <3>1
      <4> QED
        BY <4>1, Three DEF EvidenceInv, Typed, EvidenceTypeOK, Levels
    <3>2. CASE ~ (s = "claim" /\ i = 3)
      BY <1>3, <1>4, <2>1, <3>2 DEF EvidenceInv, Typed, EvidenceTypeOK
    <3> QED
      BY <3>1, <3>2
  <2>3. "inner" \in Levels /\ t \in Steps \ Rollback /\ k \in Outputs
    BY Three DEF Levels, Steps, Rollback
  <2>4. /\ at'.lv = "inner" /\ at'.s = t /\ at'.i = k /\ ~ RollingBack'
        /\ \A l, steps : In(l, steps)' <=> l = "inner" /\ t \in steps
    BY <1>3, <2>1, <2>3, Onward
  <2>5. /\ \A l \in Levels, j \in Outputs : Unmoved(l, j)' => Unmoved(l, j)
        /\ \A j \in Outputs : Unlinked(j)' => Unlinked(j)
        /\ \A j \in Outputs : Past(j)
    BY <1>2, <2>4 DEF Unmoved, Unlinked, Past
  <2>6. Placed'
    BY <1>2, <1>3, <2>1, <2>4 DEF Placed
  <2>7. Claims'
    <3>1. t = "recheck" => Sidecars \cap mine["outer"] = {} /\ mine' = mine
      BY <1>2, <1>3, <1>4, <2>1 DEF EvidenceInv, Claims
    <3> QED
      BY <2>1, <2>2, <2>4, <3>1 DEF Claims
  <2>8. ~ In("outer", {"receipt", "move"})'
    BY <2>4
  <2> QED
    BY <1>2, <1>3, <1>5, <2>1, <2>2, <2>3, <2>5, <2>6, <2>7, <2>8, StaysForward
      DEF EvidenceInv, Typed, EvidenceTypeOK
<1> QED
  BY <1>6, <1>7

LEMMA CloseStep == ASSUME EvidenceInv, CloseInner PROVE EvidenceInv'
<1>1. /\ outcome = "running" /\ ~ RollingBack /\ at.s # "start" /\ ~ verified
      /\ \A l, steps : In(l, steps) <=> l = "inner" /\ "close" \in steps
      /\ handled["outer"] = Outputs /\ at.lv = "inner"
  <2>1. At("inner", "close", 2) /\ "inner" \in Levels /\ "close" \in Steps \ (Rollback \cup {"start"})
    BY DEF CloseInner, Levels, Steps, Rollback
  <2> QED
    BY <2>1, Forward
<1>2. /\ UNCHANGED <<dist, prev, quar, orig, handled, clean, build, world, strays, lost>>
      /\ verified' = verified /\ mine' = mine /\ outcome' = "running"
      /\ stage' = [stage EXCEPT !["inner"] = Empty] /\ GoTo("inner", "discard", 2)
  BY <1>1 DEF CloseInner, past
<1>3. Empty \in [Outputs -> MaybeFile]
  BY Files DEF Empty
<1>4. stage' \in [Levels -> [Outputs -> MaybeFile]]
  BY <1>2, <1>3 DEF EvidenceInv, Typed, EvidenceTypeOK
<1>5. \A l \in Levels, j \in Outputs : stage'[l][j] \in {NoFile, Own(j)}
  BY <1>2, StageKept DEF EvidenceInv, Typed, EvidenceTypeOK, Levels, Empty
<1>6. "inner" \in Levels /\ "discard" \in Steps \ Rollback /\ 2 \in Outputs
  BY Three DEF Levels, Steps, Rollback
<1>7. /\ at'.lv = "inner" /\ at'.s = "discard" /\ at'.i = 2 /\ ~ RollingBack'
      /\ \A l, steps : In(l, steps)' <=> l = "inner" /\ "discard" \in steps
  BY <1>2, <1>6, Onward
<1>8. /\ \A l \in Levels, j \in Outputs : Unmoved(l, j)' => Unmoved(l, j)
      /\ \A j \in Outputs : Unlinked(j)' => Unlinked(j)
      /\ \A j \in Outputs : Past(j)
  BY <1>1, <1>7 DEF Unmoved, Unlinked, Past
<1>9. Placed'
  BY <1>1, <1>2, <1>7, Three DEF Placed
<1>10. Claims'
  BY <1>1, <1>2, <1>7 DEF EvidenceInv, Claims
<1> QED
  BY <1>1, <1>2, <1>4, <1>5, <1>6, <1>7, <1>8, <1>9, <1>10, StaysForward
    DEF EvidenceInv, Typed, EvidenceTypeOK

LEMMA RevalidateStep == ASSUME EvidenceInv, NEW i \in Outputs, Revalidate(i) PROVE EvidenceInv'
<1>1. /\ outcome = "running" /\ ~ RollingBack /\ at.s # "start" /\ ~ verified
      /\ \A l, steps : In(l, steps) <=> l = "outer" /\ "revalidate" \in steps
      /\ handled["outer"] = Outputs
  <2>1. At("outer", "revalidate", i) /\ "outer" \in Levels /\ "revalidate" \in Steps \ (Rollback \cup {"start"})
    BY DEF Revalidate, Levels, Steps, Rollback
  <2> QED
    BY <2>1, Forward
<1>2. /\ UNCHANGED <<dist, prev, quar, stage, orig, handled, clean, build, world, strays, lost>>
      /\ verified' = verified /\ mine' = mine /\ outcome' = "running"
  BY <1>1 DEF Revalidate, past, tx
<1>3. stage' \in [Levels -> [Outputs -> MaybeFile]]
      /\ \A l \in Levels, j \in Outputs : stage'[l][j] \in {NoFile, Own(j)}
  BY <1>2, StageKept DEF EvidenceInv, Typed, EvidenceTypeOK
<1>4. CASE FailFrom("outer")
  BY <1>1, <1>2, <1>3, <1>4, FailsQuietly DEF Levels
<1>5. CASE ~ FailFrom("outer")
  <2>1. PICK s \in {"revalidate", "check"}, k \in Outputs : GoTo("outer", s, k)
    BY <1>5, Three DEF Revalidate
  <2>2. "outer" \in Levels /\ s \in Steps \ Rollback
    BY DEF Levels, Steps, Rollback
  <2>3. /\ at'.lv = "outer" /\ at'.s = s /\ at'.i = k /\ ~ RollingBack'
        /\ \A l, steps : In(l, steps)' <=> l = "outer" /\ s \in steps
    BY <1>2, <2>1, <2>2, Onward
  <2>4. /\ \A l \in Levels, j \in Outputs : Unmoved(l, j)' => Unmoved(l, j)
        /\ \A j \in Outputs : Unlinked(j)' => Unlinked(j)
        /\ \A j \in Outputs : Past(j)
    BY <1>1, <2>1, <2>3 DEF Unmoved, Unlinked, Past
  <2>5. Placed'
    BY <1>1, <1>2, <2>1, <2>3 DEF Placed
  <2>6. Claims' /\ ~ In("outer", {"receipt", "move"})'
    BY <2>1, <2>3 DEF Claims
  <2> QED
    BY <1>1, <1>2, <1>3, <2>1, <2>2, <2>4, <2>5, <2>6, StaysForward
      DEF EvidenceInv, Typed, EvidenceTypeOK
<1> QED
  BY <1>4, <1>5

LEMMA CheckStep == ASSUME EvidenceInv, NEW i \in Outputs, CommitCheck(i) PROVE EvidenceInv'
<1>1. /\ outcome = "running" /\ ~ RollingBack /\ at.s # "start" /\ ~ verified
      /\ \A l, steps : In(l, steps) <=> l = "outer" /\ "check" \in steps
      /\ handled["outer"] = Outputs
  <2>1. At("outer", "check", i) /\ "outer" \in Levels /\ "check" \in Steps \ (Rollback \cup {"start"})
    BY DEF CommitCheck, Levels, Steps, Rollback
  <2> QED
    BY <2>1, Forward
<1>2. /\ UNCHANGED <<dist, prev, quar, stage, orig, handled, clean, build, world, strays, lost>>
      /\ mine' = mine /\ outcome' = "running" /\ verified' = (i = 3 /\ dist[i] = Own(i))
  BY <1>1 DEF CommitCheck, tx
<1>3. stage' \in [Levels -> [Outputs -> MaybeFile]]
      /\ \A l \in Levels, j \in Outputs : stage'[l][j] \in {NoFile, Own(j)}
  BY <1>2, StageKept DEF EvidenceInv, Typed, EvidenceTypeOK
<1>4. CASE dist[i] # Own(i)
  <2>1. FailFrom("outer") /\ verified' = verified /\ "outer" \in Levels
    <3>1. verified' = FALSE /\ verified = FALSE
      BY <1>1, <1>2, <1>4 DEF EvidenceInv, Typed, EvidenceTypeOK
    <3> QED
      BY <1>4, <3>1 DEF CommitCheck, Levels
  <2> QED
    BY <1>1, <1>2, <1>3, <2>1, FailsQuietly
<1>5. CASE dist[i] = Own(i)
  <2>1. PICK s \in {"check", "discard"}, k \in Outputs :
          GoTo("outer", s, k) /\ (s = "discard" <=> i = 3)
    <3>1. CASE i = 3
      BY <1>5, <3>1, Three DEF CommitCheck
    <3>2. CASE i # 3
      <4>1. i < 3 /\ i + 1 \in Outputs
        BY <3>2 DEF Outputs
      <4> QED
        BY <1>5, <3>2, <4>1 DEF CommitCheck
    <3> QED
      BY <3>1, <3>2
  <2>2. "outer" \in Levels /\ s \in Steps \ Rollback
    BY DEF Levels, Steps, Rollback
  <2>3. /\ at'.lv = "outer" /\ at'.s = s /\ at'.i = k /\ ~ RollingBack'
        /\ \A l, steps : In(l, steps)' <=> l = "outer" /\ s \in steps
    BY <1>2, <2>1, <2>2, Onward
  <2>4. /\ \A l \in Levels, j \in Outputs : Unmoved(l, j)' => Unmoved(l, j)
        /\ \A j \in Outputs : Unlinked(j)' => Unlinked(j)
        /\ \A j \in Outputs : Past(j)
    BY <1>1, <2>1, <2>3 DEF Unmoved, Unlinked, Past
  <2>5. Placed'
    <3>1. verified' <=> s = "discard"
      BY <1>2, <1>5, <2>1
    <3> QED
      BY <1>2, <2>1, <2>3, <3>1 DEF Placed
  <2>6. Claims' /\ ~ In("outer", {"receipt", "move"})'
    BY <2>1, <2>3 DEF Claims
  <2>7. verified' \in BOOLEAN /\ (verified => verified')
    BY <1>1, <1>2
  <2> QED
    BY <1>1, <1>2, <1>3, <2>1, <2>2, <2>4, <2>5, <2>6, <2>7, StaysForward
      DEF EvidenceInv, Typed, EvidenceTypeOK
<1> QED
  BY <1>4, <1>5

-----------------------------------------------------------------------------
(* The steps forward that move a file or take a receipt.                    *)
LEMMA Arrives ==
  ASSUME NEW lv \in Levels, NEW s \in Steps \ Rollback, NEW i \in Outputs, GoTo(lv, s, i),
         outcome' = "running", Typed', Placed', Claims', Looked', Backups', Dated', Earlier', Accounted'
  PROVE  EvidenceInv'
BY Onward DEF EvidenceInv

LEMMA Covered ==
  ASSUME NEW lv \in Levels, NEW i \in Covers(lv)
  PROVE  i \in Outputs /\ lv \in {"outer", "inner"} /\ (lv = "inner" => i \in {2, 3} /\ i \in Sidecars)
BY Three DEF Covers, Levels

\* An output is looked at and not at its path any more: on to the next one.
LEMMA Moved ==
  ASSUME EvidenceInv, NEW lv \in Levels, NEW s \in {"receipt", "move"}, NEW i \in Covers(lv), At(lv, s, i),
         AfterMove(lv, i), outcome' = "running",
         dist'[i] = NoFile, \A j \in Outputs \ {i} : dist'[j] = dist[j],
         prev'[lv][i] \in {NoFile, orig[lv][i]},
         \A l \in Levels, j \in Outputs : l # lv \/ j # i => prev'[l][j] = prev[l][j],
         handled["outer"] \subseteq handled'["outer"], lv = "outer" => i \in handled'["outer"],
         lv = "outer" /\ orig["outer"][i] # NoFile => Safe(i)',
         UNCHANGED <<quar, stage, orig, mine, clean, build, outcome, world, strays, lost, verified>>,
         dist' \in [Outputs -> MaybeFile], prev' \in [Levels -> [Outputs -> MaybeFile]],
         handled' \in [Levels -> SUBSET Outputs], Accounted'
  PROVE  EvidenceInv'
<1>1. /\ at.lv = lv /\ at.s = s /\ at.i = i
      /\ ~ RollingBack /\ ~ verified
      /\ \A l, steps : In(l, steps) <=> l = lv /\ s \in steps
      /\ lv = "inner" => handled["outer"] = Outputs
  <2>1. s \in Steps \ (Rollback \cup {"start"})
    BY DEF Steps, Rollback
  <2> QED
    BY <2>1, Forward
<1>2. i \in Outputs /\ lv \in {"outer", "inner"} /\ (lv = "inner" => i \in {2, 3} /\ i \in Sidecars)
  BY Covered
<1>3. PICK t \in {"receipt", "wheel", "link"}, k \in Outputs :
        /\ GoTo(lv, t, k)
        /\ t = "receipt" => k = i + 1
        /\ t # "receipt" => i = 3
        /\ t = "wheel" => lv = "outer" /\ k = 1
        /\ t = "link" => lv = "inner"
        /\ lv = "inner" => k \in Sidecars
  <2>1. CASE i < 3
    <3>1. i + 1 \in Outputs /\ (lv = "inner" => i + 1 \in Sidecars)
      BY <1>2, <2>1, Three DEF Outputs
    <3> QED
      BY <2>1, <3>1 DEF AfterMove
  <2>2. CASE ~ i < 3
    <3>1. i = 3
      BY <1>2, <2>2 DEF Outputs
    <3> QED
      BY <1>2, <2>2, <3>1, Three DEF AfterMove
  <2> QED
    BY <2>1, <2>2
<1>4. t \in Steps \ Rollback
  BY DEF Steps, Rollback
<1>5. /\ at'.lv = lv /\ at'.s = t /\ at'.i = k /\ ~ RollingBack'
      /\ at' \in [lv : Levels, s : Steps, i : Outputs]
      /\ \A l, steps : In(l, steps)' <=> l = lv /\ t \in steps
  BY <1>3, <1>4, Onward
<1>6. Typed'
  BY <1>5 DEF EvidenceInv, Typed, EvidenceTypeOK, world
<1>7. Placed'
  BY <1>1, <1>2, <1>3, <1>5 DEF Placed
<1>8. Claims'
  BY <1>1, <1>2, <1>3, <1>5 DEF EvidenceInv, Claims
<1>9. Looked'
  <2>1. CASE lv = "inner"
    <3>1. handled'["outer"] = Outputs
      BY <1>1, <2>1 DEF Levels
    <3> QED
      BY <1>5, <2>1, <3>1 DEF Looked
  <2>2. CASE lv = "outer"
    <3>1. \A j \in Outputs : j < i => j \in handled["outer"]
      BY <1>1, <2>2 DEF EvidenceInv, Looked
    <3>2. \A j \in Outputs : j <= i => j \in handled'["outer"]
      BY <1>2, <2>2, <3>1 DEF Outputs
    <3>3. t = "receipt" => \A j \in Outputs : j < k => j \in handled'["outer"]
      BY <1>2, <1>3, <3>2 DEF Outputs
    <3>4. t # "receipt" => handled'["outer"] = Outputs
      <4>1. \A j \in Outputs : j <= 3
        BY DEF Outputs
      <4>2. t # "receipt" => \A j \in Outputs : j \in handled'["outer"]
        BY <1>3, <3>2, <4>1
      <4>3. handled'["outer"] \subseteq Outputs
        BY DEF Levels
      <4> QED
        BY <4>2, <4>3
    <3>5. \A j \in Outputs : orig["outer"][j] # NoFile => j \in handled'["outer"]
      BY DEF EvidenceInv, Looked
    <3> QED
      BY <1>3, <1>5, <2>2, <3>3, <3>4, <3>5 DEF Looked
  <2> QED
    BY <1>2, <2>1, <2>2
<1>10. \A l \in Levels, j \in Outputs : Unmoved(l, j)' => Unmoved(l, j) /\ (l # lv \/ j # i)
  <2>1. t = "receipt" => \A j \in Outputs : j >= k => j >= i /\ j # i
    BY <1>2, <1>3 DEF Outputs
  <2> QED
    BY <1>1, <1>2, <1>3, <1>5, <2>1 DEF Unmoved
<1>11. Backups'
  <2>1. \A l \in Levels, j \in Outputs : Unmoved(l, j) => prev[l][j] = NoFile
    BY DEF EvidenceInv, Backups
  <2>2. \A l \in Levels, j \in Outputs : Unmoved(l, j)' => prev'[l][j] = NoFile
    BY <1>10, <2>1
  <2>3. \A l \in Levels, j \in Outputs : prev'[l][j] \in {NoFile, orig'[l][j]}
    BY <1>1 DEF EvidenceInv, Backups
  <2>4. \A l \in Levels, j \in Outputs : quar'[l][j] = NoFile /\ stage'[l][j] \in {NoFile, Own(j)'}
    BY <1>1 DEF EvidenceInv, Backups, Pending, Own
  <2> QED
    BY <1>3, <1>5, <2>2, <2>3, <2>4 DEF Backups
<1>12. Dated'
  <2>1. Old(NoFile) /\ \A j \in Outputs : NoFile # Own(j)
    BY DEF Old, NoFile, Own
  <2>2. \A j \in Outputs : Own(j)' = Own(j) /\ \A f : Old(f)' <=> Old(f)
    BY DEF Own, Old
  <2>3. \A j \in Outputs : Unlinked(j)' => Unlinked(j)
    BY <1>1, <1>2, <1>3, <1>5 DEF Unlinked
  <2>4. \A j \in Outputs : Old(dist'[j])
    BY <2>1 DEF EvidenceInv, Dated
  <2>5. \A l \in Levels, j \in Outputs : Old(prev'[l][j])
    BY <2>1 DEF EvidenceInv, Dated
  <2>6. \A j \in Outputs : Unlinked(j)' \/ j \notin handled'["outer"] => dist'[j] # Own(j)
    <3>1. at.s # "start"
      BY <1>1
    <3> QED
      BY <2>1, <2>3, <3>1 DEF EvidenceInv, Dated
  <2>7. \A l \in Levels, j \in Outputs : Old(quar'[l][j]) /\ Old(orig'[l][j]) /\ orig'[l][j] # Own(j)
    BY DEF EvidenceInv, Dated
  <2> QED
    BY <2>2, <2>4, <2>5, <2>6, <2>7 DEF Dated
<1>13. Earlier'
  <2>1. SUFFICES ASSUME NEW j \in Outputs, orig["outer"][j] # NoFile
                 PROVE  /\ Safe(j)' \/ dist'[j] = orig["outer"][j]
                        /\ Past(j)' => Safe(j)'
    BY DEF Earlier
  <2>2. (Safe(j) \/ dist[j] = orig["outer"][j]) /\ (Past(j) => Safe(j))
    BY <1>1, <2>1 DEF EvidenceInv, Earlier
  <2>3. CASE lv = "outer" /\ j = i
    BY <2>1, <2>3
  <2>4. CASE ~ (lv = "outer" /\ j = i)
    <3>1. prev'["outer"][j] = prev["outer"][j] /\ taken' = taken
      BY <1>2, <2>4 DEF Levels, world
    <3>2. Safe(j) => Safe(j)'
      BY <3>1 DEF Safe
    <3>3. CASE lv = "inner"
      <4>1. Past(j)
        BY <1>1, <3>3 DEF Past
      <4> QED
        BY <2>2, <3>2, <4>1
    <3>4. CASE lv = "outer"
      <4>1. Past(j)' => Past(j)
        <5>1. t = "receipt" => (j < k => j < i)
          BY <1>2, <1>3, <2>4, <3>4 DEF Outputs
        <5>2. t = "wheel" => j < i
          BY <1>3, <2>4, <3>4 DEF Outputs
        <5> QED
          BY <1>1, <1>3, <1>5, <3>4, <5>1, <5>2 DEF Past
      <4> QED
        BY <2>2, <2>4, <3>2, <3>4, <4>1
    <3> QED
      BY <1>2, <3>3, <3>4
  <2> QED
    BY <2>3, <2>4
<1> QED
  BY <1>3, <1>4, <1>6, <1>7, <1>8, <1>9, <1>11, <1>12, <1>13, Arrives

LEMMA OldKept ==
  ASSUME build' = build
  PROVE  /\ \A j \in Outputs : Own(j)' = Own(j)
         /\ \A f : Old(f)' <=> Old(f)
         /\ Old(NoFile) /\ \A j \in Outputs : Own(j) # NoFile
BY DEF Own, Old, NoFile

LEMMA ReceiptStep ==
  ASSUME EvidenceInv, NEW lv \in Levels, NEW i \in Covers(lv), TakeReceipt(lv, i) PROVE EvidenceInv'
<1>1. /\ outcome = "running" /\ at.lv = lv /\ at.s = "receipt" /\ at.i = i
      /\ ~ RollingBack /\ at.s # "start" /\ ~ verified /\ At(lv, "receipt", i)
      /\ \A l, steps : In(l, steps) <=> l = lv /\ "receipt" \in steps
  <2>1. "receipt" \in Steps \ (Rollback \cup {"start"}) /\ At(lv, "receipt", i)
    BY DEF Steps, Rollback, TakeReceipt
  <2> QED
    BY <2>1, Forward
<1>2. i \in Outputs /\ lv \in {"outer", "inner"} /\ (lv = "inner" => i \in {2, 3} /\ i \in Sidecars)
  BY Covered
<1>3. /\ UNCHANGED <<dist, prev, quar, stage, mine, clean, build, outcome, world, strays, lost, verified>>
      /\ outcome' = "running"
  BY <1>1 DEF TakeReceipt, past
<1>4. \A l \in Levels, j \in Outputs : Unmoved(l, j) => prev[l][j] = NoFile
  BY DEF EvidenceInv, Backups
<1>5. Unmoved(lv, i)
  <2>1. i >= i
    BY <1>2 DEF Outputs
  <2> QED
    BY <1>1, <2>1 DEF Unmoved
<1>6. CASE dist[i] = NoFile
  <2>1. /\ handled' = [handled EXCEPT ![lv] = @ \cup {i}]
        /\ AfterMove(lv, i) /\ UNCHANGED orig
    BY <1>6 DEF TakeReceipt
  <2>2. /\ handled' \in [Levels -> SUBSET Outputs]
        /\ handled["outer"] \subseteq handled'["outer"] /\ (lv = "outer" => i \in handled'["outer"])
    BY <1>2, <2>1 DEF EvidenceInv, Typed, EvidenceTypeOK, Levels
  <2>3. lv = "outer" /\ orig["outer"][i] # NoFile => Safe(i)'
    BY <1>1, <1>2, <1>3, <1>6, <2>1 DEF EvidenceInv, Earlier, Safe, world
  <2>4. Accounted'
    BY <1>3, <2>1, QuietlyFound DEF EvidenceInv, world
  <2>5. dist' \in [Outputs -> MaybeFile] /\ prev' \in [Levels -> [Outputs -> MaybeFile]]
    BY <1>3 DEF EvidenceInv, Typed, EvidenceTypeOK
  <2>6. /\ dist'[i] = NoFile /\ prev'[lv][i] \in {NoFile, orig[lv][i]}
        /\ \A j \in Outputs \ {i} : dist'[j] = dist[j]
        /\ \A l \in Levels, j \in Outputs : l # lv \/ j # i => prev'[l][j] = prev[l][j]
    BY <1>2, <1>3, <1>4, <1>5, <1>6
  <2> QED
    BY <1>1, <1>3, <2>1, <2>2, <2>3, <2>4, <2>5, <2>6, Moved
<1>7. CASE dist[i] # NoFile /\ IsRegular(dist[i])
  <2>1. /\ handled' = [handled EXCEPT ![lv] = @ \cup {i}]
        /\ orig' = [orig EXCEPT ![lv][i] = dist[i]]
        /\ GoTo(lv, "move", i)
    BY <1>7 DEF TakeReceipt
  <2>2. /\ handled' \in [Levels -> SUBSET Outputs]
        /\ handled["outer"] \subseteq handled'["outer"] /\ (lv = "outer" => i \in handled'["outer"])
    BY <1>2, <2>1 DEF EvidenceInv, Typed, EvidenceTypeOK, Levels
  <2>3. orig' \in [Levels -> [Outputs -> MaybeFile]] /\ orig'[lv][i] = dist[i]
        /\ \A l \in Levels, j \in Outputs : l # lv \/ j # i => orig'[l][j] = orig[l][j]
    BY <1>2, <2>1 DEF EvidenceInv, Typed, EvidenceTypeOK
  <2>4. "move" \in Steps \ Rollback
    BY DEF Steps, Rollback
  <2>5. /\ at'.lv = lv /\ at'.s = "move" /\ at'.i = i /\ ~ RollingBack'
        /\ at' \in [lv : Levels, s : Steps, i : Outputs]
        /\ \A l, steps : In(l, steps)' <=> l = lv /\ "move" \in steps
    BY <1>2, <1>3, <2>1, <2>4, Onward
  <2>6. Typed'
    BY <1>3, <2>2, <2>3, <2>5 DEF EvidenceInv, Typed, EvidenceTypeOK, world
  <2>7. Placed'
    BY <1>1, <1>2, <1>3, <2>5 DEF Placed
  <2>8. Claims'
    BY <1>1, <1>2, <1>3, <2>5 DEF EvidenceInv, Claims
  <2>9. Looked'
    <3>1. \A j \in Outputs : orig'["outer"][j] # NoFile => j \in handled'["outer"]
      BY <1>2, <2>2, <2>3 DEF EvidenceInv, Looked, Levels
    <3>2. lv = "outer" => \A j \in Outputs : j < i \/ j = i => j \in handled'["outer"]
      BY <1>1, <2>2 DEF EvidenceInv, Looked
    <3>3. lv = "inner" => handled'["outer"] = Outputs
      <4>1. lv = "inner" => handled["outer"] = Outputs
        BY <1>1 DEF EvidenceInv, Looked
      <4>2. handled'["outer"] \subseteq Outputs
        BY <2>2 DEF Levels
      <4> QED
        BY <2>2, <4>1, <4>2
    <3> QED
      BY <1>2, <2>5, <3>1, <3>2, <3>3 DEF Looked
  <2>10. \A l \in Levels, j \in Outputs : Unmoved(l, j)' => Unmoved(l, j)
    BY <1>1, <2>5 DEF Unmoved
  <2>11. Backups'
    <3>1. \A l \in Levels, j \in Outputs : prev'[l][j] \in {NoFile, orig'[l][j]}
      BY <1>1, <1>2, <1>3, <1>4, <1>5, <2>3 DEF EvidenceInv, Backups
    <3>2. \A l \in Levels, j \in Outputs : quar'[l][j] = NoFile /\ stage'[l][j] \in {NoFile, Own(j)'}
      BY <1>1, <1>3 DEF EvidenceInv, Backups, Pending, Own
    <3> QED
      BY <1>3, <1>4, <2>5, <2>10, <3>1, <3>2 DEF Backups
  <2>12. Dated'
    <3>1. Unlinked(i) /\ \A j \in Outputs : Unlinked(j)' => Unlinked(j)
      BY <1>1, <1>2, <2>5 DEF Unlinked
    <3>2. dist[i] # Own(i) /\ Old(dist[i])
      BY <1>1, <1>2, <3>1 DEF EvidenceInv, Dated
    <3>3. \A l \in Levels, j \in Outputs : Old(orig'[l][j]) /\ orig'[l][j] # Own(j)
      BY <1>2, <2>3, <3>2 DEF EvidenceInv, Dated
    <3>4. \A j \in Outputs : Old(dist[j])
          /\ (Unlinked(j)' \/ j \notin handled'["outer"] => dist[j] # Own(j))
      BY <1>1, <2>2, <3>1 DEF EvidenceInv, Dated
    <3>5. \A l \in Levels, j \in Outputs : Old(prev[l][j]) /\ Old(quar[l][j])
      BY DEF EvidenceInv, Dated
    <3>6. /\ \A j \in Outputs : Own(j)' = Own(j)
          /\ \A f : Old(f)' <=> Old(f)
      BY <1>3, OldKept
    <3> QED
      BY <1>3, <3>3, <3>4, <3>5, <3>6 DEF Dated
  <2>13. Earlier'
    <3>1. SUFFICES ASSUME NEW j \in Outputs, orig'["outer"][j] # NoFile
                   PROVE  /\ Safe(j)' \/ dist[j] = orig'["outer"][j]
                          /\ Past(j)' => Safe(j)'
      BY <1>3 DEF Earlier
    <3>2. CASE lv = "outer" /\ j = i
      <4>1. ~ Past(j)'
        <5>1. ~ (i < i)
          BY <1>2 DEF Outputs
        <5> QED
          BY <2>5, <3>2, <5>1 DEF Past
      <4> QED
        BY <2>3, <3>2, <4>1
    <3>3. CASE ~ (lv = "outer" /\ j = i)
      <4>1. orig'["outer"][j] = orig["outer"][j] /\ (Safe(j)' <=> Safe(j))
        BY <1>2, <1>3, <2>3, <3>3 DEF Safe, world, Levels
      <4>2. Past(j)' => Past(j)
        BY <1>1, <2>5 DEF Past
      <4> QED
        BY <1>1, <3>1, <4>1, <4>2 DEF EvidenceInv, Earlier
    <3> QED
      BY <3>2, <3>3
  <2>14. Accounted'
    <3>1. ~ Sidecars \subseteq mine["outer"] /\ mine["outer"] \subseteq mine'["outer"]
      BY <1>1, <1>2, <1>3, Three DEF EvidenceInv, Claims
    <3> QED
      BY <1>1, <1>3, <3>1, QuietlyFound DEF EvidenceInv, world
  <2> QED
    BY <1>2, <1>3, <2>1, <2>4, <2>6, <2>7, <2>8, <2>9, <2>11, <2>12, <2>13, <2>14, Arrives
<1>8. CASE dist[i] # NoFile /\ ~ IsRegular(dist[i])
  <2>1. /\ handled' = [handled EXCEPT ![lv] = IF lv = "outer" THEN @ \cup {i} ELSE @]
        /\ FailFrom(lv) /\ UNCHANGED orig
    BY <1>8 DEF TakeReceipt
  <2>2. /\ handled' \in [Levels -> SUBSET Outputs] /\ handled["outer"] \subseteq handled'["outer"]
        /\ (lv = "inner" => handled'["outer"] = handled["outer"])
    BY <1>2, <2>1 DEF EvidenceInv, Typed, EvidenceTypeOK, Levels
  <2>3. Ready(lv)
    BY <1>1, ForwardIsReady
  <2>4. at' \in [lv : Levels, s : Steps, i : Outputs]
    BY <2>1, FailTypes
  <2>5. Typed'
    BY <1>3, <2>1, <2>2, <2>4 DEF EvidenceInv, Typed, EvidenceTypeOK, world
  <2>6. Accounted'
    BY <1>3, <2>1, QuietlyFound DEF EvidenceInv, world
  <2>7. /\ \A j \in Outputs : Own(j)' = Own(j)
        /\ \A f : Old(f)' <=> Old(f)
    BY <1>3, OldKept
  <2>8. \A j \in Outputs : (Safe(j)' <=> Safe(j))
    BY <1>3, <2>1 DEF Safe, world
  <2>9. Ready(lv)'
    BY <1>3, <2>1, <2>2, <2>3, <2>5, <2>6, <2>7, <2>8 DEF Ready
  <2> QED
    BY <1>3, <2>1, <2>9, Falls
<1> QED
  BY <1>6, <1>7, <1>8

LEMMA AsideStep ==
  ASSUME EvidenceInv, NEW lv \in Levels, NEW i \in Covers(lv), MoveAside(lv, i) PROVE EvidenceInv'
<1>1. /\ outcome = "running" /\ at.lv = lv /\ at.s = "move" /\ at.i = i
      /\ ~ RollingBack /\ at.s # "start" /\ ~ verified /\ At(lv, "move", i)
      /\ \A l, steps : In(l, steps) <=> l = lv /\ "move" \in steps
  <2>1. "move" \in Steps \ (Rollback \cup {"start"}) /\ At(lv, "move", i)
    BY DEF Steps, Rollback, MoveAside
  <2> QED
    BY <2>1, Forward
<1>2. i \in Outputs /\ lv \in {"outer", "inner"} /\ (lv = "inner" => i \in {2, 3} /\ i \in Sidecars)
  BY Covered
<1>3. /\ UNCHANGED <<quar, stage, orig, mine, handled, clean, build, outcome, world, strays, lost, verified>>
      /\ outcome' = "running"
      /\ prev' = [prev EXCEPT ![lv][i] = dist[i]] /\ dist' = [dist EXCEPT ![i] = NoFile]
  BY <1>1 DEF MoveAside, past
<1>4. prev[lv][i] = NoFile
  <2>1. Unmoved(lv, i)
    <3>1. i >= i
      BY <1>2 DEF Outputs
    <3> QED
      BY <1>1, <3>1 DEF Unmoved
  <2> QED
    BY <1>2, <2>1 DEF EvidenceInv, Backups
<1>5. /\ dist' \in [Outputs -> MaybeFile] /\ prev' \in [Levels -> [Outputs -> MaybeFile]]
      /\ dist'[i] = NoFile /\ prev'[lv][i] = dist[i]
      /\ \A j \in Outputs \ {i} : dist'[j] = dist[j]
      /\ \A l \in Levels, j \in Outputs : l # lv \/ j # i => prev'[l][j] = prev[l][j]
  BY <1>2, <1>3, Files DEF EvidenceInv, Typed, EvidenceTypeOK
<1>6. Accounted'
  <2>1. ASSUME NEW g, g # NoFile, NEW j \in Outputs, g = dist[j] PROVE Found(g)'
    <3>1. CASE j = i
      BY <1>5, <2>1, <3>1 DEF Found
    <3>2. CASE j # i
      BY <1>5, <2>1, <3>2 DEF Found
    <3> QED
      BY <3>1, <3>2
  <2>2. ASSUME NEW g, g # NoFile, NEW l \in Levels, NEW j \in Outputs, g = prev[l][j] \/ g = quar[l][j]
        PROVE  Found(g)'
    <3>1. g = prev'[l][j] \/ g = quar'[l][j]
      BY <1>3, <1>4, <1>5, <2>2
    <3> QED
      BY <3>1 DEF Found
  <2> QED
    BY <1>3, <2>1, <2>2, StillFound DEF EvidenceInv, world
<1>7. CASE dist[i] = orig[lv][i]
  <2>1. AfterMove(lv, i)
    BY <1>7 DEF MoveAside
  <2>2. lv = "outer" => i \in handled["outer"]
    BY <1>1, <1>2 DEF EvidenceInv, Looked
  <2>3. lv = "outer" => Safe(i)'
    BY <1>3, <1>5, <1>7 DEF Safe
  <2>4. handled' \in [Levels -> SUBSET Outputs]
    BY <1>3 DEF EvidenceInv, Typed, EvidenceTypeOK
  <2>5. "move" \in {"receipt", "move"} /\ prev'[lv][i] \in {NoFile, orig[lv][i]}
    BY <1>5, <1>7
  <2> QED
    BY <1>1, <1>3, <1>5, <1>6, <2>1, <2>2, <2>3, <2>4, <2>5, Moved
<1>8. CASE dist[i] # orig[lv][i]
  <2>1. FailFrom(lv)
    BY <1>8 DEF MoveAside
  <2>2. Ready(lv)
    BY <1>1, ForwardIsReady
  <2>3. at' \in [lv : Levels, s : Steps, i : Outputs]
    BY <2>1, FailTypes
  <2>4. Typed'
    BY <1>3, <1>5, <2>3 DEF EvidenceInv, Typed, EvidenceTypeOK, world
  <2>5. /\ \A j \in Outputs : Own(j)' = Own(j) /\ Own(j) # NoFile
        /\ \A f : Old(f)' <=> Old(f)
        /\ Old(NoFile)
    BY <1>3, OldKept
  <2>6. \A j \in Outputs : Old(dist'[j]) /\ (j \notin handled["outer"] => dist'[j] # Own(j))
    BY <1>5, <2>2, <2>5 DEF Ready
  <2>7. \A l \in Levels, j \in Outputs : Old(prev'[l][j])
    <3>1. Old(prev'[lv][i])
      BY <1>2, <1>5, <2>2 DEF Ready
    <3>2. ASSUME NEW l \in Levels, NEW j \in Outputs, l # lv \/ j # i PROVE Old(prev'[l][j])
      BY <1>5, <2>2, <3>2 DEF Ready
    <3> QED
      BY <3>1, <3>2
  <2>8. ASSUME NEW j \in Outputs, orig["outer"][j] # NoFile
        PROVE  /\ Safe(j)' \/ dist'[j] = orig["outer"][j]
               /\ lv = "inner" \/ j \in mine["outer"] => Safe(j)'
    <3>1. /\ Safe(j) \/ dist[j] = orig["outer"][j]
          /\ lv = "inner" \/ j \in mine["outer"] => Safe(j)
      BY <1>1, <2>2, <2>8 DEF Ready
    <3>2. CASE lv = "outer" /\ j = i
      <4>1. orig["outer"][j] \in taken
        BY <1>4, <1>8, <2>8, <3>1, <3>2 DEF Safe
      <4> QED
        BY <1>3, <4>1 DEF Safe, world
    <3>3. CASE ~ (lv = "outer" /\ j = i)
      <4>1. Safe(j)' <=> Safe(j)
        BY <1>2, <1>3, <1>5, <3>3 DEF Safe, world, Levels
      <4>2. CASE lv = "inner"
        BY <3>1, <4>1, <4>2
      <4>3. CASE lv = "outer"
        BY <1>5, <3>1, <3>3, <4>1, <4>3
      <4> QED
        BY <1>2, <4>2, <4>3
    <3> QED
      BY <3>2, <3>3
  <2>9. Ready(lv)'
    BY <1>1, <1>3, <1>6, <2>2, <2>4, <2>5, <2>6, <2>7, <2>8 DEF Ready
  <2> QED
    BY <1>3, <2>1, <2>9, Falls
<1> QED
  BY <1>7, <1>8

LEMMA LinkStep ==
  ASSUME EvidenceInv, NEW lv \in Levels, NEW i \in Covers(lv), Link(lv, i) PROVE EvidenceInv'
<1>1. /\ outcome = "running" /\ at.lv = lv /\ at.s = "link" /\ at.i = i
      /\ ~ RollingBack /\ at.s # "start" /\ ~ verified
      /\ \A l, steps : In(l, steps) <=> l = lv /\ "link" \in steps
      /\ handled["outer"] = Outputs
  <2>1. "link" \in Steps \ (Rollback \cup {"start"}) /\ At(lv, "link", i)
    BY DEF Steps, Rollback, Link
  <2> QED
    BY <2>1, Forward
<1>2. i \in Outputs /\ lv \in {"outer", "inner"} /\ (lv = "inner" => i \in {2, 3} /\ i \in Sidecars)
  BY Covered
<1>3. /\ UNCHANGED <<prev, quar, orig, mine, handled, clean, build, outcome, world, strays, lost, verified>>
      /\ outcome' = "running"
  BY <1>1 DEF Link, past
<1>4. CASE dist[i] # NoFile
  <2>1. /\ stage' = IF lv = "outer" THEN [stage EXCEPT ![lv][i] = NoFile] ELSE stage
        /\ FailFrom(lv) /\ UNCHANGED dist
    BY <1>4 DEF Link
  <2>2. stage' \in [Levels -> [Outputs -> MaybeFile]]
    BY <1>2, <2>1, Files DEF EvidenceInv, Typed, EvidenceTypeOK
  <2>3. \A l \in Levels, j \in Outputs : stage'[l][j] \in {NoFile, Own(j)}
    BY <1>2, <2>1, StageKept DEF EvidenceInv, Typed, EvidenceTypeOK
  <2> QED
    BY <1>1, <1>3, <2>1, <2>2, <2>3, FailsQuietly
<1>5. CASE dist[i] = NoFile
  <2>1. /\ dist' = [dist EXCEPT ![i] = stage[lv][i]]
        /\ GoTo(lv, "verify", i) /\ UNCHANGED stage
    BY <1>5 DEF Link
  <2>2. /\ dist' \in [Outputs -> MaybeFile] /\ dist'[i] \in {NoFile, Own(i)}
        /\ \A j \in Outputs \ {i} : dist'[j] = dist[j]
    <3>1. stage[lv][i] \in {NoFile, Own(i)}
      BY <1>2, StageKept
    <3>3. stage[lv][i] \in MaybeFile
      <4>1. stage \in [Levels -> [Outputs -> MaybeFile]]
        BY DEF EvidenceInv, Typed, EvidenceTypeOK
      <4> QED
        BY <1>2, <4>1
    <3>2. dist \in [Outputs -> MaybeFile]
      BY DEF EvidenceInv, Typed, EvidenceTypeOK
    <3> QED
      BY <1>2, <2>1, <3>1, <3>2, <3>3
  <2>3. "verify" \in Steps \ Rollback
    BY DEF Steps, Rollback
  <2>4. /\ at'.lv = lv /\ at'.s = "verify" /\ at'.i = i /\ ~ RollingBack'
        /\ at' \in [lv : Levels, s : Steps, i : Outputs]
        /\ \A l, steps : In(l, steps)' <=> l = lv /\ "verify" \in steps
    BY <1>2, <1>3, <2>1, <2>3, Onward
  <2>5. Typed'
    BY <1>3, <2>1, <2>2, <2>4 DEF EvidenceInv, Typed, EvidenceTypeOK, world
  <2>6. lv = "outer" => i = 1
    BY <1>1 DEF EvidenceInv, Placed
  <2>7. Placed'
    BY <1>1, <1>2, <1>3, <2>4, <2>6 DEF Placed
  <2>8. Claims'
    BY <1>1, <1>2, <1>3, <2>4 DEF EvidenceInv, Claims
  <2>9. Looked'
    BY <1>1, <1>3, <2>4 DEF EvidenceInv, Looked
  <2>10. Backups'
    <3>1. \A l \in Levels, j \in Outputs : Unmoved(l, j)' => Unmoved(l, j)
      BY <1>1, <2>4 DEF Unmoved
    <3>2. \A l \in Levels, j \in Outputs : quar'[l][j] = NoFile /\ stage'[l][j] \in {NoFile, Own(j)'}
      BY <1>1, <1>3, <2>1 DEF EvidenceInv, Backups, Pending, Own
    <3>3. \A l \in Levels, j \in Outputs : prev'[l][j] \in {NoFile, orig'[l][j]}
      BY <1>1, <1>3 DEF EvidenceInv, Backups
    <3> QED
      BY <1>3, <2>4, <3>1, <3>2, <3>3 DEF EvidenceInv, Backups
  <2>11. Dated'
    <3>1. /\ \A j \in Outputs : Own(j)' = Own(j)
          /\ \A f : Old(f)' <=> Old(f)
          /\ Old(NoFile)
      BY <1>3, OldKept
    <3>2. Old(Own(i))
      <4>1. build \in 0..Builds
        BY DEF EvidenceInv, Typed, EvidenceTypeOK
      <4>2. build <= build
        BY <4>1
      <4> QED
        BY <4>2 DEF Old, Own
    <3>3. \A j \in Outputs : Old(dist'[j])
      BY <2>2, <3>1, <3>2 DEF EvidenceInv, Dated
    <3>4. \A j \in Outputs : Unlinked(j)' => Unlinked(j) /\ j # i
      BY <1>1, <1>2, <2>4, <2>6, Three DEF Unlinked
    <3>5. \A j \in Outputs : Unlinked(j)' => dist'[j] # Own(j)
      BY <1>1, <2>2, <3>4 DEF EvidenceInv, Dated
    <3>6. \A l \in Levels, j \in Outputs :
            Old(prev[l][j]) /\ Old(quar[l][j]) /\ Old(orig[l][j]) /\ orig[l][j] # Own(j)
      BY DEF EvidenceInv, Dated
    <3> QED
      BY <1>1, <1>3, <3>1, <3>3, <3>5, <3>6 DEF Dated
  <2>12. Earlier'
    <3>1. \A j \in Outputs : Past(j)
      BY <1>1, <1>2 DEF Past
    <3>2. \A j \in Outputs : Safe(j)' <=> Safe(j)
      BY <1>3 DEF Safe, world
    <3> QED
      BY <1>1, <1>3, <3>1, <3>2 DEF EvidenceInv, Earlier
  <2>13. Accounted'
    <3>1. ASSUME NEW g, g # NoFile, NEW j \in Outputs, g = dist[j] PROVE Found(g)'
      <4>1. g = dist'[j]
        BY <1>5, <2>2, <3>1
      <4> QED
        BY <4>1 DEF Found
    <3>2. ASSUME NEW g, NEW l \in Levels, NEW j \in Outputs, g = prev[l][j] \/ g = quar[l][j]
          PROVE  Found(g)'
      BY <1>3, <3>2 DEF Found
    <3> QED
      BY <1>3, <3>1, <3>2, StillFound DEF EvidenceInv, world
  <2> QED
    BY <1>2, <1>3, <2>1, <2>3, <2>5, <2>7, <2>8, <2>9, <2>10, <2>11, <2>12, <2>13, Arrives
<1> QED
  BY <1>4, <1>5

\* A backup goes: of the inner transaction when the outer one has its claims,
\* of the outer one when the commit has seen the outputs.
LEMMA Discards ==
  ASSUME EvidenceInv, NEW lv \in Levels, NEW i \in Covers(lv), At(lv, "discard", i),
         prev' = [prev EXCEPT ![lv][i] = NoFile],
         NEW l2 \in Levels, NEW s \in {"discard", "revalidate", "close"}, NEW k \in Covers(l2), GoTo(l2, s, k),
         lv = "outer" => l2 = "outer" /\ s # "revalidate",
         lv = "inner" => (IF l2 = "inner" THEN s = "discard" ELSE s = "revalidate"),
         UNCHANGED <<dist, quar, stage, orig, mine, handled, clean, build, outcome, world, strays, lost, verified>>
  PROVE  EvidenceInv'
<1>1. /\ outcome' = "running" /\ at.lv = lv /\ at.s = "discard" /\ at.i = i
      /\ ~ RollingBack /\ at.s # "start" /\ (verified <=> lv = "outer")
      /\ \A l, steps : In(l, steps) <=> l = lv /\ "discard" \in steps
      /\ handled["outer"] = Outputs
  <2>1. "discard" \in Steps \ (Rollback \cup {"start"})
    BY DEF Steps, Rollback
  <2> QED
    BY <2>1, Forward
<1>2. /\ i \in Outputs /\ lv \in {"outer", "inner"} /\ (lv = "inner" => i \in {2, 3} /\ i \in Sidecars)
      /\ k \in Outputs /\ l2 \in {"outer", "inner"} /\ (l2 = "inner" => k \in Sidecars)
  BY Covered
<1>3. /\ prev' \in [Levels -> [Outputs -> MaybeFile]] /\ prev'[lv][i] = NoFile
      /\ \A l \in Levels, j \in Outputs : l # lv \/ j # i => prev'[l][j] = prev[l][j]
  BY <1>2, Files DEF EvidenceInv, Typed, EvidenceTypeOK
<1>4. s \in Steps \ Rollback
  BY DEF Steps, Rollback
<1>5. /\ at'.lv = l2 /\ at'.s = s /\ at'.i = k /\ ~ RollingBack'
      /\ at' \in [lv : Levels, s : Steps, i : Outputs]
      /\ \A l, steps : In(l, steps)' <=> l = l2 /\ s \in steps
  BY <1>1, <1>2, <1>4, Onward
<1>6. Typed'
  BY <1>3, <1>5 DEF EvidenceInv, Typed, EvidenceTypeOK, world
<1>7. Placed'
  BY <1>1, <1>2, <1>5 DEF Placed
<1>8. Claims'
  BY <1>1, <1>2, <1>5 DEF EvidenceInv, Claims
<1>9. Looked'
  BY <1>1, <1>2, <1>5 DEF EvidenceInv, Looked
<1>10. /\ \A l \in Levels, j \in Outputs : ~ Unmoved(l, j)'
       /\ \A j \in Outputs : ~ Unlinked(j)'
  BY <1>5 DEF Unmoved, Unlinked
<1>11. \A l \in Levels, j \in Outputs : prev[l][j] \in {NoFile, orig[l][j]}
  BY <1>1 DEF EvidenceInv, Backups
<1>12. Backups'
  <2>1. \A l \in Levels, j \in Outputs : quar'[l][j] = NoFile /\ stage'[l][j] \in {NoFile, Own(j)'}
    BY <1>1 DEF EvidenceInv, Backups, Pending, Own
  <2>2. \A l \in Levels, j \in Outputs : prev'[l][j] \in {NoFile, orig'[l][j]}
    BY <1>3, <1>11
  <2> QED
    BY <1>5, <1>10, <2>1, <2>2 DEF Backups
<1>13. Dated'
  <2>1. /\ \A j \in Outputs : Own(j)' = Own(j)
        /\ \A f : Old(f)' <=> Old(f)
        /\ Old(NoFile)
    BY OldKept
  <2>2. \A l \in Levels, j \in Outputs : Old(prev'[l][j])
    BY <1>3, <2>1 DEF EvidenceInv, Dated
  <2>3. \A l \in Levels, j \in Outputs : Old(quar[l][j]) /\ Old(orig[l][j]) /\ orig[l][j] # Own(j)
    BY DEF EvidenceInv, Dated
  <2>4. \A j \in Outputs : Old(dist[j])
    BY DEF EvidenceInv, Dated
  <2> QED
    BY <1>1, <1>10, <2>1, <2>2, <2>3, <2>4 DEF Dated
<1>14. Earlier'
  <2>1. CASE lv = "outer"
    BY <1>1, <2>1 DEF Earlier
  <2>2. CASE lv = "inner"
    <3>1. \A j \in Outputs : Past(j)
      BY <1>1, <2>2 DEF Past
    <3>2. \A j \in Outputs : prev'["outer"][j] = prev["outer"][j]
      BY <1>3, <2>2 DEF Levels
    <3>3. \A j \in Outputs : Safe(j)' <=> Safe(j)
      BY <3>2 DEF Safe, world
    <3> QED
      BY <1>1, <2>2, <3>1, <3>3 DEF EvidenceInv, Earlier
  <2> QED
    BY <1>2, <2>1, <2>2
<1>15. Accounted'
  <2>1. ASSUME NEW g, NEW j \in Outputs, g = dist[j] PROVE Found(g)'
    BY <2>1 DEF Found
  <2>2. ASSUME NEW g, g # NoFile, NEW l \in Levels, NEW j \in Outputs, g = prev[l][j] \/ g = quar[l][j]
        PROVE  Found(g)'
    <3>1. CASE g = quar[l][j] \/ (g = prev[l][j] /\ (l # lv \/ j # i))
      <4>1. g = quar'[l][j] \/ g = prev'[l][j]
        BY <1>3, <3>1
      <4> QED
        BY <4>1 DEF Found
    <3>2. CASE g = prev[l][j] /\ l = lv /\ j = i
      <4>1. g = orig[lv][i]
        BY <1>11, <2>2, <3>2
      <4>2. CASE lv = "outer"
        BY <1>1, <1>2, <4>1, <4>2 DEF Found
      <4>3. CASE lv = "inner"
        <5>1. Sidecars \subseteq mine["outer"]
          BY <1>1, <4>3 DEF EvidenceInv, Claims
        <5> QED
          BY <1>2, <4>1, <4>3, <5>1 DEF Found
      <4> QED
        BY <1>2, <4>2, <4>3
    <3> QED
      BY <2>2, <3>1, <3>2
  <2> QED
    BY <2>1, <2>2, StillFound DEF EvidenceInv, world
<1> QED
  BY <1>1, <1>2, <1>4, <1>6, <1>7, <1>8, <1>9, <1>12, <1>13, <1>14, <1>15, Arrives

LEMMA DiscardStep ==
  ASSUME EvidenceInv, NEW i \in Sidecars, DiscardInner(i) PROVE EvidenceInv'
<1>1. i = 2 \/ i = 3
  BY Three
<1>2. i \in Covers("inner") /\ 3 \in Covers("inner") /\ 2 \in Covers("outer") /\ "inner" \in Levels /\ "outer" \in Levels
  BY Three DEF Covers, Levels
<1>3. /\ At("inner", "discard", i) /\ prev' = [prev EXCEPT !["inner"][i] = NoFile]
      /\ UNCHANGED <<dist, quar, stage, orig, mine, handled, clean, build, outcome, world, strays, lost, verified>>
  BY DEF DiscardInner, past
<1>4. CASE i = 2
  <2>1. GoTo("inner", "discard", 3)
    BY <1>4 DEF DiscardInner
  <2> QED
    BY <1>2, <1>3, <2>1, Discards
<1>5. CASE i = 3
  <2>1. GoTo("outer", "revalidate", 2)
    BY <1>5 DEF DiscardInner
  <2> QED
    BY <1>2, <1>3, <2>1, Discards
<1> QED
  BY <1>1, <1>4, <1>5

LEMMA DropStep ==
  ASSUME EvidenceInv, NEW i \in Outputs, CommitDiscard(i) PROVE EvidenceInv'
<1>1. /\ At("outer", "discard", i) /\ prev' = [prev EXCEPT !["outer"][i] = NoFile]
      /\ UNCHANGED <<dist, quar, stage, orig, mine, handled, clean, build, outcome, world, strays, lost, verified>>
  BY DEF CommitDiscard, past
<1>2. "outer" \in Levels /\ Covers("outer") = Outputs
  BY DEF Levels, Covers
<1>3. CASE i < 3
  <2>1. i + 1 \in Outputs /\ GoTo("outer", "discard", i + 1)
    BY <1>3 DEF CommitDiscard, Outputs
  <2> QED
    BY <1>1, <1>2, <2>1, Discards
<1>4. CASE ~ i < 3
  <2>1. 1 \in Outputs /\ GoTo("outer", "close", 1)
    BY <1>4 DEF CommitDiscard, Outputs
  <2> QED
    BY <1>1, <1>2, <2>1, Discards
<1> QED
  BY <1>3, <1>4

-----------------------------------------------------------------------------
(* The steps of a rollback.                                                 *)
Busy == {"dispose", "restore", "restored"}

LEMMA Rolling ==
  ASSUME EvidenceInv, NEW lv \in Levels, NEW s \in Rollback, NEW i, At(lv, s, i)
  PROVE  /\ outcome = "running" /\ at.lv = lv /\ at.s = s /\ at.i = i /\ RollingBack
         /\ \A l, steps : In(l, steps) <=> l = lv /\ s \in steps
         /\ lv = "inner" => ~ verified /\ handled["outer"] = Outputs
         /\ \A j \in Outputs : j \notin handled["outer"] => dist[j] # Own(j) /\ orig["outer"][j] = NoFile
<1>1. outcome = "running" /\ at.lv = lv /\ at.s = s /\ at.i = i
  BY Standing
<1>2. RollingBack /\ at.s # "start" /\ \A l, steps : In(l, steps) <=> l = lv /\ s \in steps
  BY <1>1 DEF RollingBack, Rollback, In
<1>3. lv = "inner" => ~ verified /\ handled["outer"] = Outputs
  BY <1>1 DEF EvidenceInv, Placed, Looked
<1>4. \A j \in Outputs : j \notin handled["outer"] => dist[j] # Own(j) /\ orig["outer"][j] = NoFile
  BY <1>2 DEF EvidenceInv, Dated, Looked
<1> QED
  BY <1>1, <1>2, <1>3, <1>4

\* Where a rollback goes from output i: on with it, or to the next one.
LEMMA RollsTo ==
  ASSUME EvidenceInv, NEW lv \in Levels, NEW s \in Rollback \ {"end"}, NEW i \in Covers(lv), At(lv, s, i),
         AfterOutput(lv, i) \/ \E t \in Busy : GoTo(lv, t, i)
  PROVE  /\ at' \in [lv : Levels, s : Steps, i : Outputs] /\ at'.lv = lv
         /\ at'.s \in Busy => at'.i = i
         /\ at'.s \in {"take", "end"} \cup Busy
         /\ lv = "inner" => at'.i \in Sidecars
         /\ lv = "outer" /\ at'.s = "end" => at'.i = 3
         /\ \A j \in Outputs : lv = "outer" /\ (at'.s = "end" \/ j < at'.i) =>
              Done(j) \/ (j = i /\ at'.s \notin Busy)
         /\ \A l \in Levels, j \in Outputs : Pending(l, j)' => Pending(l, j) /\ (l # lv \/ j # i)
<1>1. at.lv = lv /\ at.s = s /\ at.i = i /\ \A l, steps : In(l, steps) <=> l = lv /\ s \in steps
  BY Rolling
<1>2. /\ i \in {1, 2, 3} /\ i \in Outputs /\ lv \in {"outer", "inner"}
      /\ lv = "inner" => i \in {2, 3} /\ i \in Sidecars
  BY Covered, Three
<1>3. PICK t \in {"take", "end"} \cup Busy, k \in Outputs :
        /\ GoTo(lv, t, k)
        /\ t \in Busy => k = i
        /\ lv = "inner" => k \in Sidecars
        /\ lv = "outer" /\ t = "take" => k = i + 1
        /\ lv = "outer" /\ t = "end" => i = 3 /\ k = 3
        /\ lv = "inner" /\ t = "take" => k = 2 /\ i = 3
        /\ lv = "inner" /\ t = "end" => k = 2 /\ i = 2
  <2>1. CASE \E t \in Busy : GoTo(lv, t, i)
    BY <1>2, <2>1 DEF Busy
  <2>2. CASE AfterOutput(lv, i) /\ lv = "inner"
    <3>1. CASE i = 3
      BY <2>2, <3>1, Three DEF AfterOutput, Busy
    <3>2. CASE i = 2
      BY <2>2, <3>2, Three DEF AfterOutput, Busy
    <3> QED
      BY <1>2, <2>2, <3>1, <3>2
  <2>3. CASE AfterOutput(lv, i) /\ lv = "outer"
    <3>1. CASE i = 3
      BY <2>3, <3>1, Three DEF AfterOutput, Busy
    <3>2. CASE i # 3
      <4>1. i < 3 /\ i + 1 \in Outputs
        BY <1>2, <3>2 DEF Outputs
      <4> QED
        BY <2>3, <4>1 DEF AfterOutput, Busy
    <3> QED
      BY <3>1, <3>2
  <2> QED
    BY <1>2, <2>1, <2>2, <2>3
<1>4. t \in Steps /\ t \in Rollback
  BY DEF Steps, Busy, Rollback
<1>5. at'.lv = lv /\ at'.s = t /\ at'.i = k /\ at' \in [lv : Levels, s : Steps, i : Outputs]
  BY <1>3, <1>4, Going
<1>6. RollingBack /\ RollingBack'
  BY <1>1, <1>4, <1>5 DEF RollingBack, Rollback
<1>7. ASSUME NEW j \in Outputs, lv = "outer", t = "end" \/ j < k
      PROVE  Done(j) \/ (j = i /\ t \notin Busy)
  <2>1. j < i \/ (j = i /\ t \notin Busy)
    <3>1. CASE t = "end"
      BY <1>3, <1>7, <3>1 DEF Outputs, Busy
    <3>2. CASE t = "take"
      BY <1>2, <1>3, <1>7, <3>2 DEF Outputs, Busy
    <3>3. CASE t \in Busy
      BY <1>3, <1>7, <3>3 DEF Busy
    <3> QED
      BY <1>3, <3>1, <3>2, <3>3
  <2> QED
    BY <1>1, <1>7, <2>1 DEF Done, Rollback
<1>8. ASSUME NEW l \in Levels, NEW j \in Outputs, Pending(l, j)'
      PROVE  Pending(l, j) /\ (l # lv \/ j # i)
  <2>1. l \in {"outer", "inner"} /\ j \in {1, 2, 3}
    BY Three DEF Levels
  <2>2. CASE lv = "inner" /\ l = "outer"
    BY <1>1, <2>2 DEF Pending
  <2>3. CASE lv = "inner" /\ l = "inner"
    <3>1. j < k \/ (j = k /\ t = "take")
      BY <1>5, <1>6, <1>8, <2>3 DEF Pending
    <3>2. j < i
      BY <1>2, <1>3, <2>1, <2>3, <3>1 DEF Busy
    <3>3. j # i
      BY <1>2, <2>1, <3>2
    <3> QED
      BY <1>1, <2>3, <3>2, <3>3 DEF Pending
  <2>4. CASE lv = "outer"
    <3>1. l = "outer" /\ (j > k \/ (j = k /\ t = "take"))
      BY <1>5, <1>6, <1>8, <2>4 DEF Pending
    <3>2. j > i
      BY <1>2, <1>3, <2>1, <2>4, <3>1 DEF Busy
    <3>3. j # i
      BY <1>2, <2>1, <3>2
    <3> QED
      BY <1>1, <2>4, <3>1, <3>2, <3>3 DEF Pending
  <2> QED
    BY <1>2, <2>1, <2>2, <2>3, <2>4
<1> QED
  BY <1>3, <1>5, <1>7, <1>8

\* What a step of the rollback of output i must see to: what it may change, where
\* files of others are, and what it says of the output when it goes on.
RollChanges(lv, i) ==
  /\ dist' \in [Outputs -> MaybeFile] /\ \A j \in Outputs \ {i} : dist'[j] = dist[j]
  /\ prev' \in [Levels -> [Outputs -> MaybeFile]] /\ quar' \in [Levels -> [Outputs -> MaybeFile]]
  /\ \A l \in Levels, j \in Outputs : l # lv \/ j # i =>
       prev'[l][j] = prev[l][j] /\ quar'[l][j] = quar[l][j]
  /\ UNCHANGED <<stage, orig, mine, handled, build, outcome, world, strays, lost, verified>>
  /\ clean' \in [removed : BOOLEAN, restored : BOOLEAN]
  /\ clean'.removed => clean.removed
  /\ clean'.restored => clean.restored
RollSays(lv, i) ==
  /\ Old(dist'[i]) /\ Old(prev'[lv][i]) /\ Old(quar'[lv][i])
  /\ i \notin handled["outer"] => dist'[i] # Own(i)
  /\ at'.s = "restored" => prev'[lv][i] = orig[lv][i]
  /\ lv = "outer" /\ ~ verified /\ orig["outer"][i] # NoFile =>
       Safe(i)' \/ dist'[i] = orig["outer"][i]
  /\ lv = "outer" /\ clean'.removed /\ at'.s # "dispose" => dist'[i] # Own(i)
  /\ lv = "outer" /\ at'.s \notin Busy /\ clean'.restored /\ orig["outer"][i] # NoFile =>
       dist'[i] = orig["outer"][i] \/ orig["outer"][i] \in taken

LEMMA RollsOn ==
  ASSUME EvidenceInv, NEW lv \in Levels, NEW s \in Rollback \ {"end"}, NEW i \in Covers(lv), At(lv, s, i),
         AfterOutput(lv, i) \/ \E t \in Busy : GoTo(lv, t, i),
         RollChanges(lv, i), RollSays(lv, i), Accounted'
  PROVE  EvidenceInv'
<1> USE DEF RollChanges, RollSays
<1>1. /\ at.lv = lv /\ at.s = s /\ at.i = i /\ RollingBack
      /\ \A l, steps : In(l, steps) <=> l = lv /\ s \in steps
      /\ lv = "inner" => ~ verified /\ handled["outer"] = Outputs
      /\ \A j \in Outputs : j \notin handled["outer"] => dist[j] # Own(j) /\ orig["outer"][j] = NoFile
      /\ outcome' = "running"
  BY Rolling
<1>2. i \in Outputs /\ lv \in {"outer", "inner"}
  BY Covered
<1>3. /\ at' \in [lv : Levels, s : Steps, i : Outputs] /\ at'.lv = lv
      /\ at'.s \in Busy => at'.i = i
      /\ at'.s \in {"take", "end"} \cup Busy
      /\ lv = "inner" => at'.i \in Sidecars
      /\ lv = "outer" /\ at'.s = "end" => at'.i = 3
      /\ \A j \in Outputs : lv = "outer" /\ (at'.s = "end" \/ j < at'.i) =>
           Done(j) \/ (j = i /\ at'.s \notin Busy)
      /\ \A l \in Levels, j \in Outputs : Pending(l, j)' => Pending(l, j) /\ (l # lv \/ j # i)
  BY RollsTo
<1>4. at'.lv = lv /\ at'.s \in Rollback /\ RollingBack'
  BY <1>3 DEF RollingBack, Rollback, Busy
<1>5. /\ \A j \in Outputs : Own(j)' = Own(j)
      /\ \A f : Old(f)' <=> Old(f)
  BY OldKept
<1>6. Typed'
  BY <1>3 DEF EvidenceInv, Typed, EvidenceTypeOK, world
<1>7. Placed'
  BY <1>1, <1>2, <1>3, <1>4 DEF Placed, In, Rollback
<1>8. Claims'
  BY <1>4 DEF Claims, In, Rollback
<1>9. Looked'
  <2>1. \A j \in Outputs : orig["outer"][j] # NoFile => j \in handled["outer"]
    BY DEF EvidenceInv, Looked
  <2> QED
    BY <1>1, <1>2, <1>4, <2>1 DEF Looked, In, Rollback
<1>10. Backups'
  <2>1. \A l \in Levels, j \in Outputs : ~ Unmoved(l, j)'
    BY <1>4 DEF Unmoved, In, Rollback
  <2>2. \A l \in Levels, j \in Outputs : Pending(l, j)' => quar'[l][j] = NoFile
    BY <1>3 DEF EvidenceInv, Backups
  <2>3. \A l \in Levels, j \in Outputs : stage'[l][j] \in {NoFile, Own(j)'}
    BY <1>5 DEF EvidenceInv, Backups
  <2>4. at'.s = "restored" => at'.i = i
    BY <1>3 DEF Busy
  <2> QED
    BY <1>3, <1>4, <2>1, <2>2, <2>3, <2>4 DEF Backups
<1>11. Dated'
  <2>1. \A j \in Outputs : ~ Unlinked(j)'
    BY <1>4 DEF Unlinked, In, Rollback
  <2>2. \A j \in Outputs : Old(dist'[j])
    BY <1>2 DEF EvidenceInv, Dated
  <2>3. \A l \in Levels, j \in Outputs : Old(prev'[l][j]) /\ Old(quar'[l][j])
    <3>1. SUFFICES ASSUME NEW l \in Levels, NEW j \in Outputs, l # lv \/ j # i
                   PROVE  Old(prev'[l][j]) /\ Old(quar'[l][j])
      BY <1>2
    <3> QED
      BY <3>1 DEF EvidenceInv, Dated
  <2>4. \A l \in Levels, j \in Outputs : Old(orig'[l][j]) /\ orig'[l][j] # Own(j)
    BY DEF EvidenceInv, Dated
  <2>5. \A j \in Outputs : j \notin handled'["outer"] => dist'[j] # Own(j)
    BY <1>1, <1>2
  <2> QED
    BY <1>5, <2>1, <2>2, <2>3, <2>4, <2>5 DEF Dated
<1>12. Earlier'
  <2>1. SUFFICES ASSUME NEW j \in Outputs, ~ verified, orig["outer"][j] # NoFile
                 PROVE  /\ Safe(j)' \/ dist'[j] = orig["outer"][j]
                        /\ Past(j)' => Safe(j)'
    BY DEF Earlier
  <2>2. (Safe(j) \/ dist[j] = orig["outer"][j]) /\ (Past(j) => Safe(j))
    BY <2>1 DEF EvidenceInv, Earlier
  <2>3. CASE lv = "inner"
    <3>1. Past(j) /\ prev'["outer"][j] = prev["outer"][j]
      BY <1>1, <2>3 DEF Past, Levels
    <3> QED
      BY <2>2, <3>1 DEF Safe, world
  <2>4. CASE lv = "outer" /\ j = i
    <3>1. ~ Past(j)'
      <4>1. ~ Pending("outer", j)'
        BY <1>3, <2>4 DEF Levels
      <4> QED
        BY <1>4, <2>4, <4>1 DEF Past, In, Rollback
    <3> QED
      BY <2>1, <2>4, <3>1
  <2>5. CASE lv = "outer" /\ j # i
    <3>1. Past(j)' => Past(j)
      <4>1. Pending("outer", j)' => Pending("outer", j)
        BY <1>3 DEF Levels
      <4> QED
        BY <1>1, <1>4, <2>5, <4>1 DEF Past, In, Rollback
    <3>2. prev'["outer"][j] = prev["outer"][j] /\ dist'[j] = dist[j]
      BY <2>5
    <3> QED
      BY <2>2, <3>1, <3>2 DEF Safe, world
  <2> QED
    BY <1>2, <2>3, <2>4, <2>5
<1>13. Undone'
  <2>1. ASSUME In("outer", {"restore", "restored"})', clean'.removed
        PROVE  (dist[at.i] # Own(at.i))'
    <3>1. lv = "outer" /\ at'.s \in {"restore", "restored"}
      BY <1>4, <2>1 DEF In
    <3>2. at'.i = i /\ at'.s # "dispose"
      BY <1>3, <3>1 DEF Busy
    <3>3. dist'[i] # Own(i)
      BY <2>1, <3>1, <3>2
    <3> QED
      BY <3>2, <3>3 DEF Own
  <2>2. ASSUME NEW j \in Outputs, Done(j)'
        PROVE  /\ clean'.removed => dist'[j] # Own(j)'
               /\ clean'.restored /\ orig'["outer"][j] # NoFile =>
                    dist'[j] = orig'["outer"][j] \/ orig'["outer"][j] \in taken'
    <3>1. lv = "outer" /\ (at'.s = "end" \/ j < at'.i)
      BY <1>4, <2>2 DEF Done, In
    <3>2. Done(j) \/ (j = i /\ at'.s \notin Busy)
      BY <1>3, <3>1
    <3>3. CASE j = i /\ at'.s \notin Busy
      BY <1>5, <3>1, <3>3 DEF world, Busy
    <3>4. CASE Done(j) /\ j # i
      BY <1>5, <3>4 DEF EvidenceInv, Undone, world
    <3>5. ~ Done(i)
      <4>1. ~ (i < i)
        BY <1>2 DEF Outputs
      <4> QED
        BY <1>1, <4>1 DEF Done
    <3> QED
      BY <3>2, <3>3, <3>4, <3>5
  <2> QED
    BY <2>1, <2>2 DEF Undone
<1>14. CompleteMeansUndone'
  BY <1>1 DEF CompleteMeansUndone
<1> QED
  BY <1>6, <1>7, <1>8, <1>9, <1>10, <1>11, <1>12, <1>13, <1>14 DEF EvidenceInv

LEMMA FileThere ==
  ASSUME EvidenceInv, NEW l \in Levels, NEW i \in Outputs
  PROVE  /\ dist[i] \in MaybeFile /\ prev[l][i] \in MaybeFile /\ quar[l][i] \in MaybeFile
         /\ orig[l][i] \in MaybeFile
         /\ Old(dist[i]) /\ Old(prev[l][i]) /\ Old(quar[l][i]) /\ Old(orig[l][i]) /\ orig[l][i] # Own(i)
<1>1. /\ dist \in [Outputs -> MaybeFile] /\ prev \in [Levels -> [Outputs -> MaybeFile]]
      /\ quar \in [Levels -> [Outputs -> MaybeFile]] /\ orig \in [Levels -> [Outputs -> MaybeFile]]
  BY DEF EvidenceInv, Typed, EvidenceTypeOK
<1>2. Old(dist[i]) /\ Old(prev[l][i]) /\ Old(quar[l][i]) /\ Old(orig[l][i]) /\ orig[l][i] # Own(i)
  BY DEF EvidenceInv, Dated
<1> QED
  BY <1>1, <1>2

LEMMA TypedParts ==
  ASSUME EvidenceInv
  PROVE  /\ dist \in [Outputs -> MaybeFile] /\ prev \in [Levels -> [Outputs -> MaybeFile]]
         /\ quar \in [Levels -> [Outputs -> MaybeFile]]
         /\ clean \in [removed : BOOLEAN, restored : BOOLEAN]
BY DEF EvidenceInv, Typed, EvidenceTypeOK

\* What is known of output i of the outer transaction while it is rolled back.
LEMMA EarlierOne ==
  ASSUME EvidenceInv, NEW i \in Outputs, ~ verified, orig["outer"][i] # NoFile
  PROVE  (Safe(i) \/ dist[i] = orig["outer"][i]) /\ (Past(i) => Safe(i))
BY DEF EvidenceInv, Earlier

LEMMA QuarantineStep ==
  ASSUME EvidenceInv, NEW lv \in Levels, NEW i \in Covers(lv), Quarantine(lv, i) PROVE EvidenceInv'
<1>1. At(lv, "take", i) /\ "take" \in Rollback \ {"end"}
  BY DEF Quarantine, Rollback
<1>2. /\ outcome = "running" /\ at.lv = lv /\ at.s = "take" /\ at.i = i /\ RollingBack
      /\ \A j \in Outputs : j \notin handled["outer"] => dist[j] # Own(j) /\ orig["outer"][j] = NoFile
  BY <1>1, Rolling
<1>3. i \in Outputs /\ lv \in {"outer", "inner"}
  BY Covered
<1>4. UNCHANGED <<prev, stage, orig, mine, handled, build, outcome, world, strays, lost, verified>>
  BY DEF Quarantine, past
<1>5. quar[lv][i] = NoFile
  <2>1. Pending(lv, i)
    BY <1>2, <1>3 DEF Pending
  <2> QED
    BY <1>3, <2>1 DEF EvidenceInv, Backups
<1>6. /\ dist[i] \in MaybeFile /\ Old(dist[i]) /\ Old(prev[lv][i]) /\ Old(quar[lv][i])
  BY <1>3, FileThere
<1>7. prev' \in [Levels -> [Outputs -> MaybeFile]]
  BY <1>4, TypedParts
<1>8. Old(NoFile) /\ Own(i) # NoFile
  BY <1>3, <1>4, OldKept
<1>9. CASE i \notin handled[lv]
  <2>1. AfterOutput(lv, i) /\ UNCHANGED <<dist, quar, clean>>
    BY <1>9 DEF Quarantine
  <2>2. Accounted'
    BY <1>4, <2>1, QuietlyFound DEF EvidenceInv, world
  <2>3. at'.s \notin Busy
    BY <1>3, <2>1 DEF AfterOutput, GoTo, StepOf, Busy
  <2>4. lv = "outer" => dist[i] # Own(i) /\ orig["outer"][i] = NoFile
    BY <1>2, <1>3, <1>9
  <2>5. at'.s # "restored"
    BY <2>3 DEF Busy
  <2>20. RollChanges(lv, i)
    BY <1>1, <1>2, <1>3, <1>4, <1>6, <1>7, <2>1, <2>2, <2>4, <2>5, TypedParts DEF RollChanges
  <2>21. RollSays(lv, i)
    BY <1>1, <1>2, <1>3, <1>4, <1>6, <1>7, <2>1, <2>2, <2>4, <2>5, TypedParts DEF RollSays
  <2>22. AfterOutput(lv, i) \/ \E t \in Busy : GoTo(lv, t, i)
    BY <1>1, <1>2, <1>3, <1>4, <1>6, <1>7, <2>1, <2>2, <2>4, <2>5, TypedParts
  <2> QED
    BY <1>1, <2>2, <2>20, <2>21, <2>22, RollsOn
<1>10. CASE i \in handled[lv] /\ i \in mine[lv] /\ dist[i] # NoFile
  <2>1. /\ quar' = [quar EXCEPT ![lv][i] = dist[i]]
        /\ dist' = [dist EXCEPT ![i] = NoFile]
        /\ GoTo(lv, "dispose", i) /\ UNCHANGED clean
    BY <1>10 DEF Quarantine
  <2>2. /\ dist' \in [Outputs -> MaybeFile] /\ dist'[i] = NoFile
        /\ \A j \in Outputs \ {i} : dist'[j] = dist[j]
    BY <1>3, <2>1, Files, TypedParts
  <2>3. /\ quar' \in [Levels -> [Outputs -> MaybeFile]] /\ quar'[lv][i] = dist[i]
        /\ \A l \in Levels, j \in Outputs : l # lv \/ j # i => quar'[l][j] = quar[l][j]
    BY <1>3, <1>6, <2>1, TypedParts
  <2>4. Accounted'
    <3>1. ASSUME NEW g, NEW j \in Outputs, g = dist[j] PROVE Found(g)'
      <4>1. g = dist'[j] \/ g = quar'[lv][i]
        BY <1>3, <2>2, <2>3, <3>1
      <4> QED
        BY <1>3, <3>1, <4>1 DEF Found
    <3>2. ASSUME NEW g, g # NoFile, NEW l \in Levels, NEW j \in Outputs, g = prev[l][j] \/ g = quar[l][j]
          PROVE  Found(g)'
      <4>1. g = prev'[l][j] \/ g = quar'[l][j]
        BY <1>4, <1>5, <2>3, <3>2
      <4> QED
        BY <3>2, <4>1 DEF Found
    <3> QED
      BY <1>4, <3>1, <3>2, StillFound DEF EvidenceInv, world
  <2>5. at'.s = "dispose"
    BY <2>1 DEF GoTo, StepOf
  <2>6. lv = "outer" /\ ~ verified /\ orig["outer"][i] # NoFile => Safe(i)'
    <3>1. SUFFICES ASSUME lv = "outer", ~ verified, orig["outer"][i] # NoFile PROVE Safe(i)'
      OBVIOUS
    <3>2. Past(i)
      BY <1>2, <1>3, <1>10, <3>1 DEF Past, Pending
    <3>3. Safe(i)
      BY <1>3, <3>1, <3>2, EarlierOne
    <3> QED
      BY <1>4, <3>3 DEF Safe, world
  <2>7. GoTo(lv, "dispose", i) /\ "dispose" \in Busy /\ at'.s \in Busy /\ at'.s # "restored"
    BY <2>1, <2>5 DEF Busy
  <2>8. Old(dist'[i]) /\ Old(quar'[lv][i]) /\ Old(prev'[lv][i]) /\ dist'[i] # Own(i)
    BY <1>4, <1>6, <1>8, <2>2, <2>3
  <2>9. /\ \A l \in Levels, j \in Outputs : l # lv \/ j # i =>
             prev'[l][j] = prev[l][j] /\ quar'[l][j] = quar[l][j]
        /\ clean' \in [removed : BOOLEAN, restored : BOOLEAN]
        /\ clean'.removed = clean.removed /\ clean'.restored = clean.restored
    BY <1>4, <2>1, <2>3, TypedParts
  <2>10. AfterOutput(lv, i) \/ \E t \in Busy : GoTo(lv, t, i)
    BY <2>7
  <2>20. RollChanges(lv, i)
    BY <1>1, <1>4, <1>7, <2>2, <2>3, <2>4, <2>6, <2>7, <2>8, <2>9, <2>10 DEF RollChanges
  <2>21. RollSays(lv, i)
    BY <1>1, <1>4, <1>7, <2>2, <2>3, <2>4, <2>6, <2>7, <2>8, <2>9, <2>10 DEF RollSays
  <2>22. AfterOutput(lv, i) \/ \E t \in Busy : GoTo(lv, t, i)
    BY <1>1, <1>4, <1>7, <2>2, <2>3, <2>4, <2>6, <2>7, <2>8, <2>9, <2>10
  <2> QED
    BY <1>1, <2>4, <2>20, <2>21, <2>22, RollsOn
<1>11. CASE i \in handled[lv] /\ (i \notin mine[lv] \/ dist[i] = NoFile)
  <2>1. /\ clean' = [clean EXCEPT !.removed = @ /\ i \notin mine[lv] /\ dist[i] = NoFile]
        /\ GoTo(lv, "restore", i) /\ UNCHANGED <<dist, quar>>
    BY <1>11 DEF Quarantine
  <2>2. Accounted'
    BY <1>4, <2>1, QuietlyFound DEF EvidenceInv, world
  <2>3. /\ clean' \in [removed : BOOLEAN, restored : BOOLEAN]
        /\ (clean'.removed => clean.removed /\ dist[i] = NoFile) /\ clean'.restored = clean.restored
    BY <2>1, TypedParts
  <2>4. at'.s = "restore"
    BY <2>1 DEF GoTo, StepOf
  <2>5. GoTo(lv, "restore", i) /\ "restore" \in Busy /\ at'.s \in Busy /\ at'.s # "restored"
    BY <2>1, <2>4 DEF Busy
  <2>6. lv = "outer" /\ ~ verified /\ orig["outer"][i] # NoFile =>
          Safe(i)' \/ dist'[i] = orig["outer"][i]
    BY <1>3, <1>4, <2>1, EarlierOne DEF Safe, world
  <2>7. (clean'.removed => dist'[i] # Own(i)) /\ (i \notin handled["outer"] => dist'[i] # Own(i))
    BY <1>2, <1>3, <1>8, <2>1, <2>3
  <2>20. RollChanges(lv, i)
    BY <1>1, <1>3, <1>4, <1>6, <1>7, <2>1, <2>2, <2>3, <2>5, <2>6, <2>7, TypedParts DEF RollChanges
  <2>21. RollSays(lv, i)
    BY <1>1, <1>3, <1>4, <1>6, <1>7, <2>1, <2>2, <2>3, <2>5, <2>6, <2>7, TypedParts DEF RollSays
  <2>22. AfterOutput(lv, i) \/ \E t \in Busy : GoTo(lv, t, i)
    BY <1>1, <1>3, <1>4, <1>6, <1>7, <2>1, <2>2, <2>3, <2>5, <2>6, <2>7, TypedParts
  <2> QED
    BY <1>1, <2>2, <2>20, <2>21, <2>22, RollsOn
<1> QED
  BY <1>9, <1>10, <1>11

LEMMA DisposeStep ==
  ASSUME EvidenceInv, NEW lv \in Levels, NEW i \in Covers(lv), Dispose(lv, i) PROVE EvidenceInv'
<1>1. At(lv, "dispose", i) /\ "dispose" \in Rollback \ {"end"}
  BY DEF Dispose, Rollback
<1>2. /\ outcome = "running" /\ at.lv = lv /\ at.s = "dispose" /\ at.i = i /\ RollingBack
      /\ \A j \in Outputs : j \notin handled["outer"] => dist[j] # Own(j) /\ orig["outer"][j] = NoFile
  BY <1>1, Rolling
<1>3. i \in Outputs /\ lv \in {"outer", "inner"}
  BY Covered
<1>4. /\ UNCHANGED <<prev, stage, orig, mine, handled, build, outcome, world, strays, lost, verified>>
      /\ GoTo(lv, "restore", i)
  BY DEF Dispose, past
<1>5. /\ dist[i] \in MaybeFile /\ Old(dist[i]) /\ Old(prev[lv][i]) /\ Old(quar[lv][i])
      /\ quar[lv][i] \in MaybeFile
  BY <1>3, FileThere
<1>6. prev' \in [Levels -> [Outputs -> MaybeFile]]
  BY <1>4, TypedParts
<1>7. Old(NoFile) /\ Own(i) # NoFile
  BY <1>3, <1>4, OldKept
<1>8. at'.s = "restore"
  BY <1>4 DEF GoTo, StepOf
<1>9. "restore" \in Busy /\ at'.s \in Busy /\ at'.s # "restored"
  BY <1>8 DEF Busy
<1>10. CASE quar[lv][i] = Own(i)
  <2>1. /\ quar' = [quar EXCEPT ![lv][i] = NoFile]
        /\ clean' = [clean EXCEPT !.removed = @ /\ dist[i] = NoFile]
        /\ UNCHANGED dist
    BY <1>10 DEF Dispose
  <2>2. /\ quar' \in [Levels -> [Outputs -> MaybeFile]] /\ quar'[lv][i] = NoFile
        /\ \A l \in Levels, j \in Outputs : l # lv \/ j # i => quar'[l][j] = quar[l][j]
    BY <1>3, <2>1, Files, TypedParts
  <2>3. /\ clean' \in [removed : BOOLEAN, restored : BOOLEAN]
        /\ (clean'.removed => clean.removed /\ dist[i] = NoFile) /\ clean'.restored = clean.restored
    BY <2>1, TypedParts
  <2>4. Accounted'
    <3>1. ASSUME NEW g, NEW j \in Outputs, g = dist[j] PROVE Found(g)'
      BY <2>1, <3>1 DEF Found
    <3>2. ASSUME NEW g, g.by # "build", NEW l \in Levels, NEW j \in Outputs, g = prev[l][j] \/ g = quar[l][j]
          PROVE  Found(g)'
      <4>1. g # Own(i)
        BY <3>2 DEF Own
      <4>2. g = prev'[l][j] \/ g = quar'[l][j]
        BY <1>4, <1>10, <2>2, <3>2, <4>1
      <4> QED
        BY <3>2, <4>2 DEF Found
    <3> QED
      BY <1>4, <3>1, <3>2, StillFound DEF EvidenceInv, world
  <2>5. lv = "outer" /\ ~ verified /\ orig["outer"][i] # NoFile =>
          Safe(i)' \/ dist'[i] = orig["outer"][i]
    BY <1>3, <1>4, <2>1, EarlierOne DEF Safe, world
  <2>6. (clean'.removed => dist'[i] # Own(i)) /\ (i \notin handled["outer"] => dist'[i] # Own(i))
    BY <1>2, <1>3, <1>7, <2>1, <2>3
  <2>7. Old(dist'[i]) /\ Old(quar'[lv][i]) /\ Old(prev'[lv][i])
    BY <1>4, <1>5, <1>7, <2>1, <2>2
  <2>20. RollChanges(lv, i)
    BY <1>1, <1>3, <1>4, <1>6, <1>9, <2>1, <2>2, <2>3, <2>4, <2>5, <2>6, <2>7, TypedParts
       DEF RollChanges
  <2>21. RollSays(lv, i)
    BY <1>1, <1>3, <1>4, <1>6, <1>9, <2>1, <2>2, <2>3, <2>4, <2>5, <2>6, <2>7, TypedParts
       DEF RollSays
  <2>22. AfterOutput(lv, i) \/ \E t \in Busy : GoTo(lv, t, i)
    BY <1>1, <1>3, <1>4, <1>6, <1>9, <2>1, <2>2, <2>3, <2>4, <2>5, <2>6, <2>7, TypedParts
  <2> QED
    BY <1>1, <2>4, <2>20, <2>21, <2>22, RollsOn
<1>11. CASE quar[lv][i] # Own(i)
  <2>1. /\ dist' = IF dist[i] = NoFile /\ IsRegular(quar[lv][i])
                   THEN [dist EXCEPT ![i] = quar[lv][i]] ELSE dist
        /\ clean' = [clean EXCEPT !.removed = FALSE]
        /\ UNCHANGED quar
    BY <1>11 DEF Dispose
  <2>2. /\ dist' \in [Outputs -> MaybeFile]
        /\ \A j \in Outputs \ {i} : dist'[j] = dist[j]
        /\ dist'[i] = dist[i] \/ (dist[i] = NoFile /\ dist'[i] = quar[lv][i])
    BY <1>3, <1>5, <2>1, TypedParts
  <2>3. /\ clean' \in [removed : BOOLEAN, restored : BOOLEAN]
        /\ ~ clean'.removed /\ clean'.restored = clean.restored
    BY <2>1, TypedParts
  <2>4. Accounted'
    <3>1. ASSUME NEW g, g # NoFile, NEW j \in Outputs, g = dist[j] PROVE Found(g)'
      <4>1. g = dist'[j]
        BY <2>2, <3>1
      <4> QED
        BY <4>1 DEF Found
    <3>2. ASSUME NEW g, NEW l \in Levels, NEW j \in Outputs, g = prev[l][j] \/ g = quar[l][j]
          PROVE  Found(g)'
      BY <1>4, <2>1, <3>2 DEF Found
    <3> QED
      BY <1>4, <3>1, <3>2, StillFound DEF EvidenceInv, world
  <2>5. lv = "outer" /\ ~ verified /\ orig["outer"][i] # NoFile =>
          Safe(i)' \/ dist'[i] = orig["outer"][i]
    BY <1>3, <1>4, <2>2, EarlierOne DEF Safe, world
  <2>6. i \notin handled["outer"] => dist'[i] # Own(i)
    BY <1>2, <1>3, <1>11, <2>2
  <2>7. Old(dist'[i]) /\ Old(quar'[lv][i]) /\ Old(prev'[lv][i])
    BY <1>4, <1>5, <2>1, <2>2
  <2>20. RollChanges(lv, i)
    BY <1>1, <1>3, <1>4, <1>6, <1>9, <2>1, <2>2, <2>3, <2>4, <2>5, <2>6, <2>7, TypedParts
       DEF RollChanges
  <2>21. RollSays(lv, i)
    BY <1>1, <1>3, <1>4, <1>6, <1>9, <2>1, <2>2, <2>3, <2>4, <2>5, <2>6, <2>7, TypedParts
       DEF RollSays
  <2>22. AfterOutput(lv, i) \/ \E t \in Busy : GoTo(lv, t, i)
    BY <1>1, <1>3, <1>4, <1>6, <1>9, <2>1, <2>2, <2>3, <2>4, <2>5, <2>6, <2>7, TypedParts
  <2> QED
    BY <1>1, <2>4, <2>20, <2>21, <2>22, RollsOn
<1> QED
  BY <1>10, <1>11

LEMMA RestoreStep ==
  ASSUME EvidenceInv, NEW lv \in Levels, NEW i \in Covers(lv), Restore(lv, i) PROVE EvidenceInv'
<1>1. At(lv, "restore", i) /\ "restore" \in Rollback \ {"end"}
  BY DEF Restore, Rollback
<1>2. /\ outcome = "running" /\ at.lv = lv /\ at.s = "restore" /\ at.i = i /\ RollingBack
      /\ \A l, steps : In(l, steps) <=> l = lv /\ "restore" \in steps
      /\ \A j \in Outputs : j \notin handled["outer"] => dist[j] # Own(j) /\ orig["outer"][j] = NoFile
  BY <1>1, Rolling
<1>3. i \in Outputs /\ lv \in {"outer", "inner"}
  BY Covered
<1>4. UNCHANGED <<prev, quar, stage, orig, mine, handled, build, outcome, world, strays, lost, verified>>
  BY DEF Restore, past, tx
<1>5. /\ dist[i] \in MaybeFile /\ Old(dist[i]) /\ Old(prev[lv][i]) /\ Old(quar[lv][i])
      /\ prev[lv][i] \in MaybeFile /\ orig[lv][i] # Own(i)
  BY <1>3, FileThere
<1>6. /\ prev' \in [Levels -> [Outputs -> MaybeFile]] /\ quar' \in [Levels -> [Outputs -> MaybeFile]]
      /\ \A l \in Levels, j \in Outputs : l # lv \/ j # i =>
           prev'[l][j] = prev[l][j] /\ quar'[l][j] = quar[l][j]
      /\ Old(prev'[lv][i]) /\ Old(quar'[lv][i])
  BY <1>4, <1>5, TypedParts
<1>7. lv = "outer" /\ clean.removed => dist[i] # Own(i)
  BY <1>2 DEF EvidenceInv, Undone
<1>8. AfterOutput(lv, i) => at'.s \notin Busy /\ at'.s # "restored" /\ at'.s # "dispose"
  BY <1>3 DEF AfterOutput, GoTo, StepOf, Busy
<1>9. CASE orig[lv][i] = NoFile
  <2>1. AfterOutput(lv, i) /\ UNCHANGED <<dist, clean>>
    BY <1>9 DEF Restore
  <2>2. Accounted'
    BY <1>4, <2>1, QuietlyFound DEF EvidenceInv, world
  <2>3. /\ clean' \in [removed : BOOLEAN, restored : BOOLEAN]
        /\ dist' \in [Outputs -> MaybeFile] /\ \A j \in Outputs \ {i} : dist'[j] = dist[j]
        /\ Old(dist'[i]) /\ (i \notin handled["outer"] => dist'[i] # Own(i))
        /\ (lv = "outer" /\ clean'.removed => dist'[i] # Own(i))
    BY <1>2, <1>3, <1>5, <1>7, <2>1, TypedParts
  <2>20. RollChanges(lv, i)
    BY <1>1, <1>4, <1>6, <1>8, <1>9, <2>1, <2>2, <2>3 DEF RollChanges
  <2>21. RollSays(lv, i)
    BY <1>1, <1>4, <1>6, <1>8, <1>9, <2>1, <2>2, <2>3 DEF RollSays
  <2>22. AfterOutput(lv, i) \/ \E t \in Busy : GoTo(lv, t, i)
    BY <1>1, <1>4, <1>6, <1>8, <1>9, <2>1, <2>2, <2>3
  <2> QED
    BY <1>1, <2>2, <2>20, <2>21, <2>22, RollsOn
<1>10. CASE orig[lv][i] # NoFile /\ dist[i] = NoFile /\ prev[lv][i] = orig[lv][i]
  <2>1. /\ dist' = [dist EXCEPT ![i] = prev[lv][i]]
        /\ GoTo(lv, "restored", i) /\ UNCHANGED clean
    BY <1>10 DEF Restore
  <2>2. /\ dist' \in [Outputs -> MaybeFile] /\ dist'[i] = orig[lv][i]
        /\ \A j \in Outputs \ {i} : dist'[j] = dist[j]
    BY <1>3, <1>5, <1>10, <2>1, TypedParts
  <2>3. Accounted'
    <3>1. ASSUME NEW g, g # NoFile, NEW j \in Outputs, g = dist[j] PROVE Found(g)'
      <4>1. g = dist'[j]
        BY <1>10, <2>2, <3>1
      <4> QED
        BY <4>1 DEF Found
    <3>2. ASSUME NEW g, NEW l \in Levels, NEW j \in Outputs, g = prev[l][j] \/ g = quar[l][j]
          PROVE  Found(g)'
      BY <1>4, <3>2 DEF Found
    <3> QED
      BY <1>4, <3>1, <3>2, StillFound DEF EvidenceInv, world
  <2>4. at'.s = "restored"
    BY <2>1 DEF GoTo, StepOf
  <2>5. /\ "restored" \in Busy /\ at'.s \in Busy
        /\ AfterOutput(lv, i) \/ \E t \in Busy : GoTo(lv, t, i)
    BY <2>1, <2>4 DEF Busy
  <2>6. /\ clean' \in [removed : BOOLEAN, restored : BOOLEAN]
        /\ Old(dist'[i]) /\ dist'[i] # Own(i) /\ prev'[lv][i] = orig[lv][i]
        /\ clean'.removed = clean.removed /\ clean'.restored = clean.restored
    BY <1>4, <1>5, <1>10, <2>1, <2>2, TypedParts
  <2>20. RollChanges(lv, i)
    BY <1>1, <1>4, <1>6, <2>2, <2>3, <2>5, <2>6 DEF RollChanges
  <2>21. RollSays(lv, i)
    BY <1>1, <1>4, <1>6, <2>2, <2>3, <2>5, <2>6 DEF RollSays
  <2>22. AfterOutput(lv, i) \/ \E t \in Busy : GoTo(lv, t, i)
    BY <1>1, <1>4, <1>6, <2>2, <2>3, <2>5, <2>6
  <2> QED
    BY <1>1, <2>3, <2>20, <2>21, <2>22, RollsOn
<1>11. CASE orig[lv][i] # NoFile /\ ~ (dist[i] = NoFile /\ prev[lv][i] = orig[lv][i])
  <2>1. /\ clean' = [clean EXCEPT !.restored = FALSE]
        /\ AfterOutput(lv, i) /\ UNCHANGED dist
    BY <1>11 DEF Restore
  <2>2. Accounted'
    BY <1>4, <2>1, QuietlyFound DEF EvidenceInv, world
  <2>3. /\ clean' \in [removed : BOOLEAN, restored : BOOLEAN]
        /\ clean'.removed = clean.removed /\ ~ clean'.restored
    BY <2>1, TypedParts
  <2>4. /\ dist' \in [Outputs -> MaybeFile] /\ \A j \in Outputs \ {i} : dist'[j] = dist[j]
        /\ Old(dist'[i]) /\ (i \notin handled["outer"] => dist'[i] # Own(i))
        /\ (lv = "outer" /\ clean'.removed => dist'[i] # Own(i))
    BY <1>2, <1>3, <1>5, <1>7, <2>1, <2>3, TypedParts
  <2>5. lv = "outer" /\ ~ verified /\ orig["outer"][i] # NoFile =>
          Safe(i)' \/ dist'[i] = orig["outer"][i]
    BY <1>3, <1>4, <2>1, EarlierOne DEF Safe, world
  <2>20. RollChanges(lv, i)
    BY <1>1, <1>4, <1>6, <1>8, <2>1, <2>2, <2>3, <2>4, <2>5 DEF RollChanges
  <2>21. RollSays(lv, i)
    BY <1>1, <1>4, <1>6, <1>8, <2>1, <2>2, <2>3, <2>4, <2>5 DEF RollSays
  <2>22. AfterOutput(lv, i) \/ \E t \in Busy : GoTo(lv, t, i)
    BY <1>1, <1>4, <1>6, <1>8, <2>1, <2>2, <2>3, <2>4, <2>5
  <2> QED
    BY <1>1, <2>2, <2>20, <2>21, <2>22, RollsOn
<1> QED
  BY <1>9, <1>10, <1>11

LEMMA RestoredStep ==
  ASSUME EvidenceInv, NEW lv \in Levels, NEW i \in Covers(lv), Restored(lv, i) PROVE EvidenceInv'
<1>1. At(lv, "restored", i) /\ "restored" \in Rollback \ {"end"}
  BY DEF Restored, Rollback
<1>2. /\ outcome = "running" /\ at.lv = lv /\ at.s = "restored" /\ at.i = i /\ RollingBack
      /\ \A l, steps : In(l, steps) <=> l = lv /\ "restored" \in steps
      /\ \A j \in Outputs : j \notin handled["outer"] => dist[j] # Own(j) /\ orig["outer"][j] = NoFile
  BY <1>1, Rolling
<1>3. i \in Outputs /\ lv \in {"outer", "inner"}
  BY Covered
<1>4. /\ UNCHANGED <<dist, quar, stage, orig, mine, handled, build, outcome, world, strays, lost, verified>>
      /\ AfterOutput(lv, i)
  BY DEF Restored, past
<1>5. /\ Old(dist[i]) /\ Old(prev[lv][i]) /\ Old(quar[lv][i]) /\ Old(NoFile)
  BY <1>3, <1>4, FileThere, OldKept
<1>6. prev[lv][i] = orig[lv][i]
  BY <1>2 DEF EvidenceInv, Backups
<1>7. /\ dist' \in [Outputs -> MaybeFile] /\ \A j \in Outputs \ {i} : dist'[j] = dist[j]
      /\ quar' \in [Levels -> [Outputs -> MaybeFile]] /\ Old(dist'[i]) /\ Old(quar'[lv][i])
      /\ (i \notin handled["outer"] => dist'[i] # Own(i))
  BY <1>2, <1>3, <1>4, <1>5, TypedParts
<1>8. lv = "outer" /\ clean.removed => dist[i] # Own(i)
  BY <1>2 DEF EvidenceInv, Undone
<1>9. at'.s \notin Busy /\ at'.s # "restored" /\ at'.s # "dispose"
  BY <1>3, <1>4 DEF AfterOutput, GoTo, StepOf, Busy
<1>10. CASE dist[i] = orig[lv][i]
  <2>1. prev' = [prev EXCEPT ![lv][i] = NoFile] /\ UNCHANGED clean
    BY <1>10 DEF Restored
  <2>2. /\ prev' \in [Levels -> [Outputs -> MaybeFile]] /\ prev'[lv][i] = NoFile
        /\ \A l \in Levels, j \in Outputs : l # lv \/ j # i => prev'[l][j] = prev[l][j]
    BY <1>3, <2>1, Files, TypedParts
  <2>3. /\ clean' \in [removed : BOOLEAN, restored : BOOLEAN]
        /\ clean'.removed = clean.removed /\ clean'.restored = clean.restored
        /\ Old(prev'[lv][i])
    BY <1>5, <2>1, <2>2, TypedParts
  <2>4. Accounted'
    <3>1. ASSUME NEW g, NEW j \in Outputs, g = dist[j] PROVE Found(g)'
      BY <1>4, <3>1 DEF Found
    <3>2. ASSUME NEW g, NEW l \in Levels, NEW j \in Outputs, g = prev[l][j] \/ g = quar[l][j]
          PROVE  Found(g)'
      <4>1. CASE g = prev[l][j] /\ l = lv /\ j = i
        BY <1>3, <1>6, <1>10, <3>1, <4>1
      <4>2. CASE ~ (g = prev[l][j] /\ l = lv /\ j = i)
        <5>1. g = prev'[l][j] \/ g = quar'[l][j]
          BY <1>4, <2>2, <3>2, <4>2
        <5> QED
          BY <5>1 DEF Found
      <4> QED
        BY <4>1, <4>2
    <3> QED
      BY <1>4, <3>1, <3>2, StillFound DEF EvidenceInv, world
  <2>5. \A l \in Levels, j \in Outputs : l # lv \/ j # i =>
          prev'[l][j] = prev[l][j] /\ quar'[l][j] = quar[l][j]
    BY <1>4, <2>2
  <2>6. lv = "outer" => dist'[i] = orig["outer"][i]
    BY <1>4, <1>10
  <2>7. lv = "outer" /\ clean'.removed => dist'[i] # Own(i)
    BY <1>4, <1>8, <2>3
  <2>20. RollChanges(lv, i)
    BY <1>1, <1>4, <1>7, <1>9, <2>2, <2>3, <2>4, <2>5, <2>6, <2>7 DEF RollChanges
  <2>21. RollSays(lv, i)
    BY <1>1, <1>4, <1>7, <1>9, <2>2, <2>3, <2>4, <2>5, <2>6, <2>7 DEF RollSays
  <2>22. AfterOutput(lv, i) \/ \E t \in Busy : GoTo(lv, t, i)
    BY <1>1, <1>4, <1>7, <1>9, <2>2, <2>3, <2>4, <2>5, <2>6, <2>7
  <2> QED
    BY <1>1, <2>4, <2>20, <2>21, <2>22, RollsOn
<1>11. CASE dist[i] # orig[lv][i]
  <2>1. clean' = [clean EXCEPT !.restored = FALSE] /\ UNCHANGED prev
    BY <1>11 DEF Restored
  <2>2. Accounted'
    BY <1>4, <2>1, QuietlyFound DEF EvidenceInv, world
  <2>3. /\ clean' \in [removed : BOOLEAN, restored : BOOLEAN]
        /\ clean'.removed = clean.removed /\ ~ clean'.restored
        /\ prev' \in [Levels -> [Outputs -> MaybeFile]] /\ Old(prev'[lv][i])
    BY <1>5, <2>1, TypedParts
  <2>4. \A l \in Levels, j \in Outputs : l # lv \/ j # i =>
          prev'[l][j] = prev[l][j] /\ quar'[l][j] = quar[l][j]
    BY <1>4, <2>1
  <2>5. lv = "outer" /\ ~ verified /\ orig["outer"][i] # NoFile =>
          Safe(i)' \/ dist'[i] = orig["outer"][i]
    BY <1>3, <1>4, <2>1, EarlierOne DEF Safe, world
  <2>6. lv = "outer" /\ clean'.removed => dist'[i] # Own(i)
    BY <1>4, <1>8, <2>3
  <2>20. RollChanges(lv, i)
    BY <1>1, <1>4, <1>7, <1>9, <2>2, <2>3, <2>4, <2>5, <2>6 DEF RollChanges
  <2>21. RollSays(lv, i)
    BY <1>1, <1>4, <1>7, <1>9, <2>2, <2>3, <2>4, <2>5, <2>6 DEF RollSays
  <2>22. AfterOutput(lv, i) \/ \E t \in Busy : GoTo(lv, t, i)
    BY <1>1, <1>4, <1>7, <1>9, <2>2, <2>3, <2>4, <2>5, <2>6
  <2> QED
    BY <1>1, <2>2, <2>20, <2>21, <2>22, RollsOn
<1> QED
  BY <1>10, <1>11

LEMMA EndInnerStep == ASSUME EvidenceInv, EndInner PROVE EvidenceInv'
<1>1. At("inner", "end", 2) /\ "end" \in Rollback /\ "inner" \in Levels /\ "outer" \in Levels
  BY DEF EndInner, Rollback, Levels
<1>2. /\ outcome = "running" /\ at.lv = "inner" /\ at.s = "end" /\ RollingBack
      /\ ~ verified /\ handled["outer"] = Outputs
  BY <1>1, Rolling
<1>3. /\ UNCHANGED <<dist, prev, quar, orig, mine, handled, build, outcome, world, strays, lost, verified>>
      /\ stage' = [stage EXCEPT !["inner"] = Empty]
      /\ clean' = [removed |-> TRUE, restored |-> TRUE] /\ FailFrom("outer")
  BY DEF EndInner, past
<1>4. at' \in [lv : Levels, s : Steps, i : Outputs]
  BY <1>1, <1>3, FailTypes
<1>5. Empty \in [Outputs -> MaybeFile]
  BY Files DEF Empty
<1>6. stage' \in [Levels -> [Outputs -> MaybeFile]]
  BY <1>3, <1>5 DEF EvidenceInv, Typed, EvidenceTypeOK
<1>7. Typed'
  BY <1>3, <1>4, <1>6 DEF EvidenceInv, Typed, EvidenceTypeOK, world
<1>8. Accounted'
  BY <1>3, QuietlyFound DEF EvidenceInv, world
<1>9. \A j \in Outputs : Safe(j)' <=> Safe(j)
  BY <1>3 DEF Safe, world
<1>10. \A j \in Outputs : orig["outer"][j] # NoFile => Safe(j)
  <2>1. \A j \in Outputs : Past(j)
    BY <1>2 DEF Past
  <2> QED
    BY <1>2, <2>1 DEF EvidenceInv, Earlier
<1>11. \A j \in Outputs : quar["outer"][j] = NoFile
  <2>1. \A j \in Outputs : Pending("outer", j)
    BY <1>2 DEF Pending
  <2> QED
    BY <1>1, <2>1 DEF EvidenceInv, Backups
<1>12. \A l \in Levels, j \in Outputs : stage'[l][j] \in {NoFile, Own(j)}
  BY <1>3, StageKept DEF EvidenceInv, Typed, EvidenceTypeOK, Empty
<1>13. /\ \A j \in Outputs : Own(j)' = Own(j)
       /\ \A f : Old(f)' <=> Old(f)
  BY <1>3, OldKept
<1>14. /\ \A j \in Outputs : Old(dist[j])
       /\ \A l \in Levels, j \in Outputs : Old(prev[l][j]) /\ Old(quar[l][j]) /\ Old(orig[l][j]) /\ orig[l][j] # Own(j)
  BY DEF EvidenceInv, Dated
<1>15. Ready("outer")'
  BY <1>2, <1>3, <1>7, <1>8, <1>9, <1>10, <1>11, <1>12, <1>13, <1>14 DEF Ready
<1> QED
  BY <1>1, <1>2, <1>3, <1>15, Falls

LEMMA StandsStill ==
  ASSUME at' = at
  PROVE  /\ RollingBack' <=> RollingBack
         /\ \A l, steps : In(l, steps)' <=> In(l, steps)
         /\ \A j : (Unlinked(j)' <=> Unlinked(j)) /\ (Done(j)' <=> Done(j))
         /\ \A l, j : (Unmoved(l, j)' <=> Unmoved(l, j)) /\ (Pending(l, j)' <=> Pending(l, j))
<1>1. /\ RollingBack' <=> RollingBack
      /\ \A l, steps : In(l, steps)' <=> In(l, steps)
  BY DEF RollingBack, In
<1>2. \A j : (Unlinked(j)' <=> Unlinked(j)) /\ (Done(j)' <=> Done(j))
  BY <1>1 DEF Unlinked, Done
<1>3. \A l, j : Unmoved(l, j)' <=> Unmoved(l, j)
  BY <1>1 DEF Unmoved
<1>4. \A l, j : Pending(l, j)' <=> Pending(l, j)
  BY <1>1 DEF Pending
<1> QED
  BY <1>1, <1>2, <1>3, <1>4

\* Steps that leave the build where it is: what the places imply stays.
LEMMA StandsInv ==
  ASSUME EvidenceInv, at' = at, UNCHANGED <<prev, quar, stage, orig, mine, handled, build, verified>>,
         outcome' = outcome \/ outcome' # "running"
  PROVE  Placed' /\ Claims' /\ Looked' /\ Backups'
<1>1. Placed'
  BY StandsStill DEF EvidenceInv, Placed
<1>2. Claims' /\ Looked'
  BY StandsStill DEF EvidenceInv, Claims, Looked
<1>3. Backups'
  BY StandsStill DEF EvidenceInv, Backups, Own
<1> QED
  BY <1>1, <1>2, <1>3

\* Only the outcome changes, which no other part speaks of.
LEMMA OutcomeOnly ==
  ASSUME EvidenceInv, outcome' \in {"committed", "rolled back", "incomplete", "crashed"},
         UNCHANGED <<dist, tx, clean, at, build, world, past>>, CompleteMeansUndone'
  PROVE  EvidenceInv'
<1>1. UNCHANGED <<dist, prev, quar, stage, orig, mine, handled, clean, at, build, others, taken, strays, lost, verified>>
  BY DEF tx, world, past
<1>2. Typed'
  BY <1>1 DEF EvidenceInv, Typed, EvidenceTypeOK
<1>3. Placed' /\ Claims' /\ Looked' /\ Backups'
  BY <1>1, StandsInv
<1>5. Dated'
  BY <1>1, StandsStill DEF EvidenceInv, Dated, Old, Own
<1>6. Earlier'
  <2>1. \A j : (Past(j)' <=> Past(j)) /\ (Safe(j)' <=> Safe(j))
    BY <1>1, StandsStill DEF Past, Safe
  <2> QED
    BY <1>1, <2>1 DEF EvidenceInv, Earlier
<1>7. Undone'
  BY <1>1, StandsStill DEF EvidenceInv, Undone, Own
<1>8. Accounted'
  BY <1>1, QuietlyFound DEF EvidenceInv
<1> QED
  BY <1>2, <1>3, <1>5, <1>6, <1>7, <1>8 DEF EvidenceInv

LEMMA EndStep == ASSUME EvidenceInv, EndOuter PROVE EvidenceInv'
<1>1. /\ outcome' = (IF clean.removed /\ clean.restored /\ Held("outer") = {}
                     THEN "rolled back" ELSE "incomplete")
      /\ UNCHANGED <<dist, tx, clean, at, build, world, past>> /\ At("outer", "end", 3)
  BY DEF EndOuter
<1>2. \A j \in Outputs : Done(j)
  BY <1>1, Standing DEF Done, In
<1>3. CompleteMeansUndone'
  <2>1. SUFFICES ASSUME clean.removed, clean.restored, Held("outer") = {}
                 PROVE  CompleteMeansUndone'
    BY <1>1 DEF CompleteMeansUndone
  <2>2. /\ \A j \in Outputs : dist[j] # Own(j)
        /\ \A j \in Outputs : orig["outer"][j] # NoFile =>
             dist[j] = orig["outer"][j] \/ orig["outer"][j] \in taken
    BY <1>2, <2>1 DEF EvidenceInv, Undone
  <2>3. UNCHANGED <<dist, prev, quar, stage, orig, build, taken>>
    BY <1>1 DEF tx, world
  <2>4. Held("outer")' = {}
    BY <2>1, <2>3 DEF Held, FilesOf
  <2> QED
    BY <2>2, <2>3, <2>4 DEF CompleteMeansUndone, Own
<1> QED
  BY <1>1, <1>3, OutcomeOnly

LEMMA CommittedStep == ASSUME EvidenceInv, CommitClose PROVE EvidenceInv'
BY OutcomeOnly DEF CommitClose, CompleteMeansUndone

LEMMA CrashStep == ASSUME EvidenceInv, BuildCrashes PROVE EvidenceInv'
BY OutcomeOnly DEF BuildCrashes, CompleteMeansUndone

LEMMA InterruptStep == ASSUME EvidenceInv, BuildInterrupted PROVE EvidenceInv'
<1>1. /\ outcome = "running" /\ ~ RollingBack
      /\ UNCHANGED <<dist, tx, clean, build, outcome, world, past>>
      /\ FailFrom(IF at.lv = "inner" /\ at.s # "discard" THEN "inner" ELSE "outer")
  BY DEF BuildInterrupted
<1>2. UNCHANGED <<dist, prev, quar, stage, orig, mine, handled, clean, build, world, strays, lost, verified>>
      /\ outcome' = "running"
  BY <1>1 DEF tx, past
<1>3. at.s # "start"
  BY <1>1 DEF EvidenceInv, Placed
<1>4. stage' \in [Levels -> [Outputs -> MaybeFile]]
      /\ \A l \in Levels, j \in Outputs : stage'[l][j] \in {NoFile, Own(j)}
  BY <1>2, StageKept DEF EvidenceInv, Typed, EvidenceTypeOK
<1>5. CASE at.lv = "inner" /\ at.s # "discard"
  BY <1>1, <1>2, <1>3, <1>4, <1>5, FailsQuietly DEF Levels
<1>6. CASE ~ (at.lv = "inner" /\ at.s # "discard")
  BY <1>1, <1>2, <1>3, <1>4, <1>6, FailsQuietly DEF Levels
<1> QED
  BY <1>5, <1>6

LEMMA WriteStep == ASSUME EvidenceInv, NEW i \in Outputs, SomebodyWrites(i) PROVE EvidenceInv'
<1>1. PICK kind \in {"other", "link"} :
        LET f == [by |-> kind, n |-> Cardinality(others) + 1, out |-> 0]
        IN  dist' = [dist EXCEPT ![i] = f] /\ others' = others \cup {f}
  BY DEF SomebodyWrites
<1> DEFINE f == [by |-> kind, n |-> Cardinality(others) + 1, out |-> 0]
<1>2. /\ UNCHANGED <<prev, quar, stage, orig, mine, handled, clean, at, build, outcome, strays, lost, verified>>
      /\ taken' = taken \cup ({dist[i]} \ {NoFile}) /\ Cardinality(others) < Meddlings
      /\ dist' = [dist EXCEPT ![i] = f] /\ others' = others \cup {f}
  BY <1>1 DEF SomebodyWrites, Replaced, tx, past
<1>3. IsFiniteSet(others) /\ others \subseteq OutputFile /\ Meddlings \in Nat
  BY EvidenceAssumption DEF EvidenceInv, Typed, EvidenceTypeOK
<1>4. Cardinality(others) \in Nat
  BY <1>3, FS_CardinalityType
<1>5. Cardinality(others) + 1 \in 1..Meddlings
  BY <1>2, <1>3, <1>4
<1>6. f \in OutputFile /\ f.by # "build"
  BY <1>5 DEF OutputFile
<1>7. IsFiniteSet(others \cup {f})
  BY <1>3, FS_AddElement
<1> HIDE DEF f
<1>8. f \in MaybeFile /\ f # NoFile /\ dist[i] \in MaybeFile
  <2>1. "outer" \in Levels
    BY DEF Levels
  <2> QED
    BY <1>6, <2>1, Files, FileThere
<1>9. /\ dist' \in [Outputs -> MaybeFile] /\ dist'[i] = f
      /\ \A j \in Outputs \ {i} : dist'[j] = dist[j]
  BY <1>2, <1>8, TypedParts
<1>10. taken \subseteq taken' /\ taken' \subseteq OutputFile /\ (dist[i] # NoFile => dist[i] \in taken')
  BY <1>2, <1>8 DEF MaybeFile, EvidenceInv, Typed, EvidenceTypeOK
<1>11. Typed'
  BY <1>2, <1>3, <1>6, <1>7, <1>9, <1>10 DEF EvidenceInv, Typed, EvidenceTypeOK
<1>12. Placed' /\ Claims' /\ Looked' /\ Backups'
  BY <1>2, StandsInv
<1>14. /\ \A j \in Outputs : Own(j)' = Own(j) /\ f # Own(j)
       /\ \A g : Old(g)' <=> Old(g)
       /\ Old(f)
  BY <1>2, <1>6 DEF Own, Old
<1>15. Dated'
  <2>1. \A j \in Outputs : Old(dist'[j]) /\ (dist[j] # Own(j) => dist'[j] # Own(j))
    BY <1>9, <1>14 DEF EvidenceInv, Dated
  <2>2. \A j \in Outputs : Unlinked(j)' <=> Unlinked(j)
    BY <1>2, StandsStill
  <2> QED
    BY <1>2, <1>14, <2>1, <2>2 DEF EvidenceInv, Dated
<1>16. Earlier'
  <2>1. SUFFICES ASSUME NEW j \in Outputs, ~ verified, orig["outer"][j] # NoFile
                 PROVE  /\ Safe(j)' \/ dist'[j] = orig["outer"][j]
                        /\ Past(j)' => Safe(j)'
    BY <1>2 DEF Earlier
  <2>2. (Safe(j) \/ dist[j] = orig["outer"][j]) /\ (Past(j) => Safe(j))
    BY <2>1, EarlierOne
  <2>3. (Past(j)' <=> Past(j)) /\ (Safe(j) => Safe(j)')
    BY <1>2, <1>10, StandsStill DEF Past, Safe
  <2>4. dist[j] = orig["outer"][j] => Safe(j)' \/ dist'[j] = orig["outer"][j]
    BY <1>2, <1>9, <1>10, <2>1 DEF Safe
  <2> QED
    BY <2>2, <2>3, <2>4
<1>17. \A j \in Outputs : (dist[j] # Own(j) => dist'[j] # Own(j)') /\
         (orig["outer"][j] # NoFile /\ (dist[j] = orig["outer"][j] \/ orig["outer"][j] \in taken) =>
            dist'[j] = orig["outer"][j] \/ orig["outer"][j] \in taken')
  BY <1>9, <1>10, <1>14
<1>18. Undone'
  <2>1. ASSUME In("outer", {"restore", "restored"})', clean'.removed PROVE (dist[at.i] # Own(at.i))'
    <3>1. In("outer", {"restore", "restored"}) /\ clean.removed /\ at.i \in Outputs
      BY <1>2, <2>1 DEF In, EvidenceInv, Typed, EvidenceTypeOK
    <3>2. dist[at.i] # Own(at.i)
      BY <3>1 DEF EvidenceInv, Undone
    <3> QED
      BY <1>2, <1>17, <3>1, <3>2 DEF Own
  <2>2. \A j \in Outputs : Done(j)' <=> Done(j)
    BY <1>2, StandsStill
  <2>3. ASSUME NEW j \in Outputs, Done(j)'
        PROVE  /\ clean'.removed => dist'[j] # Own(j)'
               /\ clean'.restored /\ orig'["outer"][j] # NoFile =>
                    dist'[j] = orig'["outer"][j] \/ orig'["outer"][j] \in taken'
    BY <1>2, <1>17, <2>2, <2>3 DEF EvidenceInv, Undone
  <2> QED
    BY <2>1, <2>3 DEF Undone
<1>19. CompleteMeansUndone'
  <2>1. Held("outer")' = Held("outer")
    BY <1>2 DEF Held, FilesOf
  <2> QED
    BY <1>2, <1>17, <2>1 DEF EvidenceInv, CompleteMeansUndone
<1>20. Accounted'
  <2>1. SUFFICES ASSUME NEW g \in others' PROVE g.by # "build" /\ Found(g)'
    BY DEF Accounted
  <2>2. CASE g = f
    BY <1>6, <1>9, <2>2 DEF Found
  <2>3. CASE g # f
    <3>1. g \in others
      BY <1>2, <2>3
    <3>2. g # NoFile /\ g.by # "build" /\ Found(g)
      BY <1>3, <3>1, Files DEF EvidenceInv, Accounted
    <3>3. CASE \E j \in Outputs : g = dist[j]
      <4>1. g \in taken' \/ \E j \in Outputs : g = dist'[j]
        BY <1>9, <1>10, <3>2, <3>3
      <4> QED
        BY <3>2, <4>1 DEF Found
    <3>4. CASE ~ \E j \in Outputs : g = dist[j]
      BY <1>2, <1>10, <3>2, <3>4 DEF Found
    <3> QED
      BY <3>2, <3>3, <3>4
  <2> QED
    BY <2>2, <2>3
<1> QED
  BY <1>11, <1>12, <1>15, <1>16, <1>18, <1>19, <1>20 DEF EvidenceInv

LEMMA BuildStep == ASSUME EvidenceInv, StartBuild PROVE EvidenceInv'
<1>1. /\ build' = build + 1 /\ outcome' = "running" /\ build < Builds
      /\ strays' = strays \cup Held("inner")
      /\ lost' = others \ (FilesOf(dist) \cup strays')
      /\ prev' = Both(Empty) /\ quar' = Both(Empty) /\ stage' = Both(Empty)
      /\ orig' = Both(Empty) /\ mine' = Both({}) /\ handled' = Both({})
      /\ clean' = [removed |-> TRUE, restored |-> TRUE]
      /\ GoTo("outer", "receipt", 1) /\ verified' = FALSE
      /\ dist' = dist /\ others' = others /\ taken' = taken
  BY DEF StartBuild, world
<1>2. "outer" \in Levels /\ "receipt" \in Steps \ Rollback /\ 1 \in Outputs
  BY Three DEF Levels, Steps, Rollback
<1>3. /\ at'.lv = "outer" /\ at'.s = "receipt" /\ at'.i = 1 /\ ~ RollingBack'
      /\ at' \in [lv : Levels, s : Steps, i : Outputs] /\ Undone' /\ CompleteMeansUndone'
      /\ \A l, steps : In(l, steps)' <=> l = "outer" /\ "receipt" \in steps
      /\ \A l \in Levels, j \in Outputs : Pending(l, j)'
  BY <1>1, <1>2, Onward
<1>4. /\ \A l \in Levels, j \in Outputs :
           prev'[l][j] = NoFile /\ quar'[l][j] = NoFile /\ stage'[l][j] = NoFile /\ orig'[l][j] = NoFile
      /\ mine'["outer"] = {} /\ handled'["outer"] = {}
  BY <1>1 DEF Both, Empty, Levels
<1>5. build \in Nat /\ build + 1 \in 0..Builds
  <2>1. build \in 0..Builds /\ Builds \in Nat
    BY EvidenceAssumption DEF EvidenceInv, Typed, EvidenceTypeOK
  <2> QED
    BY <1>1, <2>1
<1>6. Typed'
  <2>1. Empty \in [Outputs -> MaybeFile]
    BY Files DEF Empty
  <2>2. Both(Empty) \in [Levels -> [Outputs -> MaybeFile]] /\ Both({}) \in [Levels -> SUBSET Outputs]
    BY <2>1 DEF Both
  <2>3. Held("inner") \subseteq OutputFile
    <3>1. prev["inner"] \in [Outputs -> MaybeFile] /\ quar["inner"] \in [Outputs -> MaybeFile]
      BY DEF EvidenceInv, Typed, EvidenceTypeOK, Levels
    <3>2. FilesOf(prev["inner"]) \subseteq OutputFile /\ FilesOf(quar["inner"]) \subseteq OutputFile
      BY <3>1 DEF FilesOf, MaybeFile
    <3> QED
      BY <3>2 DEF Held
  <2>4. strays' \subseteq OutputFile /\ lost' \subseteq OutputFile
    BY <1>1, <2>3 DEF EvidenceInv, Typed, EvidenceTypeOK
  <2> QED
    BY <1>1, <1>3, <1>5, <2>2, <2>4 DEF EvidenceInv, Typed, EvidenceTypeOK
<1>7. Placed'
  BY <1>1, <1>3 DEF Placed
<1>8. Claims'
  BY <1>3, <1>4 DEF Claims
<1>9. Looked'
  <2>1. \A j \in Outputs : ~ (j < 1)
    BY DEF Outputs
  <2> QED
    BY <1>2, <1>3, <1>4, <2>1 DEF Looked
<1>10. Backups'
  BY <1>3, <1>4 DEF Backups
<1>11. Dated'
  <2>1. \A j \in Outputs : Own(j)' = [by |-> "build", n |-> build + 1, out |-> j]
    BY <1>1 DEF Own
  <2>2. \A j \in Outputs : NoFile # Own(j)' /\ Old(NoFile)'
    BY <2>1 DEF NoFile, Old
  <2>3. ASSUME NEW j \in Outputs PROVE Old(dist[j])' /\ dist[j] # Own(j)'
    <3>1. dist[j].by = "build" => dist[j].n <= build
      BY DEF EvidenceInv, Dated, Old
    <3>2. dist[j].by = "build" => dist[j].n \in Nat
      <4>1. dist[j] \in MaybeFile
        BY <1>2, FileThere
      <4>2. 0..Builds \subseteq Nat /\ Builds \in Nat
        BY EvidenceAssumption
      <4> QED
        BY <4>1, <4>2 DEF MaybeFile, OutputFile, NoFile
    <3>3. dist[j].by = "build" => dist[j].n <= build + 1 /\ dist[j].n # build + 1
      BY <1>5, <3>1, <3>2
    <3> QED
      BY <1>1, <2>1, <3>3 DEF Old
  <2> QED
    BY <1>1, <1>4, <2>2, <2>3 DEF Dated
<1>12. Earlier'
  BY <1>2, <1>4 DEF Earlier
<1>13. Accounted'
  <2>1. SUFFICES ASSUME NEW g \in others PROVE g.by # "build" /\ Found(g)'
    BY <1>1 DEF Accounted
  <2>2. g.by # "build"
    BY DEF EvidenceInv, Accounted
  <2>3. g \in lost' \/ g \in strays' \/ g \in FilesOf(dist)
    BY <1>1
  <2>4. g \in FilesOf(dist) => \E j \in Outputs : g = dist'[j]
    BY <1>1 DEF FilesOf
  <2> QED
    BY <2>2, <2>3, <2>4 DEF Found
<1> QED
  BY <1>3, <1>6, <1>7, <1>8, <1>9, <1>10, <1>11, <1>12, <1>13 DEF EvidenceInv

LEMMA EvidenceStart == EvidenceInit => EvidenceInv
<1> SUFFICES ASSUME EvidenceInit PROVE EvidenceInv
  OBVIOUS
<1>1. /\ dist = [i \in Outputs |-> IF i \in Existing THEN [by |-> "build", n |-> 0, out |-> i] ELSE NoFile]
      /\ prev = Both(Empty) /\ quar = Both(Empty) /\ stage = Both(Empty)
      /\ orig = Both(Empty) /\ mine = Both({}) /\ handled = Both({})
      /\ clean = [removed |-> TRUE, restored |-> TRUE]
      /\ at = StepOf("outer", "start", 1) /\ build = 0 /\ outcome = "none"
      /\ others = {} /\ taken = {} /\ strays = {} /\ lost = {} /\ verified = FALSE
  BY DEF EvidenceInit
<1>2. at.lv = "outer" /\ at.s = "start" /\ at.i = 1 /\ at \in [lv : Levels, s : Steps, i : Outputs]
  BY <1>1, Three DEF StepOf, Levels, Steps
<1>3. ~ RollingBack /\ \A l, steps : In(l, steps) <=> l = "outer" /\ "start" \in steps
  BY <1>2 DEF RollingBack, In
<1>4. /\ \A l \in Levels, j \in Outputs :
           prev[l][j] = NoFile /\ quar[l][j] = NoFile /\ stage[l][j] = NoFile /\ orig[l][j] = NoFile
      /\ mine["outer"] = {} /\ handled["outer"] = {}
  BY <1>1 DEF Both, Empty, Levels
<1>5. Typed
  <2>1. Empty \in [Outputs -> MaybeFile]
    BY Files DEF Empty
  <2>2. Both(Empty) \in [Levels -> [Outputs -> MaybeFile]] /\ Both({}) \in [Levels -> SUBSET Outputs]
    BY <2>1 DEF Both
  <2>3. 0 \in 0..Builds
    BY EvidenceAssumption
  <2>4. dist \in [Outputs -> MaybeFile]
    <3>1. \A i \in Outputs : [by |-> "build", n |-> 0, out |-> i] \in OutputFile
      BY <2>3 DEF OutputFile
    <3> QED
      BY <1>1, <3>1, Files
  <2>5. IsFiniteSet({})
    BY FS_EmptySet
  <2> QED
    BY <1>1, <1>2, <2>2, <2>3, <2>4, <2>5 DEF Typed, EvidenceTypeOK
<1>6. Placed /\ Claims
  BY <1>1, <1>2, <1>3 DEF Placed, Claims
<1>7. Looked
  BY <1>2, <1>3, <1>4 DEF Looked, Levels
<1>8. Backups
  BY <1>2, <1>3, <1>4 DEF Backups, Pending, Unmoved
<1>9. Dated
  <2>1. Old(NoFile) /\ \A j \in Outputs : NoFile # Own(j)
    BY DEF Old, NoFile, Own
  <2>2. \A j \in Outputs : Old(dist[j])
    BY <1>1, <2>1 DEF Old
  <2> QED
    BY <1>2, <1>4, <2>1, <2>2 DEF Dated
<1>10. Earlier
  BY <1>4 DEF Earlier, Levels
<1>11. Undone /\ CompleteMeansUndone /\ Accounted
  <2>1. \A j \in Outputs : ~ Done(j)
    BY <1>3 DEF Done
  <2> QED
    BY <1>1, <1>3, <2>1 DEF Undone, CompleteMeansUndone, Accounted
<1> QED
  BY <1>5, <1>6, <1>7, <1>8, <1>9, <1>10, <1>11 DEF EvidenceInv

LEMMA EvidenceStill == EvidenceInv /\ UNCHANGED evidenceVars => EvidenceInv'
<1> SUFFICES ASSUME EvidenceInv, UNCHANGED evidenceVars PROVE EvidenceInv'
  OBVIOUS
<1>1. UNCHANGED <<dist, prev, quar, stage, orig, mine, handled, clean, at, build, outcome, others, taken, strays, lost, verified>>
  BY DEF evidenceVars, tx, world, past
<1>2. /\ \A j : Own(j)' = Own(j) /\ (Safe(j)' <=> Safe(j))
      /\ \A f : Old(f)' <=> Old(f)
  BY <1>1 DEF Own, Safe, Old
<1>3. \A j : Past(j)' <=> Past(j)
  BY <1>1, StandsStill DEF Past
<1>4. Placed' /\ Claims' /\ Looked' /\ Backups'
  BY <1>1, StandsInv
<1>5. Typed'
  BY <1>1 DEF EvidenceInv, Typed, EvidenceTypeOK
<1>6. Dated'
  BY <1>1, <1>2, StandsStill DEF EvidenceInv, Dated
<1>7. Earlier'
  BY <1>1, <1>2, <1>3 DEF EvidenceInv, Earlier
<1>8. Undone'
  BY <1>1, StandsStill DEF EvidenceInv, Undone, Own
<1>9. CompleteMeansUndone'
  BY <1>1 DEF EvidenceInv, CompleteMeansUndone, Own, Held, FilesOf
<1>10. Accounted'
  BY <1>1, QuietlyFound DEF EvidenceInv
<1> QED
  BY <1>4, <1>5, <1>6, <1>7, <1>8, <1>9, <1>10 DEF EvidenceInv

LEMMA EvidenceSteps == EvidenceInv /\ [EvidenceNext]_evidenceVars => EvidenceInv'
<1> SUFFICES ASSUME EvidenceInv, [EvidenceNext]_evidenceVars PROVE EvidenceInv'
  OBVIOUS
<1>1. CASE StartBuild \/ BuildWheel \/ EmitEvidence \/ CloseInner \/ CommitClose \/ EndInner \/ EndOuter
  BY <1>1, BuildStep, WheelStep, EmitStep, CloseStep, CommittedStep, EndInnerStep, EndStep
<1>2. ASSUME NEW lv \in Levels, NEW i \in Covers(lv),
             \/ TakeReceipt(lv, i) \/ MoveAside(lv, i) \/ Link(lv, i) \/ VerifyLink(lv, i)
             \/ Quarantine(lv, i) \/ Dispose(lv, i) \/ Restore(lv, i) \/ Restored(lv, i)
      PROVE  EvidenceInv'
  BY <1>2, ReceiptStep, AsideStep, LinkStep, VerifyStep, QuarantineStep, DisposeStep, RestoreStep,
     RestoredStep
<1>3. ASSUME NEW i \in Sidecars, Recheck(i) \/ DiscardInner(i) PROVE EvidenceInv'
  BY <1>3, RecheckStep, DiscardStep
<1>4. ASSUME NEW i \in Outputs, Revalidate(i) \/ CommitCheck(i) \/ CommitDiscard(i) \/ SomebodyWrites(i)
      PROVE  EvidenceInv'
  BY <1>4, RevalidateStep, CheckStep, DropStep, WriteStep
<1>5. CASE BuildInterrupted \/ BuildCrashes
  BY <1>5, InterruptStep, CrashStep
<1>6. CASE UNCHANGED evidenceVars
  BY <1>6, EvidenceStill
<1> QED
  BY <1>1, <1>2, <1>3, <1>4, <1>5, <1>6 DEF EvidenceNext

\* The invariant holds in every state of a behaviour.
THEOREM EvidenceInvariant == EvidenceSpec => []EvidenceInv
<1>1. EvidenceInit => EvidenceInv
  BY EvidenceStart
<1>2. EvidenceInv /\ [EvidenceNext]_evidenceVars => EvidenceInv'
  BY EvidenceSteps
<1> QED
  BY <1>1, <1>2, PTL DEF EvidenceSpec

\* Every variable of the two output transactions has its type.
THEOREM EvidenceTyped == EvidenceSpec => []EvidenceTypeOK
<1>1. EvidenceInv => EvidenceTypeOK
  BY DEF EvidenceInv, Typed
<1> QED
  BY <1>1, EvidenceInvariant, PTL

LEMMA KeepsEarlier == EvidenceInv => EarlierOutputsKept
<1> SUFFICES ASSUME EvidenceInv, ~ verified, NEW g \in FilesOf(orig["outer"]), g \notin Present, g \notin taken
             PROVE  FALSE
  BY DEF EarlierOutputsKept, Gone
<1>1. PICK j \in Outputs : g = orig["outer"][j] /\ g # NoFile
  BY DEF FilesOf
<1>2. Safe(j) \/ dist[j] = g
  BY <1>1, EarlierOne
<1>3. CASE dist[j] = g
  BY <1>1, <1>3 DEF Present, FilesOf
<1>4. CASE Safe(j)
  <2>1. prev["outer"][j] = g
    BY <1>1, <1>4 DEF Safe
  <2> QED
    BY <1>1, <2>1 DEF Present, Held, FilesOf
<1> QED
  BY <1>2, <1>3, <1>4

\* Whatever fails, whoever else writes, wherever the build stops: no earlier
\* output is destroyed before the new ones are seen in place, and nothing that
\* somebody else wrote but what a committed transaction had taken for its own
\* predecessor.
THEOREM NothingIsDestroyed == EvidenceSpec => []NothingDestroyed
<1>1. EvidenceInv => NothingDestroyed
  <2>1. EvidenceInv => OthersKept
    BY FoundIsKept DEF EvidenceInv, Accounted, Typed, EvidenceTypeOK
  <2> QED
    BY <2>1, KeepsEarlier DEF NothingDestroyed
<1> QED
  BY <1>1, EvidenceInvariant, PTL

\* A rollback that reports itself complete has left nothing of its build at the
\* output paths or in the backup, and has every earlier output back at its path
\* unless somebody has written there since.
THEOREM CompleteIsUndone == EvidenceSpec => []CompleteMeansUndone
<1>1. EvidenceInv => CompleteMeansUndone
  BY DEF EvidenceInv
<1> QED
  BY <1>1, EvidenceInvariant, PTL

=============================================================================

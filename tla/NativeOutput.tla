---------------------------- MODULE NativeOutput ----------------------------
(***************************************************************************)
(* build/full_c6_native_output.py: the persistent native output.  A call   *)
(* materializes the two files of an authority, a wheel and its native      *)
(* extension, in a directory named by the authority's digest under one     *)
(* output root, or finds the directory there and takes it over as it is;   *)
(* then it seals a transaction over the identities it saw, and validates   *)
(* the transaction at once and whenever somebody asks for it later.        *)
(*                                                                         *)
(* Calls are threads of several processes.  A process lock orders the      *)
(* threads, a lock on the output root the processes; but the state         *)
(* directory and the root are opened before that lock is held.  Processes  *)
(* die, power is lost, and somebody else may touch the files.              *)
(***************************************************************************)
EXTENDS Naturals, FiniteSets, Functions

CONSTANTS
    Builds,                      \* calls that materialize
    Processes, Authorities,
    ProcessOf, AuthorityOf,      \* of each call
    MaxAuthorityDirectories,
    Nobody,                      \* no lock holder, no maker, no transaction
    MaxEvents        \* bound on what happens outside

ASSUME NativeOutputAssumption ==
    /\ ProcessOf \in [Builds -> Processes] /\ AuthorityOf \in [Builds -> Authorities]
    /\ Nobody \notin Builds
    /\ MaxAuthorityDirectories \in Nat /\ MaxEvents \in Nat

VARIABLES
    root, tree,      \* the output root, and the directory of each authority
    rootLock, processLock,
    at, phase,       \* how far each call is: it makes, confirms or revalidates
    window,          \* what a directory looked like before it was opened
    created,         \* the call made the output root
    captured,        \* the identities of the two files the call saw first
    transaction,     \* what each call sealed
    sawWhole,        \* history: its last validation saw the tree whole at one moment
    files,           \* files made so far: the next identity
    events           \* how many of each outside event happened

nativeVars == <<root, tree, rootLock, processLock, at, phase, window, created, captured,
                transaction, sawWhole, files, events>>
disk == <<root, tree, files>>
locks == <<rootLock, processLock>>
history == <<transaction, sawWhole>>

Outside == {"error", "kill", "outage", "change"}
Happens(e) ==
    /\ FoldFunction(+, 0, events) < MaxEvents
    /\ events' = [events EXCEPT ![e] = @ + 1]

\* A file has bytes, and the identity (inode) it was created with.  A directory
\* is on disk once its content and its name are synced.
NoFiles == [wheel |-> 0, native |-> 0]
Missing == [bytes |-> "none", id |-> 0]
NoRoot == [made |-> FALSE, maker |-> Nobody, synced |-> FALSE]
NoTree == [made |-> FALSE, maker |-> Nobody, wheel |-> Missing, native |-> Missing,
           filled |-> FALSE, synced |-> FALSE]

Locked == {"create", "write wheel", "sync wheel", "write native", "sync native",
           "sync tree", "sync root", "read wheel", "read native", "sync state",
           "reread wheel", "reread native", "seal"}
Active == Locked \cup {"open state", "make root", "open root", "lock"}

My(c) == tree[AuthorityOf[c]]
Made == {a \in Authorities : tree[a].made}
Whole(t) == t.made /\ t.wheel.bytes = "exact" /\ t.native.bytes = "exact"

\* What fstat tells of the two directories that are opened without the lock
StateStamp == <<root.made, events.change>>
RootStamp == <<Made, events.change>>

NativeInit ==
    /\ root \in {NoRoot, [NoRoot EXCEPT !.made = TRUE, !.synced = TRUE]}
    /\ tree = [a \in Authorities |-> NoTree]
    /\ rootLock = Nobody /\ processLock = [p \in Processes |-> Nobody]
    /\ at = [c \in Builds |-> "idle"] /\ phase = [c \in Builds |-> "make"]
    /\ window = [c \in Builds |-> Nobody] /\ created = [c \in Builds |-> FALSE]
    /\ captured = [c \in Builds |-> NoFiles] /\ transaction = [c \in Builds |-> Nobody]
    /\ sawWhole = [c \in Builds |-> FALSE]
    /\ files = 0 /\ events = [e \in Outside |-> 0]

Move(c, from, next) == at[c] = from /\ at' = [at EXCEPT ![c] = next]
\* The locks are released, and what the call held is gone
End(c) ==
    /\ rootLock' = IF rootLock = c THEN Nobody ELSE rootLock
    /\ processLock' = [processLock EXCEPT ![ProcessOf[c]] = Nobody]
    /\ window' = [window EXCEPT ![c] = Nobody]
    /\ created' = [created EXCEPT ![c] = FALSE]
    /\ captured' = [captured EXCEPT ![c] = NoFiles]

\* materialize raises, and so it does when its own validation says no; a later
\* validation returns False
Refuse(c) ==
    /\ at' = [at EXCEPT ![c] = IF phase[c] = "revalidate" THEN "stale" ELSE "refused"]
    /\ End(c)
    /\ UNCHANGED <<disk, phase, history, events>>

-----------------------------------------------------------------------------
(* Opening, without the lock on the root *)

\* Mutant: threads of a process do not wait for each other
Enter_Unordered(c) ==
    /\ at[c] \in {"idle", "confirm"}
    /\ at' = [at EXCEPT ![c] = "open state"]
    /\ window' = [window EXCEPT ![c] = StateStamp]
    /\ UNCHANGED <<disk, locks, phase, created, captured, history, events>>

Enter(c) ==
    /\ at[c] \in {"idle", "confirm"} /\ processLock[ProcessOf[c]] = Nobody
    /\ at' = [at EXCEPT ![c] = "open state"]
    /\ processLock' = [processLock EXCEPT ![ProcessOf[c]] = c]
    /\ window' = [window EXCEPT ![c] = StateStamp]
    /\ UNCHANGED <<disk, rootLock, phase, created, captured, history, events>>

\* A directory that changed while it was being opened or listed is refused, but
\* the change may also have fallen between two looks
OpenState(c) ==
    /\ at[c] = "open state"
    /\ \/ /\ root.made \/ phase[c] = "make"
          /\ at' = [at EXCEPT ![c] = IF root.made THEN "open root" ELSE "make root"]
          /\ window' = [window EXCEPT ![c] = RootStamp]
          /\ UNCHANGED <<disk, locks, phase, created, captured, history, events>>
       \/ /\ window[c] # StateStamp \/ (~root.made /\ phase[c] # "make")
          /\ Refuse(c)

MakeRoot(c) ==
    /\ Move(c, "make root", "open root")
    /\ IF root.made THEN UNCHANGED <<root, created>>
       ELSE /\ root' = [made |-> TRUE, maker |-> c, synced |-> FALSE]
            /\ created' = [created EXCEPT ![c] = TRUE]
    /\ window' = [window EXCEPT ![c] = RootStamp]
    /\ UNCHANGED <<tree, files, locks, phase, captured, history, events>>

OpenRoot(c) ==
    \/ /\ Move(c, "open root", "lock")
       /\ window' = [window EXCEPT ![c] = Nobody]
       /\ UNCHANGED <<disk, locks, phase, created, captured, history, events>>
    \/ at[c] = "open root" /\ window[c] # RootStamp /\ Refuse(c)

Lock(c) ==
    /\ Move(c, "lock", IF phase[c] = "make" THEN "create" ELSE "read wheel")
    /\ rootLock = Nobody /\ rootLock' = c
    /\ UNCHANGED <<disk, processLock, phase, window, created, captured, history, events>>

Open(c) == Enter(c) \/ OpenState(c) \/ MakeRoot(c) \/ OpenRoot(c) \/ Lock(c)

-----------------------------------------------------------------------------
(* Writing a new tree, under the lock *)

Quiet == UNCHANGED <<root, locks, phase, window, created, captured, history, events>>

\* Mutant: a tree that is there but not whole is written again
CreateTree_Repairs(c) ==
    /\ Move(c, "create", IF Whole(My(c)) THEN "read wheel" ELSE "write wheel")
    /\ tree' = IF Whole(My(c)) THEN tree
               ELSE [tree EXCEPT ![AuthorityOf[c]] = [NoTree EXCEPT !.made = TRUE, !.maker = c]]
    /\ UNCHANGED files /\ Quiet

\* A tree that is there is never written to
CreateTree(c) ==
    /\ My(c).made \/ Cardinality(Made) < MaxAuthorityDirectories
    /\ Move(c, "create", IF My(c).made THEN "read wheel" ELSE "write wheel")
    /\ tree' = IF My(c).made THEN tree
               ELSE [tree EXCEPT ![AuthorityOf[c]] = [NoTree EXCEPT !.made = TRUE, !.maker = c]]
    /\ UNCHANGED files /\ Quiet

\* A file is created empty and exclusively, written and synced
New == [bytes |-> "partial", id |-> files + 1]

Write(c) ==
    /\ \/ /\ Move(c, "write wheel", "sync wheel")
          /\ My(c).made /\ My(c).wheel = Missing
          /\ tree' = [tree EXCEPT ![AuthorityOf[c]].wheel = New]
       \/ /\ Move(c, "write native", "sync native")
          /\ My(c).made /\ My(c).native = Missing
          /\ tree' = [tree EXCEPT ![AuthorityOf[c]].native = New]
    /\ files' = files + 1 /\ Quiet

Complete(c) ==
    /\ \/ /\ Move(c, "sync wheel", "write native")
          /\ My(c).wheel.bytes = "partial"
          /\ tree' = [tree EXCEPT ![AuthorityOf[c]].wheel.bytes = "exact"]
       \/ /\ Move(c, "sync native", "sync tree")
          /\ My(c).native.bytes = "partial"
          /\ tree' = [tree EXCEPT ![AuthorityOf[c]].native.bytes = "exact"]
    /\ UNCHANGED files /\ Quiet

\* Mutant: the new name is not synced
SyncTree_NameForgotten(c) ==
    /\ \/ /\ Move(c, "sync tree", "sync root")
          /\ tree' = [tree EXCEPT ![AuthorityOf[c]].filled = My(c).made]
       \/ /\ Move(c, "sync root", "read wheel")
          /\ UNCHANGED tree
    /\ UNCHANGED files /\ Quiet

SyncTree(c) ==
    /\ \/ /\ Move(c, "sync tree", "sync root")
          /\ tree' = [tree EXCEPT ![AuthorityOf[c]].filled = My(c).made]
       \/ /\ Move(c, "sync root", "read wheel")
          /\ tree' = [a \in Authorities |-> [tree[a] EXCEPT !.synced = tree[a].made]]
    /\ UNCHANGED files /\ Quiet

\* The root is full, or somebody else is in the way
Obstructed(c) ==
    /\ \/ at[c] = "create" /\ ~My(c).made /\ Cardinality(Made) >= MaxAuthorityDirectories
       \/ at[c] = "write wheel" /\ ~(My(c).made /\ My(c).wheel = Missing)
       \/ at[c] = "write native" /\ ~(My(c).made /\ My(c).native = Missing)
       \/ at[c] = "sync wheel" /\ My(c).wheel.bytes # "partial"
       \/ at[c] = "sync native" /\ My(c).native.bytes # "partial"
    /\ Refuse(c)

WriteTree(c) == CreateTree(c) \/ Write(c) \/ Complete(c) \/ SyncTree(c) \/ Obstructed(c)

-----------------------------------------------------------------------------
(* Reading it twice, and sealing *)

ReadingAt == [l \in {"read wheel", "read native", "reread wheel", "reread native"} |->
                 [file |-> IF l \in {"read wheel", "reread wheel"} THEN "wheel" ELSE "native",
                  again |-> l \in {"reread wheel", "reread native"}]]

\* The identity that the file being read must have
Expected(c) ==
    LET r == ReadingAt[at[c]]
    IN  IF r.again THEN captured[c][r.file]
        ELSE IF phase[c] = "make" THEN My(c)[r.file].id
        ELSE transaction[c].files[r.file]

\* Exactly the two files are there, and this one has the exact bytes
Reads(c) ==
    LET file == My(c)[ReadingAt[at[c]].file]
    IN  /\ My(c).made /\ Missing \notin {My(c).wheel, My(c).native}
        /\ file.bytes = "exact" /\ file.id = Expected(c)

CaptureTree(c) ==
    /\ at[c] \in DOMAIN ReadingAt
    /\ IF Reads(c)
         THEN /\ at' = [at EXCEPT ![c] =
                           CASE @ = "read wheel" -> "read native"
                             [] @ = "read native" ->
                                    IF phase[c] = "make" /\ created[c] THEN "sync state"
                                    ELSE "reread wheel"
                             [] @ = "reread wheel" -> "reread native"
                             [] @ = "reread native" -> "seal"]
              /\ captured' = [captured EXCEPT ![c][ReadingAt[at[c]].file] = Expected(c)]
              /\ sawWhole' = [sawWhole EXCEPT ![c] = @ \/ (at[c] = "reread wheel" /\ Whole(My(c)))]
              /\ UNCHANGED <<disk, locks, phase, window, created, transaction, events>>
         ELSE Refuse(c)

\* The call that made the output root makes its name durable
SyncState(c) ==
    /\ Move(c, "sync state", "reread wheel")
    /\ root' = [root EXCEPT !.synced = TRUE]
    /\ UNCHANGED <<tree, files, locks, phase, window, created, captured, history, events>>

\* The transaction is sealed and confirmed before the caller gets it
Seal(c) ==
    /\ Move(c, "seal", IF phase[c] = "make" THEN "confirm" ELSE "valid")
    /\ End(c)
    /\ transaction' = IF phase[c] # "make" THEN transaction
                      ELSE [transaction EXCEPT ![c] =
                               [files |-> captured[c], maker |-> My(c).maker,
                                rootMaker |-> root.maker]]
    /\ phase' = [phase EXCEPT ![c] = IF @ = "make" THEN "confirm" ELSE @]
    /\ sawWhole' = [sawWhole EXCEPT ![c] = @ /\ phase[c] # "make"]
    /\ UNCHANGED <<disk, events>>

\* Whoever uses the transaction has it validated again
Revalidate(c) ==
    /\ Move(c, "valid", "confirm")
    /\ phase' = [phase EXCEPT ![c] = "revalidate"]
    /\ sawWhole' = [sawWhole EXCEPT ![c] = FALSE]
    /\ UNCHANGED <<disk, locks, window, created, captured, transaction, events>>

-----------------------------------------------------------------------------
(* What may happen outside *)

\* An operating-system error leaves everything as it is
Fails(c) ==
    /\ at[c] \in Active /\ Happens("error")
    /\ at' = [at EXCEPT ![c] = IF phase[c] = "revalidate" THEN "stale" ELSE "refused"]
    /\ End(c)
    /\ UNCHANGED <<disk, phase, history>>

\* The calls that die with their processes, and the locks these held
Die(gone) ==
    LET dead == {c \in Builds : ProcessOf[c] \in gone /\ at[c] \in Active \cup {"confirm"}}
    IN  /\ at' = [c \in Builds |-> IF c \in dead THEN "lost" ELSE at[c]]
        /\ rootLock' = IF rootLock \in dead THEN Nobody ELSE rootLock
        /\ processLock' = [p \in Processes |-> IF p \in gone THEN Nobody ELSE processLock[p]]
        /\ window' = [c \in Builds |-> IF c \in dead THEN Nobody ELSE window[c]]
        /\ created' = [c \in Builds |-> c \notin dead /\ created[c]]
        /\ captured' = [c \in Builds |-> IF c \in dead THEN NoFiles ELSE captured[c]]
        /\ UNCHANGED <<phase, history, files>>

Kill(p) == Happens("kill") /\ Die({p}) /\ UNCHANGED <<root, tree>>

\* What was not synced may be gone
Outage ==
    /\ Happens("outage") /\ Die(Processes)
    /\ \/ /\ tree' \in [Authorities -> UNION {{NoTree, tree[a]} : a \in Authorities}]
          /\ \A a \in Authorities :
                \/ tree'[a] = tree[a]
                \/ ~tree[a].synced /\ tree'[a] = NoTree
          /\ UNCHANGED root
       \/ /\ \E a \in Authorities :
                /\ tree[a].made /\ ~tree[a].filled
                /\ tree' = [tree EXCEPT ![a].wheel = Missing, ![a].native = Missing]
          /\ UNCHANGED root
       \/ /\ root.made /\ ~root.synced
          /\ root' = NoRoot
          /\ tree' = [a \in Authorities |-> NoTree]

\* Somebody overwrites a file, puts a copy in its place, or removes the directory
Change(a, f) ==
    /\ Happens("change") /\ tree[a].made
    /\ \/ /\ tree[a][f] # Missing
          /\ \/ tree' = [tree EXCEPT ![a][f].bytes = "other"] /\ UNCHANGED files
             \/ /\ tree' = [tree EXCEPT ![a][f].id = files + 1]
                /\ files' = files + 1
       \/ tree' = [tree EXCEPT ![a] = NoTree] /\ UNCHANGED files
    /\ UNCHANGED <<root, locks, at, phase, window, created, captured, history>>

NativeNext ==
    \/ \E c \in Builds : Open(c) \/ WriteTree(c) \/ CaptureTree(c) \/ SyncState(c) \/ Seal(c)
                         \/ Revalidate(c) \/ Fails(c)
    \/ \E p \in Processes : Kill(p)
    \/ \E a \in Authorities, f \in {"wheel", "native"} : Change(a, f)
    \/ Outage

NativeSpec == NativeInit /\ [][NativeNext]_nativeVars
-----------------------------------------------------------------------------
\* Every validation that says yes has seen, at one moment while it held the
\* lock, the whole tree with the exact bytes of both files.
ConfirmedWhole == \A c \in Builds : at[c] = "valid" => sawWhole[c]

\* Signed reruns: two calls that seal a transaction for one authority, in
\* whatever processes and with crashes and losses of power between them, seal
\* the same two files, unless somebody changed them, or the name of the tree or
\* of the root was still to be synced by a call that never finished.
Settled(c) ==
    /\ transaction[c] # Nobody
    /\ \A m \in {transaction[c].maker, transaction[c].rootMaker} \ {Nobody} :
          transaction[m] # Nobody

RerunsAgree ==
    \A c, d \in Builds :
        /\ Settled(c) /\ Settled(d) /\ AuthorityOf[c] = AuthorityOf[d]
        /\ events["change"] = 0
        => transaction[c].files = transaction[d].files

\* What a sealed transaction stands for: a whole tree, the same in every rerun.
SealedTreesHold == ConfirmedWhole /\ RerunsAgree

\* An incomplete tree is never completed, and no tree is ever replaced, by a
\* call that did not make it.
NeverRepaired ==
    [][ \A a \in Authorities, c \in Builds :
          /\ tree[a].made /\ tree[a] # tree'[a] /\ at[c] # at'[c] /\ events' = events
          => tree[a].maker = c \/ [tree[a] EXCEPT !.synced = TRUE] = tree'[a] ]_nativeVars

\* The threads of one process do not get into each other's way: with nothing
\* from outside, a call is refused only for another process that made a
\* directory meanwhile, for a tree a dead or failed call left, or for the limit.
LeftBehind(a) == tree[a].made /\ ~Whole(tree[a]) /\ tree[a].maker \in Builds
           /\ at[tree[a].maker] \in {"refused", "lost"}
RefusedForCause ==
    [][ \A c \in Builds :
          /\ at[c] \in Active /\ at'[c] \in {"refused", "stale"}
          /\ events' = events /\ events["change"] = 0 /\ events["outage"] = 0
          => \/ \E d \in Builds : ProcessOf[d] # ProcessOf[c] /\ at[d] # "idle"
             \/ LeftBehind(AuthorityOf[c])
             \/ ~My(c).made /\ Cardinality(Made) = MaxAuthorityDirectories ]_nativeVars
=============================================================================

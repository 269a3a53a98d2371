-------------------------- MODULE SubprocessBridge --------------------------
(***************************************************************************)
(* The subprocess hybrid of the Rust executable: the generated client      *)
(* (codegen/rust/subprocess_client.py) delegates calls to a generated      *)
(* Python dispatcher (codegen/subprocess_dispatcher.py) over two pipes.    *)
(* The generated crate starts no thread, so one call is delegated at a     *)
(* time and the client's mutex is never contended.  Calls are numbered;    *)
(* what a frame carries is the number of the call it answers, and a        *)
(* delegated function is told apart by what it does to the exchange.       *)
(***************************************************************************)
EXTENDS Naturals, Sequences

CONSTANTS MaxCalls,         \* delegated calls of one run of the binary
          MaxSpawns,        \* dispatchers one run may launch
          MaxKills,         \* processes killed from outside
          Behaviours        \* what delegated functions do

\* "raises" stands for every request that becomes an error frame, "exits" for
\* an exit code within i64 and "exits_huge" for one outside it; "dies" takes
\* the interpreter down and "reads" reads standard input.
ASSUME BridgeAssumption ==
  /\ {MaxCalls, MaxSpawns, MaxKills} \subseteq Nat
  /\ Behaviours \subseteq {"returns", "raises", "exits", "exits_huge", "dies", "reads"}

VARIABLES client,           \* where the client is in __rextio_call_python
          call,             \* the current or last call
          does,             \* what each call's function does
          compatible,       \* binary and runtime speak the same protocol
          bridge,           \* the dispatcher the client holds, 0 for none
          spawned,          \* dispatchers launched so far
          disp,             \* every dispatcher process with its pipes
          answer,           \* what each call returned to the program
          ran,              \* history: the calls executed, and by whom
          kills             \* processes killed from outside so far

vars == <<client, call, does, compatible, bridge, spawned, disp, answer, ran, kills>>

Calls == 1..MaxCalls
Dispatchers == 1..MaxSpawns
Outcomes == {"ok", "error", "malformed", "dead", "unavailable"}
FrameKinds == {"hello", "mismatch", "ok", "error", "exit", "huge"}
Frames == [kind : FrameKinds, call : 0..MaxCalls, whole : BOOLEAN]
Process == [state : {"off", "booting", "ready", "running", "answering", "dead"},
            job : 0..MaxCalls, open : BOOLEAN, in : Seq(Calls), out : Seq(Frames)]
Answer == [outcome : Outcomes \cup {"none"}, value : 0..MaxCalls]
Frame(kind, k) == [kind |-> kind, call |-> k, whole |-> TRUE]

FrameOf == [returns |-> "ok", raises |-> "error", exits |-> "exit",
            exits_huge |-> "huge", reads |-> "error"]

\* The dispatcher the client is talking to, in the handshake already.
Peer == spawned
Gone(g) == disp[g].state = "dead"

Closed == [g \in Dispatchers |-> [disp[g] EXCEPT !.open = FALSE]]   \* the binary is gone

\* The current call returns to the program.
Return(outcome, k) == /\ answer' = [answer EXCEPT ![call] = [outcome |-> outcome, value |-> k]]
                      /\ client' = "idle"

Init == /\ client = "idle" /\ call = 0 /\ bridge = 0 /\ spawned = 0 /\ kills = 0
        /\ does \in [Calls -> Behaviours]
        /\ compatible \in BOOLEAN
        /\ disp = [g \in Dispatchers |->
                     [state |-> "off", job |-> 0, open |-> FALSE, in |-> <<>>, out |-> <<>>]]
        /\ answer = [k \in Calls |-> [outcome |-> "none", value |-> 0]]
        /\ ran = <<>>

-----------------------------------------------------------------------------
\* __rextio_call_python takes the bridge there is, or launches one.
Call == /\ client = "idle" /\ call < MaxCalls
        /\ call' = call + 1
        /\ client' = IF bridge = 0 THEN "spawn" ELSE "send"
        /\ UNCHANGED <<does, compatible, bridge, spawned, disp, answer, ran, kills>>

Spawn == /\ client = "spawn"
         /\ \/ /\ Return("unavailable", 0)
               /\ UNCHANGED <<spawned, disp>>
            \/ /\ spawned < MaxSpawns
               /\ spawned' = spawned + 1
               /\ disp' = [disp EXCEPT ![spawned + 1].state = "booting",
                                       ![spawned + 1].open = TRUE]
               /\ client' = "handshake"
               /\ UNCHANGED answer
         /\ UNCHANGED <<call, does, compatible, bridge, ran, kills>>

\* An unusable dispatcher is dropped: its pipes close and the next call spawns.
Handshake ==
  /\ client = "handshake"
  /\ \/ /\ disp[Peer].out # <<>> /\ Head(disp[Peer].out) = Frame("hello", 0)
        /\ bridge' = Peer
        /\ disp' = [disp EXCEPT ![Peer].out = Tail(@)]
        /\ client' = "send"
        /\ UNCHANGED answer
     \/ /\ \/ disp[Peer].out # <<>> /\ Head(disp[Peer].out) # Frame("hello", 0)
           \/ disp[Peer].out = <<>> /\ Gone(Peer)
        /\ disp' = [disp EXCEPT ![Peer].open = FALSE]
        /\ Return("unavailable", 0)
        /\ UNCHANGED bridge
  /\ UNCHANGED <<call, does, compatible, spawned, ran, kills>>

\* Mutant: the call is tried again in a fresh dispatcher.
DropBridge_Retries == /\ bridge' = 0
                      /\ disp' = [disp EXCEPT ![bridge].open = FALSE]
                      /\ client' = "spawn"
                      /\ UNCHANGED answer

\* The dead bridge is dropped and the call is not tried again.
DropBridge == /\ bridge' = 0
              /\ disp' = [disp EXCEPT ![bridge].open = FALSE]
              /\ Return("dead", 0)

\* Mutant: a dispatcher found dead before the request is replaced silently.
Send_Respawns == /\ client = "send"
                 /\ IF Gone(bridge)
                      THEN /\ bridge' = 0
                           /\ client' = "spawn"
                           /\ UNCHANGED <<disp, answer>>
                      ELSE /\ disp' = [disp EXCEPT ![bridge].in = Append(@, call)]
                           /\ client' = "receive"
                           /\ UNCHANGED <<bridge, answer>>
                 /\ UNCHANGED <<call, does, compatible, spawned, ran, kills>>

\* A write to a dispatcher that died is a broken pipe.
Send == /\ client = "send"
        /\ \/ /\ Gone(bridge)
              /\ DropBridge
           \/ /\ ~Gone(bridge)
              /\ disp' = [disp EXCEPT ![bridge].in = Append(@, call)]
              /\ client' = "receive"
              /\ UNCHANGED <<bridge, answer>>
        /\ UNCHANGED <<call, does, compatible, spawned, ran, kills>>

\* Mutant: a response cut short is malformed, and the bridge is kept.
Receive_HalfFrame ==
  /\ client = "receive"
  /\ \/ /\ disp[bridge].out # <<>>
        /\ LET frame == Head(disp[bridge].out) IN
             \/ /\ frame.kind = "exit"
                /\ client' = "ended"
                /\ disp' = [Closed EXCEPT ![bridge].out = Tail(@)]
                /\ UNCHANGED answer
             \/ /\ frame.kind # "exit"
                /\ disp' = [disp EXCEPT ![bridge].out = Tail(@)]
                /\ Return(IF frame.kind \in {"ok", "error"} /\ frame.whole THEN frame.kind ELSE "malformed",
                          frame.call)
        /\ UNCHANGED bridge
     \/ /\ Gone(bridge)
        /\ disp[bridge].out = <<>>
        /\ DropBridge
  /\ UNCHANGED <<call, does, compatible, spawned, ran, kills>>

\* Mutant: the end of the file is waited out.
Receive_NoEof ==
  /\ client = "receive"
  /\ \/ /\ disp[bridge].out # <<>> /\ Head(disp[bridge].out).whole
        /\ LET frame == Head(disp[bridge].out) IN
             \/ /\ frame.kind = "exit"
                /\ client' = "ended"
                /\ disp' = [Closed EXCEPT ![bridge].out = Tail(@)]
                /\ UNCHANGED answer
             \/ /\ frame.kind # "exit"
                /\ disp' = [disp EXCEPT ![bridge].out = Tail(@)]
                /\ Return(IF frame.kind \in {"ok", "error"} THEN frame.kind ELSE "malformed",
                          frame.call)
        /\ UNCHANGED bridge
     \/ /\ Gone(bridge)
        /\ disp[bridge].out # <<>> /\ ~Head(disp[bridge].out).whole
        /\ DropBridge
  /\ UNCHANGED <<call, does, compatible, spawned, ran, kills>>

\* read_line: a whole frame decides the call, end of file or half a frame is
\* a dispatcher that died.  An exit frame ends the whole process.
Receive ==
  /\ client = "receive"
  /\ \/ /\ disp[bridge].out # <<>> /\ Head(disp[bridge].out).whole
        /\ LET frame == Head(disp[bridge].out) IN
             \/ /\ frame.kind = "exit"
                /\ client' = "ended"
                /\ disp' = [Closed EXCEPT ![bridge].out = Tail(@)]
                /\ UNCHANGED answer
             \/ /\ frame.kind # "exit"
                /\ disp' = [disp EXCEPT ![bridge].out = Tail(@)]
                /\ Return(IF frame.kind \in {"ok", "error"} THEN frame.kind ELSE "malformed",
                          frame.call)
        /\ UNCHANGED bridge
     \/ /\ Gone(bridge)
        /\ disp[bridge].out # <<>> => ~Head(disp[bridge].out).whole
        /\ DropBridge
  /\ UNCHANGED <<call, does, compatible, spawned, ran, kills>>

\* The program ends, or the binary is killed wherever it is: its pipes close.
Finish == /\ client = "idle"
          /\ client' = "ended"
          /\ disp' = Closed
          /\ UNCHANGED <<call, does, compatible, bridge, spawned, answer, ran, kills>>

KillClient == /\ client # "ended"
              /\ kills < MaxKills
              /\ kills' = kills + 1
              /\ client' = "ended"
              /\ disp' = Closed
              /\ UNCHANGED <<call, does, compatible, bridge, spawned, answer, ran>>

-----------------------------------------------------------------------------
\* The dispatcher: handshake, then one request line at a time.
Boot(g) == /\ disp[g].state = "booting"
           /\ disp' = [disp EXCEPT ![g].state = "ready",
                ![g].out = Append(@, Frame(IF compatible THEN "hello" ELSE "mismatch", 0))]
           /\ UNCHANGED <<client, call, does, compatible, bridge, spawned, answer, ran, kills>>

Take(g) == /\ disp[g].state = "ready" /\ disp[g].in # <<>>
           /\ disp' = [disp EXCEPT ![g].state = "running", ![g].job = Head(disp[g].in),
                                   ![g].in = Tail(@)]
           /\ UNCHANGED <<client, call, does, compatible, bridge, spawned, answer, ran, kills>>

\* The function runs.  One that reads standard input reads the wire, where no
\* line can come while the client waits: only the end of the pipe ends it.
Execute(g) ==
  /\ disp[g].state = "running"
  /\ LET k == disp[g].job IN
       /\ \/ /\ does[k] = "dies"
             /\ disp' = [disp EXCEPT ![g].state = "dead", ![g].in = <<>>]
          \/ /\ does[k] # "dies"
             /\ does[k] = "reads" => disp[g].in = <<>> /\ ~disp[g].open
             /\ disp' = [disp EXCEPT ![g].state = "answering"]
       /\ ran' = Append(ran, <<k, g>>)
  /\ UNCHANGED <<client, call, does, compatible, bridge, spawned, answer, kills>>

\* One frame for the request; writing it to a client that is gone is fatal.
Respond(g) ==
  /\ disp[g].state = "answering"
  /\ disp' = IF disp[g].open
       THEN [disp EXCEPT ![g].state = "ready", ![g].job = 0,
               ![g].out = Append(@, Frame(FrameOf[does[disp[g].job]], disp[g].job))]
       ELSE [disp EXCEPT ![g].state = "dead"]
  /\ UNCHANGED <<client, call, does, compatible, bridge, spawned, answer, ran, kills>>

\* Mutant: the loop polls at the end of the file.
Quit_Polls(g) == /\ disp[g].state = "ready" /\ disp[g].in = <<>> /\ ~disp[g].open
                 /\ UNCHANGED vars

\* End of file on standard input ends the loop.
Quit(g) == /\ disp[g].state = "ready" /\ disp[g].in = <<>> /\ ~disp[g].open
           /\ disp' = [disp EXCEPT ![g].state = "dead"]
           /\ UNCHANGED <<client, call, does, compatible, bridge, spawned, answer, ran, kills>>

\* The dispatcher is killed, perhaps in the middle of a frame.
Kill(g) == /\ disp[g].state \in {"booting", "ready", "running", "answering"}
           /\ kills < MaxKills
           /\ kills' = kills + 1
           /\ \/ disp' = [disp EXCEPT ![g].state = "dead", ![g].in = <<>>]
              \/ /\ disp[g].state = "answering"
                 /\ disp' = [disp EXCEPT ![g].state = "dead", ![g].in = <<>>,
                      ![g].out = Append(@, [Frame(FrameOf[does[disp[g].job]], disp[g].job)
                                              EXCEPT !.whole = FALSE])]
           /\ UNCHANGED <<client, call, does, compatible, bridge, spawned, answer, ran>>

ClientStep == Call \/ Spawn \/ Handshake \/ Send \/ Receive \/ Finish
DispatcherStep(g) == Boot(g) \/ Take(g) \/ Execute(g) \/ Respond(g) \/ Quit(g)

Next == \/ ClientStep \/ KillClient
        \/ \E g \in Dispatchers : DispatcherStep(g) \/ Kill(g)

Spec == Init /\ [][Next]_vars

\* Two processes of the operating system: each keeps running while it can.
FairSpec == /\ Spec
            /\ WF_vars(ClientStep)
            /\ \A g \in Dispatchers : WF_vars(DispatcherStep(g))

-----------------------------------------------------------------------------
\* Types of the client, the dispatchers and the answers.
BridgeTypeOK ==
  /\ client \in {"idle", "spawn", "handshake", "send", "receive", "ended"}
  /\ call \in 0..MaxCalls /\ spawned \in 0..MaxSpawns /\ bridge \in 0..spawned
  /\ does \in [Calls -> Behaviours] /\ compatible \in BOOLEAN
  /\ disp \in [Dispatchers -> Process]
  /\ answer \in [Calls -> Answer]
  /\ ran \in Seq(Calls \X Dispatchers)
  /\ kills \in 0..MaxKills

\* Whatever died or failed before, a value or an error returned to a call is
\* the one produced for this call: frames and calls never get out of step.
AnswersMatch ==
  \A k \in Calls : answer[k].outcome \in {"ok", "error", "malformed"} =>
    /\ answer[k].value = k
    /\ answer[k].outcome = "ok" <=> does[k] = "returns"

\* No delegated function runs twice for one call, even when its dispatcher
\* died before the answer arrived.
AtMostOnce ==
  \A i, j \in DOMAIN ran : i # j => ran[i][1] # ran[j][1]

\* Two calls that succeeded in different dispatchers, so that the second does
\* not see the Python state of the first, have a failed call between them.
StateLossReported ==
  \A i, j \in DOMAIN ran :
    /\ i < j /\ ran[i][2] # ran[j][2]
    /\ answer[ran[i][1]].outcome = "ok" /\ answer[ran[j][1]].outcome = "ok"
    => \E k \in Calls : /\ ran[i][1] < k /\ k < ran[j][1]
                        /\ answer[k].outcome \in {"dead", "unavailable"}

\* After a call whose function asked the process to exit with a portable code
\* the program goes on only if it was told that the call could not be made.
ExitNotSwallowed ==
  \A k \in Calls : does[k] = "exits" /\ (k < call \/ (client = "idle" /\ k = call))
                     => answer[k].outcome \in {"dead", "unavailable"}

\* Nothing that a dispatcher's end takes with it is hidden from the program:
\* neither lost Python state nor a requested exit.
LossReported == StateLossReported /\ ExitNotSwallowed

Answered(k) == call = k /\ client # "idle" ~> answer[k].outcome # "none" \/ client = "ended"

\* Every delegated call is answered, or the program ends with it, whatever dies
\* on the other side; only a function that reads standard input is left out.
CallsAnswered == \A k \in Calls : does[k] # "reads" => Answered(k)

\* When the binary ends, killed or not, and when a dispatcher is dropped, no
\* dispatcher is left behind, even one that waits for input.
NoOrphans ==
  \A g \in Dispatchers : disp[g].state # "off" /\ ~disp[g].open ~> disp[g].state = "dead"

=============================================================================

------------------------------ MODULE WriteOnce ------------------------------
(***************************************************************************)
(* What the two publication sinks of build/full_c6_publication.py promise: *)
(* one name in a directory that calls set at most once and never replace.  *)
(* A call asks for a content.  It either sets the name itself or finds the *)
(* name already holding exactly that content, and only then may it return  *)
(* a receipt; otherwise it fails, or is lost with the process or an        *)
(* asynchronous exception before it can answer.  The name can also be      *)
(* emptied from outside, and a loss of power can undo what was not durable.*)
(***************************************************************************)
CONSTANTS Call,           \* invocations of the sink, each used once
          Content,        \* the contents a call may ask for
          Nothing,        \* the name does not exist
          Alien,          \* the name holds something no call may write
          FailsLate       \* may a call that set the name itself still fail

VARIABLES content,        \* what the name holds
          asked,          \* what each call asked for
          status          \* how far each call is

abstractVars == <<content, asked, status>>

Running == {"calling", "committed", "observed"}

Move(c, from, to) == /\ status[c] = from
                     /\ status' = [status EXCEPT ![c] = to]

Init == /\ content \in Content \cup {Nothing, Alien}
        /\ asked \in [Call -> Content]
        /\ status = [c \in Call |-> "idle"]

Ask(c) == Move(c, "idle", "calling") /\ UNCHANGED <<content, asked>>

Commit(c) == /\ content = Nothing
             /\ content' = asked[c]
             /\ Move(c, "calling", "committed")
             /\ UNCHANGED asked

Observe(c) == /\ content = asked[c]
              /\ Move(c, "calling", "observed")
              /\ UNCHANGED <<content, asked>>

Acknowledge(c) == /\ \/ Move(c, "committed", "receipt")
                     \/ Move(c, "observed", "receipt")
                  /\ UNCHANGED <<content, asked>>

Refuse(c) == /\ \/ Move(c, "calling", "failed")
                \/ Move(c, "observed", "failed")
                \/ FailsLate /\ Move(c, "committed", "failed")
             /\ UNCHANGED <<content, asked>>

Lose(c) == /\ status[c] \in Running
           /\ status' = [status EXCEPT ![c] = "lost"]
           /\ UNCHANGED <<content, asked>>

Withdraw == /\ content' = Nothing
            /\ UNCHANGED <<asked, status>>

PowerLoss == /\ content' \in {content, Nothing}
             /\ status' = [c \in Call |-> IF status[c] \in Running
                                            THEN "lost" ELSE status[c]]
             /\ UNCHANGED asked

Next == \/ \E c \in Call : \/ Ask(c) \/ Commit(c) \/ Observe(c)
                           \/ Acknowledge(c) \/ Refuse(c) \/ Lose(c)
        \/ Withdraw
        \/ PowerLoss

Spec == Init /\ [][Next]_abstractVars

=============================================================================

-------------------------------- MODULE Rpc ---------------------------------
(***************************************************************************)
(* What the connection of taskmasterctl with the daemon promises: a client *)
(* has one command under way at a time, the daemon executes each command   *)
(* once at most, and an answer is the answer to the last command, which    *)
(* was executed.  A client may leave at any time, also with a command      *)
(* under way, which may then be executed or not.                           *)
(***************************************************************************)
EXTENDS Integers

CONSTANT Clients

VARIABLES client,    \* Clients -> {"idle", "calling", "left"}
          asked,     \* Clients -> commands so far
          executed,  \* Clients -> of these, how many the daemon executed
          answered   \* Clients -> the number of the last command answered

vars == <<client, asked, executed, answered>>

Zero == [c \in Clients |-> 0]

Init == /\ client = [c \in Clients |-> "idle"]
        /\ asked = Zero
        /\ executed = Zero
        /\ answered = Zero

Ask(c) == /\ client[c] = "idle"
          /\ client' = [client EXCEPT ![c] = "calling"]
          /\ asked' = [asked EXCEPT ![c] = @ + 1]
          /\ UNCHANGED <<executed, answered>>

Execute(c) == /\ executed[c] < asked[c]
              /\ executed' = [executed EXCEPT ![c] = @ + 1]
              /\ UNCHANGED <<client, asked, answered>>

Answer(c) == /\ client[c] = "calling"
             /\ executed[c] = asked[c]
             /\ client' = [client EXCEPT ![c] = "idle"]
             /\ answered' = [answered EXCEPT ![c] = asked[c]]
             /\ UNCHANGED <<asked, executed>>

Leave(c) == /\ client[c] # "left"
            /\ client' = [client EXCEPT ![c] = "left"]
            /\ UNCHANGED <<asked, executed, answered>>

Next == \E c \in Clients : Ask(c) \/ Execute(c) \/ Answer(c) \/ Leave(c)

Spec == Init /\ [][Next]_vars
=============================================================================

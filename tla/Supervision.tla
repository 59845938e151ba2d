---------------------------- MODULE Supervision -----------------------------
(***************************************************************************)
(* What a job promises to the user of start, stop and restart, whatever    *)
(* its timers, retries and callbacks do: without a command a process comes *)
(* into being only in the place of one that has gone, while the job is     *)
(* wanted; once it is not, every process that is left was told to stop.    *)
(***************************************************************************)
EXTENDS Naturals

VARIABLES asked,   \* the commands so far
          wanted,  \* whether the job should be up
          live,    \* the processes that have a child
          told     \* those of them that were told to stop

vars == <<asked, wanted, live, told>>

Init == /\ asked = 0
        /\ wanted = FALSE
        /\ live = {}
        /\ told = {}

\* The job is wanted from now on; processes that are down may come up.
Start == /\ asked' = asked + 1
         /\ wanted'
         /\ live \subseteq live'
         /\ told' = told

\* Nobody is forgotten, and nobody comes up.
Stop == /\ asked' = asked + 1
        /\ ~wanted'
        /\ live' = live
        /\ told' = live

\* Who is up goes down first.
Restart == /\ asked' = asked + 1
           /\ wanted'
           /\ live \subseteq live'
           /\ told' = live

\* Process i is gone, and a wanted job may have it replaced at once.
Gone(i) == /\ live' = live \ {i} \/ (wanted /\ live' = live)
           /\ told' = told \ {i}
           /\ UNCHANGED <<asked, wanted>>

\* The last one is gone, and with it the job.
LastGone(i) == /\ live = {i}
               /\ ~wanted'
               /\ live' = {}
               /\ told' = {}
               /\ UNCHANGED asked

Next == \/ Start
        \/ Stop
        \/ Restart
        \/ \E i \in live : Gone(i) \/ LastGone(i)

Spec == Init /\ [][Next]_vars
=============================================================================

------------------------------ MODULE MainLoop ------------------------------
(***************************************************************************)
(* The loop of the daemon's main, EventManager::handleEvents as far as     *)
(* main sees it, and the signal handler, which writes g_state at any       *)
(* point of the loop.                                                      *)
(***************************************************************************)
EXTENDS Naturals

CONSTANT MaxSignals   \* bound on the signals that the daemon catches

ASSUME SignalsAssumption == MaxSignals \in Nat

VARIABLES g_state,  \* "RUNNING", "RELOAD" or "TERMINATED"
          at,       \* where main is
          due,      \* the connections with an event left in this batch
          signals,  \* signals caught so far
          lost,     \* history: the last TERMINATED was overwritten before main saw it
          slipped   \* history: a signal came too late to interrupt this epoll_wait

loop == <<g_state, at, due, signals, lost, slipped>>

States == {"RUNNING", "RELOAD", "TERMINATED"}
Caught == {"SIGHUP", "SIGINT", "SIGQUIT"}

(***************************************************************************)
(* "top" is the test of g_state, "gap" what lies between that test and the *)
(* wait of epoll_wait, "batch" the callbacks of the events it returned.    *)
(***************************************************************************)
Places == {"top", "gap", "waiting", "batch", "reloading", "gone"}

LoopInit == /\ g_state = "RUNNING"
            /\ at = "top"
            /\ due = {}
            /\ signals = 0
            /\ lost = FALSE
            /\ slipped = FALSE

\* main, and with it the Server: ~Server runs when main leaves its loop.
Serving == at # "gone"

----------------------------------------------------------------------------
\* The switch on g_state of the two cases that stay in the loop.
Switch == /\ at = "top"
          /\ g_state # "TERMINATED"
          /\ at' = IF g_state = "RUNNING" THEN "gap" ELSE "reloading"
          /\ UNCHANGED <<g_state, due, signals, lost, slipped>>

LeaveLoop == /\ at = "top"
             /\ g_state = "TERMINATED"
             /\ at' = "gone"
             /\ UNCHANGED <<g_state, due, signals, lost, slipped>>

EpollWait == /\ at = "gap"
             /\ at' = "waiting"
             /\ UNCHANGED <<g_state, due, signals, lost, slipped>>

(***************************************************************************)
(* epoll_wait returns the connections that are ready, or only timers and   *)
(* processes.                                                              *)
(***************************************************************************)
WakeUp(ready) == /\ at = "waiting"
                 /\ at' = "batch"
                 /\ due' = ready
                 /\ slipped' = FALSE
                 /\ UNCHANGED <<g_state, signals, lost>>

\* A callback of the batch; the one that has written the response to a terminate
\* leaves TERMINATED in g_state.
Callback(c, terminates) ==
    /\ at = "batch"
    /\ c \in due
    /\ due' = due \ {c}
    /\ g_state' = IF terminates THEN "TERMINATED" ELSE g_state
    /\ lost' = (lost /\ ~terminates)
    /\ UNCHANGED <<at, signals, slipped>>

\* The batch is over: manager.update(), and back to the top.
EndBatch == /\ at = "batch"
            /\ due = {}
            /\ at' = "top"
            /\ UNCHANGED <<g_state, due, signals, lost, slipped>>

\* manager.reload() returns, and whatever g_state is by now becomes RUNNING.
FinishReload == /\ at = "reloading"
                /\ at' = "top"
                /\ lost' = (lost \/ g_state = "TERMINATED")
                /\ g_state' = "RUNNING"
                /\ UNCHANGED <<due, signals, slipped>>

\* An exception of update() or reload() leaves main.
ThrowOut == /\ at \in {"batch", "reloading"}
            /\ due = {}
            /\ at' = "gone"
            /\ UNCHANGED <<g_state, due, signals, lost, slipped>>

\* Mutant: handleEvents waits again after EINTR.
RetryWait(signum) ==
    /\ Serving
    /\ signals < MaxSignals
    /\ signals' = signals + 1
    /\ g_state' = IF signum = "SIGHUP" THEN "RELOAD" ELSE "TERMINATED"
    /\ lost' = (signum = "SIGHUP" /\ (lost \/ g_state = "TERMINATED"))
    /\ slipped' = (at = "gap" \/ slipped)
    /\ UNCHANGED <<at, due>>

\* signalHandler, in the middle of anything; only a wait is interrupted (EINTR).
SignalHandler(signum) ==
    /\ Serving
    /\ signals < MaxSignals
    /\ signals' = signals + 1
    /\ g_state' = IF signum = "SIGHUP" THEN "RELOAD" ELSE "TERMINATED"
    /\ at' = IF at = "waiting" THEN "top" ELSE at
    /\ lost' = (signum = "SIGHUP" /\ (lost \/ g_state = "TERMINATED"))
    /\ slipped' = (at = "gap" \/ (slipped /\ at # "waiting"))
    /\ UNCHANGED due

LoopTypeOK == /\ g_state \in States
              /\ at \in Places
              /\ signals \in 0..MaxSignals
              /\ lost \in BOOLEAN
              /\ slipped \in BOOLEAN

(***************************************************************************)
(* A g_state of TERMINATED, set by SIGINT, by SIGQUIT or by a terminate    *)
(* command, ends the daemon, but for the two windows the loop has: another *)
(* write to g_state before the next test of it (a SIGHUP, or the end of a  *)
(* reload that was under way), and a signal between the test and           *)
(* epoll_wait, which waits for the next event to be noticed.               *)
(***************************************************************************)
TerminatedEnds == g_state = "TERMINATED" ~> (~Serving \/ lost \/ slipped)
=============================================================================

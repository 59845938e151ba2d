-------------------------------- MODULE Job --------------------------------
(***************************************************************************)
(* A Job of taskmasterd: the vector of its Process objects, the state they *)
(* share, and the methods that the commands, the timers and the deaths of  *)
(* the children call.                                                      *)
(*                                                                         *)
(* The operators are pure: each takes the record of a job and returns the  *)
(* record after the whole method, the calls it makes on its processes, the *)
(* callbacks these make and JobManager::onStop included.  A method that    *)
(* throws keeps what it did before it threw, and ...Throws tells so.       *)
(***************************************************************************)
EXTENDS Process

JobState == {"EMPTY", "STARTING", "RUNNING", "STOPPING", "STOPPED", "REPLACE", "REMOVE"}

Job == [state : JobState, procs : Seq(Process), config : JobConfig]

NewJob(config) == [state |-> "EMPTY", procs |-> <<>>, config |-> config]

(***************************************************************************)
(* What JobManager::onStop does with a job that has stopped: leave it,     *)
(* mark it for replacement, or mark it for removal.                        *)
(***************************************************************************)
Fates == {"keep", "replace", "remove"}

Marked(state, fate) ==
    CASE fate = "keep"    -> state
      [] fate = "replace" -> "REPLACE"
      [] fate = "remove"  -> "REMOVE"

\* Job::allProcessesInStates
AllProcessesInStates(procs, states) == \A i \in DOMAIN procs : procs[i].state \in states

(***************************************************************************)
(* A method that loops over the processes meets one failing system call at *)
(* most, since the exception leaves the loop: the process it strikes and   *)
(* the call that fails.  A process is reached when none before it threw.   *)
(***************************************************************************)
NoFailure == [at |-> 0, how |-> "ok"]
Failures(n) == {NoFailure} \cup [at : 1..n, how : Faults]

OutcomeAt(failure, i) == IF i = failure.at THEN failure.how ELSE "ok"

Reached(throwers, i) == \A h \in throwers : i <= h

----------------------------------------------------------------------------
(***************************************************************************)
(* Job::stop.  A process that has exited calls Job::onStop from inside the *)
(* loop, which may find that every process is STOPPED.                     *)
(***************************************************************************)
StopThrowers(j, failure) ==
    {i \in DOMAIN j.procs : StopResult(j.procs[i], j.config, OutcomeAt(failure, i)) # "ok"}

\* Mutant: a process that is STARTING is not told to stop.
StopRunning(j, failure) ==
    [i \in DOMAIN j.procs |->
        IF j.procs[i].state = "STARTING" \/ ~Reached(StopThrowers(j, failure), i)
        THEN j.procs[i]
        ELSE Stop(j.procs[i], j.config, OutcomeAt(failure, i))]

StopAll(j, failure) ==
    [i \in DOMAIN j.procs |->
        IF Reached(StopThrowers(j, failure), i)
        THEN Stop(j.procs[i], j.config, OutcomeAt(failure, i))
        ELSE j.procs[i]]

IgnoresStop(j) == j.state \in {"STOPPING", "EMPTY", "STOPPED"}

JobStopThrows(j, failure) == ~IgnoresStop(j) /\ StopThrowers(j, failure) # {}

\* Mutant: the case STOPPING of Job::stop falls through to the next one.
JobStopFallsThrough(j, failure, fate) ==
    IF IgnoresStop(j) THEN [j EXCEPT !.state = Marked(@, fate)]
    ELSE [j EXCEPT !.procs = StopAll(j, failure), !.state = "STOPPING"]

JobStop(j, failure, fate) ==
    LET procs == StopAll(j, failure)
        calledBack == \E i \in DOMAIN j.procs : HasExited(j.procs[i])
                                               /\ Reached(StopThrowers(j, failure), i)
        allStopped == calledBack /\ AllProcessesInStates(procs, {"STOPPED"})
    IN  CASE j.state = "STOPPING"            -> j
          [] j.state \in {"EMPTY", "STOPPED"} -> [j EXCEPT !.state = Marked(@, fate)]
          [] OTHER -> [j EXCEPT !.procs = procs,
                                !.state = IF allStopped THEN Marked("STOPPED", fate)
                                                        ELSE "STOPPING"]

----------------------------------------------------------------------------
(***************************************************************************)
(* Job::restartProcesses: the retry count of every process is reset, and   *)
(* the processes that are down are started.                                *)
(***************************************************************************)
IsDown(p) == p.state \in RestartableStates

RestartThrowers(j, failure) ==
    {i \in DOMAIN j.procs : /\ IsDown(j.procs[i])
                            /\ StartResult(j.config, OutcomeAt(failure, i)) # "ok"}

\* Mutant: the timer is reset together with the retry count.
RestartProcessClearsTimer(p, config, outcome) ==
    LET reset == [p EXCEPT !.restarts = 0, !.timer = "none"]
    IN  IF IsDown(p) THEN Start(reset, config, outcome) ELSE reset

RestartProcess(p, config, outcome) ==
    LET reset == [p EXCEPT !.restarts = 0]
    IN  IF IsDown(p) THEN Start(reset, config, outcome) ELSE reset

RestartProcesses(j, failure) ==
    [i \in DOMAIN j.procs |->
        IF Reached(RestartThrowers(j, failure), i)
        THEN RestartProcess(j.procs[i], j.config, OutcomeAt(failure, i))
        ELSE j.procs[i]]

(***************************************************************************)
(* Job::startProcesses appends a process per loop, also to what an earlier *)
(* start that threw left behind.  CreateThrows: reserve() of a negative    *)
(* number, or one of the starts.                                           *)
(***************************************************************************)
NeverStarts(config) == HasNoArgv(config) \/ IntervalRejected(config.start_time)

CreateThrows(j, failure) ==
    \/ j.config.numprocs < 0
    \/ j.config.numprocs > 0 /\ NeverStarts(j.config)
    \/ failure.at \in 1..j.config.numprocs

CreatedCount(j, failure) ==
    CASE j.config.numprocs <= 0 -> 0
      [] j.config.numprocs > 0 ->
            IF NeverStarts(j.config) THEN 1
            ELSE IF failure.at \in 1..j.config.numprocs THEN failure.at
            ELSE j.config.numprocs

StartProcesses(j, failure) ==
    j.procs \o [i \in 1..CreatedCount(j, failure) |->
                   Start(NewProcess, j.config, OutcomeAt(failure, i))]

(***************************************************************************)
(* Job::start.  In any state the job is STARTING afterwards, unless a      *)
(* process could not be started.                                           *)
(***************************************************************************)
JobStartThrows(j, failure) ==
    \/ j.state \in {"STOPPING", "STOPPED"} /\ RestartThrowers(j, failure) # {}
    \/ j.state = "EMPTY" /\ CreateThrows(j, failure)

JobStart(j, failure) ==
    LET state == IF JobStartThrows(j, failure) THEN j.state ELSE "STARTING"
    IN  CASE j.state \in {"STOPPING", "STOPPED"} ->
                [j EXCEPT !.procs = RestartProcesses(j, failure), !.state = state]
          [] j.state = "EMPTY" ->
                [j EXCEPT !.procs = StartProcesses(j, failure), !.state = state]
          [] OTHER -> [j EXCEPT !.state = state]

(***************************************************************************)
(* JobManager::restart of a job: an exception of stop() leaves it before   *)
(* start() is called.                                                      *)
(***************************************************************************)
JobRestart(j, stopFailure, startFailure, fate) ==
    LET stopped == JobStop(j, stopFailure, fate)
    IN  IF JobStopThrows(j, stopFailure) THEN stopped ELSE JobStart(stopped, startFailure)

----------------------------------------------------------------------------
(***************************************************************************)
(* What the event loop waits for: the pidfd of a dead child is readable,   *)
(* and a registered timer with a positive interval expires.                *)
(***************************************************************************)
ExitReady(p) == p.watched /\ p.child \in Zombie
StartTimeReady(j, i) == j.procs[i].timer = "start" /\ Expires(j.config.start_time)
StopTimeReady(j, i) == j.procs[i].timer = "kill" /\ Expires(j.config.stop_time)

(***************************************************************************)
(* How a child may end: by itself with some exit code, by the signal it    *)
(* was sent, or, if crashes happen, by a signal nobody asked for.          *)
(***************************************************************************)
Endings(p, crashes) ==
    CASE p.child \notin {"alive", "dying"} -> {}
      [] p.child \in {"alive", "dying"} ->
            {status \in Zombie : status = "signalled" =>
                                  crashes \/ p.child = "dying" \/ p.state = "STOPPING"}

(***************************************************************************)
(* Job::onExit: process i left by itself, with an exit code that the       *)
(* config expects or not.  The retries of ON_FAILURE are counted even when *)
(* the exit was expected.  JobManager::onStop is not told that the job     *)
(* stopped.                                                                *)
(***************************************************************************)
Retries(j, i, status) ==
    /\ j.procs[i].restarts # j.config.start_retries
    /\ \/ j.config.restart_policy = "ALWAYS"
       \/ j.config.restart_policy = "ON_FAILURE" /\ status # "expected"

\* Mutant: the retries are counted down.
AddRestartDown(p, config) ==
    IF config.restart_policy # "NEVER" THEN [p EXCEPT !.restarts = @ - 1] ELSE p

\* Mutant: the retries of ALWAYS are not counted.
AddRestartOnFailure(p, config) ==
    IF p.restarts # config.start_retries /\ config.restart_policy = "ON_FAILURE"
    THEN [p EXCEPT !.restarts = @ + 1]
    ELSE p

\* Mutant: the retries are counted before they are compared with the limit.
AddRestartAlways(p, config) ==
    IF config.restart_policy # "NEVER" THEN [p EXCEPT !.restarts = @ + 1] ELSE p

AddRestart(p, config) ==
    IF p.restarts # config.start_retries /\ config.restart_policy # "NEVER"
    THEN [p EXCEPT !.restarts = @ + 1]
    ELSE p

\* Mutant: only the exit of a process without retries left may stop the job.
JobOnExitUnseen(j, i, status, outcome) ==
    LET p == AddRestart(j.procs[i], j.config)
    IN  IF Retries(j, i, status)
        THEN [j EXCEPT !.state = "STARTING", !.procs[i] = Start(p, j.config, outcome)]
        ELSE [j EXCEPT !.procs[i] = p,
                       !.state = IF /\ j.procs[i].restarts = j.config.start_retries
                                    /\ AllProcessesInStates(j.procs, RestartableStates)
                                 THEN "STOPPED" ELSE @]

JobOnExit(j, i, status, outcome) ==
    LET p == AddRestart(j.procs[i], j.config)
    IN  IF Retries(j, i, status)
        THEN [j EXCEPT !.state = "STARTING", !.procs[i] = Start(p, j.config, outcome)]
        ELSE [j EXCEPT !.procs[i] = p,
                       !.state = IF AllProcessesInStates(j.procs, RestartableStates)
                                 THEN "STOPPED" ELSE @]

\* Mutant: the first process that stops makes the job STOPPED.
JobOnFirstStop(j, i, outcome, fate) ==
    CASE j.state = "STARTING" -> [j EXCEPT !.procs[i] = Start(@, j.config, outcome)]
      [] j.state = "STOPPING" -> [j EXCEPT !.state = Marked("STOPPED", fate)]
      [] OTHER -> j

\* Mutant: a job that is always restarted is so while it is STOPPING.
JobOnStopRestarts(j, i, outcome, fate) ==
    IF j.state = "STARTING" \/ j.config.restart_policy = "ALWAYS"
    THEN [j EXCEPT !.procs[i] = Start(@, j.config, outcome)]
    ELSE j

(***************************************************************************)
(* Job::onStop: process i is STOPPED.  A job that is STARTING starts it    *)
(* again, whatever stopped it; a job that is neither STARTING nor STOPPING *)
(* only logs.                                                              *)
(***************************************************************************)
JobOnStop(j, i, outcome, fate) ==
    CASE j.state = "STARTING" -> [j EXCEPT !.procs[i] = Start(@, j.config, outcome)]
      [] j.state = "STOPPING" ->
            IF AllProcessesInStates(j.procs, {"STOPPED"})
            THEN [j EXCEPT !.state = Marked("STOPPED", fate)]
            ELSE j
      [] OTHER -> j

(***************************************************************************)
(* Process::onStateChange with the callback of Process::onExit or          *)
(* Process::onForcedExit.                                                  *)
(***************************************************************************)
OnStateChange(j, i, outcome, fate) ==
    LET p == j.procs[i]
        dead == [j EXCEPT !.procs[i] = [Reaped(p) EXCEPT !.state = StateAfterDeath(p)]]
        stopped == p.child = "signalled" \/ p.state = "STOPPING"
    IN  CASE stopped -> JobOnStop(dead, i, outcome, fate)
          [] ~stopped /\ p.state \in {"STARTING", "RUNNING"} ->
                JobOnExit(dead, i, p.child, outcome)
          [] OTHER -> dead

(***************************************************************************)
(* Process::onStartTime with Job::onProcessSurpassedStartTime: whatever    *)
(* the job was doing, it is RUNNING once all its processes are.            *)
(***************************************************************************)
OnProcessSurpassedStartTime(j, i) ==
    LET k == [j EXCEPT !.procs[i] = OnStartTime(@)]
    IN  IF AllProcessesInStates(k.procs, {"RUNNING"}) THEN [k EXCEPT !.state = "RUNNING"] ELSE k

\* The kill timer of process i expires.
OnStopTime(j, i) == [j EXCEPT !.procs[i] = OnKillTime(@)]
============================================================================

----------------------------- MODULE SingleJob -----------------------------
(***************************************************************************)
(* One job under the commands of the clients, the deaths of its children   *)
(* and its timers, in every order the event loop can meet them.  The       *)
(* daemon is single threaded, so a callback of the event loop is one step; *)
(* between two of them the children live and die as they please.  The      *)
(* configuration file does not change here: JobManager::onStop keeps the   *)
(* job.                                                                    *)
(***************************************************************************)
EXTENDS Job

CONSTANTS Configs,      \* the configs the job may have
          Crashes,      \* whether a child may die by a signal nobody asked for
          MaxCommands,  \* bound on the commands the clients send
          MaxProcesses  \* bound on the processes that failing starts pile up

ASSUME ConfigsAssumption == Configs \subseteq JobConfig
ASSUME CrashesAssumption == Crashes \in BOOLEAN
ASSUME BoundsAssumption == MaxCommands \in Nat /\ MaxProcesses \in Nat

VARIABLES job,       \* the job
          commands   \* how many commands were handled

vars == <<job, commands>>

Init == /\ job \in {NewJob(c) : c \in Configs}
        /\ commands = 0

----------------------------------------------------------------------------
CountCommand == /\ commands < MaxCommands
                /\ commands' = commands + 1

\* Where a failing call may strike: an existing process, or one yet to be made.
StopFailures == Failures(Len(job.procs))
StartFailures == Failures(IF job.state = "EMPTY" THEN job.config.numprocs ELSE Len(job.procs))

\* Job::startProcesses appends to what an earlier start that threw left behind.
RoomToStart == job.state = "EMPTY" => Len(job.procs) + job.config.numprocs <= MaxProcesses

\* JobManager::start, ::stop and ::restart for the name of this job.
StartCommand == /\ CountCommand
                /\ RoomToStart
                /\ \E failure \in StartFailures : job' = JobStart(job, failure)

StopCommand == /\ CountCommand
               /\ \E failure \in StopFailures : job' = JobStop(job, failure, "keep")

RestartCommand == /\ CountCommand
                  /\ RoomToStart
                  /\ \E f \in StopFailures, g \in StartFailures :
                        job' = JobRestart(job, f, g, "keep")

----------------------------------------------------------------------------
ChildExit(i, status) ==
    /\ status \in Endings(job.procs[i], Crashes)
    /\ job' = [job EXCEPT !.procs[i].child = status]
    /\ UNCHANGED commands

HandleExit(i) ==
    /\ ExitReady(job.procs[i])
    /\ \E outcome \in Outcomes : job' = OnStateChange(job, i, outcome, "keep")
    /\ UNCHANGED commands

HandleStartTime(i) ==
    /\ StartTimeReady(job, i)
    /\ job' = OnProcessSurpassedStartTime(job, i)
    /\ UNCHANGED commands

HandleStopTime(i) ==
    /\ StopTimeReady(job, i)
    /\ job' = OnStopTime(job, i)
    /\ UNCHANGED commands

ProcessStep(i) == \/ \E status \in Zombie : ChildExit(i, status)
                  \/ HandleExit(i)
                  \/ HandleStartTime(i)
                  \/ HandleStopTime(i)

Next == \/ StartCommand
        \/ StopCommand
        \/ RestartCommand
        \/ \E i \in DOMAIN job.procs : ProcessStep(i)

Spec == Init /\ [][Next]_vars

----------------------------------------------------------------------------
(***************************************************************************)
(* Fairness.  The event loop never stops polling: a readable pidfd and an  *)
(* expired timer are handled, and an armed timer expires.  The kernel      *)
(* delivers SIGKILL.  Nothing is assumed of a child that was not killed,   *)
(* nor of the clients.                                                     *)
(***************************************************************************)
Indices == UNION {1..c.numprocs : c \in Configs}  \* all processes, when no start fails

Dies(i) == /\ job.procs[i].child = "dying"
           /\ \E status \in Zombie : ChildExit(i, status)

Fairness == \A i \in Indices :
                /\ WF_vars(i \in DOMAIN job.procs /\ HandleExit(i))
                /\ WF_vars(i \in DOMAIN job.procs /\ HandleStartTime(i))
                /\ WF_vars(i \in DOMAIN job.procs /\ HandleStopTime(i))
                /\ WF_vars(i \in DOMAIN job.procs /\ Dies(i))

FairSpec == Spec /\ Fairness

----------------------------------------------------------------------------
(***************************************************************************)
(* The job is a Job, whatever its processes went through.                  *)
(***************************************************************************)
TypeOK == /\ job \in Job
          /\ job.config \in Configs
          /\ commands \in 0..MaxCommands

(***************************************************************************)
(* A process says STARTING, RUNNING or STOPPING exactly while it has a     *)
(* child that was not waited for, also when system calls fail half way     *)
(* through Process::start or Process::stop.  A violation would be a child  *)
(* forked over one that still runs, or a process waiting for no child.     *)
(***************************************************************************)
ChildMatchesState ==
    \A i \in DOMAIN job.procs :
        job.procs[i].state \in LiveStates <=> job.procs[i].child \in Unreaped

(***************************************************************************)
(* A timer is registered only for a process with a child that was not      *)
(* waited for, the kill timer only for one that is STOPPING: a timer that  *)
(* fires finds the child it was set for (Process::kill would throw).       *)
(***************************************************************************)
TimersFitStates ==
    \A i \in DOMAIN job.procs :
        LET p == job.procs[i]
        IN  /\ p.timer = "start" => p.state \in {"STARTING", "STOPPING"}
            /\ p.timer = "kill"  => p.state = "STOPPING" /\ CanSignal(p)

(***************************************************************************)
(* The retry counter of Job::onExit never passes startretries: it is       *)
(* compared with = and reset by Job::restartProcesses only, so a step past *)
(* the limit would retry for ever.                                         *)
(***************************************************************************)
RestartsBounded ==
    job.config.start_retries >= 0 =>
        \A i \in DOMAIN job.procs : job.procs[i].restarts <= job.config.start_retries

----------------------------------------------------------------------------
(***************************************************************************)
(* From here on no system call fails.                                      *)
(*                                                                         *)
(* A job that says EMPTY or STOPPED has no child left: Job::stop and       *)
(* ~JobManager do nothing for such a job.                                  *)
(***************************************************************************)
StoppedMeansDead ==
    job.state \in {"EMPTY", "STOPPED"} =>
        \A i \in DOMAIN job.procs : job.procs[i].child \notin Unreaped

(***************************************************************************)
(* Every child that was not waited for is watched by the event loop and    *)
(* can be sent a signal: none is lost or left a zombie.                    *)
(***************************************************************************)
LiveChildrenWatched ==
    \A i \in DOMAIN job.procs :
        job.procs[i].child \in Unreaped <=> job.procs[i].watched /\ CanSignal(job.procs[i])

(***************************************************************************)
(* Each live process has the timer its state needs.  A process that is     *)
(* STARTING will be made RUNNING, and one that is STOPPING and lives will  *)
(* be killed, exactly when the time of the config is not 0: Timer::start   *)
(* disarms the timer with it, and then nothing ever does, against          *)
(* Process.hpp ("before forcefully killing it").  The start timer of a     *)
(* process that is STOPPING cannot make it RUNNING again.                  *)
(***************************************************************************)
TimerInPlace ==
    \A i \in DOMAIN job.procs :
        LET p == job.procs[i]
        IN  /\ p.timer = "start" => p.state = "STARTING"
            /\ p.state = "STARTING" =>
                  (StartTimeReady(job, i) <=> Expires(job.config.start_time))
            /\ p.state = "STOPPING" /\ p.child = "alive" =>
                  (StopTimeReady(job, i) <=> Expires(job.config.stop_time))

(***************************************************************************)
(* A child that is forked without a command costs a retry, and only two    *)
(* deaths are free: one that a restart asked for, and one by a signal,     *)
(* which Job::onStop of a STARTING job answers with a start that is not    *)
(* counted (a command that crashes at once is started for ever).           *)
(***************************************************************************)
Forks(i) == job.procs[i].child # "alive" /\ job'.procs[i].child = "alive"

RetriesAreCounted ==
    [][commands' = commands =>
          \A i \in DOMAIN job.procs :
              Forks(i) => \/ job.procs[i].state = "STOPPING"
                          \/ job.procs[i].child = "signalled" /\ job.state = "STARTING"
                          \/ job'.procs[i].restarts = job.procs[i].restarts + 1]_vars

----------------------------------------------------------------------------
(***************************************************************************)
(* From here on no child crashes either.                                   *)
(*                                                                         *)
(* A job that is STOPPING still waits for a child, so that the death of    *)
(* that child can move it on; no process of it runs on unsignalled.        *)
(***************************************************************************)
StoppingWaits ==
    job.state = "STOPPING" =>
        /\ \E i \in DOMAIN job.procs : job.procs[i].state = "STOPPING"
        /\ AllProcessesInStates(job.procs, {"STOPPING", "STOPPED"})

(***************************************************************************)
(* Job.hpp has "RUNNING,  // the job is running all its processes".  The   *)
(* code keeps that up to the end of the first of them; from there on a job *)
(* that says RUNNING still has a process that runs, and the others ran and *)
(* have EXITED for good: none starts, none stops, and the exit of the last *)
(* one is not overlooked.                                                  *)
(***************************************************************************)
RunningRuns ==
    job.state = "RUNNING" =>
        /\ \E i \in DOMAIN job.procs : job.procs[i].state = "RUNNING"
        /\ AllProcessesInStates(job.procs, {"RUNNING", "EXITED"})

(***************************************************************************)
(* Job.hpp, on Job::stop: "Stop all running processes in the job."  The    *)
(* step that takes a job to STOPPING signals every process that is up.     *)
(***************************************************************************)
StopReachesAll ==
    [][job.state # "STOPPING" /\ job'.state = "STOPPING" =>
          \A i \in DOMAIN job.procs :
              job.procs[i].state \in LiveStates => job'.procs[i].state = "STOPPING"]_vars

(***************************************************************************)
(* While a job is STOPPING nothing but a command of a client forks a child *)
(* for it, whatever its restart policy.                                    *)
(***************************************************************************)
StopWins ==
    [][job.state = "STOPPING" /\ commands' = commands =>
          \A i \in DOMAIN job.procs :
              job'.procs[i].child = "alive" => job.procs[i].child = "alive"]_vars

(***************************************************************************)
(* The job does what Supervision says: through every retry, restart, timer *)
(* and late exit, a child is forked only for a job that is STARTING or     *)
(* RUNNING, and one that is STOPPED or STOPPING has told all that is left  *)
(* of it to stop.                                                          *)
(***************************************************************************)
Promise == INSTANCE Supervision WITH
        asked  <- commands,
        wanted <- job.state \in {"STARTING", "RUNNING"},
        live   <- {i \in DOMAIN job.procs : job.procs[i].child \in Unreaped},
        told   <- {i \in DOMAIN job.procs : job.procs[i].state = "STOPPING"}

ImplementsSupervision == Promise!Spec

(***************************************************************************)
(* A stop completes: the job is STOPPED in the end, by SIGKILL if need be, *)
(* unless a client starts it again.                                        *)
(***************************************************************************)
StopCompletes == job.state = "STOPPING" ~> job.state \in {"STOPPED", "STARTING"}

(***************************************************************************)
(* A process that was told to stop is gone after a while, even when a      *)
(* restart has made its job STARTING meanwhile; it may then be a new one.  *)
(***************************************************************************)
ProcessStops ==
    \A i \in Indices :
        LET stopping == i \in DOMAIN job.procs /\ job.procs[i].state = "STOPPING"
        IN  stopping ~> ~stopping
============================================================================

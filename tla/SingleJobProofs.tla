-------------------------- MODULE SingleJobProofs --------------------------
(***************************************************************************)
(* Proofs about SingleJob, for every set of configs, every set of failing  *)
(* system calls and every bound.                                           *)
(***************************************************************************)
EXTENDS SingleJob, JobProofs

USE DEF LiveStates, RestartableStates, Unreaped, Zombie

----------------------------------------------------------------------------
(***************************************************************************)
(* The inductive invariant, and what it implies.                           *)
(***************************************************************************)
Inv == /\ JobOK(job)
       /\ job.config \in Configs
       /\ commands \in 0..MaxCommands

LEMMA InitInv == Init => Inv
PROOF
    <1> SUFFICES ASSUME Init  PROVE Inv
        OBVIOUS
    <1>1. PICK c \in Configs : job = NewJob(c)
        BY DEF Init
    <1>2. job \in Job /\ DOMAIN job.procs = {} /\ job.config = c
        BY <1>1, ConfigsAssumption, EmptySeq DEF NewJob, Job, JobState
    <1> QED
        BY <1>2, BoundsAssumption DEF Init, Inv, JobOK

LEMMA NextInv == Inv /\ [Next]_vars => Inv'
PROOF
    <1> SUFFICES ASSUME Inv, [Next]_vars  PROVE Inv'
        OBVIOUS
    <1>0. JobOK(job) /\ job.config \in Configs /\ commands \in 0..MaxCommands
        BY DEF Inv
    <1>a. "keep" \in Fates
        BY DEF Fates
    <1>b. ASSUME CountCommand  PROVE commands' \in 0..MaxCommands
        BY <1>0, <1>b, BoundsAssumption DEF CountCommand
    <1>1. CASE StartCommand
        <2>1. PICK failure \in StartFailures : job' = JobStart(job, failure)
            BY <1>1 DEF StartCommand
        <2>2. JobOK(job') /\ job'.config = job.config
            BY <1>0, <2>1, JobStartOK
        <2> QED
            BY <1>0, <1>1, <1>b, <2>2 DEF StartCommand, Inv, JobOK
    <1>2. CASE StopCommand
        <2>1. PICK failure \in StopFailures : job' = JobStop(job, failure, "keep")
            BY <1>2 DEF StopCommand
        <2>2. JobOK(job') /\ job'.config = job.config
            BY <1>0, <1>a, <2>1, JobStopOK
        <2> QED
            BY <1>0, <1>2, <1>b, <2>2 DEF StopCommand, Inv, JobOK
    <1>3. CASE RestartCommand
        <2>1. PICK f \in StopFailures, g \in StartFailures : job' = JobRestart(job, f, g, "keep")
            BY <1>3 DEF RestartCommand
        <2>2. JobOK(job') /\ job'.config = job.config
            BY <1>0, <1>a, <2>1, JobRestartOK
        <2> QED
            BY <1>0, <1>3, <1>b, <2>2 DEF RestartCommand, Inv, JobOK
    <1>4. ASSUME NEW i \in DOMAIN job.procs, ProcessStep(i)  PROVE Inv'
        <2>1. ASSUME NEW status \in Zombie, ChildExit(i, status) 
              PROVE  JobOK(job') /\ job'.config = job.config
            BY <1>0, <2>1, ChildExitOK DEF ChildExit
        <2>2. CASE HandleExit(i)
            <3>1. PICK outcome \in Outcomes : job' = OnStateChange(job, i, outcome, "keep")
                BY <2>2 DEF HandleExit
            <3>2. job.procs[i].child \in Zombie
                BY <2>2 DEF HandleExit, ExitReady
            <3>3. JobOK(job') /\ job'.config = job.config
                BY <1>0, <1>a, <3>1, <3>2, OnStateChangeOK
            <3> QED
                BY <1>0, <2>2, <3>3 DEF HandleExit, Inv, JobOK
        <2>3. CASE HandleStartTime(i)
            <3>1. JobOK(job') /\ job'.config = job.config
                BY <1>0, <2>3, OnProcessSurpassedStartTimeOK DEF HandleStartTime, StartTimeReady
            <3> QED
                BY <1>0, <2>3, <3>1 DEF HandleStartTime, Inv, JobOK
        <2>4. CASE HandleStopTime(i)
            <3>1. JobOK(job') /\ job'.config = job.config
                BY <1>0, <2>4, OnStopTimeOK DEF HandleStopTime, StopTimeReady
            <3> QED
                BY <1>0, <2>4, <3>1 DEF HandleStopTime, Inv, JobOK
        <2>5. ASSUME NEW status \in Zombie, ChildExit(i, status)  PROVE Inv'
            BY <1>0, <2>1, <2>5 DEF ChildExit, Inv, JobOK
        <2> QED
            BY <1>4, <2>2, <2>3, <2>4, <2>5 DEF ProcessStep
    <1>5. CASE UNCHANGED vars
        BY <1>0, <1>5 DEF vars, Inv, JobOK
    <1> QED
        BY <1>1, <1>2, <1>3, <1>4, <1>5 DEF Next

LEMMA InvImplies == Inv => TypeOK /\ ChildMatchesState /\ TimersFitStates /\ RestartsBounded
    BY DEF Inv, JobOK, ProcOK, Sound, ChildFits, TimerFits, Within, TypeOK, ChildMatchesState,
           TimersFitStates, RestartsBounded

LEMMA Invariance == Spec => []Inv
    BY InitInv, NextInv, PTL DEF Spec

(***************************************************************************)
(* The job is well typed, whatever its config and whichever system calls   *)
(* fail.                                                                   *)
(***************************************************************************)
THEOREM TypeCorrect == Spec => []TypeOK
    BY Invariance, InvImplies, PTL

(***************************************************************************)
(* A process is STARTING, RUNNING or STOPPING exactly while it has a child *)
(* to wait for, for any number of processes, any config, any failures.     *)
(***************************************************************************)
THEOREM ChildrenMatchStates == Spec => []ChildMatchesState
    BY Invariance, InvImplies, PTL

(***************************************************************************)
(* A timer that fires finds the child it was set for.                      *)
(***************************************************************************)
THEOREM TimersAreInTime == Spec => []TimersFitStates
    BY Invariance, InvImplies, PTL

(***************************************************************************)
(* The retry counter never passes startretries.                            *)
(***************************************************************************)
THEOREM RetriesAreBounded == Spec => []RestartsBounded
    BY Invariance, InvImplies, PTL

(***************************************************************************)
(* Process::start may fork, and counts nothing.                            *)
(***************************************************************************)
LEMMA StartKeepsRestarts ==
    ASSUME NEW p, Sound(p), p.state \notin LiveStates, NEW config, NEW outcome
    PROVE  Start(p, config, outcome).restarts = p.restarts
    BY StartSound

LEMMA DeathsAreCounted ==
    ASSUME NEW j, JobOK(j), NEW i \in DOMAIN j.procs, j.procs[i].child \in Zombie, NEW outcome
    PROVE  LET k == OnStateChange(j, i, outcome, "keep")
           IN  k.procs[i].child = "alive" =>
                  \/ j.procs[i].state = "STOPPING"
                  \/ j.procs[i].child = "signalled" /\ j.state = "STARTING"
                  \/ k.procs[i].restarts = j.procs[i].restarts + 1
PROOF
    <1> DEFINE k == OnStateChange(j, i, outcome, "keep")
               p == j.procs[i]
               more == [Dead(p) EXCEPT !.restarts = @ + 1]
    <1>1. Sound(p) /\ ProcOK(p, j.config) /\ j.config \in JobConfig
        BY DEF JobOK, ProcOK, Job
    <1>2. /\ Sound(Dead(p)) /\ ProcOK(Dead(p), j.config)
          /\ Dead(p).restarts = p.restarts
          /\ Dead(p).state \notin LiveStates
          /\ Dead(p).child = "reaped"
        BY <1>1, DeadSound, KeepsRestarts DEF Dead, Reaped, Sound, Process
    <1>3. AddRestart(Dead(p), j.config).child = "reaped"
        BY <1>1, <1>2, AddRestartOK
    <1>4. /\ Sound(more)
          /\ more.restarts = p.restarts + 1
          /\ more.state \notin LiveStates
        BY <1>2 DEF Sound, ChildFits, TimerFits, CanSignal, Process
    <1> HIDE DEF more
    <1>5. Start(more, j.config, outcome).restarts = p.restarts + 1
        BY <1>4, StartKeepsRestarts
    <1>6. IF WasStopped(p) THEN AfterStop(j, i, k, outcome, "keep") ELSE AfterExit(j, i, k, outcome)
        BY OnStateChangeIs DEF Fates
    <1>7. CASE WasStopped(p)
        BY <1>2, <1>6, <1>7 DEF AfterStop, WasStopped
    <1>8. CASE ~WasStopped(p)
        BY <1>3, <1>5, <1>6, <1>8 DEF AfterExit, more
    <1> QED
        BY <1>7, <1>8

(***************************************************************************)
(* A fork that no command asked for costs a retry, but for the two deaths  *)
(* that are free, whichever calls fail in between.                         *)
(***************************************************************************)
THEOREM ForksAreCounted == Spec => RetriesAreCounted
PROOF
    <1> DEFINE Counted(i) == \/ job.procs[i].state = "STOPPING"
                             \/ job.procs[i].child = "signalled" /\ job.state = "STARTING"
                             \/ job'.procs[i].restarts = job.procs[i].restarts + 1
    <1>1. ASSUME Inv, [Next]_vars, commands' = commands, NEW i \in DOMAIN job.procs, Forks(i)
          PROVE  Counted(i)
        <2>0. JobOK(job) /\ commands \in Int
            BY <1>1 DEF Inv
        <2>1. ~CountCommand
            BY <1>1, <2>0 DEF CountCommand
        <2>2. ~UNCHANGED vars
            BY <1>1 DEF vars, Forks
        <2>3. PICK h \in DOMAIN job.procs : ProcessStep(h)
            BY <1>1, <2>1, <2>2 DEF Next, StartCommand, StopCommand, RestartCommand
        <2>4. ASSUME NEW status \in Zombie, ChildExit(h, status)  PROVE FALSE
            <3>1. job' = [job EXCEPT !.procs[h].child = status]
                BY <2>4 DEF ChildExit
            <3>2. job'.procs[i].child \in {status, job.procs[i].child}
                BY <2>0, <3>1 DEF JobOK, ProcOK, Sound, Process, Job
            <3> QED
                BY <1>1, <3>2 DEF Forks
        <2>5. CASE HandleExit(h)
            <3>1. PICK outcome \in Outcomes : job' = OnStateChange(job, h, outcome, "keep")
                BY <2>5 DEF HandleExit
            <3>2. job.procs[h].child \in Zombie
                BY <2>5 DEF HandleExit, ExitReady
            <3>3. CASE h = i
                BY <1>1, <2>0, <3>1, <3>2, <3>3, DeathsAreCounted DEF Forks
            <3>4. CASE h # i
                <4>1. job'.procs[i] = job.procs[i]
                    BY <2>0, <3>1, <3>2, <3>4, OnStateChangeIs DEF Fates
                <4> QED
                    BY <1>1, <4>1 DEF Forks
            <3> QED
                BY <3>3, <3>4
        <2>6. CASE HandleStartTime(h)
            <3>1. job'.procs = [job.procs EXCEPT ![h] = OnStartTime(@)]
                BY <2>0, <2>6 DEF HandleStartTime, OnProcessSurpassedStartTime, JobOK, Job
            <3>2. job'.procs[i].child = job.procs[i].child
                BY <2>0, <3>1 DEF OnStartTime, JobOK, ProcOK, Sound, Process
            <3> QED
                BY <1>1, <3>2 DEF Forks
        <2>7. CASE HandleStopTime(h)
            <3>1. job'.procs = [job.procs EXCEPT ![h] = OnKillTime(@)]
                BY <2>0, <2>7 DEF HandleStopTime, OnStopTime, JobOK, Job
            <3>2. job'.procs[i].child \in {"dying", job.procs[i].child}
                BY <2>0, <3>1 DEF OnKillTime, JobOK, ProcOK, Sound, Process
            <3> QED
                BY <1>1, <3>2 DEF Forks
        <2> QED
            BY <2>3, <2>4, <2>5, <2>6, <2>7 DEF ProcessStep
    <1>2. Inv /\ [Next]_vars =>
             [commands' = commands =>
                 \A i \in DOMAIN job.procs :
                     Forks(i) => \/ job.procs[i].state = "STOPPING"
                                 \/ job.procs[i].child = "signalled" /\ job.state = "STARTING"
                                 \/ job'.procs[i].restarts = job.procs[i].restarts + 1]_vars
        BY <1>1
    <1> QED
        BY <1>2, Invariance, PTL DEF Spec, RetriesAreCounted

----------------------------------------------------------------------------
(***************************************************************************)
(* From here on no system call fails and no config makes one fail.  The    *)
(* inductive invariant adds Settled.                                       *)
(***************************************************************************)
NothingFails == /\ Faults = {}
                /\ \A c \in Configs : Startable(c)

----------------------------------------------------------------------------
(***************************************************************************)
(* Settled is invariant when nothing fails.                                *)
(***************************************************************************)
LEMMA OnlyNoFailure ==
    ASSUME Faults = {}, NEW n
    PROVE  \A failure \in Failures(n) : failure = NoFailure
    BY DEF Failures

LEMMA NextSettled ==
    ASSUME NothingFails, Inv, Settled(job), [Next]_vars
    PROVE  Settled(job')
PROOF
    <1>0. /\ JobOK(job)
          /\ job.config.start_time >= 0 /\ job.config.numprocs >= 0 /\ ~HasNoArgv(job.config)
        BY DEF Inv, NothingFails, Startable
    <1>1. CASE StartCommand
        <2>1. job' = JobStart(job, NoFailure)
            BY <1>1, OnlyNoFailure DEF StartCommand, StartFailures, NothingFails
        <2> QED
            BY <1>0, <2>1, JobStartSettled
    <1>2. CASE StopCommand
        <2>1. job' = JobStop(job, NoFailure, "keep")
            BY <1>2, OnlyNoFailure DEF StopCommand, StopFailures, NothingFails
        <2> QED
            BY <1>0, <2>1, JobStopSettled
    <1>3. CASE RestartCommand
        <2>1. job' = JobRestart(job, NoFailure, NoFailure, "keep")
            BY <1>3, OnlyNoFailure
               DEF RestartCommand, StartFailures, StopFailures, NothingFails
        <2> QED
            BY <1>0, <2>1, JobRestartSettled
    <1>4. ASSUME NEW i \in DOMAIN job.procs, ProcessStep(i)  PROVE Settled(job')
        <2>1. ASSUME NEW status \in Zombie, ChildExit(i, status)  PROVE Settled(job')
            BY <1>0, <2>1, ChildExitSettled DEF ChildExit
        <2>2. CASE HandleExit(i)
            <3>1. PICK outcome \in Outcomes : job' = OnStateChange(job, i, outcome, "keep")
                BY <2>2 DEF HandleExit
            <3>2. job.procs[i].child \in Zombie
                BY <2>2 DEF HandleExit, ExitReady
            <3> QED
                BY <1>0, <3>1, <3>2, OnStateChangeSettled
        <2>3. CASE HandleStartTime(i)
            BY <1>0, <2>3, OnStartTimeSettled DEF HandleStartTime, StartTimeReady
        <2>4. CASE HandleStopTime(i)
            BY <1>0, <2>4, OnStopTimeSettled DEF HandleStopTime, StopTimeReady
        <2> QED
            BY <1>4, <2>1, <2>2, <2>3, <2>4 DEF ProcessStep
    <1>5. CASE UNCHANGED vars
        BY <1>5 DEF vars
    <1> QED
        BY <1>1, <1>2, <1>3, <1>4, <1>5 DEF Next

LEMMA SettledInvariance ==
    ASSUME NothingFails
    PROVE  Spec => [](Inv /\ Settled(job))
PROOF
    <1>1. Init => Settled(job)
        BY DEF Init, NewJob, Settled
    <1>2. Inv /\ Settled(job) /\ [Next]_vars => Inv' /\ Settled(job)'
        BY NextInv, NextSettled DEF Settled, AllProcessesInStates
    <1> QED
        BY <1>1, <1>2, InitInv, PTL DEF Spec

(***************************************************************************)
(* When nothing fails, a job that says EMPTY or STOPPED has no child left, *)
(* crashes and restarts notwithstanding.                                   *)
(***************************************************************************)
THEOREM StoppedJobsAreDead ==
    ASSUME NothingFails
    PROVE  Spec => []StoppedMeansDead
PROOF
    <1>1. Inv /\ Settled(job) => StoppedMeansDead
        BY DEF Inv, JobOK, ProcOK, Sound, ChildFits, Settled, AllProcessesInStates,
               StoppedMeansDead
    <1> QED
        BY <1>1, SettledInvariance, PTL

----------------------------------------------------------------------------
(***************************************************************************)
(* When nothing fails, every process is tended as well.                    *)
(***************************************************************************)
LEMMA NextTended ==
    ASSUME NothingFails, Inv, Settled(job), AllTended(job), [Next]_vars
    PROVE  AllTended(job')
PROOF
    <1>0. JobOK(job) /\ Startable(job.config) /\ (job.state = "EMPTY" => DOMAIN job.procs = {})
        BY DEF Inv, NothingFails, Settled
    <1>a. "keep" \in Fates
        BY DEF Fates
    <1>1. CASE StartCommand
        <2>1. job' = JobStart(job, NoFailure)
            BY <1>1, OnlyNoFailure DEF StartCommand, StartFailures, NothingFails
        <2> QED
            BY <1>0, <2>1, JobStartTended
    <1>2. CASE StopCommand
        <2>1. job' = JobStop(job, NoFailure, "keep")
            BY <1>2, OnlyNoFailure DEF StopCommand, StopFailures, NothingFails
        <2> QED
            BY <1>0, <1>a, <2>1, JobStopTended
    <1>3. CASE RestartCommand
        <2> DEFINE stopped == JobStop(job, NoFailure, "keep")
        <2>1. job' \in {stopped, JobStart(stopped, NoFailure)}
            BY <1>3, OnlyNoFailure
               DEF RestartCommand, StartFailures, StopFailures, NothingFails, JobRestart
        <2>2. JobOK(stopped) /\ stopped.config = job.config /\ AllTended(stopped)
            BY <1>0, <1>a, JobStopOK, JobStopTended
        <2>3. stopped.state = "EMPTY" => DOMAIN stopped.procs = {}
            BY <1>0, JobStopSettled DEF Settled
        <2> HIDE DEF stopped
        <2> QED
            BY <1>0, <2>1, <2>2, <2>3, JobStartTended
    <1>4. ASSUME NEW i \in DOMAIN job.procs, ProcessStep(i)  PROVE AllTended(job')
        <2>1. ASSUME NEW status \in Zombie, ChildExit(i, status)  PROVE AllTended(job')
            BY <1>0, <2>1, ChildExitAllTended DEF ChildExit
        <2>2. CASE HandleExit(i)
            <3>1. job' = OnStateChange(job, i, "ok", "keep")
                BY <2>2 DEF HandleExit, Outcomes, NothingFails
            <3>2. job.procs[i].child \in Zombie
                BY <2>2 DEF HandleExit, ExitReady
            <3> QED
                BY <1>0, <1>a, <3>1, <3>2, OnStateChangeTended
        <2>3. CASE HandleStartTime(i)
            BY <1>0, <2>3, OnProcessSurpassedStartTimeTended DEF HandleStartTime, StartTimeReady
        <2>4. CASE HandleStopTime(i)
            BY <1>0, <2>4, OnStopTimeTended DEF HandleStopTime, StopTimeReady
        <2> QED
            BY <1>4, <2>1, <2>2, <2>3, <2>4 DEF ProcessStep
    <1>5. CASE UNCHANGED vars
        BY <1>5 DEF vars
    <1> QED
        BY <1>1, <1>2, <1>3, <1>4, <1>5 DEF Next

LEMMA TendedInvariance ==
    ASSUME NothingFails
    PROVE  Spec => [](Inv /\ Settled(job) /\ AllTended(job))
PROOF
    <1>1. Init => AllTended(job)
        BY DEF Init, NewJob, AllTended
    <1>2. Inv /\ Settled(job) /\ AllTended(job) /\ [Next]_vars => AllTended(job)'
        BY NextTended DEF AllTended, Tended
    <1> QED
        BY <1>1, <1>2, SettledInvariance, PTL DEF Spec

(***************************************************************************)
(* When nothing fails, no child is lost: each one that was not waited for  *)
(* is watched and can be signalled.                                        *)
(***************************************************************************)
THEOREM ChildrenAreWatched ==
    ASSUME NothingFails
    PROVE  Spec => []LiveChildrenWatched
PROOF
    <1>1. AllTended(job) => LiveChildrenWatched
        BY DEF AllTended, Tended, LiveChildrenWatched, CanSignal
    <1> QED
        BY <1>1, TendedInvariance, PTL

(***************************************************************************)
(* When nothing fails and no stoptime is negative, each process has the    *)
(* timer that its state needs, and it is armed unless its time is 0.       *)
(***************************************************************************)
THEOREM TimersAreInPlace ==
    ASSUME NothingFails, \A c \in Configs : c.stop_time >= 0
    PROVE  Spec => []TimerInPlace
PROOF
    <1>1. Inv /\ AllTended(job) => TimerInPlace
        BY DEF Inv, AllTended, Tended, TimerInPlace, StartTimeReady, StopTimeReady
    <1> QED
        BY <1>1, TendedInvariance, PTL
============================================================================

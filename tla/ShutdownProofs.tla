--------------------------- MODULE ShutdownProofs ---------------------------
(***************************************************************************)
(* ~JobManager does not throw, for every set of files and every sequence   *)
(* of commands and reloads, when no child crashes.  The inductive          *)
(* invariant says of every job that Job::stop can be called on it.         *)
(***************************************************************************)
EXTENDS JobManagerProofs

USE DEF LiveStates, RestartableStates, Unreaped, Zombie

----------------------------------------------------------------------------
(***************************************************************************)
(* A job that can be started: its processes are tended, no child has been  *)
(* signalled that the daemon did not stop, and the state of the job says   *)
(* what its processes may be: a job that is up has none that is STOPPED,   *)
(* a job that is STOPPING has none that was not told.  No process is ever  *)
(* FATAL or UNKNOWN.                                                       *)
(***************************************************************************)
Poised(state, p) ==
    /\ p.state \in LiveStates \cup RestartableStates
    /\ p.child \in {"dying", "signalled"} => p.state = "STOPPING"
    /\ state \in {"STARTING", "RUNNING"} => p.state \in LiveStates \cup {"EXITED", "BACKOFF"}
    /\ state = "RUNNING" => p.state # "STOPPING"
    /\ state = "STOPPING" => p.state \in {"STOPPING", "STOPPED"}

Active(j) == /\ AllTended(j)
             /\ j.state = "EMPTY" => DOMAIN j.procs = {}
             /\ \A i \in DOMAIN j.procs : Poised(j.state, j.procs[i])

(***************************************************************************)
(* A job that cannot: it stays EMPTY until it is marked, and no event will *)
(* come for what its failed starts left behind.                            *)
(***************************************************************************)
Inert(j) == /\ j.config.numprocs <= 0 => DOMAIN j.procs = {}
            /\ DOMAIN j.procs = {} \/ j.state \in {"EMPTY"} \cup MarkStates
            /\ \A i \in DOMAIN j.procs : ~j.procs[i].watched /\ j.procs[i].timer = "none"

Ready(j) == IF Startable(j.config) THEN Active(j) ELSE Inert(j)

Stops(j) == j.config.stop_time >= 0

LEMMA ActiveStoppable ==
    ASSUME NEW j, JobOK(j), Active(j), j.state \in {"STARTING", "RUNNING"}, NEW i \in DOMAIN j.procs
    PROVE  Stoppable(j.procs[i])
PROOF
    <1>1. j.procs[i].state \in LiveStates => CanSignal(j.procs[i])
        BY DEF JobOK, ProcOK, Sound, ChildFits, Active, AllTended, Tended, CanSignal
    <1> QED
        BY <1>1 DEF Active, Poised, Stoppable, HasExited

----------------------------------------------------------------------------
(***************************************************************************)
(* Job::stop.                                                              *)
(***************************************************************************)
LEMMA HaltedPoised ==
    ASSUME NEW p, Sound(p), NEW state, Poised("STARTING", p), state # "STARTING", state # "RUNNING"
    PROVE  Poised(state, Halted(p))
PROOF
    <1>1. CASE HasExited(p)
        <2>1. Halted(p) = [p EXCEPT !.state = "STOPPED"] /\ p.child \notin Unreaped
            BY <1>1 DEF Halted, HasExited, Sound, ChildFits
        <2> QED
            BY <2>1 DEF Poised, Sound, Process
    <1>2. CASE ~HasExited(p)
        <2>1. Halted(p) = [p EXCEPT !.state = "STOPPING", !.timer = "kill"]
            BY <1>2 DEF Halted
        <2> QED
            BY <2>1 DEF Poised, Sound, Process
    <1> QED
        BY <1>1, <1>2

LEMMA MarkedIs ==
    ASSUME NEW fate \in Fates, NEW state \in {"EMPTY", "STOPPED"}
    PROVE  Marked(state, fate) \in {state} \cup MarkStates
    BY DEF Marked, Fates, MarkStates

LEMMA ActiveStop ==
    ASSUME NEW j, JobOK(j), Stops(j), Active(j), j.state \notin MarkStates, NEW fate \in Fates
    PROVE  Active(JobStop(j, NoFailure, fate)) /\ ~JobStopThrows(j, NoFailure)
PROOF
    <1> DEFINE k == JobStop(j, NoFailure, fate)
    <1>1. AllTended(k)
        BY JobStopTended DEF Active
    <1>2. j.state \in JobState
        BY DEF JobOK, Job
    <1>3. CASE IgnoresStop(j)
        <2>1. /\ ~JobStopThrows(j, NoFailure)
              /\ k.procs = j.procs
              /\ k.state = IF j.state = "STOPPING" THEN j.state ELSE Marked(j.state, fate)
            BY <1>3, IgnoredStopIs
        <2> HIDE DEF k
        <2>2. \/ k.state = j.state
              \/ k.state \in MarkStates
            BY <1>3, <2>1, MarkedIs DEF IgnoresStop
        <2>3. Active(k)
            BY <1>1, <2>1, <2>2 DEF Active, Poised, MarkStates
        <2> QED
            BY <2>1, <2>3 DEF k
    <1>4. CASE ~IgnoresStop(j)
        <2>1. j.state \in {"STARTING", "RUNNING"}
            BY <1>2, <1>4 DEF IgnoresStop, JobState, MarkStates
        <2>2. \A i \in DOMAIN j.procs : Stoppable(j.procs[i])
            BY <2>1, ActiveStoppable
        <2>3. /\ ~JobStopThrows(j, NoFailure)
              /\ DOMAIN k.procs = DOMAIN j.procs
              /\ \A i \in DOMAIN j.procs : k.procs[i] = Halted(j.procs[i])
              /\ k.state \in {Marked("STOPPED", fate), "STOPPING"}
            BY <1>4, <2>2, JobStopIs DEF Stops
        <2>4. k.state \in {"STOPPED", "STOPPING"} \cup MarkStates
            BY <2>3, MarkedIs
        <2> HIDE DEF k
        <2>5. ASSUME NEW i \in DOMAIN k.procs  PROVE Poised(k.state, k.procs[i])
            <3>1. Sound(j.procs[i]) /\ Poised("STARTING", j.procs[i])
                BY <2>1, <2>3 DEF JobOK, ProcOK, Active, Poised
            <3> QED
                BY <2>3, <2>4, <3>1, HaltedPoised DEF MarkStates
        <2>6. Active(k)
            BY <1>1, <2>4, <2>5 DEF Active, MarkStates
        <2> QED
            BY <2>3, <2>6 DEF k
    <1> QED
        BY <1>3, <1>4

LEMMA InertStop ==
    ASSUME NEW j, JobOK(j), Inert(j), j.state \notin MarkStates, NEW fate \in Fates
    PROVE  Inert(JobStop(j, NoFailure, fate)) /\ ~JobStopThrows(j, NoFailure)
PROOF
    <1> DEFINE k == JobStop(j, NoFailure, fate)
               procs == StopAll(j, NoFailure)
    <1>1. k.config = j.config
        BY JobStopOK
    <1>2. CASE IgnoresStop(j)
        <2>1. /\ ~JobStopThrows(j, NoFailure)
              /\ k.procs = j.procs
              /\ k.state = IF j.state = "STOPPING" THEN j.state ELSE Marked(j.state, fate)
            BY <1>2, IgnoredStopIs
        <2> HIDE DEF k
        <2>2. k.state = j.state \/ k.state \in MarkStates
            BY <1>2, <2>1, MarkedIs DEF IgnoresStop
        <2>3. Inert(k)
            BY <1>1, <2>1, <2>2 DEF Inert
        <2> QED
            BY <2>1, <2>3 DEF k
    <1>3. CASE ~IgnoresStop(j)
        <2>1. DOMAIN j.procs = {}
            BY <1>3 DEF Inert, IgnoresStop
        <2>2. DOMAIN procs = {} /\ ~JobStopThrows(j, NoFailure)
            BY <2>1 DEF StopAll, JobStopThrows, StopThrowers
        <2>3. k.procs \in {j.procs, procs}
            BY DEF JobStop, JobOK, Job
        <2> HIDE DEF k, procs
        <2>4. Inert(k)
            BY <1>1, <2>1, <2>2, <2>3 DEF Inert
        <2> QED
            BY <2>2, <2>4 DEF k
    <1> QED
        BY <1>2, <1>3

LEMMA ReadyStop ==
    ASSUME NEW j, JobOK(j), Stops(j), Ready(j), j.state \notin MarkStates, NEW fate \in Fates
    PROVE  Ready(JobStop(j, NoFailure, fate)) /\ ~JobStopThrows(j, NoFailure)
PROOF
    <1>1. JobStop(j, NoFailure, fate).config = j.config
        BY JobStopOK
    <1> QED
        BY <1>1, ActiveStop, InertStop DEF Ready

----------------------------------------------------------------------------
(***************************************************************************)
(* Job::start.                                                             *)
(***************************************************************************)
LEMMA StartedPoised ==
    ASSUME NEW p \in Process
    PROVE  Poised("STARTING", Started(p))
    BY DEF Poised, Started, Forked, Process

LEMMA RestartedPoised ==
    ASSUME NEW p \in Process, NEW state, Poised(state, p)
    PROVE  Poised("STARTING", RestartedOrNot(p))
PROOF
    <1> DEFINE reset == [p EXCEPT !.restarts = 0]
    <1>1. reset \in Process /\ reset.state = p.state /\ reset.child = p.child
        BY DEF Process
    <1>2. RestartedOrNot(p) = IF IsDown(p) THEN Started(reset) ELSE reset
        BY DEF RestartedOrNot
    <1> HIDE DEF reset
    <1>3. CASE IsDown(p)
        BY <1>1, <1>2, <1>3, StartedPoised
    <1>4. CASE ~IsDown(p)
        BY <1>1, <1>2, <1>4 DEF Poised, IsDown
    <1> QED
        BY <1>3, <1>4

LEMMA ActiveStart ==
    ASSUME NEW j, JobFine(j), Active(j), Startable(j.config), j.state \notin MarkStates
    PROVE  Active(JobStart(j, NoFailure))
PROOF
    <1> DEFINE k == JobStart(j, NoFailure)
    <1>1. JobOK(j) /\ j.state \in JobState
        BY DEF JobFine, JobOK, Job
    <1>2. AllTended(k)
        BY <1>1, JobStartTended DEF Active
    <1>3. /\ k.state = "STARTING"
          /\ j.state \in {"STOPPING", "STOPPED"} =>
                /\ DOMAIN k.procs = DOMAIN j.procs
                /\ \A i \in DOMAIN j.procs : k.procs[i] = RestartedOrNot(j.procs[i])
          /\ j.state = "EMPTY" => \A i \in DOMAIN k.procs : k.procs[i] = Started(NewProcess)
          /\ j.state \notin {"STOPPING", "STOPPED", "EMPTY"} => k.procs = j.procs
        BY <1>1, JobStartIs DEF Active
    <1>4. NewProcess \in Process /\ \A i \in DOMAIN j.procs : j.procs[i] \in Process
        BY <1>1, NewProcessSound DEF JobOK, ProcOK, Sound
    <1> HIDE DEF k
    <1>5. ASSUME NEW i \in DOMAIN k.procs  PROVE Poised("STARTING", k.procs[i])
        <2>1. CASE j.state \in {"STOPPING", "STOPPED"}
            BY <1>3, <1>4, <2>1, RestartedPoised DEF Active
        <2>2. CASE j.state = "EMPTY"
            BY <1>3, <1>4, <2>2, StartedPoised
        <2>3. CASE j.state \in {"STARTING", "RUNNING"}
            BY <1>3, <2>3 DEF Active, Poised
        <2> QED
            BY <1>1, <2>1, <2>2, <2>3 DEF JobState, MarkStates
    <1>6. Active(k)
        BY <1>2, <1>3, <1>5 DEF Active
    <1> QED
        BY <1>6 DEF k

(***************************************************************************)
(* The processes of a failed start have no timer and are not watched.      *)
(***************************************************************************)
LEMMA FailedStartIs ==
    ASSUME NEW options \in JobConfig, NeverStarts(options)
    PROVE  /\ ~Start(NewProcess, options, "ok").watched
           /\ Start(NewProcess, options, "ok").timer = "none"
PROOF
    <1>1. Start(NewProcess, options, "ok")
             \in {NewProcess, [Forked(NewProcess) EXCEPT !.timer = "none"]}
        BY DEF Start, StartResult, NeverStarts
    <1>2. ~NewProcess.watched /\ NewProcess.timer = "none"
        BY DEF NewProcess
    <1>3. /\ ~[Forked(NewProcess) EXCEPT !.timer = "none"].watched
          /\ [Forked(NewProcess) EXCEPT !.timer = "none"].timer = "none"
        BY DEF Forked, NewProcess
    <1> QED
        BY <1>1, <1>2, <1>3

LEMMA AppendedAre ==
    ASSUME NEW s \in Seq(Process), NEW t \in Seq(Process)
    PROVE  /\ DOMAIN (s \o t) = 1..(Len(s) + Len(t))
           /\ \A i \in DOMAIN (s \o t) : (s \o t)[i] = IF i <= Len(s) THEN s[i] ELSE t[i - Len(s)]
    OBVIOUS

LEMMA InertCreate ==
    ASSUME NEW j, JobOK(j), Inert(j), ~Startable(j.config), j.config.numprocs > 0
    PROVE  /\ CreateThrows(j, NoFailure)
           /\ \A i \in DOMAIN StartProcesses(j, NoFailure) :
                 /\ ~StartProcesses(j, NoFailure)[i].watched
                 /\ StartProcesses(j, NoFailure)[i].timer = "none"
PROOF
    <1> DEFINE new == [i \in 1..1 |-> Start(NewProcess, j.config, OutcomeAt(NoFailure, i))]
               procs == StartProcesses(j, NoFailure)
    <1>1. j.config \in JobConfig /\ j.config.numprocs \in Int /\ j.procs \in Seq(Process)
        BY DEF JobOK, Job, JobConfig
    <1>2. \A i : OutcomeAt(NoFailure, i) = "ok"
        BY DEF OutcomeAt, NoFailure
    <1>3. NeverStarts(j.config)
        BY <1>1 DEF Startable, NeverStarts, IntervalRejected, JobConfig
    <1>4. CreateThrows(j, NoFailure) /\ CreatedCount(j, NoFailure) = 1
        BY <1>1, <1>3 DEF CreateThrows, CreatedCount
    <1>5. procs = j.procs \o new
        BY <1>4 DEF StartProcesses
    <1>6. \A i \in 1..1 : ~new[i].watched /\ new[i].timer = "none" /\ new[i] \in Process
        <2>1. Sound(Start(NewProcess, j.config, "ok"))
            BY NewProcessSound, StartSound DEF NewProcess
        <2> QED
            BY <1>1, <1>2, <1>3, <2>1, FailedStartIs DEF Sound
    <1>7. new \in [1..1 -> Process]
        BY <1>6
    <1>8. new \in Seq(Process) /\ Len(new) = 1
        BY <1>7, FunctionIsSeq
    <1> HIDE DEF new, procs
    <1>9. /\ DOMAIN procs = 1..(Len(j.procs) + 1)
          /\ \A i \in DOMAIN procs : procs[i] = IF i <= Len(j.procs) THEN j.procs[i]
                                                ELSE new[i - Len(j.procs)]
        BY <1>1, <1>5, <1>8, AppendedAre
    <1>10. ASSUME NEW i \in DOMAIN procs  PROVE ~procs[i].watched /\ procs[i].timer = "none"
        <2>1. CASE i <= Len(j.procs)
            BY <1>1, <1>9, <2>1 DEF Inert
        <2>2. CASE ~(i <= Len(j.procs))
            <3>1. i - Len(j.procs) \in 1..1
                BY <1>1, <1>9, <2>2
            <3> QED
                BY <1>6, <1>9, <2>2, <3>1
        <2> QED
            BY <2>1, <2>2
    <1> QED
        BY <1>4, <1>10 DEF procs

LEMMA InertStart ==
    ASSUME NEW j, JobOK(j), Inert(j), ~Startable(j.config), j.state \notin MarkStates
    PROVE  Inert(JobStart(j, NoFailure))
PROOF
    <1> DEFINE k == JobStart(j, NoFailure)
               created == StartProcesses(j, NoFailure)
               restarted == RestartProcesses(j, NoFailure)
    <1>1. j.config.numprocs \in Int /\ j.procs \in Seq(Process)
        BY DEF JobOK, Job, JobConfig
    <1>2. k.config = j.config
        BY JobStartOK
    <1>3. CASE j.state = "EMPTY"
        <2>1. k.procs = created
            BY <1>3 DEF JobStart, JobOK, Job
        <2>2. CASE j.config.numprocs > 0
            <3>1. k.state = "EMPTY"
                BY <1>3, <2>2, InertCreate DEF JobStart, JobStartThrows, JobOK, Job
            <3> QED
                BY <1>1, <1>2, <2>1, <2>2, <3>1, InertCreate DEF Inert
        <2>3. CASE j.config.numprocs <= 0
            <3>1. CreatedCount(j, NoFailure) = 0 /\ DOMAIN j.procs = {}
                BY <1>1, <2>3 DEF CreatedCount, Inert
            <3>2. DOMAIN created = {}
                <4> DEFINE new == [i \in 1..0 |->
                                      Start(NewProcess, j.config, OutcomeAt(NoFailure, i))]
                <4>1. created = j.procs \o new
                    BY <3>1 DEF StartProcesses
                <4>2. new \in [1..0 -> Process]
                    OBVIOUS
                <4>3. new \in Seq(Process) /\ Len(new) = 0
                    BY <4>2, FunctionIsSeq
                <4>4. Len(j.procs) \in Nat /\ DOMAIN j.procs = 1..Len(j.procs)
                    BY <1>1
                <4>5. Len(j.procs) = 0
                    <5>1. Len(j.procs) > 0 => 1 \in DOMAIN j.procs
                        BY <4>4
                    <5> QED
                        BY <3>1, <4>4, <5>1
                <4> HIDE DEF new
                <4> QED
                    BY <1>1, <4>1, <4>3, <4>5, AppendedAre
            <3> QED
                BY <1>2, <2>1, <2>3, <3>2 DEF Inert
        <2> QED
            BY <1>1, <2>2, <2>3
    <1>4. CASE j.state # "EMPTY"
        <2>1. DOMAIN j.procs = {}
            BY <1>4 DEF Inert
        <2>2. DOMAIN restarted = {}
            BY <2>1 DEF RestartProcesses
        <2>3. k.procs \in {j.procs, restarted}
            BY <1>4 DEF JobStart, JobOK, Job
        <2> HIDE DEF k, restarted
        <2>4. Inert(k)
            BY <1>2, <2>1, <2>2, <2>3 DEF Inert
        <2> QED
            BY <2>4 DEF k
    <1> QED
        BY <1>3, <1>4

LEMMA ReadyStart ==
    ASSUME NEW j, JobFine(j), Ready(j), j.state \notin MarkStates
    PROVE  Ready(JobStart(j, NoFailure))
PROOF
    <1>1. JobOK(j) /\ JobStart(j, NoFailure).config = j.config
        BY JobStartOK DEF JobFine
    <1> QED
        BY <1>1, ActiveStart, InertStart DEF Ready

LEMMA ReadyRestart ==
    ASSUME NEW j, JobFine(j), Stops(j), Ready(j), j.state \notin MarkStates, NEW fate \in Fates,
           JobStop(j, NoFailure, fate).state \notin MarkStates
    PROVE  Ready(JobRestart(j, NoFailure, NoFailure, fate))
PROOF
    <1> DEFINE stopped == JobStop(j, NoFailure, fate)
    <1>1. JobFine(stopped) /\ Ready(stopped) /\ ~JobStopThrows(j, NoFailure)
        BY ReadyStop, JobStopFine DEF JobFine
    <1>2. JobRestart(j, NoFailure, NoFailure, fate) = JobStart(stopped, NoFailure)
        BY <1>1 DEF JobRestart
    <1> HIDE DEF stopped
    <1> QED
        BY <1>1, <1>2, ReadyStart DEF stopped

(***************************************************************************)
(* createJob: a new job, started or not.                                   *)
(***************************************************************************)
LEMMA ReadyNew ==
    ASSUME NEW options
    PROVE  Ready(NewJob(options))
PROOF
    <1>1. DOMAIN NewJob(options).procs = {} /\ NewJob(options).state = "EMPTY"
        BY DEF NewJob
    <1> QED
        BY <1>1 DEF Ready, Active, Inert, AllTended

LEMMA ReadyCreated ==
    ASSUME NEW cfg \in Loadable, NEW n \in DOMAIN cfg
    PROVE  Ready(Created(cfg, n))
PROOF
    <1>1. JobFine(NewJob(cfg[n])) /\ NewJob(cfg[n]).state \notin MarkStates
        BY NewJobFine DEF MarkStates
    <1> QED
        BY <1>1, ReadyNew, ReadyStart DEF Created

----------------------------------------------------------------------------
(***************************************************************************)
(* The death of a process.  A process that was stopped was STOPPING: it is *)
(* started again by a job that is STARTING, and is STOPPED in one that is  *)
(* STOPPING.                                                               *)
(***************************************************************************)
LEMMA DeadPoised ==
    ASSUME NEW p, Sound(p), p.child \in Zombie, Poised("STOPPED", p), NEW state \in JobState,
           state = "STOPPING" => p.state = "STOPPING",
           state \in {"STARTING", "RUNNING"} => p.state # "STOPPING"
    PROVE  Poised(state, Dead(p))
PROOF
    <1>1. p.state \in LiveStates
        BY DEF Sound, ChildFits
    <1>2. Dead(p).child = "reaped" /\ Dead(p).state = StateAfterDeath(p)
        BY DEF Dead, Reaped, Sound, Process
    <1>3. StateAfterDeath(p) = CASE p.state = "STOPPING" -> "STOPPED"
                                 [] p.state = "STARTING" -> "BACKOFF"
                                 [] p.state = "RUNNING"  -> "EXITED"
        BY <1>1 DEF StateAfterDeath, Poised
    <1> QED
        BY <1>1, <1>2, <1>3 DEF Poised

LEMMA AddRestartPoised ==
    ASSUME NEW options, NEW p \in Process, NEW state, Poised(state, p)
    PROVE  Poised(state, AddRestart(p, options))
    BY DEF Poised, AddRestart, Process

LEMMA ActiveOnStop ==
    ASSUME NEW j, JobFine(j), Active(j), Startable(j.config), NEW i \in DOMAIN j.procs,
           j.procs[i].child \in Zombie, WasStopped(j.procs[i]), NEW fate \in Fates
    PROVE  LET k == OnStateChange(j, i, "ok", fate)
           IN  \A h \in DOMAIN k.procs : Poised(k.state, k.procs[h])
PROOF
    <1> DEFINE k == OnStateChange(j, i, "ok", fate)
               p == j.procs[i]
    <1>1. JobOK(j) /\ Sound(p) /\ j.config \in JobConfig /\ j.state \in JobState
        BY DEF JobFine, JobOK, Job, ProcOK
    <1>2. p.state = "STOPPING" /\ Poised("STOPPED", p)
        BY DEF WasStopped, Active, Poised
    <1>3. /\ DOMAIN k.procs = DOMAIN j.procs
          /\ \A h \in DOMAIN j.procs \ {i} : k.procs[h] = j.procs[h]
          /\ AfterStop(j, i, k, "ok", fate)
        BY <1>1, OnStateChangeIs
    <1>4. \A h \in DOMAIN j.procs : Poised(j.state, j.procs[h])
        BY DEF Active
    <1>5. Dead(p) \in Process
        BY <1>1, DeadSound DEF Sound
    <1>6. Start(Dead(p), j.config, "ok") = Started(Dead(p))
        BY <1>1, StartIs
    <1> HIDE DEF k, p
    <1>7. CASE j.state = "STARTING"
        <2>1. k.state = "STARTING" /\ k.procs[i] = Started(Dead(p))
            BY <1>3, <1>6, <1>7 DEF AfterStop, p
        <2> QED
            BY <1>3, <1>4, <1>5, <1>7, <2>1, StartedPoised DEF k
    <1>8. CASE j.state = "STOPPING"
        <2>1. k.procs[i] = Dead(p) /\ k.state \in {"STOPPING", "STOPPED"} \cup MarkStates
            BY <1>3, <1>8, MarkedIs DEF AfterStop, p
        <2>2. Poised(k.state, Dead(p))
            BY <1>1, <1>2, <2>1, DeadPoised DEF p, JobState, MarkStates
        <2>3. \A h \in DOMAIN j.procs : Poised(k.state, j.procs[h])
            BY <1>4, <1>8, <2>1 DEF Poised, MarkStates
        <2> QED
            BY <1>3, <2>1, <2>2, <2>3 DEF k
    <1>9. CASE j.state \notin {"STARTING", "STOPPING"}
        <2>1. k.procs[i] = Dead(p) /\ k.state = j.state
            BY <1>3, <1>9 DEF AfterStop, p
        <2>2. j.state # "RUNNING"
            BY <1>2, <1>4 DEF Poised, p
        <2>3. Poised(k.state, Dead(p))
            BY <1>1, <1>2, <1>9, <2>1, <2>2, DeadPoised DEF p
        <2> QED
            BY <1>3, <1>4, <2>1, <2>3 DEF k
    <1> QED
        BY <1>7, <1>8, <1>9

LEMMA ActiveOnExit ==
    ASSUME NEW j, JobFine(j), Active(j), Startable(j.config), NEW i \in DOMAIN j.procs,
           j.procs[i].child \in Zombie, ~WasStopped(j.procs[i]), NEW fate \in Fates
    PROVE  LET k == OnStateChange(j, i, "ok", fate)
           IN  \A h \in DOMAIN k.procs : Poised(k.state, k.procs[h])
PROOF
    <1> DEFINE k == OnStateChange(j, i, "ok", fate)
               p == j.procs[i]
               more == [Dead(p) EXCEPT !.restarts = @ + 1]
    <1>1. JobOK(j) /\ Sound(p) /\ j.config \in JobConfig /\ j.state \in JobState
        BY DEF JobFine, JobOK, Job, ProcOK
    <1>2. p.state \in LiveStates /\ p.state # "STOPPING" /\ Poised("STOPPED", p)
        BY <1>1 DEF WasStopped, Active, Poised, Sound, ChildFits
    <1>3. /\ DOMAIN k.procs = DOMAIN j.procs
          /\ \A h \in DOMAIN j.procs \ {i} : k.procs[h] = j.procs[h]
          /\ AfterExit(j, i, k, "ok")
        BY <1>1, OnStateChangeIs
    <1>4. \A h \in DOMAIN j.procs : Poised(j.state, j.procs[h])
        BY DEF Active
    <1>5. Dead(p) \in Process /\ more \in Process
        BY <1>1, DeadSound DEF Sound, Process
    <1>6. j.state \in {"STARTING", "RUNNING"}
        <2>1. StartsWhole(j)
            BY <1>1 DEF Startable, StartsWhole, IntervalRejected, JobConfig
        <2>2. j.state \notin RestStates
            BY <1>2, <2>1, LiveIsNotAtRest
        <2>3. j.state # "STOPPING"
            BY <1>2, <1>4 DEF Poised
        <2> QED
            BY <1>1, <2>2, <2>3 DEF JobState, RestStates
    <1>7. Start(more, j.config, "ok") = Started(more)
        BY <1>1, StartIs
    <1>8. \A h \in DOMAIN j.procs : Poised("STARTING", j.procs[h]) /\ Poised("STOPPED", j.procs[h])
        BY <1>4, <1>6 DEF Poised
    <1>9. Poised(j.state, Dead(p)) /\ Poised("STOPPED", Dead(p))
        BY <1>1, <1>2, <1>6, DeadPoised DEF JobState
    <1>10. \/ k.procs[i] = Started(more) /\ k.state = "STARTING"
           \/ k.procs[i] = AddRestart(Dead(p), j.config) /\ k.state \in {"STOPPED", j.state}
        <2> HIDE DEF k
        <2> QED
            BY <1>3, <1>7 DEF AfterExit
    <1>11. /\ Poised(j.state, AddRestart(Dead(p), j.config))
           /\ Poised("STOPPED", AddRestart(Dead(p), j.config))
           /\ Poised("STARTING", Started(more))
        BY <1>5, <1>9, AddRestartPoised, StartedPoised
    <1> HIDE DEF k, p, more
    <1> QED
        BY <1>3, <1>4, <1>8, <1>10, <1>11 DEF k

LEMMA ReadyOnStateChange ==
    ASSUME NEW j, JobFine(j), Ready(j), NEW i \in DOMAIN j.procs, ExitReady(j.procs[i]),
           NEW fate \in Fates
    PROVE  Ready(OnStateChange(j, i, "ok", fate))
PROOF
    <1> DEFINE k == OnStateChange(j, i, "ok", fate)
    <1>1. JobOK(j) /\ j.procs[i].child \in Zombie
        BY DEF JobFine, ExitReady
    <1>2. Startable(j.config) /\ Active(j)
        BY DEF Ready, Inert, ExitReady
    <1>3. k.config = j.config /\ AllTended(k) /\ DOMAIN k.procs = DOMAIN j.procs
        BY <1>1, <1>2, OnStateChangeOK, OnStateChangeTended, OnStateChangeIs DEF Active
    <1>4. \A h \in DOMAIN k.procs : Poised(k.state, k.procs[h])
        BY <1>1, <1>2, ActiveOnStop, ActiveOnExit
    <1>5. k.state # "EMPTY"
        <2>1. j.state # "EMPTY"
            BY <1>2 DEF Active
        <2>2. IF WasStopped(j.procs[i]) THEN AfterStop(j, i, k, "ok", fate)
                                        ELSE AfterExit(j, i, k, "ok")
            BY <1>1, OnStateChangeIs
        <2>3. Marked("STOPPED", fate) # "EMPTY"
            BY MarkedIs DEF MarkStates
        <2> HIDE DEF k
        <2> QED
            BY <2>1, <2>2, <2>3 DEF AfterStop, AfterExit
    <1> HIDE DEF k
    <1>6. Ready(k)
        BY <1>2, <1>3, <1>4, <1>5 DEF Ready, Active
    <1> QED
        BY <1>6 DEF k

----------------------------------------------------------------------------
(***************************************************************************)
(* One process of an active job is replaced by a poised and tended one.    *)
(***************************************************************************)
LEMMA ReplaceOneReady ==
    ASSUME NEW j, JobOK(j), Active(j), NEW i \in DOMAIN j.procs, NEW q, ProcOK(q, j.config),
           Tended(q, j.config), Poised(j.state, q)
    PROVE  Active([j EXCEPT !.procs[i] = q])
PROOF
    <1> DEFINE k == [j EXCEPT !.procs[i] = q]
    <1>1. /\ AllTended(k)
          /\ k.state = j.state
          /\ DOMAIN k.procs = DOMAIN j.procs
          /\ \A h \in DOMAIN j.procs : k.procs[h] = IF h = i THEN q ELSE j.procs[h]
        BY ReplaceOne, ReplaceOneTended DEF Active
    <1> HIDE DEF k
    <1>2. Active(k)
        BY <1>1 DEF Active
    <1> QED
        BY <1>2 DEF k

(***************************************************************************)
(* The start timer: only a process that is STARTING has it.                *)
(***************************************************************************)
LEMMA ReadyStartTime ==
    ASSUME NEW j, JobFine(j), Ready(j), NEW i \in DOMAIN j.procs, j.procs[i].timer = "start"
    PROVE  Ready(OnProcessSurpassedStartTime(j, i))
PROOF
    <1> DEFINE p == j.procs[i]
               q == OnStartTime(p)
               m == [j EXCEPT !.procs[i] = q]
               k == OnProcessSurpassedStartTime(j, i)
    <1>1. JobOK(j) /\ Sound(p) /\ ProcOK(p, j.config)
        BY DEF JobFine, JobOK, ProcOK
    <1>2. Startable(j.config) /\ Active(j)
        BY DEF Ready, Inert
    <1>3. p.state = "STARTING" /\ Tended(p, j.config) /\ Poised(j.state, p)
        BY <1>2 DEF Active, AllTended, Tended
    <1>4. ProcOK(q, j.config) /\ Tended(q, j.config)
        BY <1>1, <1>3, OnStartTimeSound, OnStartTimeTended, KeepsRestarts
    <1>5. q.state = "RUNNING" /\ q.child = p.child
        BY <1>1 DEF OnStartTime, Sound, Process
    <1>6. Poised(j.state, q) /\ Poised("RUNNING", q)
        BY <1>3, <1>5 DEF Poised
    <1>7. Active(m) /\ JobOK(m) /\ m.config = j.config
        BY <1>1, <1>2, <1>4, <1>6, ReplaceOne, ReplaceOneReady
    <1>8. k = IF AllProcessesInStates(m.procs, {"RUNNING"}) THEN [m EXCEPT !.state = "RUNNING"] ELSE m
        BY DEF OnProcessSurpassedStartTime
    <1>9. k.config = j.config
        BY <1>1, OnProcessSurpassedStartTimeOK
    <1>10. CASE AllProcessesInStates(m.procs, {"RUNNING"})
        <2>1. k.state = "RUNNING" /\ k.procs = m.procs
            <3> HIDE DEF m, k
            <3> QED
                BY <1>7, <1>8, <1>10, ReplaceState DEF JobState
        <2> HIDE DEF m, k
        <2>2. \A h \in DOMAIN k.procs : Poised(k.state, k.procs[h])
            BY <1>7, <1>10, <2>1 DEF Active, Poised, AllProcessesInStates
        <2>3. AllTended(k)
            BY <1>7, <1>9, <2>1 DEF Active, AllTended
        <2>4. Ready(k)
            BY <1>2, <1>9, <2>1, <2>2, <2>3 DEF Ready, Active
        <2> QED
            BY <2>4 DEF k
    <1>11. CASE ~AllProcessesInStates(m.procs, {"RUNNING"})
        BY <1>2, <1>7, <1>8, <1>11 DEF Ready
    <1> QED
        BY <1>10, <1>11

LEMMA ReadyStopTime ==
    ASSUME NEW j, JobFine(j), Ready(j), NEW i \in DOMAIN j.procs, j.procs[i].timer = "kill"
    PROVE  Ready(OnStopTime(j, i))
PROOF
    <1> DEFINE p == j.procs[i]
               q == OnKillTime(p)
    <1>1. JobOK(j) /\ Sound(p) /\ ProcOK(p, j.config)
        BY DEF JobFine, JobOK, ProcOK
    <1>2. Startable(j.config) /\ Active(j)
        BY DEF Ready, Inert
    <1>3. p.state = "STOPPING" /\ Tended(p, j.config) /\ Poised(j.state, p)
        BY <1>1, <1>2 DEF Active, AllTended, Sound, TimerFits
    <1>4. ProcOK(q, j.config) /\ Tended(q, j.config)
        BY <1>1, <1>3, OnKillTimeSound, OnKillTimeTended, KeepsRestarts
    <1>5. q.state = "STOPPING"
        BY <1>1, <1>3 DEF OnKillTime, Sound, Process
    <1>6. Poised(j.state, q)
        BY <1>3, <1>5 DEF Poised
    <1>7. OnStopTime(j, i) = [j EXCEPT !.procs[i] = q]
        BY DEF OnStopTime
    <1>8. OnStopTime(j, i).config = j.config
        BY <1>1, OnStopTimeOK
    <1> HIDE DEF q
    <1> QED
        BY <1>1, <1>2, <1>4, <1>6, <1>7, <1>8, ReplaceOneReady DEF Ready

(***************************************************************************)
(* A child ends; without crashes a signal ends it only when the daemon     *)
(* sent one.                                                               *)
(***************************************************************************)
LEMMA ReadyChildExit ==
    ASSUME NEW j, JobFine(j), Ready(j), NEW i \in DOMAIN j.procs,
           NEW status \in Endings(j.procs[i], FALSE)
    PROVE  Ready([j EXCEPT !.procs[i].child = status])
PROOF
    <1> DEFINE p == j.procs[i]
               q == [p EXCEPT !.child = status]
               k == [j EXCEPT !.procs[i] = q]
    <1>1. JobOK(j) /\ Sound(p) /\ ProcOK(p, j.config)
        BY DEF JobFine, JobOK, ProcOK
    <1>2. /\ p.child \in {"alive", "dying"}
          /\ status \in Zombie
          /\ status = "signalled" => p.child = "dying" \/ p.state = "STOPPING"
        BY DEF Endings
    <1>3. ProcOK(q, j.config)
        BY <1>1, <1>2, ChildExitSound, KeepsRestarts
    <1>4. /\ q.child = status
          /\ q.state = p.state
          /\ q.watched = p.watched
          /\ q.timer = p.timer
        BY <1>1 DEF Sound, Process
    <1>5. [j EXCEPT !.procs[i].child = status] = k
        BY <1>1, <1>2 DEF JobOK, Job
    <1>6. /\ k.config = j.config
          /\ k.state = j.state
          /\ DOMAIN k.procs = DOMAIN j.procs
          /\ \A h \in DOMAIN j.procs : k.procs[h] = IF h = i THEN q ELSE j.procs[h]
        BY <1>1, <1>3, ReplaceOne
    <1>7. CASE Startable(j.config)
        <2>1. Active(j) /\ Tended(p, j.config) /\ Poised(j.state, p)
            BY <1>7 DEF Ready, Active, AllTended
        <2>2. Tended(q, j.config)
            BY <1>1, <1>2, <2>1, ChildExitTended
        <2>3. Poised(j.state, q)
            BY <1>2, <1>4, <2>1 DEF Poised
        <2> HIDE DEF q
        <2> QED
            BY <1>1, <1>3, <1>5, <1>6, <1>7, <2>1, <2>2, <2>3, ReplaceOneReady DEF Ready
    <1>8. CASE ~Startable(j.config)
        <2>1. Inert(j)
            BY <1>8 DEF Ready
        <2> HIDE DEF q, k
        <2>2. Inert(k)
            BY <1>4, <1>6, <2>1 DEF Inert, p
        <2>3. Ready(k)
            BY <1>6, <1>8, <2>2 DEF Ready
        <2> QED
            BY <1>5, <2>3
    <1> QED
        BY <1>7, <1>8

----------------------------------------------------------------------------
(***************************************************************************)
(* The loops of JobManager.  A job with a negative stoptime is left out:   *)
(* its Job::stop throws half way.                                          *)
(***************************************************************************)
EachReady(js) == \A n \in DOMAIN js : Stops(js[n]) => Ready(js[n])

LEMMA StopEachReady ==
    ASSUME NEW js, AllFine(js), Unmarked(js), EachReady(js), NEW cfg, NEW names,
           NEW o \in StopEach(js, cfg, names)
    PROVE  EachReady(o.jobs)
PROOF
    <1>1. DOMAIN o.jobs = DOMAIN js
        BY StopEachIs
    <1>2. ASSUME NEW n \in DOMAIN js, Stops(o.jobs[n])  PROVE Ready(o.jobs[n])
        <2> DEFINE fate == Fate(cfg, n, js[n])
        <2>1. JobOK(js[n]) /\ js[n].state \notin MarkStates
            BY DEF AllFine, JobFine, Unmarked
        <2>2. fate \in Fates
            BY FateType
        <2>3. o.jobs[n] \in {js[n], JobStop(js[n], NoFailure, fate)}
            BY StopEachIs
        <2>4. o.jobs[n].config = js[n].config
            BY StopEachFine
        <2>5. Stops(js[n]) /\ Ready(js[n])
            BY <1>2, <2>4 DEF Stops, EachReady
        <2> HIDE DEF fate
        <2> QED
            BY <2>1, <2>2, <2>3, <2>5, ReadyStop
    <1> QED
        BY <1>1, <1>2 DEF EachReady

\* The loop throws when Job::stop of one of its jobs does.
LEMMA StopEachThrows ==
    ASSUME NEW js, NEW cfg, NEW names, NEW o \in StopEach(js, cfg, names), o.threw
    PROVE  \E n \in names : JobStopThrows(js[n], NoFailure)
PROOF
    <1> DEFINE throwers == {n \in names : JobStopThrows(js[n], NoFailure)}
    <1>1. PICK ks : o = Outcome(ks, throwers # {})
        BY DEF StopEach
    <1>2. throwers # {}
        BY <1>1 DEF Outcome
    <1> QED
        BY <1>2

LEMMA CreateEachReady ==
    ASSUME NEW js, EachReady(js), NEW cfg \in Loadable, NEW o \in CreateEach(js, cfg)
    PROVE  EachReady(o.jobs)
    BY CreateEachIs, ReadyCreated DEF EachReady

LEMMA UpdateAllReady ==
    ASSUME NEW js, EachReady(js), NEW cfg \in Loadable, NEW o \in UpdateAll(js, cfg)
    PROVE  EachReady(o.jobs)
PROOF
    <1>1. ASSUME NEW n \in DOMAIN o.jobs, Stops(o.jobs[n])  PROVE Ready(o.jobs[n])
        <2>1. n \in DOMAIN js
            BY UpdateAllIs
        <2>2. CASE o.jobs[n] = js[n]
            BY <1>1, <2>1, <2>2 DEF EachReady
        <2>3. CASE o.jobs[n] # js[n]
            BY <2>3, UpdateAllIs, ReadyCreated
        <2> QED
            BY <2>2, <2>3
    <1> QED
        BY <1>1 DEF EachReady

LEMMA StartEachReady ==
    ASSUME NEW js, AllFine(js), Unmarked(js), EachReady(js), NEW o \in StartEach(js)
    PROVE  EachReady(o.jobs)
PROOF
    <1>1. ASSUME NEW n \in DOMAIN js, Stops(o.jobs[n])  PROVE Ready(o.jobs[n])
        <2>1. JobFine(js[n]) /\ js[n].state \notin MarkStates
            BY DEF AllFine, Unmarked
        <2>2. o.jobs[n] \in {js[n], JobStart(js[n], NoFailure)} /\ o.jobs[n].config = js[n].config
            BY StartEachIs, StartEachFine
        <2>3. Ready(js[n])
            BY <1>1, <2>2 DEF Stops, EachReady
        <2> QED
            BY <2>1, <2>2, <2>3, ReadyStart
    <1> QED
        BY <1>1, StartEachIs DEF EachReady

LEMMA ReloadAllReady ==
    ASSUME NEW js, AllFine(js), Unmarked(js), EachReady(js), NEW cfg \in Loadable,
           NEW o \in ReloadAll(js, cfg)
    PROVE  EachReady(o.jobs)
PROOF
    <1> DEFINE drifted == {n \in DOMAIN js : Drifted(cfg, n, js[n])}
    <1>1. PICK o1 \in StopEach(js, cfg, drifted) :
             IF o1.threw THEN o = o1
             ELSE \E o2 \in CreateEach(o1.jobs, cfg) :
             IF o2.threw THEN o = o2
             ELSE \E o3 \in UpdateAll(o2.jobs, cfg) :
             IF o3.threw THEN o = o3 ELSE o \in StartEach(o3.jobs)
        BY ReloadAllIs
    <1> HIDE DEF drifted
    <1>2. AllFine(o1.jobs) /\ EachReady(o1.jobs)
        BY StopEachFine, StopEachReady
    <1>3. CASE ~o1.threw
        <2>1. PICK o2 \in CreateEach(o1.jobs, cfg) :
                 IF o2.threw THEN o = o2
                 ELSE \E o3 \in UpdateAll(o2.jobs, cfg) :
                 IF o3.threw THEN o = o3 ELSE o \in StartEach(o3.jobs)
            BY <1>1, <1>3
        <2>2. AllFine(o2.jobs) /\ EachReady(o2.jobs)
            BY <1>2, CreateEachFine, CreateEachReady
        <2>3. CASE ~o2.threw
            <3>1. PICK o3 \in UpdateAll(o2.jobs, cfg) :
                     IF o3.threw THEN o = o3 ELSE o \in StartEach(o3.jobs)
                BY <2>1, <2>3
            <3>2. AllFine(o3.jobs) /\ EachReady(o3.jobs) /\ (~o3.threw => Unmarked(o3.jobs))
                BY <2>2, UpdateAllFine, UpdateAllReady
            <3>3. CASE ~o3.threw
                BY <3>1, <3>2, <3>3, StartEachReady
            <3> QED
                BY <3>1, <3>2, <3>3
        <2> QED
            BY <2>1, <2>2, <2>3
    <1> QED
        BY <1>1, <1>2, <1>3

----------------------------------------------------------------------------
(***************************************************************************)
(* The inductive invariant.                                                *)
(***************************************************************************)
AllReady == ~overtaken => EachReady(jobs)

LEMMA OneJobReady ==
    ASSUME NEW n \in DOMAIN jobs, NEW j, jobs' = [jobs EXCEPT ![n] = j], EachReady(jobs),
           j.config = jobs[n].config, Stops(jobs[n]) /\ Ready(jobs[n]) => Ready(j)
    PROVE  EachReady(jobs)'
PROOF
    <1>1. DOMAIN jobs' = DOMAIN jobs
        OBVIOUS
    <1>2. \A m \in DOMAIN jobs : jobs'[m] = IF m = n THEN j ELSE jobs[m]
        OBVIOUS
    <1> QED
        BY <1>1, <1>2 DEF EachReady, Stops

\* What a command meets, when it meets no mark.
LEMMA MeetsUnmarked ==
    ASSUME NEW js, Meets(js), ~overtaken'
    PROVE  \A j \in js : j.state \notin MarkStates
    BY DEF Meets, IsMarked, MarkStates

LEMMA CommandReady ==
    ASSUME ManagerInv, NEW n \in DOMAIN jobs, EachReady(jobs), ~overtaken',
           StartCommand(n) \/ StopCommand(n) \/ RestartCommand(n)
    PROVE  EachReady(jobs)'
PROOF
    <1> DEFINE fate == Fate(config, n, jobs[n])
               stopped == JobStop(jobs[n], NoFailure, fate)
    <1>1. JobFine(jobs[n]) /\ JobOK(jobs[n])
        BY DEF ManagerInv, AllFine, JobFine
    <1>2. fate \in Fates
        BY FateType
    <1>3. jobs[n].state \notin MarkStates
        <2>1. \E js : Meets(js) /\ jobs[n] \in js
            BY DEF StartCommand, StopCommand, RestartCommand
        <2> QED
            BY <2>1, MeetsUnmarked
    <1>4. CASE StartCommand(n)
        <2>1. jobs' = [jobs EXCEPT ![n] = JobStart(jobs[n], NoFailure)]
            BY <1>4 DEF StartCommand, JobCommand
        <2>2. JobStart(jobs[n], NoFailure).config = jobs[n].config
            BY <1>1, JobStartOK
        <2> QED
            BY <1>1, <1>3, <2>1, <2>2, ReadyStart, OneJobReady
    <1>5. CASE StopCommand(n)
        <2>1. jobs' = [jobs EXCEPT ![n] = stopped]
            BY <1>5 DEF StopCommand, JobCommand
        <2>2. stopped.config = jobs[n].config
            BY <1>1, <1>2, JobStopOK
        <2> HIDE DEF fate
        <2> QED
            BY <1>1, <1>2, <1>3, <2>1, <2>2, ReadyStop, OneJobReady
    <1>6. CASE RestartCommand(n)
        <2> DEFINE k == JobRestart(jobs[n], NoFailure, NoFailure, fate)
        <2>1. jobs' = [jobs EXCEPT ![n] = k]
            BY <1>6 DEF RestartCommand, JobCommand
        <2>2. k.config = jobs[n].config
            BY <1>1, <1>2, JobRestartOK
        <2>3. Meets({jobs[n]} \cup {j \in {stopped} : ~JobStopThrows(jobs[n], NoFailure)})
            BY <1>6 DEF RestartCommand
        <2>4. ~JobStopThrows(jobs[n], NoFailure) => stopped.state \notin MarkStates
            <3> HIDE DEF stopped
            <3> QED
                BY <2>3, MeetsUnmarked
        <2> HIDE DEF fate
        <2>5. Stops(jobs[n]) /\ Ready(jobs[n]) => Ready(k)
            BY <1>1, <1>2, <1>3, <2>4, ReadyStop, ReadyRestart
        <2> HIDE DEF k
        <2> QED
            BY <2>1, <2>2, <2>5, OneJobReady
    <1> QED
        BY <1>4, <1>5, <1>6

LEMMA CallbackReady ==
    ASSUME ManagerInv, NEW n \in DOMAIN jobs, EachReady(jobs), NEW i \in DOMAIN jobs[n].procs,
           HandleExit(n, i) \/ HandleStartTime(n, i) \/ HandleStopTime(n, i)
    PROVE  EachReady(jobs)'
PROOF
    <1>1. JobFine(jobs[n]) /\ JobOK(jobs[n])
        BY DEF ManagerInv, AllFine, JobFine
    <1>2. CASE HandleExit(n, i)
        <2> DEFINE fate == Fate(config, n, jobs[n])
                   k == OnStateChange(jobs[n], i, "ok", fate)
        <2>1. jobs' = [jobs EXCEPT ![n] = k] /\ ExitReady(jobs[n].procs[i])
            BY <1>2 DEF HandleExit, ProcessCallback
        <2>2. fate \in Fates
            BY FateType
        <2>3. k.config = jobs[n].config
            BY <1>1, <2>1, <2>2, OnStateChangeOK DEF ExitReady
        <2> HIDE DEF fate
        <2>4. Ready(jobs[n]) => Ready(k)
            BY <1>1, <2>1, <2>2, ReadyOnStateChange
        <2> HIDE DEF k
        <2> QED
            BY <2>1, <2>3, <2>4, OneJobReady
    <1>3. CASE HandleStartTime(n, i)
        <2> DEFINE k == OnProcessSurpassedStartTime(jobs[n], i)
        <2>1. jobs' = [jobs EXCEPT ![n] = k] /\ jobs[n].procs[i].timer = "start"
            BY <1>3 DEF HandleStartTime, ProcessCallback, StartTimeReady
        <2>2. k.config = jobs[n].config /\ (Ready(jobs[n]) => Ready(k))
            BY <1>1, <2>1, OnProcessSurpassedStartTimeOK, ReadyStartTime
        <2> HIDE DEF k
        <2> QED
            BY <2>1, <2>2, OneJobReady
    <1>4. CASE HandleStopTime(n, i)
        <2> DEFINE k == OnStopTime(jobs[n], i)
        <2>1. jobs' = [jobs EXCEPT ![n] = k] /\ jobs[n].procs[i].timer = "kill"
            BY <1>4 DEF HandleStopTime, ProcessCallback, StopTimeReady
        <2>2. k.config = jobs[n].config /\ (Ready(jobs[n]) => Ready(k))
            BY <1>1, <2>1, OnStopTimeOK, ReadyStopTime
        <2> HIDE DEF k
        <2> QED
            BY <2>1, <2>2, OneJobReady
    <1> QED
        BY <1>2, <1>3, <1>4

LEMMA ChildExitReady ==
    ASSUME ManagerInv, ~Crashes, NEW n \in DOMAIN jobs, EachReady(jobs),
           NEW i \in DOMAIN jobs[n].procs, NEW status \in Zombie, ChildExit(n, i, status)
    PROVE  EachReady(jobs)'
PROOF
    <1> DEFINE k == [jobs[n] EXCEPT !.procs[i].child = status]
    <1>1. JobFine(jobs[n]) /\ jobs[n] \in Job
        BY DEF ManagerInv, AllFine, JobFine, JobOK
    <1>2. jobs' = [jobs EXCEPT ![n] = k] /\ status \in Endings(jobs[n].procs[i], Crashes)
        BY DEF ChildExit
    <1>3. status \in Endings(jobs[n].procs[i], FALSE)
        BY <1>2 DEF Endings
    <1>4. k.config = jobs[n].config
        BY <1>1 DEF Job
    <1>5. Ready(jobs[n]) => Ready(k)
        BY <1>1, <1>3, ReadyChildExit
    <1> HIDE DEF k
    <1> QED
        BY <1>2, <1>4, <1>5, OneJobReady

LEMMA AllReadyStep ==
    ASSUME ManagerInv, ~Crashes, AllReady, [Next]_vars
    PROVE  AllReady'
PROOF
    <1> SUFFICES ASSUME ~overtaken'  PROVE EachReady(jobs)'
        BY DEF AllReady
    <1>1. AllFine(jobs) /\ config \in Loadable
        BY ConfigIsLoadable DEF ManagerInv
    <1>2. ASSUME NEW n \in DOMAIN jobs, JobStep(n)  PROVE EachReady(jobs)'
        <2>1. overtaken' = overtaken \/ \E js : Meets(js)
            BY <1>2 DEF JobStep, StartCommand, StopCommand, RestartCommand, JobCommand,
                        ChildExit, HandleExit, HandleStartTime, HandleStopTime, ProcessCallback,
                        history
        <2>2. ~overtaken
            BY <2>1, MeetsKeeps
        <2>3. EachReady(jobs)
            BY <2>2 DEF AllReady
        <2> QED
            BY <1>2, <2>3, CommandReady, CallbackReady, ChildExitReady DEF JobStep
    <1>3. ASSUME NEW f \in Versions, ReloadCommand(f) \/ SignalReload(f)
          PROVE  EachReady(jobs)'
        <2>1. config' \in Loadable /\ Meets(Range(jobs))
            BY <1>3 DEF ReloadCommand, SignalReload, Loadable
        <2>2. PICK o \in ReloadAll(jobs, config') : jobs' = o.jobs
            BY <1>3 DEF ReloadCommand, SignalReload
        <2>3. ~overtaken /\ Unmarked(jobs)
            BY <2>1, RangeIs, MeetsNone
        <2>4. EachReady(jobs)
            BY <2>3 DEF AllReady
        <2>5. EachReady(o.jobs)
            BY <1>1, <2>1, <2>3, <2>4, ReloadAllReady
        <2> QED
            BY <2>2, <2>5 DEF EachReady
    <1>4. CASE Boot
        <2>1. PICK o \in StartEach(jobs) : jobs' = o.jobs
            BY <1>4 DEF Boot
        <2>2. EachReady(jobs)
            BY <1>4 DEF Boot, AllReady, history
        <2>3. Unmarked(jobs)
            BY <1>4 DEF Boot, ManagerInv, BootIsEmpty, Unmarked, MarkStates
        <2>4. EachReady(o.jobs)
            BY <1>1, <2>2, <2>3, StartEachReady
        <2> QED
            BY <2>1, <2>4 DEF EachReady
    <1>5. CASE Update
        <2>1. PICK o \in UpdateAll(jobs, config) : jobs' = o.jobs
            BY <1>5 DEF Update
        <2>2. EachReady(jobs)
            BY <1>5 DEF Update, AllReady, history
        <2>3. EachReady(o.jobs)
            BY <1>1, <2>2, UpdateAllReady
        <2> QED
            BY <2>1, <2>3 DEF EachReady
    <1>6. CASE Kill
        <2>1. PICK o \in StopEach(jobs, config, DOMAIN jobs) : jobs' = o.jobs
            BY <1>6 DEF Kill
        <2>2. ~overtaken /\ Unmarked(jobs)
            BY <1>6, RangeIs, MeetsNone DEF Kill
        <2>3. EachReady(jobs)
            BY <2>2 DEF AllReady
        <2>4. EachReady(o.jobs)
            BY <1>1, <2>2, <2>3, StopEachReady
        <2> QED
            BY <2>1, <2>4 DEF EachReady
    <1>7. CASE \/ ListenFails \/ Terminate \/ Exit \/ UNCHANGED vars
               \/ \E f \in Versions : UnreadableFile(f)
        BY <1>7 DEF ListenFails, Terminate, Exit, UnreadableFile, vars, history, AllReady, EachReady
    <1> QED
        BY <1>2, <1>3, <1>4, <1>5, <1>6, <1>7 DEF Next

(***************************************************************************)
(* Only kill() aborts the daemon, and then one of the stops threw; once it *)
(* has, nothing moves.                                                     *)
(***************************************************************************)
LEMMA KillAborts ==
    ASSUME ManagerInv, AllReady, Kill, phase' = "aborted", ~overtaken'
    PROVE  \E n \in DOMAIN jobs' : IntervalRejected(jobs'[n].config.stop_time)
PROOF
    <1>1. PICK o \in StopEach(jobs, config, DOMAIN jobs) : jobs' = o.jobs /\ o.threw
        BY DEF Kill
    <1>2. ~overtaken /\ Unmarked(jobs)
        BY RangeIs, MeetsNone DEF Kill
    <1>3. AllFine(jobs) /\ EachReady(jobs)
        BY <1>2 DEF ManagerInv, AllReady
    <1>4. PICK n \in DOMAIN jobs : JobStopThrows(jobs[n], NoFailure)
        BY <1>1, StopEachThrows
    <1>5. JobOK(jobs[n]) /\ jobs[n].state \notin MarkStates
        BY <1>2, <1>3 DEF AllFine, JobFine, Unmarked
    <1>6. ~Stops(jobs[n])
        BY <1>3, <1>4, <1>5, ReadyStop DEF EachReady, Fates
    <1>7. n \in DOMAIN jobs' /\ jobs'[n].config = jobs[n].config
        BY <1>1, <1>3, StopEachIs, StopEachFine
    <1>8. jobs[n].config.stop_time \in Int
        BY <1>5 DEF JobOK, Job, JobConfig
    <1> QED
        BY <1>6, <1>7, <1>8 DEF Stops, IntervalRejected

LEMMA AbortedStays ==
    ASSUME ManagerInv, NeverAborts, AllReady, [Next]_vars
    PROVE  NeverAborts'
PROOF
    <1> SUFFICES ASSUME phase' = "aborted", ~overtaken'
                 PROVE  \E n \in DOMAIN jobs' : IntervalRejected(jobs'[n].config.stop_time)
        BY DEF NeverAborts
    <1>1. CASE Kill
        BY <1>1, KillAborts
    <1>2. CASE UNCHANGED vars
        BY <1>2 DEF vars, history, NeverAborts
    <1>3. CASE \E n \in DOMAIN jobs : JobStep(n)
        BY <1>3 DEF JobStep, StartCommand, StopCommand, RestartCommand, JobCommand, ChildExit,
                    HandleExit, HandleStartTime, HandleStopTime, ProcessCallback,
                    ServedCallback, DrainCallback, AtTop
    <1>4. CASE \E f \in Versions : ReloadCommand(f) \/ UnreadableFile(f) \/ SignalReload(f)
        BY <1>4 DEF ReloadCommand, UnreadableFile, SignalReload, ServedCallback, AtTop
    <1>5. CASE Boot \/ ListenFails \/ Update \/ Terminate \/ Exit
        BY <1>5 DEF Boot, ListenFails, Update, Terminate, Exit
    <1> QED
        BY <1>1, <1>2, <1>3, <1>4, <1>5 DEF Next

----------------------------------------------------------------------------
(***************************************************************************)
(* ~JobManager does not throw, for any files, commands, reloads and        *)
(* batches of events, in a daemon whose children do not crash: kill()      *)
(* finds every process of a job that is up either down, in a state that    *)
(* Process::stop knows, or signallable.  A mark that was overtaken and a   *)
(* negative stoptime are the only ways to std::terminate.                  *)
(***************************************************************************)
THEOREM ShutdownDoesNotThrow == ASSUME ~Crashes PROVE Spec => []NeverAborts
PROOF
    <1>1. Init => AllReady /\ NeverAborts
        <2> SUFFICES ASSUME Init  PROVE AllReady /\ NeverAborts
            OBVIOUS
        <2>1. EachReady(jobs)
            BY ReadyNew DEF Init, EachReady
        <2> QED
            BY <2>1 DEF Init, AllReady, NeverAborts
    <1>2. ManagerInv /\ AllReady /\ [Next]_vars => AllReady'
        BY AllReadyStep
    <1>3. ManagerInv /\ AllReady /\ NeverAborts /\ [Next]_vars => NeverAborts'
        BY AbortedStays
    <1> QED
        BY <1>1, <1>2, <1>3, ManagerInvariant, PTL DEF Spec
=============================================================================

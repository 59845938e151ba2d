-------------------------- MODULE JobManagerProofs --------------------------
(***************************************************************************)
(* Proofs about all the jobs of the daemon, for every set of configuration *)
(* files, with and without crashes of children: the types, that no mark is *)
(* left at the top of the main loop, that no job is destroyed while it has *)
(* a child, that none is left behind when the daemon exits, that every     *)
(* configured name has a job, and that a reload spares what did not change.*)
(***************************************************************************)
EXTENDS JobManager, JobProofs, ConfigFileProofs

USE DEF LiveStates, RestartableStates, Unreaped, Zombie

----------------------------------------------------------------------------
(***************************************************************************)
(* A job that Job::stop or the last death has brought to rest, by the name *)
(* of its state, or that was not started yet.                              *)
(***************************************************************************)
RestStates == {"EMPTY", "STOPPED", "REPLACE", "REMOVE"}

AllDown(j) == \A i \in DOMAIN j.procs : j.procs[i].state \notin LiveStates

(***************************************************************************)
(* The part of the inductive invariant about one job.  The state of a job  *)
(* does not lie: at rest it has no process with a child.  This is where    *)
(* the exception of StartsWhole comes in.                                  *)
(***************************************************************************)
Quiet(j) == StartsWhole(j) /\ j.state \in RestStates => AllDown(j)

JobFine(j) == JobOK(j) /\ j.config \in AllConfigs /\ Quiet(j)

LEMMA NoChildAtRest ==
    ASSUME NEW j, JobFine(j), StartsWhole(j), j.state \in RestStates
    PROVE  ~HasChild(j)
    BY DEF JobFine, Quiet, AllDown, HasChild, JobOK, ProcOK, Sound, ChildFits

LEMMA FateType ==
    ASSUME NEW cfg, NEW n, NEW j
    PROVE  Fate(cfg, n, j) \in Fates
    BY DEF Fate, Fates

(***************************************************************************)
(* Job::stop: a job comes to rest only when all its processes are STOPPED, *)
(* and no child is waited for in it.                                       *)
(***************************************************************************)
LEMMA StopKeepsChild ==
    ASSUME NEW options, NEW p, Sound(p), NEW outcome
    PROVE  Stop(p, options, outcome).child = p.child
PROOF
    <1> DEFINE result == StopResult(p, options, outcome)
    <1>1. CASE HasExited(p)
        BY <1>1 DEF Stop, Sound, Process
    <1>2. CASE ~HasExited(p)
        <2>1. result \in {"send_signal", "timerfd_create", "timer_start", "ok"}
            BY <1>2 DEF StopResult
        <2> HIDE DEF result
        <2>2. Stop(p, options, outcome) \in
                 {p, [p EXCEPT !.state = "STOPPING"],
                  [p EXCEPT !.state = "STOPPING", !.timer = "none"],
                  [p EXCEPT !.state = "STOPPING", !.timer = "kill"]}
            BY <1>2, <2>1 DEF Stop, result
        <2> QED
            BY <2>2 DEF Sound, Process
    <1> QED
        BY <1>1, <1>2

LEMMA JobStopKeepsChildren ==
    ASSUME NEW j, JobOK(j), NEW fate \in Fates
    PROVE  HasChild(JobStop(j, NoFailure, fate)) <=> HasChild(j)
PROOF
    <1> DEFINE procs == StopAll(j, NoFailure)
               k == JobStop(j, NoFailure, fate)
    <1>1. /\ DOMAIN procs = DOMAIN j.procs
          /\ \A i \in DOMAIN j.procs : procs[i].child = j.procs[i].child
        BY StopKeepsChild DEF StopAll, JobOK, ProcOK
    <1> HIDE DEF procs
    <1>2. k.procs \in {j.procs, procs}
        BY DEF JobStop, JobOK, Job, procs
    <1> HIDE DEF k
    <1>3. HasChild(k) <=> HasChild(j)
        BY <1>1, <1>2 DEF HasChild
    <1> QED
        BY <1>3 DEF k

LEMMA JobStopFine ==
    ASSUME NEW j, JobFine(j), NEW fate \in Fates
    PROVE  JobFine(JobStop(j, NoFailure, fate))
PROOF
    <1> DEFINE procs == StopAll(j, NoFailure)
               k == JobStop(j, NoFailure, fate)
    <1>1. JobOK(j) /\ j \in Job /\ j.state \in JobState
        BY DEF JobFine, JobOK, Job
    <1>2. JobOK(k) /\ k.config = j.config
        BY <1>1, JobStopOK
    <1>3. \/ k.procs = j.procs /\ (k.state = j.state \/ j.state \in RestStates)
          \/ k.procs = procs /\ k.state = "STOPPING"
          \/ k.procs = procs /\ AllProcessesInStates(procs, {"STOPPED"})
        <2> HIDE DEF procs
        <2>1. CASE j.state = "STOPPING"
            BY <2>1 DEF JobStop
        <2>2. CASE j.state \in {"EMPTY", "STOPPED"}
            BY <1>1, <2>2 DEF JobStop, RestStates, Job
        <2>3. CASE j.state \notin {"STOPPING", "EMPTY", "STOPPED"}
            BY <1>1, <2>3 DEF JobStop, Job, procs
        <2> QED
            BY <2>1, <2>2, <2>3
    <1> HIDE DEF k, procs
    <1>4. Quiet(k)
        <2>1. CASE k.procs = j.procs /\ (k.state = j.state \/ j.state \in RestStates)
            BY <1>2, <2>1 DEF JobFine, Quiet, AllDown, StartsWhole
        <2>2. CASE k.state = "STOPPING"
            BY <2>2 DEF Quiet, RestStates
        <2>3. CASE k.procs = procs /\ AllProcessesInStates(procs, {"STOPPED"})
            BY <2>3 DEF Quiet, AllDown, AllProcessesInStates
        <2> QED
            BY <1>3, <2>1, <2>2, <2>3
    <1>5. JobFine(k)
        BY <1>2, <1>4 DEF JobFine
    <1> QED
        BY <1>5 DEF k

----------------------------------------------------------------------------
(***************************************************************************)
(* Job::start.  When it throws, a job that starts whole has no process     *)
(* that was started: the command has no word, or there is no process.      *)
(***************************************************************************)
LEMMA BlankStartIs ==
    ASSUME NEW options, HasNoArgv(options), NEW p
    PROVE  Start(p, options, "ok") = p
    BY DEF Start, StartResult

LEMMA StartFailureIs ==
    ASSUME NEW options, StartResult(options, "ok") # "ok", ~IntervalRejected(options.start_time)
    PROVE  HasNoArgv(options)
    BY DEF StartResult

LEMMA BlankRestartIs ==
    ASSUME NEW options, HasNoArgv(options), NEW p \in Process
    PROVE  RestartProcess(p, options, "ok").state = p.state
PROOF
    <1> DEFINE reset == [p EXCEPT !.restarts = 0]
    <1>1. reset.state = p.state
        BY DEF Process
    <1>2. RestartProcess(p, options, "ok") = reset
        BY BlankStartIs DEF RestartProcess
    <1> QED
        BY <1>1, <1>2

LEMMA FailedRestartDown ==
    ASSUME NEW j, JobOK(j), StartsWhole(j), RestartThrowers(j, NoFailure) # {}, AllDown(j)
    PROVE  \A i \in DOMAIN RestartProcesses(j, NoFailure) :
              RestartProcesses(j, NoFailure)[i].state \notin LiveStates
PROOF
    <1>1. \A i : OutcomeAt(NoFailure, i) = "ok"
        BY DEF OutcomeAt, NoFailure
    <1>2. HasNoArgv(j.config)
        BY <1>1, StartFailureIs DEF RestartThrowers, StartsWhole
    <1>3. \A i \in DOMAIN j.procs : j.procs[i] \in Process
        BY DEF JobOK, ProcOK, Sound
    <1> QED
        BY <1>1, <1>2, <1>3, BlankRestartIs DEF RestartProcesses, AllDown

LEMMA FailedCreateDown ==
    ASSUME NEW j, JobOK(j), StartsWhole(j), CreateThrows(j, NoFailure), AllDown(j)
    PROVE  \A i \in DOMAIN StartProcesses(j, NoFailure) :
              StartProcesses(j, NoFailure)[i].state \notin LiveStates
PROOF
    <1> DEFINE n == CreatedCount(j, NoFailure)
               new == [i \in 1..n |-> Start(NewProcess, j.config, OutcomeAt(NoFailure, i))]
               procs == StartProcesses(j, NoFailure)
    <1>1. j.config.numprocs \in Int /\ j.procs \in Seq(Process)
        BY DEF JobOK, Job, JobConfig
    <1>2. NoFailure.at = 0 /\ \A i : OutcomeAt(NoFailure, i) = "ok"
        BY DEF OutcomeAt, NoFailure
    <1>3. n = 0 \/ (n = 1 /\ HasNoArgv(j.config))
        BY <1>1, <1>2 DEF CreatedCount, CreateThrows, NeverStarts, StartsWhole
    <1>4. \A i \in 1..n : new[i] = NewProcess
        BY <1>2, <1>3, BlankStartIs
    <1>5. n \in Nat /\ new \in [1..n -> Process]
        BY <1>3, <1>4, NewProcessSound DEF Sound
    <1>6. new \in Seq(Process) /\ Len(new) = n
        BY <1>5, FunctionIsSeq
    <1>7. procs = j.procs \o new
        BY DEF StartProcesses
    <1> HIDE DEF n, new, procs
    <1>8. /\ DOMAIN procs = 1..(Len(j.procs) + n)
          /\ \A i \in DOMAIN procs : IF i <= Len(j.procs) THEN procs[i] = j.procs[i]
                                     ELSE procs[i] = new[i - Len(j.procs)]
        BY <1>1, <1>5, <1>6, <1>7
    <1>9. NewProcess.state \notin LiveStates
        BY DEF NewProcess
    <1>10. ASSUME NEW i \in DOMAIN procs  PROVE procs[i].state \notin LiveStates
        <2>1. CASE i <= Len(j.procs)
            BY <1>1, <1>5, <1>8, <2>1 DEF AllDown
        <2>2. CASE ~(i <= Len(j.procs))
            <3>1. Len(j.procs) \in Nat
                BY <1>1
            <3>2. i - Len(j.procs) \in 1..n
                BY <1>5, <1>8, <2>2, <3>1
            <3> QED
                BY <1>4, <1>8, <1>9, <2>2, <3>2
        <2> QED
            BY <2>1, <2>2
    <1> QED
        BY <1>10 DEF procs

LEMMA JobStartState ==
    ASSUME NEW j, JobOK(j)
    PROVE  JobStart(j, NoFailure).state \in {j.state, "STARTING"}
    BY DEF JobStart, JobOK, Job

LEMMA JobStartFine ==
    ASSUME NEW j, JobFine(j)
    PROVE  JobFine(JobStart(j, NoFailure))
PROOF
    <1> DEFINE k == JobStart(j, NoFailure)
               restarted == RestartProcesses(j, NoFailure)
               created == StartProcesses(j, NoFailure)
    <1>1. JobOK(j) /\ j \in Job
        BY DEF JobFine, JobOK
    <1>2. JobOK(k) /\ k.config = j.config
        BY <1>1, JobStartOK
    <1>3. \/ k.state = "STARTING"
          \/ k.state = "STOPPING"
          \/ j.state = "STOPPED" /\ RestartThrowers(j, NoFailure) # {} /\ k.procs = restarted
          \/ j.state = "EMPTY" /\ CreateThrows(j, NoFailure) /\ k.procs = created
        <2> HIDE DEF restarted, created
        <2>1. CASE JobStartThrows(j, NoFailure)
            BY <1>1, <2>1 DEF JobStart, JobStartThrows, Job, restarted, created
        <2>2. CASE ~JobStartThrows(j, NoFailure)
            BY <1>1, <2>2 DEF JobStart, Job
        <2> QED
            BY <2>1, <2>2
    <1>4. Quiet(k)
        <2>1. CASE k.state \in {"STARTING", "STOPPING"}
            BY <2>1 DEF Quiet, RestStates
        <2>2. CASE ~StartsWhole(j)
            BY <1>2, <2>2 DEF Quiet, StartsWhole
        <2>3. CASE StartsWhole(j) /\ j.state \in {"STOPPED", "EMPTY"}
            <3>1. AllDown(j)
                BY <2>3 DEF JobFine, Quiet, RestStates
            <3>2. /\ RestartThrowers(j, NoFailure) # {} =>
                        \A i \in DOMAIN restarted : restarted[i].state \notin LiveStates
                  /\ CreateThrows(j, NoFailure) =>
                        \A i \in DOMAIN created : created[i].state \notin LiveStates
                BY <1>1, <2>3, <3>1, FailedRestartDown, FailedCreateDown
            <3> HIDE DEF k, restarted, created
            <3> QED
                BY <1>3, <3>2, <2>1 DEF Quiet, AllDown
        <2> QED
            BY <1>3, <2>1, <2>2, <2>3
    <1> QED
        BY <1>2, <1>4 DEF JobFine

LEMMA JobRestartFine ==
    ASSUME NEW j, JobFine(j), NEW fate \in Fates
    PROVE  JobFine(JobRestart(j, NoFailure, NoFailure, fate))
PROOF
    <1> DEFINE stopped == JobStop(j, NoFailure, fate)
    <1>1. JobFine(stopped)
        BY JobStopFine
    <1>2. JobRestart(j, NoFailure, NoFailure, fate) \in {stopped, JobStart(stopped, NoFailure)}
        BY DEF JobRestart
    <1> HIDE DEF stopped
    <1> QED
        BY <1>1, <1>2, JobStartFine

----------------------------------------------------------------------------
(***************************************************************************)
(* A job that has a child in a process that starts whole is not at rest.   *)
(***************************************************************************)
LEMMA LiveIsNotAtRest ==
    ASSUME NEW j, JobFine(j), NEW i \in DOMAIN j.procs, j.procs[i].state \in LiveStates
    PROVE  StartsWhole(j) => j.state \notin RestStates
    BY DEF JobFine, Quiet, AllDown

(***************************************************************************)
(* The death of a process: the job is at rest only if no process is left.  *)
(***************************************************************************)
LEMMA OnStateChangeFine ==
    ASSUME NEW j, JobFine(j), NEW i \in DOMAIN j.procs, j.procs[i].child \in Zombie,
           NEW fate \in Fates
    PROVE  JobFine(OnStateChange(j, i, "ok", fate))
PROOF
    <1> DEFINE k == OnStateChange(j, i, "ok", fate)
    <1>1. JobOK(j) /\ j.procs[i].state \in LiveStates
        BY DEF JobFine, JobOK, ProcOK, Sound, ChildFits
    <1>2. JobOK(k) /\ k.config = j.config
        BY <1>1, OnStateChangeOK
    <1>3. IF WasStopped(j.procs[i]) THEN AfterStop(j, i, k, "ok", fate)
                                    ELSE AfterExit(j, i, k, "ok")
        BY <1>1, OnStateChangeIs
    <1> HIDE DEF k
    <1>4. \/ k.state = "STARTING" \/ k.state = "STOPPING" \/ k.state = j.state
          \/ AllProcessesInStates(k.procs, {"STOPPED"})
          \/ AllProcessesInStates(k.procs, RestartableStates)
        BY <1>3 DEF AfterStop, AfterExit
    <1>5. Quiet(k)
        <2>1. CASE k.state \in {"STARTING", "STOPPING"}
            BY <2>1 DEF Quiet, RestStates
        <2>2. CASE k.state = j.state
            BY <1>1, <1>2, <2>2, LiveIsNotAtRest DEF Quiet, StartsWhole
        <2>3. CASE \/ AllProcessesInStates(k.procs, {"STOPPED"})
                   \/ AllProcessesInStates(k.procs, RestartableStates)
            BY <2>3 DEF Quiet, AllDown, AllProcessesInStates
        <2> QED
            BY <1>4, <2>1, <2>2, <2>3
    <1>6. JobFine(k)
        BY <1>2, <1>5 DEF JobFine
    <1> QED
        BY <1>6 DEF k

(***************************************************************************)
(* A timer belongs to a process with a child, so to a job not at rest.     *)
(***************************************************************************)
LEMMA SameStateFine ==
    ASSUME NEW j, JobFine(j), NEW i \in DOMAIN j.procs, j.procs[i].state \in LiveStates,
           NEW k, JobOK(k), k.config = j.config, k.state \in {j.state, "RUNNING"}
    PROVE  JobFine(k)
PROOF
    <1>1. StartsWhole(k) => k.state \notin RestStates
        BY LiveIsNotAtRest DEF RestStates, StartsWhole
    <1> QED
        BY <1>1 DEF JobFine, Quiet

LEMMA OnStartTimeFine ==
    ASSUME NEW j, JobFine(j), NEW i \in DOMAIN j.procs, j.procs[i].timer = "start"
    PROVE  JobFine(OnProcessSurpassedStartTime(j, i))
PROOF
    <1> DEFINE k == OnProcessSurpassedStartTime(j, i)
    <1>1. JobOK(j) /\ j \in Job /\ j.procs[i].state \in LiveStates
        BY DEF JobFine, JobOK, ProcOK, Sound, TimerFits
    <1>2. JobOK(k) /\ k.config = j.config
        BY <1>1, OnProcessSurpassedStartTimeOK
    <1>3. k.state \in {j.state, "RUNNING"}
        BY <1>1 DEF OnProcessSurpassedStartTime, Job
    <1> QED
        BY <1>1, <1>2, <1>3, SameStateFine

LEMMA OnStopTimeFine ==
    ASSUME NEW j, JobFine(j), NEW i \in DOMAIN j.procs, j.procs[i].timer = "kill"
    PROVE  JobFine(OnStopTime(j, i))
PROOF
    <1>1. JobOK(j) /\ j \in Job /\ j.procs[i].state \in LiveStates
        BY DEF JobFine, JobOK, ProcOK, Sound, TimerFits
    <1>2. JobOK(OnStopTime(j, i)) /\ OnStopTime(j, i).config = j.config
        BY <1>1, OnStopTimeOK
    <1>3. OnStopTime(j, i).state = j.state
        BY <1>1 DEF OnStopTime, Job
    <1> QED
        BY <1>1, <1>2, <1>3, SameStateFine

LEMMA ChildExitFine ==
    ASSUME NEW j, JobFine(j), NEW i \in DOMAIN j.procs,
           NEW status \in Endings(j.procs[i], Crashes)
    PROVE  LET k == [j EXCEPT !.procs[i].child = status]
           IN  JobFine(k) /\ k.state = j.state /\ k.config = j.config
PROOF
    <1> DEFINE k == [j EXCEPT !.procs[i].child = status]
    <1>1. JobOK(j) /\ j \in Job
        BY DEF JobFine, JobOK
    <1>2. j.procs[i].child \in Unreaped
        BY DEF Endings
    <1>3. j.procs[i].state \in LiveStates
        BY <1>1, <1>2 DEF JobOK, ProcOK, Sound, ChildFits
    <1>4. JobOK(k) /\ k.config = j.config
        BY <1>1, ChildExitOK
    <1>5. k.state = j.state
        BY <1>1 DEF Job
    <1> HIDE DEF k
    <1>6. JobFine(k)
        BY <1>3, <1>4, <1>5, SameStateFine
    <1> QED
        BY <1>4, <1>5, <1>6 DEF k

----------------------------------------------------------------------------
(***************************************************************************)
(* The loops of JobManager.  A loop visits only names it was given, and    *)
(* all of them when nothing throws.                                        *)
(***************************************************************************)
LEMMA VisitsWithin ==
    ASSUME NEW names, NEW throwers \in SUBSET names, NEW visited \in Visits(names, throwers)
    PROVE  visited \subseteq names /\ (throwers = {} => visited = names)
    BY DEF Visits

MarkStates == {"REPLACE", "REMOVE"}

LEMMA StopEachIs ==
    ASSUME NEW js, NEW cfg, NEW names, NEW o \in StopEach(js, cfg, names)
    PROVE  /\ DOMAIN o.jobs = DOMAIN js
           /\ \A n \in DOMAIN js :
                 o.jobs[n] \in {js[n], JobStop(js[n], NoFailure, Fate(cfg, n, js[n]))}
PROOF
    <1> DEFINE throwers == {n \in names : JobStopThrows(js[n], NoFailure)}
    <1>1. PICK visited \in Visits(names, throwers) :
             o = Outcome([n \in DOMAIN js |->
                            IF n \in visited THEN JobStop(js[n], NoFailure, Fate(cfg, n, js[n]))
                                             ELSE js[n]], throwers # {})
        BY DEF StopEach
    <1> HIDE DEF throwers
    <1> QED
        BY <1>1 DEF Outcome

LEMMA CreateEachIs ==
    ASSUME NEW js, NEW cfg, NEW o \in CreateEach(js, cfg)
    PROVE  /\ DOMAIN js \subseteq DOMAIN o.jobs
           /\ \A n \in DOMAIN js : o.jobs[n] = js[n]
           /\ \A n \in DOMAIN o.jobs \ DOMAIN js :
                 n \in DOMAIN cfg /\ o.jobs[n] = Created(cfg, n)
PROOF
    <1> DEFINE names == DOMAIN cfg \ DOMAIN js
               throwers == {n \in names : CreateFails(cfg, n)}
    <1>1. PICK visited \in Visits(names, throwers) :
             o = Outcome([n \in DOMAIN js \cup visited |->
                            IF n \in visited THEN Created(cfg, n) ELSE js[n]], throwers # {})
        BY DEF CreateEach
    <1>2. visited \subseteq names
        BY VisitsWithin
    <1> QED
        BY <1>1, <1>2 DEF Outcome

LEMMA UpdateAllIs ==
    ASSUME NEW js, NEW cfg, NEW o \in UpdateAll(js, cfg)
    PROVE  /\ DOMAIN o.jobs \subseteq DOMAIN js
           /\ \A n \in DOMAIN js : js[n].state \notin MarkStates =>
                 n \in DOMAIN o.jobs /\ o.jobs[n] = js[n]
           /\ \A n \in DOMAIN o.jobs : o.jobs[n] # js[n] =>
                 n \in DOMAIN cfg /\ o.jobs[n] = Created(cfg, n)
PROOF
    <1> DEFINE marked == {n \in DOMAIN js : js[n].state \in {"REMOVE", "REPLACE"}}
               throwers == {n \in marked : /\ js[n].state = "REPLACE"
                                           /\ n \notin DOMAIN cfg \/ CreateFails(cfg, n)}
               Replaced(v) == {n \in v : js[n].state = "REPLACE" /\ n \in DOMAIN cfg}
    <1>1. PICK visited \in Visits(marked, throwers) :
             o = Outcome([n \in (DOMAIN js \ visited) \cup Replaced(visited) |->
                            IF n \in visited THEN Created(cfg, n) ELSE js[n]], throwers # {})
        BY DEF UpdateAll
    <1>2. visited \subseteq marked
        BY VisitsWithin
    <1> HIDE DEF throwers
    <1> QED
        BY <1>1, <1>2 DEF Outcome, MarkStates

\* An update() that does not throw has acted on every mark.
LEMMA UpdateAllActs ==
    ASSUME NEW js, NEW cfg, NEW o \in UpdateAll(js, cfg), ~o.threw, NEW n \in DOMAIN o.jobs
    PROVE  \/ o.jobs[n] = js[n] /\ js[n].state \notin MarkStates
           \/ n \in DOMAIN cfg /\ o.jobs[n] = Created(cfg, n)
PROOF
    <1> DEFINE marked == {m \in DOMAIN js : js[m].state \in {"REMOVE", "REPLACE"}}
               throwers == {m \in marked : /\ js[m].state = "REPLACE"
                                           /\ m \notin DOMAIN cfg \/ CreateFails(cfg, m)}
               Replaced(v) == {m \in v : js[m].state = "REPLACE" /\ m \in DOMAIN cfg}
    <1>1. PICK visited \in Visits(marked, throwers) :
             o = Outcome([m \in (DOMAIN js \ visited) \cup Replaced(visited) |->
                            IF m \in visited THEN Created(cfg, m) ELSE js[m]], throwers # {})
        BY DEF UpdateAll
    <1>2. throwers = {}
        BY <1>1 DEF Outcome
    <1> HIDE DEF throwers
    <1>3. visited = marked
        BY <1>2, VisitsWithin
    <1> QED
        BY <1>1, <1>3 DEF Outcome, MarkStates

LEMMA StartEachIs ==
    ASSUME NEW js, NEW o \in StartEach(js)
    PROVE  /\ DOMAIN o.jobs = DOMAIN js
           /\ \A n \in DOMAIN js : o.jobs[n] \in {js[n], JobStart(js[n], NoFailure)}
PROOF
    <1> DEFINE names == {n \in DOMAIN js : js[n].config.autostart}
               throwers == {n \in names : JobStartThrows(js[n], NoFailure)}
    <1>1. PICK visited \in Visits(names, throwers) :
             o = Outcome([n \in DOMAIN js |->
                            IF n \in visited THEN JobStart(js[n], NoFailure) ELSE js[n]],
                         throwers # {})
        BY DEF StartEach
    <1> HIDE DEF throwers
    <1> QED
        BY <1>1 DEF Outcome

LEMMA ReloadAllIs ==
    ASSUME NEW js, NEW cfg, NEW o \in ReloadAll(js, cfg)
    PROVE  LET drifted == {n \in DOMAIN js : Drifted(cfg, n, js[n])}
           IN  \E o1 \in StopEach(js, cfg, drifted) :
                  IF o1.threw THEN o = o1
                  ELSE \E o2 \in CreateEach(o1.jobs, cfg) :
                  IF o2.threw THEN o = o2
                  ELSE \E o3 \in UpdateAll(o2.jobs, cfg) :
                  IF o3.threw THEN o = o3 ELSE o \in StartEach(o3.jobs)
    BY DEF ReloadAll, AndThen

(***************************************************************************)
(* A job made from an entry of the file that was read.                     *)
(***************************************************************************)
LEMMA LoadedConfig ==
    ASSUME NEW cfg \in Loadable, NEW n \in DOMAIN cfg
    PROVE  n \in Names /\ cfg[n] \in AllConfigs /\ cfg[n] \in JobConfig
    BY FilesAssumption DEF Names, AllConfigs, Range

LEMMA NewJobFine ==
    ASSUME NEW cfg \in Loadable, NEW n \in DOMAIN cfg
    PROVE  JobFine(NewJob(cfg[n])) /\ NewJob(cfg[n]).state = "EMPTY"
PROOF
    <1> DEFINE c == cfg[n]
               j == NewJob(c)
    <1>1. c \in AllConfigs /\ c \in JobConfig
        BY LoadedConfig
    <1> HIDE DEF c
    <1>2. j.state = "EMPTY" /\ j.procs = <<>> /\ j.config = c /\ j \in Job
        BY <1>1 DEF NewJob, Job, JobState
    <1> HIDE DEF j
    <1>3. JobFine(j)
        BY <1>1, <1>2 DEF JobFine, JobOK, Quiet, AllDown
    <1> QED
        BY <1>2, <1>3 DEF j, c

LEMMA CreatedFine ==
    ASSUME NEW cfg \in Loadable, NEW n \in DOMAIN cfg
    PROVE  JobFine(Created(cfg, n)) /\ Created(cfg, n).state \in {"EMPTY", "STARTING"}
PROOF
    <1>1. JobFine(NewJob(cfg[n])) /\ NewJob(cfg[n]).state = "EMPTY" /\ JobOK(NewJob(cfg[n]))
        BY NewJobFine DEF JobFine
    <1>2. Created(cfg, n) \in {NewJob(cfg[n]), JobStart(NewJob(cfg[n]), NoFailure)}
        BY DEF Created
    <1> QED
        BY <1>1, <1>2, JobStartFine, JobStartState

----------------------------------------------------------------------------
(***************************************************************************)
(* All jobs are fine; none is marked; and a step from js to ks destroys no *)
(* job that has a child.                                                   *)
(***************************************************************************)
AllFine(js) == \A n \in DOMAIN js : n \in Names /\ JobFine(js[n])

Unmarked(js) == \A n \in DOMAIN js : js[n].state \notin MarkStates

Lost(js, ks, n) == n \notin DOMAIN ks \/ ks[n].config # js[n].config

Spared(js, ks) ==
    \A n \in DOMAIN js : StartsWhole(js[n]) /\ Lost(js, ks, n) => ~HasChild(js[n])

LEMMA StopEachFine ==
    ASSUME NEW js, AllFine(js), NEW cfg, NEW names, NEW o \in StopEach(js, cfg, names)
    PROVE  /\ AllFine(o.jobs)
           /\ \A n \in DOMAIN js : /\ o.jobs[n].config = js[n].config
                                   /\ HasChild(o.jobs[n]) <=> HasChild(js[n])
PROOF
    <1>1. ASSUME NEW n \in DOMAIN js
          PROVE  /\ n \in Names
                 /\ JobFine(o.jobs[n])
                 /\ o.jobs[n].config = js[n].config
                 /\ HasChild(o.jobs[n]) <=> HasChild(js[n])
        <2> DEFINE fate == Fate(cfg, n, js[n])
        <2>1. n \in Names /\ JobFine(js[n]) /\ JobOK(js[n])
            BY DEF AllFine, JobFine
        <2>2. fate \in Fates
            BY FateType
        <2>3. o.jobs[n] \in {js[n], JobStop(js[n], NoFailure, fate)}
            BY StopEachIs
        <2> HIDE DEF fate
        <2> QED
            BY <2>1, <2>2, <2>3, JobStopFine, JobStopOK, JobStopKeepsChildren
    <1>2. DOMAIN o.jobs = DOMAIN js
        BY StopEachIs
    <1> QED
        BY <1>1, <1>2 DEF AllFine

LEMMA CreateEachFine ==
    ASSUME NEW js, AllFine(js), NEW cfg \in Loadable, NEW o \in CreateEach(js, cfg)
    PROVE  AllFine(o.jobs)
PROOF
    <1>1. ASSUME NEW n \in DOMAIN o.jobs  PROVE n \in Names /\ JobFine(o.jobs[n])
        <2>1. CASE n \in DOMAIN js
            BY <2>1, CreateEachIs DEF AllFine
        <2>2. CASE n \notin DOMAIN js
            <3>1. n \in DOMAIN cfg /\ o.jobs[n] = Created(cfg, n)
                BY <2>2, CreateEachIs
            <3> QED
                BY <3>1, LoadedConfig, CreatedFine
        <2> QED
            BY <2>1, <2>2
    <1> QED
        BY <1>1 DEF AllFine

(***************************************************************************)
(* JobManager::update destroys only marked jobs, which are at rest.        *)
(***************************************************************************)
LEMMA UpdateAllFine ==
    ASSUME NEW js, AllFine(js), NEW cfg \in Loadable, NEW o \in UpdateAll(js, cfg)
    PROVE  AllFine(o.jobs) /\ Spared(js, o.jobs) /\ (~o.threw => Unmarked(o.jobs))
PROOF
    <1>1. ASSUME NEW n \in DOMAIN o.jobs  PROVE n \in Names /\ JobFine(o.jobs[n])
        <2>1. n \in DOMAIN js
            BY UpdateAllIs
        <2>2. CASE o.jobs[n] = js[n]
            BY <2>1, <2>2 DEF AllFine
        <2>3. CASE o.jobs[n] # js[n]
            <3>1. n \in DOMAIN cfg /\ o.jobs[n] = Created(cfg, n)
                BY <2>3, UpdateAllIs
            <3> QED
                BY <3>1, LoadedConfig, CreatedFine
        <2> QED
            BY <2>2, <2>3
    <1>2. ASSUME NEW n \in DOMAIN js, StartsWhole(js[n]), Lost(js, o.jobs, n)
          PROVE  ~HasChild(js[n])
        <2>1. js[n].state \in MarkStates
            BY <1>2, UpdateAllIs DEF Lost
        <2> QED
            BY <1>2, <2>1, NoChildAtRest DEF AllFine, MarkStates, RestStates
    <1>3. ASSUME ~o.threw, NEW n \in DOMAIN o.jobs  PROVE o.jobs[n].state \notin MarkStates
        BY <1>3, UpdateAllActs, CreatedFine DEF MarkStates
    <1> QED
        BY <1>1, <1>2, <1>3 DEF AllFine, Spared, Unmarked

LEMMA StartEachFine ==
    ASSUME NEW js, AllFine(js), NEW o \in StartEach(js)
    PROVE  /\ AllFine(o.jobs)
           /\ DOMAIN o.jobs = DOMAIN js
           /\ \A n \in DOMAIN js : /\ o.jobs[n].config = js[n].config
                                   /\ o.jobs[n].state \in {js[n].state, "STARTING"}
PROOF
    <1>1. ASSUME NEW n \in DOMAIN js
          PROVE  /\ n \in Names
                 /\ JobFine(o.jobs[n])
                 /\ o.jobs[n].config = js[n].config
                 /\ o.jobs[n].state \in {js[n].state, "STARTING"}
        <2>1. n \in Names /\ JobFine(js[n]) /\ JobOK(js[n])
            BY DEF AllFine, JobFine
        <2>2. o.jobs[n] \in {js[n], JobStart(js[n], NoFailure)}
            BY StartEachIs
        <2> QED
            BY <2>1, <2>2, JobStartFine, JobStartOK, JobStartState
    <1>2. DOMAIN o.jobs = DOMAIN js
        BY StartEachIs
    <1> QED
        BY <1>1, <1>2 DEF AllFine

LEMMA StartEachUnmarked ==
    ASSUME NEW js, AllFine(js), Unmarked(js), NEW o \in StartEach(js)
    PROVE  Unmarked(o.jobs)
    BY StartEachFine DEF Unmarked, MarkStates

(***************************************************************************)
(* JobManager::reload, wherever it throws: what it destroys was stopped by *)
(* then, by its first loop or before.                                      *)
(***************************************************************************)
LEMMA ReloadAllFine ==
    ASSUME NEW js, AllFine(js), NEW cfg \in Loadable, NEW o \in ReloadAll(js, cfg)
    PROVE  AllFine(o.jobs) /\ Spared(js, o.jobs) /\ (~o.threw => Unmarked(o.jobs))
PROOF
    <1> DEFINE drifted == {n \in DOMAIN js : Drifted(cfg, n, js[n])}
    <1>1. PICK o1 \in StopEach(js, cfg, drifted) :
             IF o1.threw THEN o = o1
             ELSE \E o2 \in CreateEach(o1.jobs, cfg) :
             IF o2.threw THEN o = o2
             ELSE \E o3 \in UpdateAll(o2.jobs, cfg) :
             IF o3.threw THEN o = o3 ELSE o \in StartEach(o3.jobs)
        BY ReloadAllIs
    <1> HIDE DEF drifted
    <1>2. /\ AllFine(o1.jobs)
          /\ DOMAIN o1.jobs = DOMAIN js
          /\ \A n \in DOMAIN js : /\ o1.jobs[n].config = js[n].config
                                  /\ HasChild(o1.jobs[n]) <=> HasChild(js[n])
        BY StopEachFine, StopEachIs
    <1>3. CASE o1.threw
        BY <1>1, <1>2, <1>3 DEF Spared, Lost
    <1>4. CASE ~o1.threw
        <2>1. PICK o2 \in CreateEach(o1.jobs, cfg) :
                 IF o2.threw THEN o = o2
                 ELSE \E o3 \in UpdateAll(o2.jobs, cfg) :
                 IF o3.threw THEN o = o3 ELSE o \in StartEach(o3.jobs)
            BY <1>1, <1>4
        <2>2. AllFine(o2.jobs)
            BY <1>2, CreateEachFine
        <2>3. /\ DOMAIN js \subseteq DOMAIN o2.jobs
              /\ \A n \in DOMAIN js : /\ o2.jobs[n].config = js[n].config
                                      /\ HasChild(o2.jobs[n]) <=> HasChild(js[n])
            BY <1>2, CreateEachIs
        <2>4. CASE o2.threw
            BY <2>1, <2>2, <2>3, <2>4 DEF Spared, Lost
        <2>5. CASE ~o2.threw
            <3>1. PICK o3 \in UpdateAll(o2.jobs, cfg) :
                     IF o3.threw THEN o = o3 ELSE o \in StartEach(o3.jobs)
                BY <2>1, <2>5
            <3>2. AllFine(o3.jobs) /\ Spared(o2.jobs, o3.jobs) /\ (~o3.threw => Unmarked(o3.jobs))
                BY <2>2, UpdateAllFine
            <3>3. Spared(js, o3.jobs)
                BY <2>3, <3>2 DEF Spared, Lost, StartsWhole
            <3>4. CASE o3.threw
                BY <3>1, <3>2, <3>3, <3>4
            <3>5. CASE ~o3.threw
                <4>1. o \in StartEach(o3.jobs)
                    BY <3>1, <3>5
                <4>2. AllFine(o.jobs) /\ Unmarked(o.jobs)
                    BY <3>2, <3>5, <4>1, StartEachFine, StartEachUnmarked
                <4>3. Spared(js, o.jobs)
                    <5>1. /\ DOMAIN o.jobs = DOMAIN o3.jobs
                          /\ \A n \in DOMAIN o3.jobs : o.jobs[n].config = o3.jobs[n].config
                        BY <3>2, <4>1, StartEachFine
                    <5> QED
                        BY <3>3, <5>1 DEF Spared, Lost
                <4> QED
                    BY <4>2, <4>3
            <3> QED
                BY <3>4, <3>5
        <2> QED
            BY <2>4, <2>5
    <1> QED
        BY <1>3, <1>4

----------------------------------------------------------------------------
(***************************************************************************)
(* The inductive invariant.  The three parts about the phases say where    *)
(* the jobs come from at the top of the main loop and at the exit.         *)
(***************************************************************************)
ReadsFile == file \in Versions /\ config \in Loaded[file]

Counted == /\ phase \in Phases
           /\ handled \in 0..MaxEvents
           /\ commands \in 0..MaxCommands
           /\ reloads \in 0..MaxReloads

BootIsEmpty == phase = "booting" => \A n \in DOMAIN jobs : jobs[n].state = "EMPTY"

TopIsUnmarked == AtTop => Unmarked(jobs)

ExitIsAtRest ==
    phase = "exited" => \A n \in DOMAIN jobs : jobs[n].state \in {"STOPPED", "EMPTY"}

ManagerInv == /\ AllFine(jobs)
              /\ ReadsFile
              /\ Counted
              /\ BootIsEmpty
              /\ TopIsUnmarked
              /\ ExitIsAtRest

LEMMA ConfigIsLoadable ==
    ASSUME ReadsFile
    PROVE  config \in Loadable
    BY DEF ReadsFile, Loadable

LEMMA InitManager == Init => ManagerInv
PROOF
    <1> SUFFICES ASSUME Init  PROVE ManagerInv
        OBVIOUS
    <1>1. ReadsFile /\ config \in Loadable
        BY DEF Init, ReadsFile, Loadable
    <1>2. DOMAIN jobs = DOMAIN config /\ \A n \in DOMAIN jobs : jobs[n] = NewJob(config[n])
        BY DEF Init
    <1>3. \A n \in DOMAIN jobs : n \in Names /\ JobFine(jobs[n]) /\ jobs[n].state = "EMPTY"
        BY <1>1, <1>2, LoadedConfig, NewJobFine
    <1>4. phase = "booting" /\ handled = 0 /\ commands = 0 /\ reloads = 0
        BY DEF Init
    <1>5. Counted
        BY <1>4, BoundsAssumption DEF Counted, Phases
    <1> QED
        BY <1>1, <1>3, <1>4, <1>5
           DEF ManagerInv, AllFine, BootIsEmpty, TopIsUnmarked, ExitIsAtRest, AtTop

(***************************************************************************)
(* A step in which one job becomes another that is fine, with its config.  *)
(***************************************************************************)
LEMMA OneJobChanges ==
    ASSUME AllFine(jobs), NEW n \in DOMAIN jobs, NEW j, JobFine(j), j.config = jobs[n].config,
           jobs' = [jobs EXCEPT ![n] = j]
    PROVE  AllFine(jobs') /\ Spared(jobs, jobs')
PROOF
    <1>1. DOMAIN jobs' = DOMAIN jobs
        OBVIOUS
    <1>2. \A m \in DOMAIN jobs : jobs'[m] = IF m = n THEN j ELSE jobs[m]
        OBVIOUS
    <1> QED
        BY <1>1, <1>2 DEF AllFine, Spared, Lost

\* A callback in a batch of the main loop, or of ~JobManager.
LEMMA CallbackPhase ==
    ASSUME ManagerInv, ServedCallback \/ DrainCallback
    PROVE  /\ phase' \in {"serving", "drain"}
           /\ ~AtTop'
           /\ handled' \in 0..MaxEvents
    BY BoundsAssumption DEF ManagerInv, Counted, ServedCallback, DrainCallback, AtTop

\* In the phases of a callback, and out of the top of the loop, the rest is about the jobs.
LEMMA OffTop ==
    ASSUME ManagerInv, AllFine(jobs'), ReadsFile', Counted', ~AtTop',
           phase' \notin {"booting", "exited"}
    PROVE  ManagerInv'
    BY DEF ManagerInv, BootIsEmpty, TopIsUnmarked, ExitIsAtRest, AllFine, JobFine, Quiet

(***************************************************************************)
(* The steps of one job.                                                   *)
(***************************************************************************)
LEMMA CommandStep ==
    ASSUME ManagerInv, NEW n \in DOMAIN jobs,
           StartCommand(n) \/ StopCommand(n) \/ RestartCommand(n)
    PROVE  ManagerInv' /\ Spared(jobs, jobs')
PROOF
    <1> DEFINE fate == Fate(config, n, jobs[n])
    <1>1. JobFine(jobs[n]) /\ JobOK(jobs[n]) /\ AllFine(jobs)
        BY DEF ManagerInv, AllFine, JobFine
    <1>2. fate \in Fates
        BY FateType
    <1>3. PICK j \in {JobStart(jobs[n], NoFailure), JobStop(jobs[n], NoFailure, fate),
                      JobRestart(jobs[n], NoFailure, NoFailure, fate)} : JobCommand(n, j)
        BY DEF StartCommand, StopCommand, RestartCommand
    <1> HIDE DEF fate
    <1>4. JobFine(j) /\ j.config = jobs[n].config
        BY <1>1, <1>2, <1>3, JobStartFine, JobStopFine, JobRestartFine,
           JobStartOK, JobStopOK, JobRestartOK
    <1>5. AllFine(jobs') /\ Spared(jobs, jobs')
        BY <1>1, <1>3, <1>4, OneJobChanges DEF JobCommand
    <1>6. phase' \in {"serving", "drain"} /\ ~AtTop' /\ handled' \in 0..MaxEvents
        BY <1>3, CallbackPhase DEF JobCommand
    <1>7. ReadsFile'
        BY <1>3 DEF JobCommand, ManagerInv, ReadsFile
    <1>8. Counted'
        BY <1>3, <1>6, BoundsAssumption DEF JobCommand, ManagerInv, Counted, Phases
    <1> QED
        BY <1>5, <1>6, <1>7, <1>8, OffTop

LEMMA CallbackStep ==
    ASSUME ManagerInv, NEW n \in DOMAIN jobs, NEW i \in DOMAIN jobs[n].procs,
           HandleExit(n, i) \/ HandleStartTime(n, i) \/ HandleStopTime(n, i)
    PROVE  ManagerInv' /\ Spared(jobs, jobs')
PROOF
    <1> DEFINE fate == Fate(config, n, jobs[n])
    <1>1. JobFine(jobs[n]) /\ JobOK(jobs[n]) /\ AllFine(jobs)
        BY DEF ManagerInv, AllFine, JobFine
    <1>2. fate \in Fates
        BY FateType
    <1> HIDE DEF fate
    <1>3. PICK j : ProcessCallback(n, j) /\ JobFine(j) /\ j.config = jobs[n].config
        <2>1. CASE HandleExit(n, i)
            <3>1. jobs[n].procs[i].child \in Zombie
                BY <2>1 DEF HandleExit, ExitReady
            <3>2. ProcessCallback(n, OnStateChange(jobs[n], i, "ok", fate))
                BY <2>1 DEF HandleExit, fate
            <3> QED
                BY <1>1, <1>2, <3>1, <3>2, OnStateChangeFine, OnStateChangeOK
        <2>2. CASE HandleStartTime(n, i)
            <3>1. jobs[n].procs[i].timer = "start"
                BY <2>2 DEF HandleStartTime, StartTimeReady
            <3>2. ProcessCallback(n, OnProcessSurpassedStartTime(jobs[n], i))
                BY <2>2 DEF HandleStartTime
            <3> QED
                BY <1>1, <3>1, <3>2, OnStartTimeFine, OnProcessSurpassedStartTimeOK
        <2>3. CASE HandleStopTime(n, i)
            <3>1. jobs[n].procs[i].timer = "kill"
                BY <2>3 DEF HandleStopTime, StopTimeReady
            <3>2. ProcessCallback(n, OnStopTime(jobs[n], i))
                BY <2>3 DEF HandleStopTime
            <3> QED
                BY <1>1, <3>1, <3>2, OnStopTimeFine, OnStopTimeOK
        <2> QED
            BY <2>1, <2>2, <2>3
    <1>4. AllFine(jobs') /\ Spared(jobs, jobs')
        BY <1>1, <1>3, OneJobChanges DEF ProcessCallback
    <1>5. phase' \in {"serving", "drain"} /\ ~AtTop' /\ handled' \in 0..MaxEvents
        BY <1>3, CallbackPhase DEF ProcessCallback
    <1>6. ReadsFile'
        BY <1>3 DEF ProcessCallback, ManagerInv, ReadsFile
    <1>7. Counted'
        BY <1>3, <1>5 DEF ProcessCallback, ManagerInv, Counted, Phases
    <1> QED
        BY <1>4, <1>5, <1>6, <1>7, OffTop

\* A child dies between two batches: the state of its job is as it was.
LEMMA ChildExitStep ==
    ASSUME ManagerInv, NEW n \in DOMAIN jobs, NEW i \in DOMAIN jobs[n].procs,
           NEW status \in Zombie, ChildExit(n, i, status)
    PROVE  ManagerInv' /\ Spared(jobs, jobs')
PROOF
    <1> DEFINE j == [jobs[n] EXCEPT !.procs[i].child = status]
    <1>1. JobFine(jobs[n]) /\ AllFine(jobs) /\ TopIsUnmarked
        BY DEF ManagerInv, AllFine
    <1>2. status \in Endings(jobs[n].procs[i], Crashes)
        BY DEF ChildExit
    <1>3. JobFine(j) /\ j.state = jobs[n].state /\ j.config = jobs[n].config
        BY <1>1, <1>2, ChildExitFine
    <1>4. jobs' = [jobs EXCEPT ![n] = j]
        BY DEF ChildExit
    <1> HIDE DEF j
    <1>5. AllFine(jobs') /\ Spared(jobs, jobs')
        BY <1>1, <1>3, <1>4, OneJobChanges
    <1>6. /\ AtTop \/ phase = "drain"
          /\ UNCHANGED <<config, file, phase, handled, commands, reloads>>
        BY DEF ChildExit
    <1>7. DOMAIN jobs' = DOMAIN jobs /\ \A m \in DOMAIN jobs : jobs'[m].state = jobs[m].state
        BY <1>3, <1>4
    <1>8. TopIsUnmarked'
        BY <1>1, <1>6, <1>7 DEF TopIsUnmarked, Unmarked, AtTop
    <1>9. ReadsFile' /\ Counted'
        BY <1>6 DEF ManagerInv, ReadsFile, Counted
    <1>10. BootIsEmpty' /\ ExitIsAtRest'
        BY <1>6 DEF BootIsEmpty, ExitIsAtRest, AtTop
    <1> QED
        BY <1>5, <1>8, <1>9, <1>10 DEF ManagerInv, AllFine, JobFine, Quiet

(***************************************************************************)
(* The steps of the daemon.                                                *)
(***************************************************************************)
LEMMA BootStep ==
    ASSUME ManagerInv, Boot
    PROVE  ManagerInv' /\ Spared(jobs, jobs')
PROOF
    <1>1. PICK o \in StartEach(jobs) :
             jobs' = o.jobs /\ phase' = IF o.threw THEN "leaving" ELSE "serving"
        BY DEF Boot
    <1>2. AllFine(jobs) /\ Unmarked(jobs)
        BY DEF ManagerInv, Boot, BootIsEmpty, Unmarked, MarkStates
    <1>3. AllFine(jobs') /\ Unmarked(jobs')
        BY <1>1, <1>2, StartEachFine, StartEachUnmarked
    <1>4. Spared(jobs, jobs')
        BY <1>1, <1>2, StartEachFine DEF Spared, Lost
    <1>5. ReadsFile' /\ Counted' /\ phase' \in {"leaving", "serving"}
        BY <1>1 DEF ManagerInv, Boot, ReadsFile, Counted, Phases
    <1> QED
        BY <1>3, <1>4, <1>5 DEF ManagerInv, BootIsEmpty, TopIsUnmarked, ExitIsAtRest

LEMMA ReloadStep ==
    ASSUME ManagerInv, NEW f \in Versions, ReloadCommand(f) \/ SignalReload(f)
    PROVE  ManagerInv' /\ Spared(jobs, jobs')
PROOF
    <1>1. config' \in Loaded[f] /\ file' = f /\ CountReload /\ UNCHANGED commands
        BY DEF ReloadCommand, SignalReload
    <1>2. PICK o \in ReloadAll(jobs, config') :
             /\ jobs' = o.jobs
             /\ SignalReload(f) => phase' = IF o.threw THEN "leaving" ELSE "serving"
        <2>1. CASE SignalReload(f)
            BY <2>1 DEF SignalReload
        <2>2. CASE ~SignalReload(f)
            BY <2>2 DEF ReloadCommand
        <2> QED
            BY <2>1, <2>2
    <1>3. AllFine(jobs) /\ config' \in Loadable
        BY <1>1 DEF ManagerInv, Loadable
    <1>4. AllFine(jobs') /\ Spared(jobs, jobs') /\ (~o.threw => Unmarked(jobs'))
        BY <1>2, <1>3, ReloadAllFine
    <1>5. ReadsFile'
        BY <1>1 DEF ReadsFile
    <1>6. reloads' \in 0..MaxReloads /\ commands' \in 0..MaxCommands
        BY <1>1, BoundsAssumption DEF ManagerInv, Counted, CountReload
    <1>7. CASE SignalReload(f)
        <2>1. phase' \in {"leaving", "serving"} /\ handled' = 0 /\ (~o.threw \/ phase' = "leaving")
            BY <1>2, <1>7 DEF SignalReload, AtTop
        <2>2. Counted'
            BY <1>6, <2>1, BoundsAssumption DEF Counted, Phases
        <2>3. TopIsUnmarked' /\ BootIsEmpty' /\ ExitIsAtRest'
            BY <1>4, <2>1 DEF TopIsUnmarked, AtTop, BootIsEmpty, ExitIsAtRest
        <2> QED
            BY <1>4, <1>5, <2>2, <2>3 DEF ManagerInv, AllFine, JobFine, Quiet
    <1>8. CASE ReloadCommand(f)
        <2>1. phase' \in {"serving", "drain"} /\ ~AtTop' /\ handled' \in 0..MaxEvents
            BY <1>8, CallbackPhase DEF ReloadCommand
        <2>2. Counted'
            BY <1>6, <2>1 DEF Counted, Phases
        <2> QED
            BY <1>4, <1>5, <2>1, <2>2, OffTop
    <1> QED
        BY <1>7, <1>8

LEMMA UpdateStep ==
    ASSUME ManagerInv, Update
    PROVE  ManagerInv' /\ Spared(jobs, jobs')
PROOF
    <1>1. PICK o \in UpdateAll(jobs, config) :
             jobs' = o.jobs /\ phase' = IF o.threw THEN "leaving" ELSE "serving"
        BY DEF Update
    <1>2. AllFine(jobs) /\ config \in Loadable
        BY ConfigIsLoadable DEF ManagerInv
    <1>3. AllFine(jobs') /\ Spared(jobs, jobs') /\ (~o.threw => Unmarked(jobs'))
        BY <1>1, <1>2, UpdateAllFine
    <1>4. phase' \in {"leaving", "serving"} /\ (~o.threw \/ phase' = "leaving")
        BY <1>1
    <1>5. ReadsFile' /\ Counted'
        BY <1>4, BoundsAssumption DEF ManagerInv, Update, ReadsFile, Counted, Phases
    <1>6. TopIsUnmarked' /\ BootIsEmpty' /\ ExitIsAtRest'
        BY <1>3, <1>4 DEF TopIsUnmarked, AtTop, BootIsEmpty, ExitIsAtRest
    <1> QED
        BY <1>3, <1>5, <1>6 DEF ManagerInv, AllFine, JobFine, Quiet

LEMMA KillStep ==
    ASSUME ManagerInv, Kill
    PROVE  ManagerInv' /\ Spared(jobs, jobs')
PROOF
    <1>1. PICK o \in StopEach(jobs, config, DOMAIN jobs) :
             jobs' = o.jobs /\ phase' = IF o.threw THEN "aborted" ELSE "drain"
        BY DEF Kill
    <1>2. AllFine(jobs)
        BY DEF ManagerInv
    <1>3. AllFine(jobs')
        BY <1>1, <1>2, StopEachFine
    <1>4. Spared(jobs, jobs')
        BY <1>1, <1>2, StopEachFine, StopEachIs DEF Spared, Lost
    <1>5. phase' \in {"aborted", "drain"}
        BY <1>1
    <1>6. ReadsFile' /\ Counted'
        BY <1>5 DEF ManagerInv, Kill, ReadsFile, Counted, Phases
    <1>7. ~AtTop'
        BY <1>5 DEF AtTop
    <1> QED
        BY <1>3, <1>4, <1>5, <1>6, <1>7, OffTop

\* The steps that leave the jobs alone.
LEMMA IdleStep ==
    ASSUME ManagerInv,
           \/ ListenFails \/ Terminate \/ Exit \/ UNCHANGED vars
           \/ \E f \in Versions : UnreadableFile(f)
    PROVE  ManagerInv' /\ Spared(jobs, jobs')
PROOF
    <1>1. UNCHANGED <<jobs, config, file>>
        BY DEF ListenFails, Terminate, Exit, UnreadableFile, vars
    <1>2. AllFine(jobs') /\ ReadsFile' /\ Spared(jobs, jobs')
        BY <1>1 DEF ManagerInv, ReadsFile, Spared, Lost
    <1>3. CASE ListenFails \/ Terminate
        <2>1. phase' = "leaving" /\ UNCHANGED <<handled, commands, reloads>>
            BY <1>3 DEF ListenFails, Terminate
        <2> QED
            BY <1>2, <2>1, OffTop DEF ManagerInv, Counted, AtTop, Phases
    <1>4. CASE Exit
        <2>1. /\ phase' = "exited"
              /\ \A n \in DOMAIN jobs' : jobs'[n].state \in {"STOPPED", "EMPTY"}
              /\ UNCHANGED <<handled, commands, reloads>>
            BY <1>1, <1>4 DEF Exit
        <2>2. Counted'
            BY <2>1 DEF ManagerInv, Counted, Phases
        <2>3. TopIsUnmarked' /\ BootIsEmpty' /\ ExitIsAtRest'
            BY <2>1 DEF TopIsUnmarked, AtTop, BootIsEmpty, ExitIsAtRest
        <2> QED
            BY <1>2, <2>2, <2>3 DEF ManagerInv, AllFine, JobFine, Quiet
    <1>5. CASE UNCHANGED vars
        BY <1>2, <1>5 DEF vars, ManagerInv, AllFine, JobFine, Quiet, ReadsFile, Counted,
                          TopIsUnmarked, Unmarked, AtTop, BootIsEmpty, ExitIsAtRest
    <1>6. ASSUME NEW f \in Versions, UnreadableFile(f)  PROVE ManagerInv'
        <2>1. CountReload /\ UNCHANGED commands
            BY <1>6 DEF UnreadableFile
        <2>2. reloads' \in 0..MaxReloads /\ commands' \in 0..MaxCommands
            BY <2>1, BoundsAssumption DEF ManagerInv, Counted, CountReload
        <2>3. CASE ServedCallback
            <3>1. phase' \in {"serving", "drain"} /\ ~AtTop' /\ handled' \in 0..MaxEvents
                BY <2>3, CallbackPhase
            <3>2. Counted'
                BY <2>2, <3>1 DEF Counted, Phases
            <3> QED
                BY <1>2, <3>1, <3>2, OffTop
        <2>4. CASE AtTop /\ UNCHANGED <<phase, handled>>
            <3>1. Counted'
                BY <2>2, <2>4 DEF ManagerInv, Counted
            <3>2. TopIsUnmarked' /\ BootIsEmpty' /\ ExitIsAtRest'
                BY <1>1, <2>4 DEF ManagerInv, TopIsUnmarked, Unmarked, AtTop, BootIsEmpty,
                                  ExitIsAtRest
            <3> QED
                BY <1>2, <3>1, <3>2 DEF ManagerInv, AllFine, JobFine, Quiet
        <2> QED
            BY <1>6, <2>3, <2>4 DEF UnreadableFile
    <1> QED
        BY <1>2, <1>3, <1>4, <1>5, <1>6

LEMMA ManagerStep ==
    ASSUME ManagerInv, [Next]_vars
    PROVE  ManagerInv' /\ Spared(jobs, jobs')
PROOF
    <1>1. ASSUME NEW n \in DOMAIN jobs, JobStep(n)  PROVE ManagerInv' /\ Spared(jobs, jobs')
        BY <1>1, CommandStep, CallbackStep, ChildExitStep DEF JobStep
    <1>2. ASSUME NEW f \in Versions, ReloadCommand(f) \/ UnreadableFile(f) \/ SignalReload(f)
          PROVE  ManagerInv' /\ Spared(jobs, jobs')
        BY <1>2, ReloadStep, IdleStep
    <1> QED
        BY <1>1, <1>2, BootStep, UpdateStep, KillStep, IdleStep DEF Next

----------------------------------------------------------------------------
(***************************************************************************)
(* The inductive invariant holds, whatever the files say.                  *)
(***************************************************************************)
THEOREM ManagerInvariant == Spec => []ManagerInv
PROOF
    <1>1. ManagerInv /\ [Next]_vars => ManagerInv'
        BY ManagerStep
    <1> QED
        BY <1>1, InitManager, PTL DEF Spec

(***************************************************************************)
(* The history variables are Boolean.                                      *)
(***************************************************************************)
HistoryOK == failed \in BOOLEAN /\ overtaken \in BOOLEAN

LEMMA ThrewIsBoolean ==
    ASSUME NEW js, NEW cfg, NEW o
    PROVE  /\ \A names : o \in StopEach(js, cfg, names) => o.threw \in BOOLEAN
           /\ o \in CreateEach(js, cfg) => o.threw \in BOOLEAN
           /\ o \in UpdateAll(js, cfg) => o.threw \in BOOLEAN
           /\ o \in StartEach(js) => o.threw \in BOOLEAN
PROOF
    <1>1. \A js1, P : P \in BOOLEAN => Outcome(js1, P).threw \in BOOLEAN
        BY DEF Outcome
    <1>2. ASSUME NEW names, o \in StopEach(js, cfg, names)  PROVE o.threw \in BOOLEAN
        <2>1. \E js1, S : o = Outcome(js1, S # {})
            BY <1>2 DEF StopEach
        <2> QED
            BY <1>1, <2>1
    <1>3. ASSUME o \in CreateEach(js, cfg)  PROVE o.threw \in BOOLEAN
        <2>1. \E js1, S : o = Outcome(js1, S # {})
            BY <1>3 DEF CreateEach
        <2> QED
            BY <1>1, <2>1
    <1>4. ASSUME o \in UpdateAll(js, cfg)  PROVE o.threw \in BOOLEAN
        <2>1. \E js1, S : o = Outcome(js1, S # {})
            BY <1>4 DEF UpdateAll
        <2> QED
            BY <1>1, <2>1
    <1>5. ASSUME o \in StartEach(js)  PROVE o.threw \in BOOLEAN
        <2>1. \E js1, S : o = Outcome(js1, S # {})
            BY <1>5 DEF StartEach
        <2> QED
            BY <1>1, <2>1
    <1> QED
        BY <1>2, <1>3, <1>4, <1>5

LEMMA ReloadThrewIsBoolean ==
    ASSUME NEW js, NEW cfg, NEW o \in ReloadAll(js, cfg)
    PROVE  o.threw \in BOOLEAN
PROOF
    <1> DEFINE drifted == {n \in DOMAIN js : Drifted(cfg, n, js[n])}
    <1>1. PICK o1 \in StopEach(js, cfg, drifted) :
             IF o1.threw THEN o = o1
             ELSE \E o2 \in CreateEach(o1.jobs, cfg) :
             IF o2.threw THEN o = o2
             ELSE \E o3 \in UpdateAll(o2.jobs, cfg) :
             IF o3.threw THEN o = o3 ELSE o \in StartEach(o3.jobs)
        BY ReloadAllIs
    <1> HIDE DEF drifted
    <1> QED
        BY <1>1, ThrewIsBoolean

LEMMA HistoryStep ==
    ASSUME HistoryOK, [Next]_vars
    PROVE  HistoryOK'
PROOF
    <1>1. ASSUME NEW js, Meets(js)  PROVE overtaken' \in BOOLEAN
        BY <1>1 DEF Meets, HistoryOK
    <1>2. CASE \E n \in DOMAIN jobs : JobStep(n)
        BY <1>1, <1>2 DEF HistoryOK, JobStep, StartCommand, StopCommand, RestartCommand, JobCommand,
                          ChildExit, HandleExit, HandleStartTime, HandleStopTime,
                          ProcessCallback, history
    <1>3. ASSUME NEW f \in Versions, ReloadCommand(f) \/ SignalReload(f)  PROVE HistoryOK'
        BY <1>1, <1>3, ReloadThrewIsBoolean DEF HistoryOK, ReloadCommand, SignalReload
    <1>4. CASE \E f \in Versions : UnreadableFile(f)
        BY <1>4 DEF HistoryOK, UnreadableFile, history
    <1>5. CASE Boot \/ ListenFails \/ Update \/ Terminate \/ Exit \/ UNCHANGED vars
        BY <1>5 DEF HistoryOK, Boot, ListenFails, Update, Terminate, Exit, vars, history
    <1>6. CASE Kill
        BY <1>1, <1>6 DEF HistoryOK, Kill
    <1> QED
        BY <1>2, <1>3, <1>4, <1>5, <1>6 DEF Next

LEMMA HistoryTypes == Spec => []HistoryOK
PROOF
    <1>1. Init => HistoryOK
        BY DEF Init, HistoryOK
    <1>2. HistoryOK /\ [Next]_vars => HistoryOK'
        BY HistoryStep
    <1> QED
        BY <1>1, <1>2, PTL DEF Spec

(***************************************************************************)
(* The jobs are Jobs of names and configs that some file gave, and what    *)
(* was read last is kept, through reloads that throw half way too.         *)
(***************************************************************************)
THEOREM ManagerTypes == Spec => []TypeOK
PROOF
    <1>1. ManagerInv /\ HistoryOK => TypeOK
        BY DEF ManagerInv, AllFine, JobFine, JobOK, Job, ReadsFile, Counted, HistoryOK, TypeOK
    <1> QED
        BY <1>1, ManagerInvariant, HistoryTypes, PTL

(***************************************************************************)
(* No mark is left at the top of the main loop: JobManager::update, when   *)
(* it does not throw, acts on every mark that the callbacks left, and what *)
(* JobManager::reload leaves from a signal has none.                       *)
(***************************************************************************)
THEOREM MarksDoNotLast == Spec => []MarksAreHandled
PROOF
    <1>1. ManagerInv => MarksAreHandled
        BY DEF ManagerInv, TopIsUnmarked, Unmarked, MarkStates, MarksAreHandled
    <1> QED
        BY <1>1, ManagerInvariant, PTL

(***************************************************************************)
(* ~JobManager ends with every child waited for: the states it waits for   *)
(* do not lie, crashes notwithstanding.                                    *)
(***************************************************************************)
THEOREM ExitLeavesNoChild == Spec => []NoOrphansAtExit
PROOF
    <1>1. ASSUME ManagerInv  PROVE NoOrphansAtExit
        <2>1. ASSUME phase = "exited", NEW n \in DOMAIN jobs, StartsWhole(jobs[n])
              PROVE  ~HasChild(jobs[n])
            <3>1. JobFine(jobs[n]) /\ jobs[n].state \in RestStates
                BY <1>1, <2>1 DEF ManagerInv, AllFine, ExitIsAtRest, RestStates
            <3> QED
                BY <2>1, <3>1, NoChildAtRest
        <2> QED
            BY <2>1 DEF NoOrphansAtExit
    <1> QED
        BY <1>1, ManagerInvariant, PTL

(***************************************************************************)
(* No step destroys or replaces a Job object whose child was not waited    *)
(* for: not update(), and not a reload that stops, creates, updates and    *)
(* starts in one go.                                                       *)
(***************************************************************************)
THEOREM ChildrenAreKept == Spec => NoChildAbandoned
PROOF
    <1> DEFINE Kept == \A n \in DOMAIN jobs :
                          StartsWhole(jobs[n])
                          /\ (n \notin DOMAIN jobs' \/ jobs'[n].config # jobs[n].config)
                              => ~HasChild(jobs[n])
    <1>1. ManagerInv /\ [Next]_vars => [Kept]_vars
        <2> SUFFICES ASSUME ManagerInv, [Next]_vars  PROVE Kept
            OBVIOUS
        <2> QED
            BY ManagerStep DEF Spared, Lost
    <1> QED
        BY <1>1, ManagerInvariant, PTL DEF Spec, NoChildAbandoned

----------------------------------------------------------------------------
(***************************************************************************)
(* Every name of the file has a job.  Only REMOVE erases a job for good,   *)
(* so the mark of a name that is in the file is what must not happen.      *)
(***************************************************************************)
RightlyRemoved(cfg, js) == \A n \in DOMAIN js : js[n].state = "REMOVE" => n \notin DOMAIN cfg

Covered(cfg, js) == DOMAIN cfg \subseteq DOMAIN js /\ RightlyRemoved(cfg, js)

NamesCovered == ~failed /\ ~overtaken => Covered(config, jobs)

\* JobManager::onStop, and nothing else, marks a job REMOVE.
LEMMA JobStopRemoves ==
    ASSUME NEW j, JobOK(j), NEW fate \in Fates,
           JobStop(j, NoFailure, fate).state = "REMOVE", j.state # "REMOVE"
    PROVE  fate = "remove"
PROOF
    <1> DEFINE procs == StopAll(j, NoFailure)
    <1>1. j \in Job /\ j.state \in JobState
        BY DEF JobOK, Job
    <1> HIDE DEF procs
    <1>2. JobStop(j, NoFailure, fate).state \in
             {j.state, "STOPPING", Marked(j.state, fate), Marked("STOPPED", fate)}
        <2>1. CASE j.state = "STOPPING"
            BY <2>1 DEF JobStop
        <2>2. CASE j.state \in {"EMPTY", "STOPPED"}
            BY <1>1, <2>2 DEF JobStop, Job
        <2>3. CASE j.state \notin {"STOPPING", "EMPTY", "STOPPED"}
            BY <1>1, <2>3 DEF JobStop, Job, procs
        <2> QED
            BY <2>1, <2>2, <2>3
    <1> QED
        BY <1>2 DEF Marked, Fates

LEMMA JobRestartRemoves ==
    ASSUME NEW j, JobOK(j), NEW fate \in Fates,
           JobRestart(j, NoFailure, NoFailure, fate).state = "REMOVE", j.state # "REMOVE"
    PROVE  fate = "remove"
PROOF
    <1> DEFINE stopped == JobStop(j, NoFailure, fate)
    <1>1. JobOK(stopped)
        BY JobStopOK
    <1>2. JobRestart(j, NoFailure, NoFailure, fate) \in {stopped, JobStart(stopped, NoFailure)}
        BY DEF JobRestart
    <1>3. stopped.state = "REMOVE" => fate = "remove"
        BY JobStopRemoves
    <1> HIDE DEF stopped
    <1> QED
        BY <1>1, <1>2, <1>3, JobStartState

LEMMA OnStateChangeRemoves ==
    ASSUME NEW j, JobFine(j), NEW i \in DOMAIN j.procs, j.procs[i].child \in Zombie,
           NEW fate \in Fates,
           OnStateChange(j, i, "ok", fate).state = "REMOVE", j.state # "REMOVE"
    PROVE  fate = "remove"
PROOF
    <1> DEFINE k == OnStateChange(j, i, "ok", fate)
    <1>1. JobOK(j) /\ j.procs[i].state \in LiveStates
        BY DEF JobFine, JobOK, ProcOK, Sound, ChildFits
    <1>2. IF WasStopped(j.procs[i]) THEN AfterStop(j, i, k, "ok", fate)
                                    ELSE AfterExit(j, i, k, "ok")
        BY <1>1, OnStateChangeIs
    <1> HIDE DEF k
    <1>3. k.state \in {j.state, "STARTING", "STOPPING", "STOPPED", Marked("STOPPED", fate)}
        BY <1>2 DEF AfterStop, AfterExit
    <1>4. k.state = "REMOVE"
        BY DEF k
    <1> QED
        BY <1>3, <1>4 DEF Marked, Fates

LEMMA FateRemoves ==
    ASSUME NEW cfg, NEW n, NEW j, Fate(cfg, n, j) = "remove"
    PROVE  n \notin DOMAIN cfg
    BY DEF Fate

(***************************************************************************)
(* The loops keep the names covered.                                       *)
(***************************************************************************)
LEMMA StopEachRemoves ==
    ASSUME NEW js, AllFine(js), NEW cfg, RightlyRemoved(cfg, js), NEW names,
           NEW o \in StopEach(js, cfg, names)
    PROVE  RightlyRemoved(cfg, o.jobs)
PROOF
    <1>1. ASSUME NEW n \in DOMAIN o.jobs, o.jobs[n].state = "REMOVE"  PROVE n \notin DOMAIN cfg
        <2> DEFINE fate == Fate(cfg, n, js[n])
        <2>1. n \in DOMAIN js /\ JobOK(js[n])
            BY StopEachIs DEF AllFine, JobFine
        <2>2. CASE js[n].state = "REMOVE"
            BY <2>1, <2>2 DEF RightlyRemoved
        <2>3. CASE js[n].state # "REMOVE"
            <3>1. JobStop(js[n], NoFailure, fate).state = "REMOVE"
                BY <1>1, <2>1, <2>3, StopEachIs
            <3> QED
                BY <2>1, <2>3, <3>1, FateType, JobStopRemoves, FateRemoves
        <2> QED
            BY <2>2, <2>3
    <1> QED
        BY <1>1 DEF RightlyRemoved

LEMMA CreateEachCovers ==
    ASSUME NEW js, NEW cfg \in Loadable, RightlyRemoved(cfg, js), NEW o \in CreateEach(js, cfg),
           ~o.threw
    PROVE  Covered(cfg, o.jobs)
PROOF
    <1> DEFINE names == DOMAIN cfg \ DOMAIN js
               throwers == {n \in names : CreateFails(cfg, n)}
    <1>1. PICK visited \in Visits(names, throwers) :
             o = Outcome([n \in DOMAIN js \cup visited |->
                            IF n \in visited THEN Created(cfg, n) ELSE js[n]], throwers # {})
        BY DEF CreateEach
    <1>2. throwers = {}
        BY <1>1 DEF Outcome
    <1>3. visited = names
        BY <1>2, VisitsWithin
    <1>4. DOMAIN cfg \subseteq DOMAIN o.jobs
        BY <1>1, <1>3 DEF Outcome
    <1> HIDE DEF names, throwers
    <1>5. ASSUME NEW n \in DOMAIN o.jobs, o.jobs[n].state = "REMOVE"  PROVE n \notin DOMAIN cfg
        <2>1. CASE n \in DOMAIN js
            BY <1>5, <2>1, CreateEachIs DEF RightlyRemoved
        <2>2. CASE n \notin DOMAIN js
            BY <1>5, <2>2, CreateEachIs, CreatedFine
        <2> QED
            BY <2>1, <2>2
    <1> QED
        BY <1>4, <1>5 DEF Covered, RightlyRemoved

\* update() erases for good only what is marked REMOVE.
LEMMA UpdateAllCovers ==
    ASSUME NEW js, NEW cfg \in Loadable, Covered(cfg, js), NEW o \in UpdateAll(js, cfg)
    PROVE  Covered(cfg, o.jobs)
PROOF
    <1> DEFINE marked == {n \in DOMAIN js : js[n].state \in {"REMOVE", "REPLACE"}}
               throwers == {n \in marked : /\ js[n].state = "REPLACE"
                                           /\ n \notin DOMAIN cfg \/ CreateFails(cfg, n)}
               Replaced(v) == {n \in v : js[n].state = "REPLACE" /\ n \in DOMAIN cfg}
    <1>1. PICK visited \in Visits(marked, throwers) :
             o = Outcome([n \in (DOMAIN js \ visited) \cup Replaced(visited) |->
                            IF n \in visited THEN Created(cfg, n) ELSE js[n]], throwers # {})
        BY DEF UpdateAll
    <1>2. visited \subseteq marked
        BY VisitsWithin
    <1> HIDE DEF throwers
    <1>3. DOMAIN cfg \subseteq DOMAIN o.jobs
        BY <1>1, <1>2 DEF Outcome, Covered, RightlyRemoved
    <1>4. ASSUME NEW n \in DOMAIN o.jobs, o.jobs[n].state = "REMOVE"  PROVE n \notin DOMAIN cfg
        <2>1. n \in DOMAIN js
            BY UpdateAllIs
        <2>2. CASE o.jobs[n] = js[n]
            BY <1>4, <2>1, <2>2 DEF Covered, RightlyRemoved
        <2>3. CASE o.jobs[n] # js[n]
            BY <1>4, <2>3, UpdateAllIs, CreatedFine
        <2> QED
            BY <2>2, <2>3
    <1> QED
        BY <1>3, <1>4 DEF Covered, RightlyRemoved

LEMMA StartEachCovers ==
    ASSUME NEW js, AllFine(js), NEW cfg, Covered(cfg, js), NEW o \in StartEach(js)
    PROVE  Covered(cfg, o.jobs)
    BY StartEachFine DEF Covered, RightlyRemoved

(***************************************************************************)
(* A reload that does not throw and meets no mark: whatever was missing is *)
(* created, and only what the file has not is removed.                     *)
(***************************************************************************)
LEMMA ReloadAllCovers ==
    ASSUME NEW js, AllFine(js), Unmarked(js), NEW cfg \in Loadable, NEW o \in ReloadAll(js, cfg),
           ~o.threw
    PROVE  Covered(cfg, o.jobs)
PROOF
    <1> DEFINE drifted == {n \in DOMAIN js : Drifted(cfg, n, js[n])}
    <1>1. PICK o1 \in StopEach(js, cfg, drifted) :
             IF o1.threw THEN o = o1
             ELSE \E o2 \in CreateEach(o1.jobs, cfg) :
             IF o2.threw THEN o = o2
             ELSE \E o3 \in UpdateAll(o2.jobs, cfg) :
             IF o3.threw THEN o = o3 ELSE o \in StartEach(o3.jobs)
        BY ReloadAllIs
    <1> HIDE DEF drifted
    <1>2. RightlyRemoved(cfg, js)
        BY DEF Unmarked, RightlyRemoved, MarkStates
    <1>3. AllFine(o1.jobs) /\ RightlyRemoved(cfg, o1.jobs)
        BY <1>2, StopEachFine, StopEachRemoves
    <1>4. PICK o2 \in CreateEach(o1.jobs, cfg) :
             IF o2.threw THEN o = o2
             ELSE \E o3 \in UpdateAll(o2.jobs, cfg) :
             IF o3.threw THEN o = o3 ELSE o \in StartEach(o3.jobs)
        BY <1>1
    <1>5. ~o2.threw
        BY <1>4
    <1>6. AllFine(o2.jobs) /\ Covered(cfg, o2.jobs)
        BY <1>3, <1>5, CreateEachFine, CreateEachCovers
    <1>7. PICK o3 \in UpdateAll(o2.jobs, cfg) :
             IF o3.threw THEN o = o3 ELSE o \in StartEach(o3.jobs)
        BY <1>4, <1>5
    <1>8. AllFine(o3.jobs) /\ Covered(cfg, o3.jobs) /\ o \in StartEach(o3.jobs)
        BY <1>6, <1>7, UpdateAllFine, UpdateAllCovers
    <1> QED
        BY <1>8, StartEachCovers

(***************************************************************************)
(* The steps.                                                              *)
(***************************************************************************)
LEMMA OneJobCovers ==
    ASSUME NEW n \in DOMAIN jobs, NEW j, jobs' = [jobs EXCEPT ![n] = j], UNCHANGED config,
           j.state = "REMOVE" /\ jobs[n].state # "REMOVE" => n \notin DOMAIN config,
           Covered(config, jobs)
    PROVE  Covered(config, jobs)'
PROOF
    <1>1. DOMAIN jobs' = DOMAIN jobs
        OBVIOUS
    <1>2. \A m \in DOMAIN jobs : jobs'[m] = IF m = n THEN j ELSE jobs[m]
        OBVIOUS
    <1> QED
        BY <1>1, <1>2 DEF Covered, RightlyRemoved

LEMMA JobStepCovers ==
    ASSUME ManagerInv, NEW n \in DOMAIN jobs, JobStep(n), Covered(config, jobs)
    PROVE  Covered(config, jobs)'
PROOF
    <1> DEFINE fate == Fate(config, n, jobs[n])
    <1>1. JobFine(jobs[n]) /\ JobOK(jobs[n]) /\ jobs[n] \in Job
        BY DEF ManagerInv, AllFine, JobFine, JobOK
    <1>2. fate \in Fates /\ (fate = "remove" => n \notin DOMAIN config)
        BY FateType, FateRemoves
    <1>3. CASE StartCommand(n)
        <2>1. jobs' = [jobs EXCEPT ![n] = JobStart(jobs[n], NoFailure)] /\ UNCHANGED config
            BY <1>3 DEF StartCommand, JobCommand
        <2>2. JobStart(jobs[n], NoFailure).state \in {jobs[n].state, "STARTING"}
            BY <1>1, JobStartState
        <2> QED
            BY <2>1, <2>2, OneJobCovers
    <1>4. CASE StopCommand(n)
        <2>1. jobs' = [jobs EXCEPT ![n] = JobStop(jobs[n], NoFailure, fate)] /\ UNCHANGED config
            BY <1>4 DEF StopCommand, JobCommand
        <2> HIDE DEF fate
        <2> QED
            BY <1>1, <1>2, <2>1, JobStopRemoves, OneJobCovers
    <1>5. CASE RestartCommand(n)
        <2>1. /\ jobs' = [jobs EXCEPT ![n] = JobRestart(jobs[n], NoFailure, NoFailure, fate)]
              /\ UNCHANGED config
            BY <1>5 DEF RestartCommand, JobCommand
        <2> HIDE DEF fate
        <2> QED
            BY <1>1, <1>2, <2>1, JobRestartRemoves, OneJobCovers
    <1>6. ASSUME NEW i \in DOMAIN jobs[n].procs, NEW status \in Zombie, ChildExit(n, i, status)
          PROVE  Covered(config, jobs)'
        <2> DEFINE j == [jobs[n] EXCEPT !.procs[i].child = status]
        <2>1. jobs' = [jobs EXCEPT ![n] = j] /\ UNCHANGED config
            BY <1>6 DEF ChildExit
        <2>2. j.state = jobs[n].state
            BY <1>1 DEF Job
        <2> HIDE DEF j
        <2> QED
            BY <2>1, <2>2, OneJobCovers
    <1>7. ASSUME NEW i \in DOMAIN jobs[n].procs, HandleExit(n, i)  PROVE Covered(config, jobs)'
        <2>1. jobs[n].procs[i].child \in Zombie
            BY <1>7 DEF HandleExit, ExitReady
        <2>2. /\ jobs' = [jobs EXCEPT ![n] = OnStateChange(jobs[n], i, "ok", fate)]
              /\ UNCHANGED config
            BY <1>7 DEF HandleExit, ProcessCallback
        <2> HIDE DEF fate
        <2> QED
            BY <1>1, <1>2, <2>1, <2>2, OnStateChangeRemoves, OneJobCovers
    <1>8. ASSUME NEW i \in DOMAIN jobs[n].procs, HandleStartTime(n, i)
          PROVE  Covered(config, jobs)'
        <2> DEFINE j == OnProcessSurpassedStartTime(jobs[n], i)
        <2>1. jobs' = [jobs EXCEPT ![n] = j] /\ UNCHANGED config
            BY <1>8 DEF HandleStartTime, ProcessCallback
        <2>2. j.state \in {jobs[n].state, "RUNNING"}
            BY <1>1 DEF OnProcessSurpassedStartTime, Job
        <2> HIDE DEF j
        <2> QED
            BY <2>1, <2>2, OneJobCovers
    <1>9. ASSUME NEW i \in DOMAIN jobs[n].procs, HandleStopTime(n, i)  PROVE Covered(config, jobs)'
        <2> DEFINE j == OnStopTime(jobs[n], i)
        <2>1. jobs' = [jobs EXCEPT ![n] = j] /\ UNCHANGED config
            BY <1>9 DEF HandleStopTime, ProcessCallback
        <2>2. j.state = jobs[n].state
            BY <1>1 DEF OnStopTime, Job
        <2> HIDE DEF j
        <2> QED
            BY <2>1, <2>2, OneJobCovers
    <1> QED
        BY <1>3, <1>4, <1>5, <1>6, <1>7, <1>8, <1>9 DEF JobStep

\* A start or a stop that met no mark, of these jobs or before.
LEMMA MeetsNone ==
    ASSUME NEW js, Meets({js[n] : n \in DOMAIN js}), ~overtaken'
    PROVE  ~overtaken /\ Unmarked(js)
    BY DEF Meets, IsMarked, Unmarked, MarkStates

LEMMA MeetsKeeps ==
    ASSUME NEW js, Meets(js), ~overtaken'
    PROVE  ~overtaken
    BY DEF Meets

LEMMA RangeIs ==
    ASSUME NEW js
    PROVE  Range(js) = {js[n] : n \in DOMAIN js}
    BY DEF Range

LEMMA NamesCoveredStep ==
    ASSUME ManagerInv, NamesCovered, [Next]_vars
    PROVE  NamesCovered'
PROOF
    <1> SUFFICES ASSUME ~failed', ~overtaken'  PROVE Covered(config, jobs)'
        BY DEF NamesCovered
    <1>1. AllFine(jobs) /\ config \in Loadable
        BY ConfigIsLoadable DEF ManagerInv
    <1>2. ASSUME NEW n \in DOMAIN jobs, JobStep(n)  PROVE Covered(config, jobs)'
        <2>1. failed' = failed /\ (overtaken' = overtaken \/ \E js : Meets(js))
            BY <1>2 DEF JobStep, StartCommand, StopCommand, RestartCommand, JobCommand,
                        ChildExit, HandleExit, HandleStartTime, HandleStopTime, ProcessCallback,
                        history
        <2>2. ~overtaken
            BY <2>1, MeetsKeeps
        <2>3. ~failed
            BY <2>1
        <2> QED
            BY <1>2, <2>2, <2>3, JobStepCovers DEF NamesCovered
    <1>3. ASSUME NEW f \in Versions, ReloadCommand(f) \/ SignalReload(f)
          PROVE  Covered(config, jobs)'
        <2>1. config' \in Loadable /\ Meets(Range(jobs))
            BY <1>3 DEF ReloadCommand, SignalReload, Loadable
        <2>2. PICK o \in ReloadAll(jobs, config') : jobs' = o.jobs /\ failed' = o.threw
            BY <1>3 DEF ReloadCommand, SignalReload
        <2>3. Unmarked(jobs)
            BY <2>1, RangeIs, MeetsNone
        <2> QED
            BY <1>1, <2>1, <2>2, <2>3, ReloadAllCovers DEF Covered, RightlyRemoved
    <1>4. CASE Boot
        <2>1. PICK o \in StartEach(jobs) : jobs' = o.jobs
            BY <1>4 DEF Boot
        <2>2. Covered(config, jobs) /\ UNCHANGED config
            BY <1>4 DEF Boot, NamesCovered, history
        <2> QED
            BY <1>1, <2>1, <2>2, StartEachCovers DEF Covered, RightlyRemoved
    <1>5. CASE Update
        <2>1. PICK o \in UpdateAll(jobs, config) : jobs' = o.jobs
            BY <1>5 DEF Update
        <2>2. Covered(config, jobs) /\ UNCHANGED config
            BY <1>5 DEF Update, NamesCovered, history
        <2> QED
            BY <1>1, <2>1, <2>2, UpdateAllCovers DEF Covered, RightlyRemoved
    <1>6. CASE Kill
        <2>1. PICK o \in StopEach(jobs, config, DOMAIN jobs) : jobs' = o.jobs
            BY <1>6 DEF Kill
        <2>2. Covered(config, jobs) /\ UNCHANGED config
            BY <1>6 DEF Kill, Meets, NamesCovered
        <2>3. RightlyRemoved(config, o.jobs) /\ DOMAIN o.jobs = DOMAIN jobs
            BY <1>1, <2>2, StopEachRemoves, StopEachIs DEF Covered
        <2> QED
            BY <2>1, <2>2, <2>3 DEF Covered, RightlyRemoved
    <1>7. CASE \/ ListenFails \/ Terminate \/ Exit \/ UNCHANGED vars
               \/ \E f \in Versions : UnreadableFile(f)
        BY <1>7 DEF ListenFails, Terminate, Exit, UnreadableFile, vars, history, NamesCovered,
                    Covered, RightlyRemoved
    <1> QED
        BY <1>2, <1>3, <1>4, <1>5, <1>6, <1>7 DEF Next

(***************************************************************************)
(* Every name of the file that was read last has a job, for any files, any *)
(* commands, crashes and batches of events: a stop, a death or an update() *)
(* erases nothing that the file has, and a reload that went through leaves *)
(* nothing of it out, even after one that threw half way.                  *)
(***************************************************************************)
THEOREM NamesHaveJobs == Spec => []ConfiguredHaveJobs
PROOF
    <1>1. Init => NamesCovered
        BY DEF Init, NamesCovered, Covered, RightlyRemoved, NewJob
    <1>2. ManagerInv /\ NamesCovered /\ [Next]_vars => NamesCovered'
        BY NamesCoveredStep
    <1>3. NamesCovered => ConfiguredHaveJobs
        BY DEF NamesCovered, Covered, ConfiguredHaveJobs
    <1> QED
        BY <1>1, <1>2, <1>3, ManagerInvariant, PTL DEF Spec

----------------------------------------------------------------------------
(***************************************************************************)
(* A reload and the jobs that did not change.                              *)
(***************************************************************************)
LEMMA StopEachOthers ==
    ASSUME NEW js, NEW cfg, NEW names, NEW o \in StopEach(js, cfg, names),
           NEW n \in DOMAIN js, n \notin names
    PROVE  n \in DOMAIN o.jobs /\ o.jobs[n] = js[n]
PROOF
    <1> DEFINE throwers == {m \in names : JobStopThrows(js[m], NoFailure)}
    <1>1. PICK visited \in Visits(names, throwers) :
             o = Outcome([m \in DOMAIN js |->
                            IF m \in visited THEN JobStop(js[m], NoFailure, Fate(cfg, m, js[m]))
                                             ELSE js[m]], throwers # {})
        BY DEF StopEach
    <1>2. visited \subseteq names
        BY VisitsWithin
    <1> HIDE DEF throwers
    <1> QED
        BY <1>1, <1>2 DEF Outcome

\* Job::start leaves a process that is up alone, but for its retry counter.
LEMMA JobStartSpares ==
    ASSUME NEW j, JobFine(j), StartsWhole(j), NEW i \in DOMAIN j.procs,
           j.procs[i].state \in {"STARTING", "RUNNING"}
    PROVE  LET k == JobStart(j, NoFailure)
           IN  i \in DOMAIN k.procs /\ SameButRestarts(k.procs[i], j.procs[i])
PROOF
    <1> DEFINE k == JobStart(j, NoFailure)
               p == j.procs[i]
               restarted == RestartProcesses(j, NoFailure)
    <1>1. j \in Job /\ p \in Process /\ j.state # "EMPTY"
        BY LiveIsNotAtRest DEF JobFine, JobOK, ProcOK, Sound, RestStates
    <1>2. SameButRestarts(p, p)
        BY <1>1 DEF SameButRestarts, Process
    <1>3. i \in DOMAIN restarted /\ restarted[i] \in {p, [p EXCEPT !.restarts = 0]}
        BY DEF RestartProcesses, RestartProcess, IsDown
    <1>4. SameButRestarts([p EXCEPT !.restarts = 0], p)
        BY <1>1 DEF SameButRestarts, Process
    <1> HIDE DEF restarted
    <1>5. k.procs \in {j.procs, restarted}
        BY <1>1 DEF JobStart, Job, restarted
    <1> HIDE DEF k
    <1>6. i \in DOMAIN k.procs /\ SameButRestarts(k.procs[i], p)
        BY <1>2, <1>3, <1>4, <1>5
    <1> QED
        BY <1>6 DEF k

LEMMA ReloadAllSpares ==
    ASSUME NEW js, AllFine(js), NEW cfg \in Loadable, NEW o \in ReloadAll(js, cfg),
           NEW n \in DOMAIN js, ~Drifted(cfg, n, js[n]), StartsWhole(js[n]),
           NEW i \in DOMAIN js[n].procs, js[n].procs[i].state \in {"STARTING", "RUNNING"}
    PROVE  /\ n \in DOMAIN o.jobs
           /\ i \in DOMAIN o.jobs[n].procs
           /\ SameButRestarts(o.jobs[n].procs[i], js[n].procs[i])
PROOF
    <1> DEFINE drifted == {m \in DOMAIN js : Drifted(cfg, m, js[m])}
    <1>1. PICK o1 \in StopEach(js, cfg, drifted) :
             IF o1.threw THEN o = o1
             ELSE \E o2 \in CreateEach(o1.jobs, cfg) :
             IF o2.threw THEN o = o2
             ELSE \E o3 \in UpdateAll(o2.jobs, cfg) :
             IF o3.threw THEN o = o3 ELSE o \in StartEach(o3.jobs)
        BY ReloadAllIs
    <1>2. n \notin drifted
        OBVIOUS
    <1> HIDE DEF drifted
    <1>3. JobFine(js[n]) /\ js[n].procs[i] \in Process /\ js[n].state \notin MarkStates
        BY LiveIsNotAtRest DEF AllFine, JobFine, JobOK, ProcOK, Sound, RestStates, MarkStates
    <1>4. SameButRestarts(js[n].procs[i], js[n].procs[i])
        BY <1>3 DEF SameButRestarts, Process
    <1>5. n \in DOMAIN o1.jobs /\ o1.jobs[n] = js[n]
        BY <1>2, StopEachOthers
    <1>6. \A o2 \in CreateEach(o1.jobs, cfg) : n \in DOMAIN o2.jobs /\ o2.jobs[n] = js[n]
        BY <1>5, CreateEachIs
    <1>7. \A o2 \in CreateEach(o1.jobs, cfg) : \A o3 \in UpdateAll(o2.jobs, cfg) :
             n \in DOMAIN o3.jobs /\ o3.jobs[n] = js[n]
        BY <1>3, <1>6, UpdateAllIs
    <1>8. \/ n \in DOMAIN o.jobs /\ o.jobs[n] = js[n]
          \/ \E o3 : o \in StartEach(o3.jobs) /\ n \in DOMAIN o3.jobs /\ o3.jobs[n] = js[n]
        BY <1>1, <1>5, <1>6, <1>7
    <1>9. n \in DOMAIN o.jobs /\ o.jobs[n] \in {js[n], JobStart(js[n], NoFailure)}
        BY <1>8, StartEachIs
    <1> QED
        BY <1>3, <1>4, <1>9, JobStartSpares

\* The config that the job has is also what the new file says, read by the parser.
LEMMA SameConfigRead ==
    ASSUME ReadsFile, NEW f \in Versions, config' \in Loaded[f], NEW n \in DOMAIN config,
           SameJob(Files[file], Files[f], n)
    PROVE  n \in DOMAIN config' /\ config'[n] = config[n]
PROOF
    <1>1. config \in GetJobConfigs(Files[file]) /\ config' \in GetJobConfigs(Files[f])
        BY DEF ReadsFile, Loaded
    <1>2. ListsIn(Files[file]) /\ ListsIn(Files[f])
        BY ListsAssumption DEF ReadsFile, ListsIn, HasListOfCodes
    <1> QED
        BY <1>1, <1>2, SameJobSameConfig

(***************************************************************************)
(* A reload does not touch the running processes of a job whose entry      *)
(* means what it did, for all documents: the parser gives it an equal      *)
(* config, so the first loop does not stop it, update() finds no mark on   *)
(* it, and the start() of the last loop finds the processes up, even when  *)
(* another job makes the reload throw.                                     *)
(***************************************************************************)
THEOREM ReloadLeavesUnchanged == Spec => ReloadSparesUnchanged
PROOF
    <1> DEFINE Left(n) == \A i \in DOMAIN jobs[n].procs :
                             jobs[n].procs[i].state \in {"STARTING", "RUNNING"}
                                 => /\ n \in DOMAIN jobs'
                                    /\ i \in DOMAIN jobs'[n].procs
                                    /\ SameButRestarts(jobs'[n].procs[i], jobs[n].procs[i])
               Unchanged(n) == /\ reloads' # reloads
                               /\ n \in DOMAIN config
                               /\ jobs[n].config = config[n]
                               /\ StartsWhole(jobs[n])
                               /\ SameJob(Files[file], Files[file'], n)
               SparesAll == \A n \in DOMAIN jobs : Unchanged(n) => Left(n)
    <1>1. ASSUME ManagerInv, [Next]_vars, NEW n \in DOMAIN jobs, Unchanged(n)  PROVE Left(n)
        <2>1. AllFine(jobs) /\ ReadsFile
            BY <1>1 DEF ManagerInv
        <2>2. \E f \in Versions : ReloadCommand(f) \/ UnreadableFile(f) \/ SignalReload(f)
            BY <1>1 DEF Next, vars, Boot, ListenFails, Update, Terminate, Kill, Exit, JobStep,
                        StartCommand, StopCommand, RestartCommand, JobCommand, ChildExit,
                        HandleExit, HandleStartTime, HandleStopTime, ProcessCallback
        <2>3. CASE \E f \in Versions : UnreadableFile(f)
            <3>1. jobs' = jobs
                BY <2>3 DEF UnreadableFile
            <3>2. \A i \in DOMAIN jobs[n].procs : jobs[n].procs[i] \in Process
                BY <2>1 DEF AllFine, JobFine, JobOK, ProcOK, Sound
            <3>3. \A p \in Process : SameButRestarts(p, p)
                BY DEF SameButRestarts, Process
            <3> QED
                BY <3>1, <3>2, <3>3
        <2>4. ASSUME NEW f \in Versions, ReloadCommand(f) \/ SignalReload(f)  PROVE Left(n)
            <3>1. config' \in Loaded[f] /\ file' = f
                BY <2>4 DEF ReloadCommand, SignalReload
            <3>2. PICK o \in ReloadAll(jobs, config') : jobs' = o.jobs
                BY <2>4 DEF ReloadCommand, SignalReload
            <3>3. config' \in Loadable
                BY <3>1 DEF Loadable
            <3>4. n \in DOMAIN config' /\ config'[n] = jobs[n].config
                BY <1>1, <2>1, <3>1, SameConfigRead
            <3>5. ~Drifted(config', n, jobs[n])
                BY <3>4 DEF Drifted
            <3> QED
                BY <1>1, <2>1, <3>2, <3>3, <3>5, ReloadAllSpares
        <2> QED
            BY <2>2, <2>3, <2>4
    <1>2. ManagerInv /\ [Next]_vars => [SparesAll]_vars
        BY <1>1
    <1> QED
        BY <1>2, ManagerInvariant, PTL DEF Spec, ReloadSparesUnchanged
=============================================================================

----------------------------- MODULE JobProofs -----------------------------
(***************************************************************************)
(* Lemmas about the operators of Process and Job, for every config and     *)
(* every failing system call.  The proofs about one job (SingleJobProofs)  *)
(* and about all of them (JobManagerProofs) rest on them.                  *)
(***************************************************************************)
EXTENDS Job, SequenceTheorems, TLAPS

----------------------------------------------------------------------------
(***************************************************************************)
(* One process: the part of the inductive invariant that its own record    *)
(* carries.                                                                *)
(***************************************************************************)
ChildFits(p) == p.state \in LiveStates <=> p.child \in Unreaped

TimerFits(p) == /\ p.timer = "start" => p.state \in {"STARTING", "STOPPING"}
                /\ p.timer = "kill"  => p.state = "STOPPING" /\ CanSignal(p)

Sound(p) == p \in Process /\ ChildFits(p) /\ TimerFits(p)

USE DEF LiveStates, RestartableStates, Unreaped, Zombie

(***************************************************************************)
(* A Process object as it is constructed is sound.                         *)
(***************************************************************************)
LEMMA NewProcessSound == Sound(NewProcess) /\ NewProcess.restarts = 0
    BY DEF Sound, ChildFits, TimerFits, NewProcess, Process, ProcessState, ChildState, CanSignal

(***************************************************************************)
(* Process::start of a process that has no child, whatever call of it      *)
(* fails.                                                                  *)
(***************************************************************************)
LEMMA StartSound ==
    ASSUME NEW p, Sound(p), p.state \notin LiveStates, NEW config, NEW outcome
    PROVE  Sound(Start(p, config, outcome)) /\ Start(p, config, outcome).restarts = p.restarts
PROOF
    <1> DEFINE result == StartResult(config, outcome)
    <1> HIDE DEF result
    <1>1. Start(p, config, outcome) \in
             {p, [p EXCEPT !.timer = "none", !.child = "none"],
              [Forked(p) EXCEPT !.timer = "none"],
              [Forked(p) EXCEPT !.timer = "start"],
              [Forked(p) EXCEPT !.timer = "start", !.pidfd = TRUE],
              [Forked(p) EXCEPT !.timer = "start", !.pidfd = TRUE, !.watched = TRUE]}
        BY DEF Start, result
    <1> QED
        BY <1>1 DEF Sound, ChildFits, TimerFits, CanSignal, Process, ProcessState, ChildState,
                    Forked

(***************************************************************************)
(* Process::stop, whatever call of it fails.                               *)
(***************************************************************************)
LEMMA StopSound ==
    ASSUME NEW p, Sound(p), NEW config, NEW outcome
    PROVE  Sound(Stop(p, config, outcome)) /\ Stop(p, config, outcome).restarts = p.restarts
PROOF
    <1> DEFINE result == StopResult(p, config, outcome)
    <1>1. CASE HasExited(p)
        <2>1. Stop(p, config, outcome) = [p EXCEPT !.state = "STOPPED"]
            BY <1>1 DEF Stop
        <2> QED
            BY <1>1, <2>1 DEF Sound, ChildFits, TimerFits, CanSignal, Process, ProcessState,
                              ChildState, HasExited
    <1>2. CASE ~HasExited(p) /\ ~CanSignal(p)
        <2>1. Stop(p, config, outcome) = p
            BY <1>2 DEF Stop, StopResult
        <2> QED
            BY <2>1
    <1>3. CASE ~HasExited(p) /\ CanSignal(p)
        <2>1. result \in {"timerfd_create", "timer_start", "ok"}
            BY <1>3 DEF StopResult
        <2>2. Stop(p, config, outcome) \in {[p EXCEPT !.state = "STOPPING"],
                                            [p EXCEPT !.state = "STOPPING", !.timer = "none"],
                                            [p EXCEPT !.state = "STOPPING", !.timer = "kill"]}
            <3> HIDE DEF result
            <3> QED  BY <1>3, <2>1 DEF Stop, result
        <2> QED
            BY <1>3, <2>2 DEF Sound, ChildFits, TimerFits, CanSignal, Process, ProcessState,
                              ChildState
    <1> QED
        BY <1>1, <1>2, <1>3

(***************************************************************************)
(* The start timer expires.                                                *)
(***************************************************************************)
LEMMA OnStartTimeSound ==
    ASSUME NEW p, Sound(p), p.timer = "start"
    PROVE  Sound(OnStartTime(p)) /\ OnStartTime(p).restarts = p.restarts
    BY DEF Sound, ChildFits, TimerFits, CanSignal, Process, ProcessState, ChildState, OnStartTime

(***************************************************************************)
(* The kill timer expires: the process is STOPPING, so there is a child to *)
(* kill.                                                                   *)
(***************************************************************************)
LEMMA OnKillTimeSound ==
    ASSUME NEW p, Sound(p), p.timer = "kill"
    PROVE  Sound(OnKillTime(p)) /\ OnKillTime(p).restarts = p.restarts
    BY DEF Sound, ChildFits, TimerFits, CanSignal, Process, ProcessState, ChildState, OnKillTime

(***************************************************************************)
(* A child that lived becomes a zombie.                                    *)
(***************************************************************************)
LEMMA ChildExitSound ==
    ASSUME NEW p, Sound(p), p.child \in {"alive", "dying"}, NEW status \in Zombie
    PROVE  /\ Sound([p EXCEPT !.child = status])
           /\ [p EXCEPT !.child = status].restarts = p.restarts
    BY DEF Sound, ChildFits, TimerFits, CanSignal, Process, ProcessState, ChildState

(***************************************************************************)
(* Process::onStateChange up to the callback: the process is down, without *)
(* child and without timer.                                                *)
(***************************************************************************)
Dead(p) == [Reaped(p) EXCEPT !.state = StateAfterDeath(p)]

LEMMA DeadSound ==
    ASSUME NEW p, Sound(p), p.child \in Zombie
    PROVE  Sound(Dead(p)) /\ Dead(p).restarts = p.restarts /\ Dead(p).state \notin LiveStates
PROOF
    <1>1. p.state \in LiveStates
        BY DEF Sound, ChildFits
    <1>2. StateAfterDeath(p) \in {"STOPPED", "BACKOFF", "EXITED"}
        BY <1>1 DEF StateAfterDeath, Sound
    <1> DEFINE s == StateAfterDeath(p)
    <1> HIDE DEF s
    <1>3. Dead(p) = [p EXCEPT !.child = "reaped", !.timer = "none", !.watched = FALSE, !.state = s]
        BY DEF Dead, Reaped, s, Sound, Process
    <1> QED
        BY <1>2, <1>3 DEF Sound, ChildFits, TimerFits, CanSignal, Process, ProcessState,
                          ChildState, s

(***************************************************************************)
(* AddRestart stays within the retries of the config.                      *)
(***************************************************************************)
Within(p, config) == config.start_retries >= 0 => p.restarts <= config.start_retries

ProcOK(p, config) == Sound(p) /\ Within(p, config)

LEMMA AddRestartOK ==
    ASSUME NEW config \in JobConfig, NEW p, ProcOK(p, config)
    PROVE  /\ ProcOK(AddRestart(p, config), config)
           /\ AddRestart(p, config).state = p.state
           /\ AddRestart(p, config).child = p.child
    BY DEF ProcOK, Within, AddRestart, JobConfig, Sound, ChildFits, TimerFits, CanSignal,
           Process, ProcessState, ChildState

----------------------------------------------------------------------------
(***************************************************************************)
(* A job: the inductive invariant for a job with failing system calls.     *)
(***************************************************************************)
JobOK(j) == /\ j \in Job
            /\ \A i \in DOMAIN j.procs : ProcOK(j.procs[i], j.config)

(***************************************************************************)
(* One process of a job is replaced by a process that is in order.         *)
(***************************************************************************)
LEMMA ReplaceOne ==
    ASSUME NEW j, JobOK(j), NEW i \in DOMAIN j.procs, NEW q, ProcOK(q, j.config)
    PROVE  LET k == [j EXCEPT !.procs[i] = q]
           IN  /\ JobOK(k)
               /\ k.state = j.state
               /\ k.config = j.config
               /\ DOMAIN k.procs = DOMAIN j.procs
               /\ \A h \in DOMAIN j.procs : k.procs[h] = IF h = i THEN q ELSE j.procs[h]
PROOF
    <1> DEFINE k == [j EXCEPT !.procs[i] = q]
               seq == [j.procs EXCEPT ![i] = q]
    <1>1. j.procs \in Seq(Process) /\ j.config \in JobConfig /\ j.state \in JobState
        BY DEF JobOK, Job
    <1>2. q \in Process
        BY DEF ProcOK, Sound
    <1>3. DOMAIN j.procs = 1..Len(j.procs)
        BY <1>1, LenProperties
    <1>4. seq \in Seq(Process)
        BY <1>1, <1>2, <1>3, ExceptSeq
    <1>5. /\ DOMAIN seq = DOMAIN j.procs
          /\ \A h \in DOMAIN j.procs : seq[h] = IF h = i THEN q ELSE j.procs[h]
        OBVIOUS
    <1>6. k.procs = seq /\ k.state = j.state /\ k.config = j.config /\ k \in Job
        BY <1>1, <1>4 DEF JobOK, Job
    <1> QED
        BY <1>5, <1>6 DEF JobOK

(***************************************************************************)
(* All processes of a job are replaced, and perhaps its state.             *)
(***************************************************************************)
Rebuilt(j, procs, state) == [j EXCEPT !.procs = procs, !.state = state]

LEMMA RebuiltOK ==
    ASSUME NEW j, JobOK(j), NEW procs \in Seq(Process), NEW state \in JobState,
           \A i \in DOMAIN procs : ProcOK(procs[i], j.config)
    PROVE  /\ JobOK(Rebuilt(j, procs, state))
           /\ Rebuilt(j, procs, state).state = state
           /\ Rebuilt(j, procs, state).config = j.config
           /\ Rebuilt(j, procs, state).procs = procs
    BY DEF JobOK, Job, Rebuilt

(***************************************************************************)
(* Only the state of a job changes.                                        *)
(***************************************************************************)
LEMMA ReplaceState ==
    ASSUME NEW j, JobOK(j), NEW state \in JobState
    PROVE  LET k == [j EXCEPT !.state = state]
           IN  JobOK(k) /\ k.state = state /\ k.config = j.config /\ k.procs = j.procs
PROOF
    BY DEF JobOK, Job

(***************************************************************************)
(* A function on 1..n is a sequence.                                       *)
(***************************************************************************)
LEMMA FunctionIsSeq ==
    ASSUME NEW S, NEW n \in Nat, NEW f \in [1..n -> S]
    PROVE  f \in Seq(S)
    BY SeqDef

(***************************************************************************)
(* A change of a process that keeps it sound and keeps its retries keeps   *)
(* it in order.                                                            *)
(***************************************************************************)
LEMMA KeepsRestarts ==
    ASSUME NEW config, NEW p, ProcOK(p, config), NEW q, Sound(q), q.restarts = p.restarts
    PROVE  ProcOK(q, config)
    BY DEF ProcOK, Within

LEMMA MarkedType ==
    ASSUME NEW state \in JobState, NEW fate \in Fates
    PROVE  Marked(state, fate) \in JobState
    BY DEF Marked, Fates, JobState

----------------------------------------------------------------------------
(***************************************************************************)
(* Job::stop leaves a job in order, wherever it throws.                    *)
(***************************************************************************)
LEMMA StopAllOK ==
    ASSUME NEW j, JobOK(j), NEW failure
    PROVE  /\ StopAll(j, failure) \in Seq(Process)
           /\ \A i \in DOMAIN StopAll(j, failure) : ProcOK(StopAll(j, failure)[i], j.config)
PROOF
    <1> DEFINE procs == StopAll(j, failure)
    <1>1. j.procs \in Seq(Process)
        BY DEF JobOK, Job
    <1>2. DOMAIN j.procs = 1..Len(j.procs) /\ Len(j.procs) \in Nat
        BY <1>1, LenProperties
    <1>3. ASSUME NEW i \in DOMAIN j.procs  PROVE ProcOK(procs[i], j.config)
        <2>1. ProcOK(j.procs[i], j.config)
            BY DEF JobOK
        <2>2. procs[i] \in {j.procs[i], Stop(j.procs[i], j.config, OutcomeAt(failure, i))}
            BY DEF StopAll
        <2>3. ProcOK(Stop(j.procs[i], j.config, OutcomeAt(failure, i)), j.config)
            <3>1. Sound(j.procs[i])
                BY <2>1 DEF ProcOK
            <3> QED
                BY <2>1, <3>1, StopSound, KeepsRestarts
        <2> QED
            BY <2>1, <2>2, <2>3
    <1>4. DOMAIN procs = DOMAIN j.procs
        BY DEF StopAll
    <1>5. procs \in [1..Len(j.procs) -> Process]
        <2>1. \A i \in DOMAIN j.procs : procs[i] \in Process
            BY <1>3 DEF ProcOK, Sound
        <2> QED
            BY <1>2, <2>1 DEF StopAll
    <1> QED
        BY <1>2, <1>3, <1>4, <1>5, FunctionIsSeq

LEMMA JobStopOK ==
    ASSUME NEW j, JobOK(j), NEW failure, NEW fate \in Fates
    PROVE  JobOK(JobStop(j, failure, fate)) /\ JobStop(j, failure, fate).config = j.config
PROOF
    <1> DEFINE procs == StopAll(j, failure)
               k == JobStop(j, failure, fate)
    <1> HIDE DEF procs
    <1>0. j.state \in JobState
        BY DEF JobOK, Job
    <1>1. CASE j.state = "STOPPING"
        <2>1. k = j
            BY <1>1 DEF JobStop
        <2> QED
            BY <2>1
    <1>2. CASE j.state \in {"EMPTY", "STOPPED"}
        <2>1. k = [j EXCEPT !.state = Marked(j.state, fate)]
            BY <1>2 DEF JobStop
        <2> QED
            BY <1>0, <2>1, MarkedType, ReplaceState
    <1>3. CASE j.state \notin {"STOPPING", "EMPTY", "STOPPED"}
        <2>1. PICK state \in {Marked("STOPPED", fate), "STOPPING"} :
                 k = Rebuilt(j, procs, state)
            BY <1>3 DEF JobStop, Rebuilt, procs
        <2>2. state \in JobState
            BY <2>1, MarkedType DEF JobState
        <2>3. procs \in Seq(Process) /\ \A i \in DOMAIN procs : ProcOK(procs[i], j.config)
            BY StopAllOK DEF procs
        <2> QED
            BY <2>1, <2>2, <2>3, RebuiltOK
    <1> QED
        BY <1>1, <1>2, <1>3

----------------------------------------------------------------------------
(***************************************************************************)
(* Job::restartProcesses and Job::startProcesses, wherever they throw.     *)
(***************************************************************************)
LEMMA StartOK ==
    ASSUME NEW config, NEW p, ProcOK(p, config), p.state \notin LiveStates, NEW outcome
    PROVE  ProcOK(Start(p, config, outcome), config)
PROOF
    <1>1. Sound(p)
        BY DEF ProcOK
    <1> QED
        BY <1>1, StartSound, KeepsRestarts

LEMMA RestartProcessOK ==
    ASSUME NEW config \in JobConfig, NEW p, ProcOK(p, config), NEW outcome
    PROVE  ProcOK(RestartProcess(p, config, outcome), config)
PROOF
    <1> DEFINE reset == [p EXCEPT !.restarts = 0]
    <1>1. ProcOK(reset, config) /\ reset.state = p.state
        BY DEF ProcOK, Within, Sound, ChildFits, TimerFits, CanSignal, Process, ProcessState,
               ChildState, JobConfig
    <1> HIDE DEF reset
    <1>2. CASE IsDown(p)
        <2>1. RestartProcess(p, config, outcome) = Start(reset, config, outcome)
            BY <1>2 DEF RestartProcess, reset
        <2>2. reset.state \notin LiveStates
            BY <1>1, <1>2 DEF IsDown
        <2> QED
            BY <1>1, <2>1, <2>2, StartOK
    <1>3. CASE ~IsDown(p)
        <2>1. RestartProcess(p, config, outcome) = reset
            BY <1>3 DEF RestartProcess, reset
        <2> QED
            BY <1>1, <2>1
    <1> QED
        BY <1>2, <1>3

LEMMA RestartProcessesOK ==
    ASSUME NEW j, JobOK(j), NEW failure
    PROVE  /\ RestartProcesses(j, failure) \in Seq(Process)
           /\ \A i \in DOMAIN RestartProcesses(j, failure) :
                 ProcOK(RestartProcesses(j, failure)[i], j.config)
PROOF
    <1> DEFINE procs == RestartProcesses(j, failure)
    <1>1. j.procs \in Seq(Process) /\ j.config \in JobConfig
        BY DEF JobOK, Job
    <1>2. DOMAIN j.procs = 1..Len(j.procs) /\ Len(j.procs) \in Nat
        BY <1>1, LenProperties
    <1>3. ASSUME NEW i \in DOMAIN j.procs  PROVE ProcOK(procs[i], j.config)
        <2>1. ProcOK(j.procs[i], j.config)
            BY DEF JobOK
        <2>2. procs[i] \in {j.procs[i],
                            RestartProcess(j.procs[i], j.config, OutcomeAt(failure, i))}
            BY DEF RestartProcesses
        <2>3. ProcOK(RestartProcess(j.procs[i], j.config, OutcomeAt(failure, i)), j.config)
            BY <1>1, <2>1, RestartProcessOK
        <2> QED
            BY <2>1, <2>2, <2>3
    <1>4. DOMAIN procs = DOMAIN j.procs
        BY DEF RestartProcesses
    <1>5. procs \in [1..Len(j.procs) -> Process]
        <2>1. \A i \in DOMAIN j.procs : procs[i] \in Process
            BY <1>3 DEF ProcOK, Sound
        <2> QED
            BY <1>2, <2>1 DEF RestartProcesses
    <1> QED
        BY <1>2, <1>3, <1>4, <1>5, FunctionIsSeq

LEMMA StartProcessesOK ==
    ASSUME NEW j, JobOK(j), NEW failure
    PROVE  /\ StartProcesses(j, failure) \in Seq(Process)
           /\ \A i \in DOMAIN StartProcesses(j, failure) :
                 ProcOK(StartProcesses(j, failure)[i], j.config)
PROOF
    <1> DEFINE n == CreatedCount(j, failure)
               new == [i \in 1..n |-> Start(NewProcess, j.config, OutcomeAt(failure, i))]
               procs == StartProcesses(j, failure)
    <1>1. j.procs \in Seq(Process) /\ j.config \in JobConfig
        BY DEF JobOK, Job
    <1>2. n \in Nat
        BY <1>1 DEF CreatedCount, JobConfig
    <1> HIDE DEF n
    <1>3. ASSUME NEW i \in 1..n  PROVE ProcOK(new[i], j.config)
        <2>1. ProcOK(NewProcess, j.config)
            BY <1>1, NewProcessSound DEF ProcOK, Within, JobConfig
        <2>2. NewProcess.state \notin LiveStates
            BY DEF NewProcess
        <2> QED
            BY <2>1, <2>2, StartOK
    <1>4. new \in Seq(Process)
        <2>1. \A i \in 1..n : new[i] \in Process
            BY <1>3 DEF ProcOK, Sound
        <2>2. new \in [1..n -> Process]
            BY <2>1
        <2> QED
            BY <1>2, <2>2, FunctionIsSeq
    <1>5. Len(new) = n
        BY <1>2, <1>4, LenProperties
    <1> HIDE DEF new
    <1>6. procs = j.procs \o new
        BY DEF StartProcesses, new, n
    <1>7. /\ procs \in Seq(Process)
          /\ Len(procs) = Len(j.procs) + Len(new)
          /\ \A i \in 1..(Len(j.procs) + Len(new)) :
                procs[i] = IF i <= Len(j.procs) THEN j.procs[i] ELSE new[i - Len(j.procs)]
        BY <1>1, <1>4, <1>6, ConcatProperties
    <1> HIDE DEF procs
    <1>8. ASSUME NEW i \in DOMAIN procs  PROVE ProcOK(procs[i], j.config)
        <2>1. /\ i \in 1..(Len(j.procs) + n)
              /\ Len(j.procs) \in Nat
              /\ DOMAIN j.procs = 1..Len(j.procs)
            BY <1>1, <1>5, <1>7, LenProperties
        <2>2. CASE i <= Len(j.procs)
            <3>1. i \in DOMAIN j.procs /\ procs[i] = j.procs[i]
                BY <1>2, <1>5, <1>7, <2>1, <2>2
            <3> QED
                BY <3>1 DEF JobOK
        <2>3. CASE ~(i <= Len(j.procs))
            <3>1. i - Len(j.procs) \in 1..n /\ procs[i] = new[i - Len(j.procs)]
                BY <1>2, <1>5, <1>7, <2>1, <2>3
            <3> QED
                BY <1>3, <3>1
        <2> QED
            BY <2>2, <2>3
    <1> QED
        BY <1>7, <1>8 DEF procs

(***************************************************************************)
(* Job::start and JobManager::restart of a job.                            *)
(***************************************************************************)
LEMMA JobStartOK ==
    ASSUME NEW j, JobOK(j), NEW failure
    PROVE  JobOK(JobStart(j, failure)) /\ JobStart(j, failure).config = j.config
PROOF
    <1> DEFINE k == JobStart(j, failure)
    <1>0. j.state \in JobState
        BY DEF JobOK, Job
    <1>1. CASE j.state \in {"STOPPING", "STOPPED"}
        <2>1. PICK state \in {j.state, "STARTING"} :
                 k = Rebuilt(j, RestartProcesses(j, failure), state)
            BY <1>1 DEF JobStart, Rebuilt
        <2>2. state \in JobState
            BY <1>0, <2>1 DEF JobState
        <2> QED
            BY <2>1, <2>2, RestartProcessesOK, RebuiltOK
    <1>2. CASE j.state = "EMPTY"
        <2>1. PICK state \in {j.state, "STARTING"} :
                 k = Rebuilt(j, StartProcesses(j, failure), state)
            BY <1>2 DEF JobStart, Rebuilt
        <2>2. state \in JobState
            BY <1>0, <2>1 DEF JobState
        <2> QED
            BY <2>1, <2>2, StartProcessesOK, RebuiltOK
    <1>3. CASE j.state \notin {"STOPPING", "STOPPED", "EMPTY"}
        <2>1. PICK state \in {j.state, "STARTING"} : k = [j EXCEPT !.state = state]
            BY <1>3 DEF JobStart
        <2>2. state \in JobState
            BY <1>0, <2>1 DEF JobState
        <2> QED
            BY <2>1, <2>2, ReplaceState
    <1> QED
        BY <1>1, <1>2, <1>3

LEMMA JobRestartOK ==
    ASSUME NEW j, JobOK(j), NEW f, NEW g, NEW fate \in Fates
    PROVE  JobOK(JobRestart(j, f, g, fate)) /\ JobRestart(j, f, g, fate).config = j.config
PROOF
    <1> DEFINE stopped == JobStop(j, f, fate)
    <1>1. JobOK(stopped) /\ stopped.config = j.config
        BY JobStopOK
    <1>2. JobRestart(j, f, g, fate) \in {stopped, JobStart(stopped, g)}
        BY DEF JobRestart
    <1> HIDE DEF stopped
    <1> QED
        BY <1>1, <1>2, JobStartOK

----------------------------------------------------------------------------
(***************************************************************************)
(* The callbacks for process i: its death with Job::onExit or Job::onStop, *)
(* and its timers.                                                         *)
(***************************************************************************)
LEMMA JobOnExitOK ==
    ASSUME NEW j, JobOK(j), NEW i \in DOMAIN j.procs, j.procs[i].state \notin LiveStates,
           NEW status, NEW outcome
    PROVE  JobOK(JobOnExit(j, i, status, outcome))
           /\ JobOnExit(j, i, status, outcome).config = j.config
PROOF
    <1> DEFINE p == AddRestart(j.procs[i], j.config)
               q == Start(p, j.config, outcome)
               k == JobOnExit(j, i, status, outcome)
    <1>0. j.state \in JobState /\ j.config \in JobConfig
        BY DEF JobOK, Job
    <1>1. ProcOK(p, j.config) /\ p.state = j.procs[i].state
        BY <1>0, AddRestartOK DEF JobOK
    <1>2. ProcOK(q, j.config)
        BY <1>1, StartOK
    <1> HIDE DEF p, q
    <1>3. PICK r \in {p, q}, state \in {"STARTING", "STOPPED", j.state} :
             k = [[j EXCEPT !.procs[i] = r] EXCEPT !.state = state]
        <2>1. CASE Retries(j, i, status)
            <3>1. k = [j EXCEPT !.state = "STARTING", !.procs[i] = q]
                BY <2>1 DEF JobOnExit, p, q
            <3>2. k = [[j EXCEPT !.procs[i] = q] EXCEPT !.state = "STARTING"]
                BY <3>1 DEF JobOK, Job
            <3> QED
                BY <3>2
        <2>2. CASE ~Retries(j, i, status)
            <3>1. \E state \in {"STOPPED", j.state} :
                     k = [[j EXCEPT !.procs[i] = p] EXCEPT !.state = state]
                BY <2>2 DEF JobOnExit, p, JobOK, Job
            <3> QED
                BY <3>1
        <2> QED
            BY <2>1, <2>2
    <1> DEFINE m == [j EXCEPT !.procs[i] = r]
    <1>4. JobOK(m) /\ m.config = j.config
        BY <1>1, <1>2, <1>3, ReplaceOne
    <1>5. state \in JobState
        BY <1>0, <1>3 DEF JobState
    <1> HIDE DEF m
    <1>6. k = [m EXCEPT !.state = state]
        BY <1>3 DEF m
    <1> QED
        BY <1>4, <1>5, <1>6, ReplaceState

LEMMA JobOnStopOK ==
    ASSUME NEW j, JobOK(j), NEW i \in DOMAIN j.procs, j.procs[i].state \notin LiveStates,
           NEW outcome, NEW fate \in Fates
    PROVE  JobOK(JobOnStop(j, i, outcome, fate))
           /\ JobOnStop(j, i, outcome, fate).config = j.config
PROOF
    <1> DEFINE q == Start(j.procs[i], j.config, outcome)
               k == JobOnStop(j, i, outcome, fate)
    <1>1. ProcOK(q, j.config)
        BY StartOK DEF JobOK
    <1> HIDE DEF q
    <1>2. CASE k = [j EXCEPT !.procs[i] = q]
        BY <1>1, <1>2, ReplaceOne
    <1>3. CASE k = [j EXCEPT !.state = Marked("STOPPED", fate)]
        <2>1. Marked("STOPPED", fate) \in JobState
            BY MarkedType DEF JobState
        <2> QED
            BY <1>3, <2>1, ReplaceState
    <1>4. CASE k = j
        BY <1>4
    <1>5. \/ k = [j EXCEPT !.procs[i] = q]
          \/ k = [j EXCEPT !.state = Marked("STOPPED", fate)]
          \/ k = j
        BY DEF JobOnStop, q
    <1> QED
        BY <1>2, <1>3, <1>4, <1>5

LEMMA OnStateChangeOK ==
    ASSUME NEW j, JobOK(j), NEW i \in DOMAIN j.procs, j.procs[i].child \in Zombie,
           NEW outcome, NEW fate \in Fates
    PROVE  JobOK(OnStateChange(j, i, outcome, fate))
           /\ OnStateChange(j, i, outcome, fate).config = j.config
PROOF
    <1> DEFINE p == j.procs[i]
               dead == [j EXCEPT !.procs[i] = Dead(p)]
               k == OnStateChange(j, i, outcome, fate)
    <1>1. ProcOK(p, j.config) /\ Sound(p)
        BY DEF JobOK, ProcOK
    <1>2. ProcOK(Dead(p), j.config) /\ Dead(p).state \notin LiveStates
        BY <1>1, DeadSound, KeepsRestarts
    <1>3. /\ JobOK(dead)
          /\ dead.config = j.config
          /\ i \in DOMAIN dead.procs
          /\ dead.procs[i].state \notin LiveStates
        BY <1>2, ReplaceOne
    <1>4. k \in {JobOnStop(dead, i, outcome, fate), JobOnExit(dead, i, p.child, outcome), dead}
        BY DEF OnStateChange, Dead
    <1> HIDE DEF dead
    <1> QED
        BY <1>3, <1>4, JobOnStopOK, JobOnExitOK

LEMMA OnProcessSurpassedStartTimeOK ==
    ASSUME NEW j, JobOK(j), NEW i \in DOMAIN j.procs, j.procs[i].timer = "start"
    PROVE  JobOK(OnProcessSurpassedStartTime(j, i))
           /\ OnProcessSurpassedStartTime(j, i).config = j.config
PROOF
    <1> DEFINE q == OnStartTime(j.procs[i])
               m == [j EXCEPT !.procs[i] = q]
    <1>1. ProcOK(q, j.config)
        BY OnStartTimeSound, KeepsRestarts DEF JobOK, ProcOK
    <1>2. JobOK(m) /\ m.config = j.config
        BY <1>1, ReplaceOne
    <1>3. OnProcessSurpassedStartTime(j, i) \in {m, [m EXCEPT !.state = "RUNNING"]}
        BY DEF OnProcessSurpassedStartTime
    <1> HIDE DEF m
    <1>4. CASE OnProcessSurpassedStartTime(j, i) = m
        BY <1>2, <1>4
    <1>5. CASE OnProcessSurpassedStartTime(j, i) = [m EXCEPT !.state = "RUNNING"]
        <2>1. "RUNNING" \in JobState
            BY DEF JobState
        <2> QED
            BY <1>2, <1>5, <2>1, ReplaceState
    <1> QED
        BY <1>3, <1>4, <1>5

LEMMA OnStopTimeOK ==
    ASSUME NEW j, JobOK(j), NEW i \in DOMAIN j.procs, j.procs[i].timer = "kill"
    PROVE  JobOK(OnStopTime(j, i)) /\ OnStopTime(j, i).config = j.config
PROOF
    <1>1. ProcOK(OnKillTime(j.procs[i]), j.config)
        BY OnKillTimeSound, KeepsRestarts DEF JobOK, ProcOK
    <1>2. OnStopTime(j, i) = [j EXCEPT !.procs[i] = OnKillTime(j.procs[i])]
        BY DEF OnStopTime
    <1> QED
        BY <1>1, <1>2, ReplaceOne

LEMMA ChildExitOK ==
    ASSUME NEW j, JobOK(j), NEW i \in DOMAIN j.procs, NEW crashes,
           NEW status \in Endings(j.procs[i], crashes)
    PROVE  LET k == [j EXCEPT !.procs[i].child = status]
           IN  JobOK(k) /\ k.config = j.config
PROOF
    <1> DEFINE p == j.procs[i]
               q == [p EXCEPT !.child = status]
    <1>1. p.child \in {"alive", "dying"} /\ status \in Zombie
        BY DEF Endings
    <1>2. ProcOK(q, j.config)
        BY <1>1, ChildExitSound, KeepsRestarts DEF JobOK, ProcOK
    <1> HIDE DEF q
    <1>3. [j EXCEPT !.procs[i].child = status] = [j EXCEPT !.procs[i] = q]
        BY DEF q
    <1> QED
        BY <1>2, <1>3, ReplaceOne

----------------------------------------------------------------------------
(***************************************************************************)
(* The state of a job tells what its processes do, when no system call     *)
(* fails and the config makes none fail; no single process carries this.   *)
(***************************************************************************)
Settled(j) ==
    /\ j.state = "EMPTY"   => DOMAIN j.procs = {}
    /\ j.state = "STOPPED" => AllProcessesInStates(j.procs, RestartableStates)
    /\ j.state = "RUNNING" => AllProcessesInStates(j.procs, {"RUNNING", "EXITED", "STOPPED"})

(***************************************************************************)
(* Job::stop: STOPPED only when the processes are.                         *)
(***************************************************************************)
LEMMA JobStopSettled ==
    ASSUME NEW j, JobOK(j), Settled(j), NEW failure
    PROVE  Settled(JobStop(j, failure, "keep"))
PROOF
    <1> DEFINE procs == StopAll(j, failure)
               k == JobStop(j, failure, "keep")
    <1>1. CASE j.state \in {"STOPPING", "EMPTY", "STOPPED"}
        <2>1. k = j
            BY <1>1 DEF JobStop, Marked, JobOK, Job
        <2> QED
            BY <2>1
    <1>2. CASE j.state \notin {"STOPPING", "EMPTY", "STOPPED"}
        <2>1. \/ k = Rebuilt(j, procs, "STOPPING")
              \/ k = Rebuilt(j, procs, "STOPPED") /\ AllProcessesInStates(procs, {"STOPPED"})
            BY <1>2 DEF JobStop, Marked, Rebuilt
        <2> HIDE DEF procs
        <2>2. \A state \in {"STOPPING", "STOPPED"} : /\ Rebuilt(j, procs, state).procs = procs
                                                     /\ Rebuilt(j, procs, state).state = state
            BY DEF Rebuilt, JobOK, Job
        <2>3. CASE k = Rebuilt(j, procs, "STOPPING")
            BY <2>2, <2>3 DEF Settled
        <2>4. CASE k = Rebuilt(j, procs, "STOPPED") /\ AllProcessesInStates(procs, {"STOPPED"})
            BY <2>2, <2>4 DEF Settled, AllProcessesInStates
        <2> QED
            BY <2>1, <2>3, <2>4
    <1> QED
        BY <1>1, <1>2

(***************************************************************************)
(* Job::start does not throw, so the job is STARTING.                      *)
(***************************************************************************)
LEMMA JobStartSettled ==
    ASSUME NEW j, JobOK(j), j.config.start_time >= 0, j.config.numprocs >= 0,
           ~HasNoArgv(j.config)
    PROVE  Settled(JobStart(j, NoFailure))
PROOF
    <1>1. j.config.start_time \in Int /\ j.config.numprocs \in Int
        BY DEF JobOK, Job, JobConfig
    <1>2. \A i : OutcomeAt(NoFailure, i) = "ok"
        BY DEF OutcomeAt, NoFailure
    <1>3. ~IntervalRejected(j.config.start_time)
        BY <1>1 DEF IntervalRejected
    <1>4. StartResult(j.config, "ok") = "ok"
        BY <1>3 DEF StartResult
    <1>5. RestartThrowers(j, NoFailure) = {}
        BY <1>2, <1>4 DEF RestartThrowers
    <1>6. ~CreateThrows(j, NoFailure)
        <2>1. NoFailure.at = 0
            BY DEF NoFailure
        <2> QED
            BY <1>1, <1>3, <2>1 DEF CreateThrows, NeverStarts
    <1>7. ~JobStartThrows(j, NoFailure)
        BY <1>5, <1>6 DEF JobStartThrows
    <1>8. JobStart(j, NoFailure).state = "STARTING"
        BY <1>7 DEF JobStart, JobOK, Job
    <1> QED
        BY <1>8 DEF Settled

LEMMA JobRestartSettled ==
    ASSUME NEW j, JobOK(j), Settled(j), j.config.start_time >= 0, j.config.numprocs >= 0,
           ~HasNoArgv(j.config)
    PROVE  Settled(JobRestart(j, NoFailure, NoFailure, "keep"))
PROOF
    <1> DEFINE stopped == JobStop(j, NoFailure, "keep")
    <1>0. "keep" \in Fates
        BY DEF Fates
    <1>1. JobOK(stopped) /\ stopped.config = j.config
        BY <1>0, JobStopOK
    <1>2. Settled(stopped)
        BY JobStopSettled
    <1>3. JobRestart(j, NoFailure, NoFailure, "keep") \in {stopped, JobStart(stopped, NoFailure)}
        BY DEF JobRestart
    <1> HIDE DEF stopped
    <1> QED
        BY <1>1, <1>2, <1>3, JobStartSettled

(***************************************************************************)
(* The death of a child.  The job is neither EMPTY nor STOPPED, for then   *)
(* it would have none.                                                     *)
(***************************************************************************)
LEMMA LiveJob ==
    ASSUME NEW j, JobOK(j), Settled(j), NEW i \in DOMAIN j.procs,
           j.procs[i].state \in LiveStates
    PROVE  /\ j.state \notin {"EMPTY", "STOPPED"}
           /\ j.state = "RUNNING" => j.procs[i].state = "RUNNING"
    BY DEF Settled, AllProcessesInStates

LEMMA OnStateChangeSettled ==
    ASSUME NEW j, JobOK(j), Settled(j), NEW i \in DOMAIN j.procs,
           j.procs[i].child \in Zombie, NEW outcome
    PROVE  Settled(OnStateChange(j, i, outcome, "keep"))
PROOF
    <1> DEFINE p == j.procs[i]
               dead == [j EXCEPT !.procs[i] = Dead(p)]
               k == OnStateChange(j, i, outcome, "keep")
    <1>1. ProcOK(p, j.config) /\ Sound(p)
        BY DEF JobOK, ProcOK
    <1>2. ProcOK(Dead(p), j.config) /\ Dead(p).state \notin LiveStates
        BY <1>1, DeadSound, KeepsRestarts
    <1>3. /\ JobOK(dead)
          /\ dead.state = j.state
          /\ dead.config = j.config
          /\ DOMAIN dead.procs = DOMAIN j.procs
          /\ \A h \in DOMAIN j.procs : dead.procs[h] = IF h = i THEN Dead(p) ELSE j.procs[h]
        BY <1>2, ReplaceOne
    <1>4. p.state \in LiveStates
        BY <1>1 DEF Sound, ChildFits
    <1>5. j.state \notin {"EMPTY", "STOPPED"} /\ (j.state = "RUNNING" => p.state = "RUNNING")
        BY <1>4, LiveJob
    <1>6. p.state = "RUNNING" => Dead(p).state \in {"EXITED", "STOPPED"}
        <2>1. Dead(p).state = StateAfterDeath(p)
            BY <1>1 DEF Dead, Reaped, Sound, Process
        <2> QED
            BY <2>1 DEF StateAfterDeath
    <1>7. dead.state = "RUNNING" =>
              AllProcessesInStates(dead.procs, {"RUNNING", "EXITED", "STOPPED"})
        BY <1>3, <1>5, <1>6 DEF Settled, AllProcessesInStates
    <1>8. Settled(dead)
        BY <1>3, <1>5, <1>7 DEF Settled
    <1>9. k \in {JobOnStop(dead, i, outcome, "keep"), JobOnExit(dead, i, p.child, outcome), dead}
        BY DEF OnStateChange, Dead
    <1> HIDE DEF dead
    <1>10. Settled(JobOnStop(dead, i, outcome, "keep"))
        <2> DEFINE m == JobOnStop(dead, i, outcome, "keep")
        <2>1. CASE dead.state = "STARTING"
            <3>1. m.state = "STARTING"
                BY <1>3, <2>1 DEF JobOnStop, JobOK, Job
            <3> QED
                BY <3>1 DEF Settled
        <2>2. CASE dead.state = "STOPPING"
            <3>1. \/ m = dead
                  \/ /\ m = [dead EXCEPT !.state = "STOPPED"]
                     /\ AllProcessesInStates(dead.procs, {"STOPPED"})
                BY <2>2 DEF JobOnStop, Marked
            <3>2. LET x == [dead EXCEPT !.state = "STOPPED"]
                  IN  x.state = "STOPPED" /\ x.procs = dead.procs
                BY <1>3 DEF JobOK, Job
            <3> QED
                BY <1>8, <3>1, <3>2 DEF Settled, AllProcessesInStates
        <2>3. CASE dead.state \notin {"STARTING", "STOPPING"}
            <3>1. m = dead
                BY <2>3 DEF JobOnStop
            <3> QED
                BY <1>8, <3>1
        <2> QED
            BY <2>1, <2>2, <2>3
    <1>11. Settled(JobOnExit(dead, i, p.child, outcome))
        <2> DEFINE m == JobOnExit(dead, i, p.child, outcome)
                   r == AddRestart(dead.procs[i], dead.config)
        <2>1. CASE Retries(dead, i, p.child)
            <3>1. m.state = "STARTING"
                BY <1>3, <2>1 DEF JobOnExit, JobOK, Job
            <3> QED
                BY <3>1 DEF Settled
        <2>2. CASE ~Retries(dead, i, p.child)
            <3>1. dead.config \in JobConfig
                BY <1>3 DEF JobOK, Job
            <3>2. ProcOK(dead.procs[i], dead.config)
                BY <1>3 DEF JobOK
            <3>3. r.state = dead.procs[i].state /\ ProcOK(r, dead.config)
                BY <3>1, <3>2, AddRestartOK
            <3> DEFINE all == AllProcessesInStates(dead.procs, RestartableStates)
            <3>4. /\ m.state = IF all THEN "STOPPED" ELSE dead.state
                  /\ m.procs = [dead.procs EXCEPT ![i] = r]
                BY <1>3, <2>2 DEF JobOnExit, JobOK, Job
            <3> HIDE DEF r, all
            <3>5. /\ DOMAIN m.procs = DOMAIN dead.procs
                  /\ \A h \in DOMAIN dead.procs : m.procs[h].state = dead.procs[h].state
                BY <3>3, <3>4
            <3> HIDE DEF m
            <3>6. ASSUME all  PROVE Settled(m)
                BY <3>4, <3>5, <3>6 DEF Settled, AllProcessesInStates, all
            <3>7. ASSUME ~all  PROVE Settled(m)
                BY <1>8, <3>4, <3>5, <3>7 DEF Settled, AllProcessesInStates
            <3> QED
                BY <3>6, <3>7 DEF m
        <2> QED
            BY <2>1, <2>2
    <1> QED
        BY <1>8, <1>9, <1>10, <1>11

(***************************************************************************)
(* The timers and the end of a child, which the state of the job does not  *)
(* follow (unless all its processes run).                                  *)
(***************************************************************************)
LEMMA OnStartTimeSettled ==
    ASSUME NEW j, JobOK(j), Settled(j), NEW i \in DOMAIN j.procs, j.procs[i].timer = "start"
    PROVE  Settled(OnProcessSurpassedStartTime(j, i))
PROOF
    <1> DEFINE q == OnStartTime(j.procs[i])
               m == [j EXCEPT !.procs[i] = q]
               k == OnProcessSurpassedStartTime(j, i)
    <1>1. Sound(j.procs[i]) /\ ProcOK(q, j.config)
        BY OnStartTimeSound, KeepsRestarts DEF JobOK, ProcOK
    <1>2. j.procs[i].state \in {"STARTING", "STOPPING"}
        BY <1>1 DEF Sound, TimerFits
    <1>3. j.state \notin {"EMPTY", "STOPPED", "RUNNING"}
        BY <1>2, LiveJob
    <1>4. JobOK(m) /\ m.state = j.state
        BY <1>1, ReplaceOne
    <1>5. \/ k = m
          \/ k = [m EXCEPT !.state = "RUNNING"] /\ AllProcessesInStates(m.procs, {"RUNNING"})
        BY DEF OnProcessSurpassedStartTime
    <1> HIDE DEF m
    <1>6. CASE k = m
        BY <1>3, <1>4, <1>6 DEF Settled
    <1>7. CASE k = [m EXCEPT !.state = "RUNNING"] /\ AllProcessesInStates(m.procs, {"RUNNING"})
        <2>1. k.state = "RUNNING" /\ k.procs = m.procs
            BY <1>4, <1>7 DEF JobOK, Job
        <2> QED
            BY <1>7, <2>1 DEF Settled, AllProcessesInStates
    <1> QED
        BY <1>5, <1>6, <1>7

LEMMA SameStatesSettled ==
    ASSUME NEW j, JobOK(j), Settled(j), NEW i \in DOMAIN j.procs, NEW q,
           ProcOK(q, j.config), q.state = j.procs[i].state
    PROVE  Settled([j EXCEPT !.procs[i] = q])
PROOF
    <1> DEFINE m == [j EXCEPT !.procs[i] = q]
    <1>1. /\ m.state = j.state
          /\ DOMAIN m.procs = DOMAIN j.procs
          /\ \A h \in DOMAIN j.procs : m.procs[h] = IF h = i THEN q ELSE j.procs[h]
        BY ReplaceOne
    <1>2. \A h \in DOMAIN j.procs : m.procs[h].state = j.procs[h].state
        BY <1>1
    <1> HIDE DEF m
    <1>3. Settled(m)
        BY <1>1, <1>2 DEF Settled, AllProcessesInStates
    <1> QED
        BY <1>3 DEF m

LEMMA OnStopTimeSettled ==
    ASSUME NEW j, JobOK(j), Settled(j), NEW i \in DOMAIN j.procs, j.procs[i].timer = "kill"
    PROVE  Settled(OnStopTime(j, i))
PROOF
    <1>1. ProcOK(OnKillTime(j.procs[i]), j.config)
        BY OnKillTimeSound, KeepsRestarts DEF JobOK, ProcOK
    <1>2. OnKillTime(j.procs[i]).state = j.procs[i].state
        BY DEF JobOK, ProcOK, Sound, Process, OnKillTime
    <1>3. OnStopTime(j, i) = [j EXCEPT !.procs[i] = OnKillTime(j.procs[i])]
        BY DEF OnStopTime
    <1> QED
        BY <1>1, <1>2, <1>3, SameStatesSettled

LEMMA ChildExitSettled ==
    ASSUME NEW j, JobOK(j), Settled(j), NEW i \in DOMAIN j.procs, NEW crashes,
           NEW status \in Endings(j.procs[i], crashes)
    PROVE  Settled([j EXCEPT !.procs[i].child = status])
PROOF
    <1> DEFINE p == j.procs[i]
               q == [p EXCEPT !.child = status]
    <1>1. p.child \in {"alive", "dying"} /\ status \in Zombie
        BY DEF Endings
    <1>2. ProcOK(q, j.config)
        BY <1>1, ChildExitSound, KeepsRestarts DEF JobOK, ProcOK
    <1>3. q.state = p.state
        BY DEF JobOK, ProcOK, Sound, Process
    <1> HIDE DEF q
    <1>4. [j EXCEPT !.procs[i].child = status] = [j EXCEPT !.procs[i] = q]
        BY DEF q
    <1> QED
        BY <1>2, <1>3, <1>4, SameStatesSettled

----------------------------------------------------------------------------
(***************************************************************************)
(* What the methods do exactly, when no system call fails.                 *)
(***************************************************************************)
Startable(config) == config.start_time >= 0 /\ config.numprocs >= 0 /\ ~HasNoArgv(config)

Started(p) == [Forked(p) EXCEPT !.timer = "start", !.pidfd = TRUE, !.watched = TRUE]

LEMMA StartIs ==
    ASSUME NEW config \in JobConfig, Startable(config), NEW p
    PROVE  StartResult(config, "ok") = "ok" /\ Start(p, config, "ok") = Started(p)
PROOF
    <1>1. config.start_time \in Int
        BY DEF JobConfig
    <1>2. StartResult(config, "ok") = "ok"
        BY <1>1 DEF StartResult, Startable, IntervalRejected
    <1> QED
        BY <1>2 DEF Start, Started

RestartedOrNot(p) == LET reset == [p EXCEPT !.restarts = 0]
                     IN  IF IsDown(p) THEN Started(reset) ELSE reset

(***************************************************************************)
(* Job::start of any job makes it STARTING; its processes are those of one *)
(* of the three loops.                                                     *)
(***************************************************************************)
LEMMA NoStartThrows ==
    ASSUME NEW j, JobOK(j), Startable(j.config)
    PROVE  ~JobStartThrows(j, NoFailure) /\ RestartThrowers(j, NoFailure) = {}
PROOF
    <1>1. j.config \in JobConfig /\ j.config.start_time \in Int /\ j.config.numprocs \in Int
        BY DEF JobOK, Job, JobConfig
    <1>2. \A i : OutcomeAt(NoFailure, i) = "ok"
        BY DEF OutcomeAt, NoFailure
    <1>3. RestartThrowers(j, NoFailure) = {}
        BY <1>1, <1>2, StartIs DEF RestartThrowers
    <1>4. ~CreateThrows(j, NoFailure)
        <2>1. NoFailure.at = 0
            BY DEF NoFailure
        <2> QED
            BY <1>1, <2>1 DEF CreateThrows, NeverStarts, IntervalRejected, Startable
    <1> QED
        BY <1>3, <1>4 DEF JobStartThrows

LEMMA JobStartIs ==
    ASSUME NEW j, JobOK(j), Startable(j.config), j.state = "EMPTY" => DOMAIN j.procs = {}
    PROVE  LET k == JobStart(j, NoFailure)
           IN  /\ k.state = "STARTING"
               /\ j.state \in {"STOPPING", "STOPPED"} =>
                     /\ DOMAIN k.procs = DOMAIN j.procs
                     /\ \A i \in DOMAIN j.procs : k.procs[i] = RestartedOrNot(j.procs[i])
               /\ j.state = "EMPTY" =>
                     /\ DOMAIN k.procs = 1..j.config.numprocs
                     /\ \A i \in DOMAIN k.procs : k.procs[i] = Started(NewProcess)
               /\ j.state \notin {"STOPPING", "STOPPED", "EMPTY"} => k.procs = j.procs
PROOF
    <1> DEFINE k == JobStart(j, NoFailure)
    <1>1. j.config \in JobConfig /\ j.config.numprocs \in Int /\ j.procs \in Seq(Process)
        BY DEF JobOK, Job, JobConfig
    <1>2. \A i : OutcomeAt(NoFailure, i) = "ok"
        BY DEF OutcomeAt, NoFailure
    <1>3. ~JobStartThrows(j, NoFailure) /\ RestartThrowers(j, NoFailure) = {}
        BY NoStartThrows
    <1>4. k.state = "STARTING"
        BY <1>3 DEF JobStart, JobOK, Job
    <1>5. ASSUME j.state \in {"STOPPING", "STOPPED"}
          PROVE  /\ DOMAIN k.procs = DOMAIN j.procs
                 /\ \A i \in DOMAIN j.procs : k.procs[i] = RestartedOrNot(j.procs[i])
        <2>1. k.procs = RestartProcesses(j, NoFailure)
            BY <1>5 DEF JobStart, JobOK, Job
        <2>2. RestartProcesses(j, NoFailure) =
                 [i \in DOMAIN j.procs |-> RestartProcess(j.procs[i], j.config, "ok")]
            BY <1>2, <1>3 DEF RestartProcesses, Reached
        <2>3. \A p : RestartProcess(p, j.config, "ok") = RestartedOrNot(p)
            BY <1>1, StartIs DEF RestartProcess, RestartedOrNot
        <2> QED
            BY <2>1, <2>2, <2>3
    <1>6. ASSUME j.state = "EMPTY"
          PROVE  /\ DOMAIN k.procs = 1..j.config.numprocs
                 /\ \A i \in DOMAIN k.procs : k.procs[i] = Started(NewProcess)
        <2>1. k.procs = StartProcesses(j, NoFailure)
            BY <1>6 DEF JobStart, JobOK, Job
        <2> DEFINE n == j.config.numprocs
                   new == [i \in 1..n |-> Started(NewProcess)]
        <2>2. n \in Nat
            BY <1>1 DEF Startable
        <2>3. CreatedCount(j, NoFailure) = n
            <3>1. NoFailure.at = 0
                BY DEF NoFailure
            <3>2. ~NeverStarts(j.config)
                BY <1>1 DEF NeverStarts, Startable, IntervalRejected, JobConfig
            <3> QED
                BY <2>2, <3>1, <3>2 DEF CreatedCount
        <2>4. StartProcesses(j, NoFailure) = j.procs \o new
            <3>1. \A i : Start(NewProcess, j.config, OutcomeAt(NoFailure, i)) = Started(NewProcess)
                BY <1>1, <1>2, StartIs
            <3> QED
                BY <2>3, <3>1 DEF StartProcesses
        <2>5. Started(NewProcess) \in Process
            BY NewProcessSound
               DEF Started, Forked, Sound, Process, ProcessState, ChildState
        <2>6. new \in Seq(Process)
            <3>1. new \in [1..n -> Process]
                BY <2>5
            <3> QED
                BY <2>2, <3>1, FunctionIsSeq
        <2>7. j.procs = << >>
            <3>1. Len(j.procs) \in Nat /\ 1..Len(j.procs) = {}
                BY <1>1, <1>6, LenProperties
            <3>2. Len(j.procs) # 0 => 1 \in 1..Len(j.procs)
                BY <3>1
            <3> QED
                BY <1>1, <3>1, <3>2, EmptySeq
        <2>8. j.procs \o new = new
            BY <2>6, <2>7, ConcatEmptySeq
        <2> QED
            BY <2>1, <2>4, <2>8
    <1>7. ASSUME j.state \notin {"STOPPING", "STOPPED", "EMPTY"}
          PROVE  k.procs = j.procs
        BY <1>7 DEF JobStart, JobOK, Job
    <1> QED
        BY <1>4, <1>5, <1>6, <1>7

(***************************************************************************)
(* Job::stop of a job whose processes have all exited or can be signalled. *)
(***************************************************************************)
Stoppable(p) == HasExited(p) \/ CanSignal(p)

Halted(p) == IF HasExited(p) THEN [p EXCEPT !.state = "STOPPED"]
                             ELSE [p EXCEPT !.state = "STOPPING", !.timer = "kill"]

LEMMA StopIs ==
    ASSUME NEW config \in JobConfig, config.stop_time >= 0, NEW p, Stoppable(p)
    PROVE  StopResult(p, config, "ok") = "ok" /\ Stop(p, config, "ok") = Halted(p)
PROOF
    <1>1. ~IntervalRejected(config.stop_time)
        BY DEF IntervalRejected, JobConfig
    <1>2. StopResult(p, config, "ok") = "ok"
        BY <1>1 DEF StopResult, Stoppable
    <1> QED
        BY <1>2 DEF Stop, Halted

LEMMA JobStopIs ==
    ASSUME NEW j, JobOK(j), j.config.stop_time >= 0, ~IgnoresStop(j), NEW fate \in Fates,
           \A i \in DOMAIN j.procs : Stoppable(j.procs[i])
    PROVE  LET k == JobStop(j, NoFailure, fate)
           IN  /\ ~JobStopThrows(j, NoFailure)
               /\ DOMAIN k.procs = DOMAIN j.procs
               /\ \A i \in DOMAIN j.procs : k.procs[i] = Halted(j.procs[i])
               /\ \/ /\ k.state = Marked("STOPPED", fate)
                     /\ AllProcessesInStates(k.procs, {"STOPPED"})
                  \/ /\ k.state = "STOPPING"
                     /\ \/ ~AllProcessesInStates(k.procs, {"STOPPED"})
                        \/ \A i \in DOMAIN j.procs : ~HasExited(j.procs[i])
PROOF
    <1> DEFINE k == JobStop(j, NoFailure, fate)
               procs == StopAll(j, NoFailure)
    <1>1. j.config \in JobConfig
        BY DEF JobOK, Job
    <1>2. \A i : OutcomeAt(NoFailure, i) = "ok"
        BY DEF OutcomeAt, NoFailure
    <1>3. StopThrowers(j, NoFailure) = {}
        BY <1>1, <1>2, StopIs DEF StopThrowers
    <1>4. ~JobStopThrows(j, NoFailure)
        BY <1>3 DEF JobStopThrows
    <1>5. procs = [i \in DOMAIN j.procs |-> Halted(j.procs[i])]
        BY <1>1, <1>2, <1>3, StopIs DEF StopAll, Reached
    <1>6. /\ k.procs = procs
          /\ \/ k.state = Marked("STOPPED", fate) /\ AllProcessesInStates(procs, {"STOPPED"})
             \/ /\ k.state = "STOPPING"
                /\ \/ ~AllProcessesInStates(procs, {"STOPPED"})
                   \/ \A i \in DOMAIN j.procs : ~HasExited(j.procs[i])
        <2> HIDE DEF procs
        <2> DEFINE calledBack == \E i \in DOMAIN j.procs : HasExited(j.procs[i])
                   allStopped == calledBack /\ AllProcessesInStates(procs, {"STOPPED"})
        <2>1. k = [j EXCEPT !.procs = procs,
                            !.state = IF allStopped THEN Marked("STOPPED", fate) ELSE "STOPPING"]
            BY <1>3 DEF JobStop, IgnoresStop, Reached, procs
        <2> QED
            BY <2>1 DEF JobOK, Job
    <1> QED
        BY <1>4, <1>5, <1>6

(***************************************************************************)
(* A job that Job::stop takes as it is, or that it marks at once.          *)
(***************************************************************************)
LEMMA IgnoredStopIs ==
    ASSUME NEW j, JobOK(j), IgnoresStop(j), NEW fate \in Fates
    PROVE  LET k == JobStop(j, NoFailure, fate)
           IN  /\ ~JobStopThrows(j, NoFailure)
               /\ k.procs = j.procs
               /\ k.state = IF j.state = "STOPPING" THEN j.state ELSE Marked(j.state, fate)
    BY DEF JobStop, IgnoresStop, JobStopThrows, JobOK, Job

(***************************************************************************)
(* Process::onStateChange: every case of the death of process i.           *)
(***************************************************************************)
WasStopped(p) == p.child = "signalled" \/ p.state = "STOPPING"

AfterStop(j, i, k, outcome, fate) ==
    \/ /\ j.state = "STARTING"
       /\ k.state = "STARTING"
       /\ k.procs[i] = Start(Dead(j.procs[i]), j.config, outcome)
    \/ /\ j.state = "STOPPING"
       /\ k.procs[i] = Dead(j.procs[i])
       /\ k.state = IF AllProcessesInStates(k.procs, {"STOPPED"})
                    THEN Marked("STOPPED", fate) ELSE "STOPPING"
    \/ /\ j.state \notin {"STARTING", "STOPPING"}
       /\ k.procs[i] = Dead(j.procs[i])
       /\ k.state = j.state

AfterExit(j, i, k, outcome) ==
    \/ /\ j.config.restart_policy # "NEVER"
       /\ k.state = "STARTING"
       /\ k.procs[i] = Start([Dead(j.procs[i]) EXCEPT !.restarts = @ + 1], j.config, outcome)
    \/ /\ k.procs[i] = AddRestart(Dead(j.procs[i]), j.config)
       /\ k.state = IF AllProcessesInStates(k.procs, RestartableStates) THEN "STOPPED" ELSE j.state

LEMMA OnStateChangeIs ==
    ASSUME NEW j, JobOK(j), NEW i \in DOMAIN j.procs, j.procs[i].child \in Zombie,
           NEW outcome, NEW fate \in Fates
    PROVE  LET k == OnStateChange(j, i, outcome, fate)
           IN  /\ DOMAIN k.procs = DOMAIN j.procs
               /\ \A h \in DOMAIN j.procs \ {i} : k.procs[h] = j.procs[h]
               /\ IF WasStopped(j.procs[i]) THEN AfterStop(j, i, k, outcome, fate)
                                            ELSE AfterExit(j, i, k, outcome)
PROOF
    <1> DEFINE p == j.procs[i]
               dead == [j EXCEPT !.procs[i] = Dead(p)]
               k == OnStateChange(j, i, outcome, fate)
    <1>1. ProcOK(p, j.config) /\ Sound(p)
        BY DEF JobOK, ProcOK
    <1>2. ProcOK(Dead(p), j.config) /\ Dead(p).state \notin LiveStates
        BY <1>1, DeadSound, KeepsRestarts
    <1>3. /\ JobOK(dead)
          /\ dead.state = j.state
          /\ dead.config = j.config
          /\ DOMAIN dead.procs = DOMAIN j.procs
          /\ \A h \in DOMAIN j.procs : dead.procs[h] = IF h = i THEN Dead(p) ELSE j.procs[h]
        BY <1>2, ReplaceOne
    <1>4. p.state \in LiveStates
        BY <1>1 DEF Sound, ChildFits
    <1>5. CASE WasStopped(p)
        <2>1. k = JobOnStop(dead, i, outcome, fate)
            BY <1>5 DEF OnStateChange, WasStopped, Dead
        <2> HIDE DEF dead
        <2>2. CASE j.state = "STARTING"
            <3>1. /\ k.state = "STARTING"
                  /\ k.procs = [dead.procs EXCEPT ![i] = Start(Dead(p), j.config, outcome)]
                BY <1>3, <2>1, <2>2 DEF JobOnStop, JobOK, Job
            <3> QED
                BY <1>3, <1>5, <2>2, <3>1 DEF AfterStop
        <2>3. CASE j.state = "STOPPING"
            <3>1. /\ k.procs = dead.procs
                  /\ k.state = IF AllProcessesInStates(dead.procs, {"STOPPED"})
                               THEN Marked("STOPPED", fate) ELSE "STOPPING"
                BY <1>3, <2>1, <2>3 DEF JobOnStop, JobOK, Job
            <3> QED
                BY <1>3, <1>5, <2>3, <3>1 DEF AfterStop
        <2>4. CASE j.state \notin {"STARTING", "STOPPING"}
            <3>1. k = dead
                BY <1>3, <2>1, <2>4 DEF JobOnStop
            <3> QED
                BY <1>3, <1>5, <2>4, <3>1 DEF AfterStop
        <2> QED
            BY <2>2, <2>3, <2>4
    <1>6. CASE ~WasStopped(p)
        <2>1. k = JobOnExit(dead, i, p.child, outcome)
            BY <1>4, <1>6 DEF OnStateChange, WasStopped, Dead
        <2> DEFINE q == AddRestart(Dead(p), j.config)
        <2> HIDE DEF dead
        <2>2. dead.procs[i] = Dead(p)
            BY <1>3
        <2>3. CASE Retries(dead, i, p.child)
            <3>1. j.config.restart_policy # "NEVER" /\ q = [Dead(p) EXCEPT !.restarts = @ + 1]
                BY <1>3, <2>2, <2>3 DEF Retries, AddRestart
            <3> HIDE DEF q
            <3>2. /\ k.state = "STARTING"
                  /\ k.procs = [dead.procs EXCEPT ![i] = Start(q, j.config, outcome)]
                BY <1>3, <2>1, <2>2, <2>3 DEF JobOnExit, JobOK, Job, q
            <3> QED
                BY <1>3, <1>6, <3>1, <3>2 DEF AfterExit
        <2>4. CASE ~Retries(dead, i, p.child)
            <3> DEFINE all == AllProcessesInStates(dead.procs, RestartableStates)
            <3>1. /\ k.procs = [dead.procs EXCEPT ![i] = q]
                  /\ k.state = IF all THEN "STOPPED" ELSE j.state
                BY <1>3, <2>1, <2>2, <2>4 DEF JobOnExit, JobOK, Job
            <3>2. q.state = Dead(p).state
                BY <1>2, <1>3, AddRestartOK DEF JobOK, Job
            <3> HIDE DEF q
            <3>3. AllProcessesInStates(k.procs, RestartableStates) <=> all
                BY <1>3, <3>1, <3>2 DEF AllProcessesInStates
            <3>4. k.procs[i] = q
                BY <1>3, <3>1
            <3> HIDE DEF all
            <3>5. AfterExit(j, i, k, outcome)
                BY <3>1, <3>3, <3>4 DEF AfterExit, q
            <3> QED
                BY <1>3, <1>6, <3>1, <3>5
        <2> QED
            BY <2>3, <2>4
    <1> QED
        BY <1>5, <1>6

----------------------------------------------------------------------------
(***************************************************************************)
(* A process is tended when the event loop watches its child and the timer *)
(* that its state needs is there.  The kill timer is there unless the      *)
(* config makes timerfd_settime reject it.                                 *)
(***************************************************************************)
Tended(p, config) ==
    /\ p.child \in Unreaped => p.watched /\ p.pidfd
    /\ p.state = "STARTING" <=> p.timer = "start"
    /\ config.stop_time >= 0 /\ p.state = "STOPPING" =>
          p.timer = "kill" \/ p.child \in {"dying"} \cup Zombie

LEMMA StartedTended ==
    ASSUME NEW p \in Process, NEW config
    PROVE  Tended(Started(p), config)
    BY DEF Tended, Started, Forked, Process

LEMMA RestartedTended ==
    ASSUME NEW p \in Process, NEW config, Tended(p, config)
    PROVE  Tended(RestartedOrNot(p), config)
PROOF
    <1> DEFINE reset == [p EXCEPT !.restarts = 0]
    <1>1. reset \in Process /\ Tended(reset, config)
        BY DEF Tended, Process
    <1> HIDE DEF reset
    <1>2. RestartedOrNot(p) \in {reset, Started(reset)}
        BY DEF RestartedOrNot, reset
    <1> QED
        BY <1>1, <1>2, StartedTended

LEMMA StopTended ==
    ASSUME NEW config \in JobConfig, NEW p, Sound(p), Tended(p, config)
    PROVE  Tended(Stop(p, config, "ok"), config)
PROOF
    <1>1. CASE HasExited(p)
        <2>1. Stop(p, config, "ok") = [p EXCEPT !.state = "STOPPED"]
            BY <1>1 DEF Stop
        <2> QED
            BY <1>1, <2>1 DEF Tended, Sound, Process, HasExited, TimerFits, ChildFits
    <1>2. CASE ~HasExited(p) /\ ~CanSignal(p)
        <2>1. Stop(p, config, "ok") = p
            BY <1>2 DEF Stop, StopResult
        <2> QED
            BY <2>1
    <1>3. CASE ~HasExited(p) /\ CanSignal(p)
        <2>1. CASE config.stop_time >= 0
            <3>1. Stop(p, config, "ok") = [p EXCEPT !.state = "STOPPING", !.timer = "kill"]
                BY <1>3, <2>1, StopIs DEF Halted, Stoppable
            <3> QED
                BY <3>1 DEF Tended, Sound, Process
        <2>2. CASE ~(config.stop_time >= 0)
            <3>1. StopResult(p, config, "ok") = "timer_start"
                BY <1>3, <2>2 DEF StopResult, IntervalRejected, JobConfig
            <3>2. Stop(p, config, "ok") = [p EXCEPT !.state = "STOPPING", !.timer = "none"]
                BY <1>3, <3>1 DEF Stop
            <3> QED
                BY <2>2, <3>2 DEF Tended, Sound, Process
        <2> QED
            BY <2>1, <2>2
    <1> QED
        BY <1>1, <1>2, <1>3

LEMMA OnStartTimeTended ==
    ASSUME NEW config, NEW p, Sound(p), Tended(p, config), p.timer = "start"
    PROVE  Tended(OnStartTime(p), config)
    BY DEF Tended, Sound, Process, OnStartTime

LEMMA OnKillTimeTended ==
    ASSUME NEW config, NEW p, Sound(p), Tended(p, config), p.timer = "kill"
    PROVE  Tended(OnKillTime(p), config)
    BY DEF Tended, Sound, ChildFits, TimerFits, CanSignal, Process, OnKillTime

LEMMA ChildExitTended ==
    ASSUME NEW config, NEW p, Sound(p), Tended(p, config), p.child \in {"alive", "dying"},
           NEW status \in Zombie
    PROVE  Tended([p EXCEPT !.child = status], config)
    BY DEF Tended, Sound, ChildFits, Process

LEMMA DeadTended ==
    ASSUME NEW config, NEW p, Sound(p), p.child \in Zombie
    PROVE  Tended(Dead(p), config)
PROOF
    <1>1. Dead(p).state \notin LiveStates /\ Dead(p).timer = "none" /\ Dead(p).child = "reaped"
        BY DeadSound DEF Dead, Reaped, Sound, Process
    <1> QED
        BY <1>1 DEF Tended

LEMMA AddRestartTended ==
    ASSUME NEW config, NEW p \in Process, Tended(p, config)
    PROVE  Tended(AddRestart(p, config), config)
    BY DEF Tended, AddRestart, Process

(***************************************************************************)
(* All processes of a job stay tended, through every operation.            *)
(***************************************************************************)
AllTended(j) == \A i \in DOMAIN j.procs : Tended(j.procs[i], j.config)

LEMMA JobStopTended ==
    ASSUME NEW j, JobOK(j), AllTended(j), NEW fate \in Fates
    PROVE  AllTended(JobStop(j, NoFailure, fate))
PROOF
    <1> DEFINE k == JobStop(j, NoFailure, fate)
               procs == StopAll(j, NoFailure)
    <1>1. k.config = j.config
        BY JobStopOK
    <1>2. k.procs = j.procs \/ k.procs = procs
        BY DEF JobStop, JobOK, Job
    <1>3. ASSUME NEW i \in DOMAIN j.procs  PROVE Tended(procs[i], j.config)
        <2>1. procs[i] \in {j.procs[i], Stop(j.procs[i], j.config, "ok")}
            BY DEF StopAll, OutcomeAt, NoFailure
        <2>2. Sound(j.procs[i]) /\ Tended(j.procs[i], j.config) /\ j.config \in JobConfig
            BY DEF JobOK, ProcOK, AllTended, Job
        <2> QED
            BY <2>1, <2>2, StopTended
    <1>4. DOMAIN procs = DOMAIN j.procs
        BY DEF StopAll
    <1> HIDE DEF k, procs
    <1>5. AllTended(k)
        BY <1>1, <1>2, <1>3, <1>4 DEF AllTended
    <1> QED
        BY <1>5 DEF k

LEMMA JobStartTended ==
    ASSUME NEW j, JobOK(j), AllTended(j), Startable(j.config),
           j.state = "EMPTY" => DOMAIN j.procs = {}
    PROVE  AllTended(JobStart(j, NoFailure))
PROOF
    <1> DEFINE k == JobStart(j, NoFailure)
    <1>1. k.config = j.config
        BY JobStartOK
    <1>2. /\ j.state \in {"STOPPING", "STOPPED"} =>
                /\ DOMAIN k.procs = DOMAIN j.procs
                /\ \A i \in DOMAIN j.procs : k.procs[i] = RestartedOrNot(j.procs[i])
          /\ j.state = "EMPTY" => \A i \in DOMAIN k.procs : k.procs[i] = Started(NewProcess)
          /\ j.state \notin {"STOPPING", "STOPPED", "EMPTY"} => k.procs = j.procs
        BY JobStartIs
    <1>3. NewProcess \in Process /\ \A i \in DOMAIN j.procs : j.procs[i] \in Process
        BY NewProcessSound DEF JobOK, ProcOK, Sound
    <1> HIDE DEF k
    <1>4. AllTended(k)
        BY <1>1, <1>2, <1>3, StartedTended, RestartedTended DEF AllTended
    <1> QED
        BY <1>4 DEF k

LEMMA OnStateChangeTended ==
    ASSUME NEW j, JobOK(j), AllTended(j), Startable(j.config), NEW i \in DOMAIN j.procs,
           j.procs[i].child \in Zombie, NEW fate \in Fates
    PROVE  AllTended(OnStateChange(j, i, "ok", fate))
PROOF
    <1> DEFINE k == OnStateChange(j, i, "ok", fate)
               p == j.procs[i]
               more == [Dead(p) EXCEPT !.restarts = @ + 1]
    <1>1. k.config = j.config /\ j.config \in JobConfig
        BY OnStateChangeOK DEF JobOK, Job
    <1>2. Sound(p) /\ Sound(Dead(p)) /\ Tended(Dead(p), j.config)
        BY DeadSound, DeadTended DEF JobOK, ProcOK
    <1>3. Dead(p) \in Process /\ more \in Process
        BY <1>2 DEF Sound, Process
    <1>4. /\ DOMAIN k.procs = DOMAIN j.procs
          /\ \A h \in DOMAIN j.procs \ {i} : k.procs[h] = j.procs[h]
          /\ k.procs[i] \in {Dead(p), AddRestart(Dead(p), j.config), Start(Dead(p), j.config, "ok"),
                             Start(more, j.config, "ok")}
        BY OnStateChangeIs DEF AfterStop, AfterExit
    <1>5. Tended(k.procs[i], j.config)
        <2> HIDE DEF more, k
        <2> QED
            BY <1>1, <1>2, <1>3, <1>4, StartIs, StartedTended, AddRestartTended
    <1> HIDE DEF k
    <1>6. AllTended(k)
        BY <1>1, <1>4, <1>5 DEF AllTended
    <1> QED
        BY <1>6 DEF k

(***************************************************************************)
(* One process is replaced by a tended one; so it is with the timers and   *)
(* with the end of a child.                                                *)
(***************************************************************************)
LEMMA ReplaceOneTended ==
    ASSUME NEW j, JobOK(j), AllTended(j), NEW i \in DOMAIN j.procs, NEW q,
           ProcOK(q, j.config), Tended(q, j.config)
    PROVE  AllTended([j EXCEPT !.procs[i] = q])
    BY ReplaceOne DEF AllTended

LEMMA OnProcessSurpassedStartTimeTended ==
    ASSUME NEW j, JobOK(j), AllTended(j), NEW i \in DOMAIN j.procs, j.procs[i].timer = "start"
    PROVE  AllTended(OnProcessSurpassedStartTime(j, i))
PROOF
    <1> DEFINE q == OnStartTime(j.procs[i])
               m == [j EXCEPT !.procs[i] = q]
    <1>1. ProcOK(q, j.config) /\ Tended(q, j.config)
        BY OnStartTimeSound, KeepsRestarts, OnStartTimeTended DEF JobOK, ProcOK, AllTended
    <1>2. JobOK(m) /\ AllTended(m)
        BY <1>1, ReplaceOne, ReplaceOneTended
    <1>3. OnProcessSurpassedStartTime(j, i) \in {m, [m EXCEPT !.state = "RUNNING"]}
        BY DEF OnProcessSurpassedStartTime
    <1> HIDE DEF m
    <1>4. AllTended([m EXCEPT !.state = "RUNNING"])
        BY <1>2 DEF AllTended, JobOK, Job
    <1> QED
        BY <1>2, <1>3, <1>4

LEMMA OnStopTimeTended ==
    ASSUME NEW j, JobOK(j), AllTended(j), NEW i \in DOMAIN j.procs, j.procs[i].timer = "kill"
    PROVE  AllTended(OnStopTime(j, i))
PROOF
    <1>1. ProcOK(OnKillTime(j.procs[i]), j.config) /\ Tended(OnKillTime(j.procs[i]), j.config)
        BY OnKillTimeSound, KeepsRestarts, OnKillTimeTended DEF JobOK, ProcOK, AllTended
    <1>2. OnStopTime(j, i) = [j EXCEPT !.procs[i] = OnKillTime(j.procs[i])]
        BY DEF OnStopTime
    <1> QED
        BY <1>1, <1>2, ReplaceOneTended

LEMMA ChildExitAllTended ==
    ASSUME NEW j, JobOK(j), AllTended(j), NEW i \in DOMAIN j.procs, NEW crashes,
           NEW status \in Endings(j.procs[i], crashes)
    PROVE  AllTended([j EXCEPT !.procs[i].child = status])
PROOF
    <1> DEFINE p == j.procs[i]
               q == [p EXCEPT !.child = status]
    <1>1. p.child \in {"alive", "dying"} /\ status \in Zombie
        BY DEF Endings
    <1>2. ProcOK(q, j.config) /\ Tended(q, j.config)
        BY <1>1, ChildExitSound, KeepsRestarts, ChildExitTended DEF JobOK, ProcOK, AllTended
    <1> HIDE DEF q
    <1>3. [j EXCEPT !.procs[i].child = status] = [j EXCEPT !.procs[i] = q]
        BY DEF q
    <1> QED
        BY <1>2, <1>3, ReplaceOneTended
============================================================================

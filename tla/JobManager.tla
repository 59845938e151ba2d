---------------------------- MODULE JobManager -----------------------------
(***************************************************************************)
(* The JobManager of taskmasterd and the main loop that drives it: jobs    *)
(* created from the configuration file, commands, reloads, the marks that  *)
(* JobManager::onStop leaves and JobManager::update acts on, and the       *)
(* shutdown in ~JobManager.                                                *)
(*                                                                         *)
(* System calls do not fail here (module Job has them failing), but        *)
(* signalling a child that was already waited for does, and so does        *)
(* starting a job whose numbers make it fail.  What such an exception cuts *)
(* short is modelled.                                                      *)
(***************************************************************************)
EXTENDS Job, ConfigFile

CONSTANTS Files,        \* version -> document: what the configuration file may hold
          Crashes,      \* whether a child may die by a signal nobody asked for
          MaxEvents,    \* MAX_EVENTS, how many events one epoll_wait returns
          MaxCommands,  \* bound on the start, stop and restart commands
          MaxReloads    \* bound on the reloads

ASSUME NoFaultsAssumption == Faults = {}
ASSUME CrashesAssumption == Crashes \in BOOLEAN
ASSUME BoundsAssumption ==
    MaxEvents \in Nat \ {0} /\ MaxCommands \in Nat /\ MaxReloads \in Nat

(***************************************************************************)
(* What the parser makes of each version, and the names and configs it may *)
(* give (written as enumerations, which TLC evaluates once).               *)
(***************************************************************************)
Versions == DOMAIN Files
Loaded == [f \in Versions |-> GetJobConfigs(Files[f])]
Loadable == {cfg : cfg \in UNION {Loaded[f] : f \in Versions}}
Names == {n : n \in UNION {DOMAIN cfg : cfg \in Loadable}}
AllConfigs == {c : c \in UNION {Range(cfg) : cfg \in Loadable}}

ASSUME FilesAssumption == \A cfg \in Loadable : \A n \in DOMAIN cfg : cfg[n] \in JobConfig
ASSUME ListsAssumption ==
    \A f \in Versions : \A nodes \in Files[f].jobs : \A name \in NamesIn(nodes) :
        IsListOfCodes(SpelledOut(FirstEntry(nodes, name))["exitcodes"])

(***************************************************************************)
(* Where the daemon is: constructing its Server; in the main loop; leaving *)
(* main because a signal or a client said so or an exception did; waiting  *)
(* in ~JobManager; gone, or gone by std::terminate.                        *)
(***************************************************************************)
Phases == {"booting", "serving", "leaving", "drain", "exited", "aborted"}

VARIABLES jobs,      \* _jobs: name -> job
          config,    \* _config: name -> config
          file,      \* the version that config was read from
          phase,
          handled,   \* callbacks since the main loop called epoll_wait
          commands,  \* start, stop and restart commands so far
          reloads,   \* reloads so far
          failed,    \* history: the last reload that read its file threw
          overtaken  \* history: a start or a stop met a job that update() owed a mark

history == <<failed, overtaken>>
vars == <<jobs, config, file, phase, handled, commands, reloads, history>>

\* The top of the main loop: every batch before was followed by its update().
AtTop == phase = "serving" /\ handled = 0

\* JobManager::JobManager: the jobs are made, and none is started yet.
Init == /\ file \in Versions
        /\ config \in Loaded[file]
        /\ jobs = [n \in DOMAIN config |-> NewJob(config[n])]
        /\ phase = "booting"
        /\ handled = 0
        /\ commands = 0
        /\ reloads = 0
        /\ failed = FALSE
        /\ overtaken = FALSE

----------------------------------------------------------------------------
\* The two tests of reload and of onStop.
Drifted(cfg, n, j) == n \notin DOMAIN cfg \/ cfg[n] # j.config

\* JobManager::onStop
Fate(cfg, n, j) == CASE n \notin DOMAIN cfg -> "remove"
                     [] n \in DOMAIN cfg -> IF cfg[n] # j.config THEN "replace" ELSE "keep"

(***************************************************************************)
(* The loops of JobManager run over hash maps, so in any order, and an     *)
(* exception ends them: Visits is the set of the sets of names that a loop *)
(* over names may have got to, the last of them a thrower if there is one. *)
(* An outcome of a loop is the jobs it leaves and whether it threw.        *)
(***************************************************************************)
Visits(names, throwers) ==
    IF throwers = {} THEN {names}
    ELSE {quiet \cup {t} : quiet \in SUBSET (names \ throwers), t \in throwers}

Outcome(js, threw) == [jobs |-> js, threw |-> threw]

\* The next loop runs when the one before it did not throw.
AndThen(outcomes, NextLoop(_)) ==
    UNION {IF o.threw THEN {o} ELSE NextLoop(o.jobs) : o \in outcomes}

\* job.stop() for the names: JobManager::kill and the first loop of reload.
StopEach(js, cfg, names) ==
    LET throwers == {n \in names : JobStopThrows(js[n], NoFailure)}
    IN  {Outcome([n \in DOMAIN js |->
                    IF n \in visited THEN JobStop(js[n], NoFailure, Fate(cfg, n, js[n]))
                                     ELSE js[n]],
                 throwers # {}) : visited \in Visits(names, throwers)}

\* JobManager::createJob: an autostart job is started at once.
Created(cfg, n) == IF cfg[n].autostart THEN JobStart(NewJob(cfg[n]), NoFailure)
                                       ELSE NewJob(cfg[n])
CreateFails(cfg, n) == cfg[n].autostart /\ JobStartThrows(NewJob(cfg[n]), NoFailure)

\* The second loop of reload.
CreateEach(js, cfg) ==
    LET names == DOMAIN cfg \ DOMAIN js
        throwers == {n \in names : CreateFails(cfg, n)}
    IN  {Outcome([n \in DOMAIN js \cup visited |->
                    IF n \in visited THEN Created(cfg, n) ELSE js[n]],
                 throwers # {}) : visited \in Visits(names, throwers)}

\* Mutant: jobs marked REPLACE are overlooked.
UpdateRemovedOnly(js, cfg) ==
    {Outcome([n \in {m \in DOMAIN js : js[m].state # "REMOVE"} |-> js[n]], FALSE)}

\* Mutant: jobs marked REPLACE are erased and not created again.
UpdateErasesOnly(js, cfg) ==
    {Outcome([n \in {m \in DOMAIN js : js[m].state \notin {"REMOVE", "REPLACE"}} |-> js[n]],
             FALSE)}

(***************************************************************************)
(* JobManager::update: jobs marked REMOVE are erased, jobs marked REPLACE  *)
(* are erased and created from the config, which throws when the name is   *)
(* not in it any more.                                                     *)
(***************************************************************************)
UpdateAll(js, cfg) ==
    LET marked == {n \in DOMAIN js : js[n].state \in {"REMOVE", "REPLACE"}}
        throwers == {n \in marked : /\ js[n].state = "REPLACE"
                                    /\ n \notin DOMAIN cfg \/ CreateFails(cfg, n)}
        Replaced(visited) == {n \in visited : js[n].state = "REPLACE" /\ n \in DOMAIN cfg}
    IN  {Outcome([n \in (DOMAIN js \ visited) \cup Replaced(visited) |->
                    IF n \in visited THEN Created(cfg, n) ELSE js[n]],
                 throwers # {}) : visited \in Visits(marked, throwers)}

\* JobManager::start(): the autostart of the config the job has, not of the new one.
StartEach(js) ==
    LET names == {n \in DOMAIN js : js[n].config.autostart}
        throwers == {n \in names : JobStartThrows(js[n], NoFailure)}
    IN  {Outcome([n \in DOMAIN js |->
                    IF n \in visited THEN JobStart(js[n], NoFailure) ELSE js[n]],
                 throwers # {}) : visited \in Visits(names, throwers)}

\* JobManager::reload, after the file was read into cfg.
ReloadAll(js, cfg) ==
    LET CreateLoop(x) == CreateEach(x, cfg)
        UpdateLoop(x) == UpdateAll(x, cfg)
        drifted == {n \in DOMAIN js : Drifted(cfg, n, js[n])}
    IN  AndThen(AndThen(AndThen(StopEach(js, cfg, drifted), CreateLoop), UpdateLoop), StartEach)

----------------------------------------------------------------------------
(***************************************************************************)
(* Server::Server: bind and listen, which may throw, then the autostart of *)
(* the jobs.  An exception leaves main, and ~JobManager runs.              *)
(***************************************************************************)
Boot == /\ phase = "booting"
        /\ \E o \in StartEach(jobs) :
              /\ jobs' = o.jobs
              /\ phase' = IF o.threw THEN "leaving" ELSE "serving"
        /\ UNCHANGED <<config, file, handled, commands, reloads, history>>

ListenFails == /\ phase = "booting"
               /\ phase' = "leaving"
               /\ UNCHANGED <<jobs, config, file, handled, commands, reloads, history>>

(***************************************************************************)
(* Callbacks of the event loop.  In main a batch of them is followed by    *)
(* update(); ~JobManager calls no update().                                *)
(***************************************************************************)
ServedCallback == /\ phase = "serving"
                  /\ handled < MaxEvents
                  /\ handled' = handled + 1
                  /\ UNCHANGED phase

DrainCallback == /\ phase = "drain"
                 /\ UNCHANGED <<phase, handled>>

\* History: what Job::start or Job::stop was called on, in this step.
IsMarked(j) == j.state \in {"REPLACE", "REMOVE"}
Meets(js) == overtaken' = (overtaken \/ \E j \in js : IsMarked(j))

\* JobManager::start, ::stop and ::restart of a job that findJob finds.
JobCommand(n, j) == /\ ServedCallback
                    /\ commands < MaxCommands
                    /\ commands' = commands + 1
                    /\ jobs' = [jobs EXCEPT ![n] = j]
                    /\ UNCHANGED <<config, file, reloads, failed>>

StartCommand(n) == JobCommand(n, JobStart(jobs[n], NoFailure)) /\ Meets({jobs[n]})

StopCommand(n) == /\ JobCommand(n, JobStop(jobs[n], NoFailure, Fate(config, n, jobs[n])))
                  /\ Meets({jobs[n]})

\* start() meets the job as stop() left it, unless stop() threw.
RestartCommand(n) ==
    LET fate == Fate(config, n, jobs[n])
        between == {j \in {JobStop(jobs[n], NoFailure, fate)} : ~JobStopThrows(jobs[n], NoFailure)}
    IN  /\ JobCommand(n, JobRestart(jobs[n], NoFailure, NoFailure, fate))
        /\ Meets({jobs[n]} \cup between)

(***************************************************************************)
(* The reload command.  The client gets the exception as an error; so it   *)
(* does when the file cannot be read, and then nothing changes.            *)
(***************************************************************************)
CountReload == reloads < MaxReloads /\ reloads' = reloads + 1

ReloadCommand(f) == /\ ServedCallback
                    /\ CountReload
                    /\ config' \in Loaded[f]
                    /\ file' = f
                    /\ \E o \in ReloadAll(jobs, config') : jobs' = o.jobs /\ failed' = o.threw
                    /\ Meets(Range(jobs))
                    /\ UNCHANGED commands

UnreadableFile(f) == /\ ServedCallback \/ (AtTop /\ UNCHANGED <<phase, handled>>)
                     /\ CountReload
                     /\ Loaded[f] = {}
                     /\ UNCHANGED <<jobs, config, file, commands, history>>

\* SIGHUP: reload at the top of the main loop, where an exception leaves main.
SignalReload(f) == /\ AtTop
                   /\ CountReload
                   /\ config' \in Loaded[f]
                   /\ file' = f
                   /\ \E o \in ReloadAll(jobs, config') :
                        /\ jobs' = o.jobs
                        /\ failed' = o.threw
                        /\ phase' = IF o.threw THEN "leaving" ELSE "serving"
                   /\ Meets(Range(jobs))
                   /\ UNCHANGED <<handled, commands>>

(***************************************************************************)
(* The processes of a job, as in SingleJob.  What epoll_wait returned is   *)
(* fixed before the first callback, so a child that dies during a batch is *)
(* not seen in it: its death is a step of the next one.                    *)
(***************************************************************************)
ProcessCallback(n, j) == /\ ServedCallback \/ DrainCallback
                         /\ jobs' = [jobs EXCEPT ![n] = j]
                         /\ UNCHANGED <<config, file, commands, reloads, history>>

ChildExit(n, i, status) == /\ AtTop \/ phase = "drain"
                           /\ status \in Endings(jobs[n].procs[i], Crashes)
                           /\ jobs' = [jobs EXCEPT ![n].procs[i].child = status]
                           /\ UNCHANGED <<config, file, phase, handled, commands, reloads, history>>

HandleExit(n, i) ==
    /\ ExitReady(jobs[n].procs[i])
    /\ ProcessCallback(n, OnStateChange(jobs[n], i, "ok", Fate(config, n, jobs[n])))

HandleStartTime(n, i) == /\ StartTimeReady(jobs[n], i)
                         /\ ProcessCallback(n, OnProcessSurpassedStartTime(jobs[n], i))

HandleStopTime(n, i) == /\ StopTimeReady(jobs[n], i)
                        /\ ProcessCallback(n, OnStopTime(jobs[n], i))

----------------------------------------------------------------------------
\* Mutant: main forgets manager.update().
UpdateForgotten == /\ phase = "serving"
                   /\ handled > 0
                   /\ handled' = 0
                   /\ UNCHANGED <<jobs, config, file, phase, commands, reloads, history>>

\* The batch is over: main calls manager.update(), outside any try of its own.
Update == /\ phase = "serving"
          /\ handled > 0
          /\ handled' = 0
          /\ \E o \in UpdateAll(jobs, config) :
                /\ jobs' = o.jobs
                /\ phase' = IF o.threw THEN "leaving" ELSE "serving"
          /\ UNCHANGED <<config, file, commands, reloads, history>>

\* SIGINT, SIGQUIT or the terminate command, seen at the top of the main loop.
Terminate == /\ AtTop
             /\ phase' = "leaving"
             /\ UNCHANGED <<jobs, config, file, handled, commands, reloads, history>>

\* ~JobManager calls kill(); an exception that leaves a destructor ends the daemon.
Kill == /\ phase = "leaving"
        /\ \E o \in StopEach(jobs, config, DOMAIN jobs) :
              /\ jobs' = o.jobs
              /\ phase' = IF o.threw THEN "aborted" ELSE "drain"
        /\ Meets(Range(jobs))
        /\ UNCHANGED <<config, file, handled, commands, reloads, failed>>

\* Mutant: the destructor waits for RUNNING jobs only.
ExitEarly == /\ phase = "drain"
             /\ \A n \in DOMAIN jobs : jobs[n].state # "RUNNING"
             /\ phase' = "exited"
             /\ UNCHANGED <<jobs, config, file, handled, commands, reloads, history>>

\* Mutant: the destructor waits for jobs that were never started, too.
ExitWhenStopped == /\ phase = "drain"
                   /\ \A n \in DOMAIN jobs : jobs[n].state = "STOPPED"
                   /\ phase' = "exited"
                   /\ UNCHANGED <<jobs, config, file, handled, commands, reloads, history>>

\* The loop of ~JobManager has seen every job STOPPED or EMPTY.
Exit == /\ phase = "drain"
        /\ \A n \in DOMAIN jobs : jobs[n].state \in {"STOPPED", "EMPTY"}
        /\ phase' = "exited"
        /\ UNCHANGED <<jobs, config, file, handled, commands, reloads, history>>

JobStep(n) == \/ StartCommand(n)
              \/ StopCommand(n)
              \/ RestartCommand(n)
              \/ \E i \in DOMAIN jobs[n].procs :
                    \/ \E status \in Zombie : ChildExit(n, i, status)
                    \/ HandleExit(n, i)
                    \/ HandleStartTime(n, i)
                    \/ HandleStopTime(n, i)

Next == \/ Boot
        \/ ListenFails
        \/ \E n \in DOMAIN jobs : JobStep(n)
        \/ \E f \in Versions : ReloadCommand(f) \/ UnreadableFile(f) \/ SignalReload(f)
        \/ Update
        \/ Terminate
        \/ Kill
        \/ Exit

Spec == Init /\ [][Next]_vars

----------------------------------------------------------------------------
(***************************************************************************)
(* Fairness: the daemon goes on (the loop of main, the destructor, the     *)
(* callbacks that are due) and SIGKILL kills.  Clients, signals and the    *)
(* children that were not killed owe nothing.                              *)
(***************************************************************************)
Indices == UNION {UNION {1..cfg[n].numprocs : n \in DOMAIN cfg} : cfg \in Loadable}

Dies(n, i) == /\ jobs[n].procs[i].child = "dying"
              /\ \E status \in Zombie : ChildExit(n, i, status)

CallbackDue(n, i) == /\ n \in DOMAIN jobs
                     /\ i \in DOMAIN jobs[n].procs
                     /\ HandleExit(n, i) \/ HandleStartTime(n, i) \/ HandleStopTime(n, i)

Fairness == /\ WF_vars(Boot)
            /\ WF_vars(Update)
            /\ WF_vars(Kill)
            /\ WF_vars(Exit)
            /\ \A n \in Names, i \in Indices :
                /\ WF_vars(CallbackDue(n, i))
                /\ WF_vars(n \in DOMAIN jobs /\ i \in DOMAIN jobs[n].procs /\ Dies(n, i))

FairSpec == Spec /\ Fairness

----------------------------------------------------------------------------
(***************************************************************************)
(* The jobs are Jobs and the configs are those of the file.                *)
(***************************************************************************)
TypeOK == /\ DOMAIN jobs \subseteq Names
          /\ \A n \in DOMAIN jobs : /\ jobs[n].state \in JobState
                                   /\ jobs[n].procs \in Seq(Process)
                                   /\ jobs[n].config \in AllConfigs
          /\ file \in Versions
          /\ config \in Loaded[file]
          /\ phase \in Phases
          /\ handled \in 0..MaxEvents
          /\ commands \in 0..MaxCommands
          /\ reloads \in 0..MaxReloads
          /\ failed \in BOOLEAN
          /\ overtaken \in BOOLEAN

HasChild(j) == \E i \in DOMAIN j.procs : j.procs[i].child \in Unreaped

\* Process::start of such a job does not throw between fork and the registration.
StartsWhole(j) == ~IntervalRejected(j.config.start_time)

(***************************************************************************)
(* The update() after each batch leaves no mark behind, so no command of a *)
(* later batch meets a job marked REPLACE or REMOVE (Job::start would drop *)
(* the mark, Job::stop would throw).                                       *)
(***************************************************************************)
MarksAreHandled ==
    AtTop => \A n \in DOMAIN jobs : jobs[n].state \notin {"REPLACE", "REMOVE"}

(***************************************************************************)
(* A Job object is destroyed (erased, or replaced by one with another      *)
(* config) only when its children were waited for: the Process objects in  *)
(* it are what the event loop would call.  A job that timerfd_settime made *)
(* throw after the fork stays EMPTY with a child, and is excepted.         *)
(***************************************************************************)
NoChildAbandoned ==
    [][\A n \in DOMAIN jobs :
          StartsWhole(jobs[n]) /\ (n \notin DOMAIN jobs' \/ jobs'[n].config # jobs[n].config)
              => ~HasChild(jobs[n])]_vars

(***************************************************************************)
(* A daemon that leaves ~JobManager leaves no child behind, crashed jobs,  *)
(* reloads and restarts notwithstanding (with the same exception).         *)
(***************************************************************************)
NoOrphansAtExit ==
    phase = "exited" => \A n \in DOMAIN jobs : StartsWhole(jobs[n]) => ~HasChild(jobs[n])

(***************************************************************************)
(* Every name of the file that was read last has a job, at all times: what *)
(* a stop, a death or an update() erases is what the file dropped.  Two    *)
(* cases are excepted.  A reload that throws leaves the rest of the file   *)
(* without jobs; and a reload that meets a REMOVE mark of the same batch   *)
(* on a name that it brings back has that job erased.                      *)
(***************************************************************************)
ConfiguredHaveJobs == ~failed /\ ~overtaken => DOMAIN config \subseteq DOMAIN jobs

(***************************************************************************)
(* A reload leaves the running processes of a job alone when its entry in  *)
(* the new file means what it did in the old one: exit codes in another    *)
(* order, a default spelled out, a broken entry of another job.  Only the  *)
(* retry counters may be reset, by the autostart of a job that is STOPPING.*)
(* This is what the test in JobManager.cpp:144 is for; JobManager.hpp:69   *)
(* says the contrary, "this will stop all jobs and start all jobs with the *)
(* autostart config".                                                      *)
(***************************************************************************)
SameButRestarts(p, q) == p = [q EXCEPT !.restarts = p.restarts]

ReloadSparesUnchanged ==
    [][\A n \in DOMAIN jobs :
          /\ reloads' # reloads
          /\ n \in DOMAIN config
          /\ jobs[n].config = config[n]
          /\ StartsWhole(jobs[n])
          /\ SameJob(Files[file], Files[file'], n)
          => \A i \in DOMAIN jobs[n].procs :
                jobs[n].procs[i].state \in {"STARTING", "RUNNING"}
                    => /\ n \in DOMAIN jobs'
                       /\ i \in DOMAIN jobs'[n].procs
                       /\ SameButRestarts(jobs'[n].procs[i], jobs[n].procs[i])]_vars

----------------------------------------------------------------------------
IsDrifted(n) == n \in DOMAIN jobs /\ Drifted(config, n, jobs[n])

(***************************************************************************)
(* ~JobManager does not throw: when no child crashes, the daemon never     *)
(* holds on to a job that it would stop and that has a process it cannot   *)
(* signal, whatever was started, stopped, restarted and reloaded.  Two     *)
(* cases are excepted: a mark that a start, a stop or kill() itself found  *)
(* before update() acted on it, and a stoptime that the kill timer rejects.*)
(***************************************************************************)
NeverAborts ==
    phase = "aborted" =>
        overtaken \/ \E n \in DOMAIN jobs : IntervalRejected(jobs[n].config.stop_time)

(***************************************************************************)
(* A job that the file dropped or changed is erased or replaced once it    *)
(* has stopped, unless someone starts it again: its stop completes, and    *)
(* neither the mark nor the update gets lost.  JobManager.hpp, on update:  *)
(* "Removes or replaces jobs marked as REMOVED or REPLACED".               *)
(***************************************************************************)
DriftResolves ==
    \A n \in Names :
        (IsDrifted(n) /\ jobs[n].state \in {"STOPPING", "REPLACE", "REMOVE"})
            ~> (~IsDrifted(n) \/ jobs[n].state = "STARTING" \/ phase # "serving")

(***************************************************************************)
(* ~JobManager ends when no job has drifted from the file.                 *)
(***************************************************************************)
CleanTerminateEnds ==
    (phase = "drain" /\ \A n \in Names : ~IsDrifted(n)) ~> phase = "exited"

(***************************************************************************)
(* README.md: "terminate: Terminates the daemon process and all jobs it    *)
(* manages."  A daemon that was told to terminate does.                    *)
(***************************************************************************)
TerminateEnds == phase = "leaving" ~> phase \in {"exited", "aborted"}

(***************************************************************************)
(* JobManager.cpp, in reload: "if job is not found or has changed we will  *)
(* have to stop the old job."  A job does not keep a config that the file  *)
(* changed, as long as the daemon serves.                                  *)
(***************************************************************************)
ReloadTakesEffect ==
    \A n \in Names : IsDrifted(n) ~> (~IsDrifted(n) \/ phase # "serving")
============================================================================

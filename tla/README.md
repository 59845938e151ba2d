# TaskMaster: a TLA+ model of the job control daemon

TaskMaster is a supervisor in the manner of supervisord.  The daemon
`taskmasterd` reads jobs from a YAML file, forks `numprocs` children for each,
restarts them by policy, and obeys the commands that `taskmasterctl` sends over
a UNIX socket.  This directory holds the specification of that system, the TLC
configurations that model-check it and the proofs that TLAPS checks.

## 1. The system

`taskmasterd` is single threaded.  `main` calls `EventManager::handleEvents`,
which takes a batch of events from `epoll_wait` and runs the callback of each;
an exception ends that callback only.  After each batch `main` calls
`JobManager::update`.

| Component | State | Operations | Called by |
|---|---|---|---|
| `Process` (`jobs/Process.cpp`) | `_state`, `_pid`, pidfd `_fd`, `_timer`, `_restarts` | `start` (timer, fork, pidfd, epoll), `stop` (signal, kill timer), `kill`, `onStateChange` (waitpid), `onStartTime` | `Job`, epoll, its timer |
| `Job` (`jobs/Job.cpp`) | `_state`, `_processes`, `_config` | `start`, `stop`, `onExit` (retry policy), `onStop`, `onProcessSurpassedStartTime` | `JobManager`, `Process` |
| `JobManager` (`jobs/JobManager.cpp`) | `_jobs`, `_config` | `start`, `stop`, `restart`, `reload`, `update`, `onStop` (marks), `kill`, destructor | `Server`, `main`, `Job` |
| `Timer` (`core/Timer.cpp`) | timerfd, registered or not | `start`, `onExpire`, destructor | `Process`, epoll |
| `EventManager` (`core/EventManager.cpp`) | epoll fd, callbacks by descriptor | `registerEvent`, `unregisterEvent`, `handleEvents` | everyone |
| main loop, signals (`main.cpp`, `jobs/Signal.cpp`) | `g_state` | run, reload, terminate | signals, `Client` |
| `Server`, `Client` (`ipc/`) | connections, reader and writer of each | accept, read a command, write its response | epoll |
| `ProtoReader`, `ProtoWriter` (`libs/ipc`) | buffer, size, bytes written | framing of messages | `Client`, `taskmasterctl` |
| `taskmasterctl` | socket, `g_exitChecker` | prompt, send, await; a thread watches the socket | the user |
| `JobConfig` (`jobs/JobConfig.cpp`) | options of a job | parse the file, compare | `JobManager` |

What makes it hard: a child may die at any moment, also one that was just told to
stop or to start; a process has a timer that races its death and the commands;
any system call in the middle of a loop over processes may throw; commands
interleave with all that; a reload changes the configuration under jobs that
take time to stop; marks left by one callback are acted on after the batch; a
descriptor closed in a batch may be another's when its event comes up; signals
write `g_state` under main; and the destructor runs an event loop of its own.
`PROJECT.json` lists these hazards at their lines.

What makes each component correct:
* a **process** agrees with its child: alive exactly when it says so, watched,
  with the timer its state needs;
* a **job** never says stopped with a child left, a stop reaches every process,
  wins over the restart policy and completes, retries are bounded;
* the **manager** destroys no job with a child, loses no mark, brings the jobs
  in line with the file, and leaves no orphan when it exits;
* a **reload** touches no job whose entry means what it did before;
* the **event loop** calls exactly the objects that wait, for what happened to them;
* the **main loop** ends when it is told to;
* the **connection** executes each command once at most and pairs each response
  with its command, and neither side waits for ever for one that is gone.

## 2. Modules

```
Process -> Job -> SingleJob (implements Supervision) -> MCSingleJob
   |        |
   |        v
   \-> ConfigFile -> JobManager                      -> MCJobManager

Framing, MainLoop -> Ipc (implements Rpc)             -> MCIpc
EventManager                                          -> MCEventManager

TLAPS:
Job -> JobProofs;  SingleJob, JobProofs -> SingleJobProofs -> SupervisionProofs
                   JobManager, JobProofs, ConfigFileProofs -> JobManagerProofs -> ShutdownProofs
ConfigFile -> ConfigFileProofs
Ipc -> IpcProofs;  EventManager -> EventManagerProofs
```

**Process** and **Job** hold no variables.  Each operator is a method of the class
it is named for: it takes the record of the object and gives the record after
the whole call, callbacks included.  So the two state machines share one
translation of the code.

A process is a record of `state`, the kernel's view of the `child`
(`none`, `alive`, `dying` after SIGKILL, dead with an `expected` or an
`unexpected` code or `signalled`, `reaped`), whether `_fd` is the `pidfd` of this
child, whether it is `watched` by epoll, which `timer` is registered, and
`restarts`.  The constant `Faults` is the set of system calls that may fail.
`Start(p, config, outcome)` and `Stop(p, config, outcome)` give what
`Process::start` and `Process::stop` leave behind when the call named `outcome`
throws; a negative interval makes `timerfd_settime` throw whatever `outcome` says,
an interval of 0 registers a timer that never expires, and a command without a word
throws before anything else (the null path that `std::string` rejects).  `epoll_ctl` with
`EPOLL_CTL_DEL` and `waitpid` on a dead child of our own do not fail.

A job is `state`, the sequence `procs` and its `config`.  An exception leaves a loop
over processes: those before the thrower are done, the thrower is as its method
left it, those after it are untouched (`StopAll`, `RestartProcesses`,
`StartProcesses`).  `JobManager::onStop` appears as the argument `fate`.

**SingleJob**: variables `job` and `commands`.  Actions: `StartCommand`,
`StopCommand`, `RestartCommand` (the three methods of `JobManager` that take a job
name), `ChildExit` (the kernel: a child ends), `HandleExit` (`onStateChange`),
`HandleStartTime` and `HandleStopTime` (`Timer::onExpire`).

**Supervision** is what a job promises to its user: without a command a process
comes into being only in the place of one that has gone and only while the job is
wanted, and a job that is not wanted has told all that is left of it to stop.
`SingleJob` is shown to implement it (`ImplementsSupervision`) with *wanted* being
the states STARTING and RUNNING.

**ConfigFile** is `JobConfig::getJobConfigs`: one operator per parser of the fourteen
options, with its default and its errors, the constructor that fails when one of
them does, and the loop over the names (null names and names already seen skipped,
a job that does not parse dropped, a name that is no text failing the whole file).
yaml-cpp is external: a node is a record of what each conversion of it gives, the
empty set when that conversion throws.  `std::sort` is `Sorted`: the arrangement of the
codes that is in order.  `SameJob` is the reference: when two files
say the same of a job, written without the parser (exit codes as a bag, numbers by
value, defaults spelled out, everything else literally).  The pairs of `env` are a list,
of which the last with a key is kept (`LastPairs`), as `env[key] = value` does.

**JobManager**: variables `jobs`, `config`, `file`, `phase`, `handled`, two counters and two
history variables.
The constant `Files` maps versions of the configuration file to documents, which
`GetJobConfigs` parses.
`Boot` is `Server::Server`, which starts the autostart jobs; `ListenFails` is an
exception of it.  `ReloadCommand`, `SignalReload` and `UnreadableFile` are
`JobManager::reload`, from a client and from SIGHUP.  `Update` ends a batch.
`Terminate`, `Kill`, `Exit` are the way out; an exception in `Kill` is one in a
destructor, `std::terminate` (phase `aborted`).  The loops over the hash maps visit
in any order: `Visits` gives the sets of names they may have reached when one of
them throws.

The history variables are read by no step; the properties name them, so that what they
do not excuse is promised.  `failed`: the last reload that read its file threw, and some
of its loops did not run.  `overtaken`: a start, a stop, a reload or `kill()` met a job
that was marked REPLACE or REMOVE before `update()` acted on the mark, which `Job::start`
overwrites and `Job::stop` does not expect.  `ListsAssumption` says of the files
that the items of a node are a list, which the theorem about the sorted codes needs.

`handled` counts the callbacks of the current batch.  What `epoll_wait` returned
is fixed when the batch starts, so `ChildExit` is a step between batches; a child
that dies during a batch is not noticed in it, and signalling it works as if
it lived.  A timer may fire in the batch that armed it, which is more than the
code allows.  Commands that find no job, and `status`, change nothing and are left out.

**Framing** has `ProtoWriter` and `ProtoReader` as operators on records, over bytes
that know only which message they belong to and where in its frame they stand.

**Ipc** has, for each running `taskmasterctl`, its main thread (`Connect`,
`TypeCommand`, `SendCommand`, `Await`, `AwaitReset`, `Join`, and the ways it is left),
its watching thread (`SeeHangup`, `RaiseOrReturn`, `Raise`, `StopWatching`: the test of
`g_exitChecker` after `epoll_wait` and the `raise` after the test are steps of their own), the daemon's `Client`
(`OnAccept`, `HandleRead`, `ReadEnd`, `HandleWrite`, `WriteFails`) and one byte
stream each way.  The callbacks of the daemon are run by the loop of `MainLoop`: only
in a batch, only for the connections that `epoll_wait` returned.  A `send`
takes and a `recv` gives any number of bytes up to the limits in the code.
What a command does to the jobs is in `JobManager`; here it is a response.
Commands of the wrong arity (`Server::parseCommand`) are the kind `refused`.
`WatchInterrupted` is an `epoll_wait` of the watching thread that EINTR ends: a
signal handler ran in it, or the program was stopped and continued.
The sockets are not closed on exec, so a child that the daemon forks (`Fork`, in any batch
and any reload) holds every connection there is, and the listening socket.  `held` says that some
such child lives, `HeirsEnd` that the last of them ended, which nobody owes.  A connection
that the daemon closed is a hang-up for `taskmasterctl` only when nobody holds it
(`HungUp`), and one can even connect to a daemon that is gone through a child that has its
listening socket.

**Rpc** is the promise: one command under way per client, executed once at most, an
answer only for the last command and only when it was executed.  `Ipc` is shown to
implement it by mapping the places of main to *idle*, *calling* and *left*
(`ImplementsRpc`).

**MainLoop** is `main` of the daemon as a process: `top` (the switch on `g_state`), `gap`
(from there to the wait of `epoll_wait`), `waiting`, `batch`, `reloading`, `gone`.
`SignalHandler` may come at any of them and interrupts only a wait.  Two history
variables record the windows of this loop: `lost`, a TERMINATED that was overwritten
before main saw it (by a SIGHUP, or by the end of a reload), and `slipped`, a signal
in the gap, which the wait that follows does not notice.  `lost` and `slipped` are
not read by any step; the properties name them, so that what they do not excuse
is promised.

**EventManager** has the descriptors: `open`, the `callbacks` by descriptor, the `batch`
that `epoll_wait` returned, and the objects that hold descriptors, the Server, the
Clients, the Processes with their Timers.  The kernel gives the lowest free number.
Each handler is the whole callback: `OnExpire` sets STOPPED, reads, unregisters,
calls back, and stops at the read when the timer has not expired; `ProcessStart`
creates the new timer before the old one is destroyed and overwrites the pidfd.
Why a process is started or stopped is left open, since `Job` says it: a command,
`update` or `reload` makes any number of calls that start, stop or destroy a process
(`Manage`, one call each; `Managed` gives its outcomes), and a process that is STOPPING may be
stopped again, as a stop after a restart does, which signals it and sets its kill timer
anew.  A client is out of the maps while its command is executed: `HandleRead` takes it out,
`EndCommand` registers it for the response.  A process in `NoStartTime` or `NoStopTime` has a
time of 0, and its timer is registered and never expires (`Armed`).
System calls do not fail here except by the state of their descriptor.

Operators whose comment says *Mutant* are not part of the model: each is a
plausible bug, used to confirm that a property can fail.

## 3. Runs

| Run | Instance | Shows |
|---|---|---|
| `job_faults` | 8 configs (1 or 2 processes, 0 to 2 retries, zero and negative times and `numprocs`), every fault, crashes, 3 commands | `TypeOK`, `ChildMatchesState`, `TimersFitStates`, `RestartsBounded` |
| `job_crash` | all policies, 2 processes, crashes, 5 commands, no faults | `StoppedMeansDead`, `LiveChildrenWatched`, `TimerInPlace`, `RetriesAreCounted` |
| `job_clean` | all policies, 2 processes, no crashes, 4 commands, fairness | `StoppingWaits`, `StopReachesAll`, `StopWins`, `RunningRuns`, `ImplementsSupervision`, `StopCompletes`, `ProcessStops` |
| `manager_safety` | 2 names, 3 files (one with two jobs that cannot start), crashes, batches of 3, 2 commands, 2 reloads | `TypeOK`, `MarksAreHandled`, `ConfiguredHaveJobs`, `NoOrphansAtExit`, `NoChildAbandoned` |
| `manager_live` | 2 names, 4 files (a broken entry, a duplicate, another spelling, one that does not load), batches of 1, 2 commands, 1 reload, fairness | `NeverAborts`, `ReloadSparesUnchanged`, `DriftResolves`, `CleanTerminateEnds` |
| `ipc` | 1 client, 3 commands, 2 signals, children that inherit the sockets; a size of 2 bytes, commands of 2, responses of 4, writes and reads of at most 3; fairness | `TypeOK`, `NothingInFlight`, `ImplementsRpc`, `WaitsEnd`, `GoneIsClosed`, `TerminateTakesEffect`, `TerminatedEnds` |
| `events` | 1 client, 2 processes, of which one has times of 0, 2 starts, 2 stops of each child, 1 command of any number of calls, fairness | `TypeOK`, `DescriptorsAreOwned`, `CallbacksMatch`, `EventsAreTrue`, `StopsEnd`, `CommandsAnswered` |
| `ctl_race` | violation | the watching thread kills a `taskmasterctl` whose terminate succeeded |
| `stop_after_crash` | violation | a stop is cut short by a crashed process |
| `reload_autostart` | violation | the old config of an autostart job survives a reload |
| `terminate_after_reload` | violation | the destructor waits for ever on a marked job |
| `lost_mark` | violation | a command before `update()` loses a mark |

The five violations are what the code does where a comment or the README says
otherwise; `findings` in `PROJECT.json` quotes both.  They also explain the shape
of the passing runs: `job_clean` is without crashes because of `stop_after_crash`,
`manager_live` has one callback per batch because of `lost_mark`, and
`CleanTerminateEnds` excludes what `terminate_after_reload` shows.

Three more comments disagree with the code where a run passes, or passes through, what the
code does; they are findings as well:

* `Process.hpp:53-54` promises a forced kill after the timeout.  A stoptime of 0 disarms the
  timer, so there is none: `TimerInPlace` says that the timer is there exactly when the
  time is not 0.
* `Job.hpp:23` says that a RUNNING job runs all its processes.  It may have processes
  that exited and are not restarted, and after a crash ones that are STOPPED.  `RunningRuns`
  is what is left without crashes: some process runs, and none is starting or stopping.
* `JobManager.hpp:68-69` says that a reload stops all jobs.  `ReloadSparesUnchanged` says
  that it leaves alone those whose entries mean the same.

The exceptions that
other properties name are behaviour too, and TLC reaches each of them:

* `RetriesAreCounted`: a child that a signal kills while its job is STARTING is started
  again for free, so a command that crashes at once is started for ever.
* `NeverAborts`, `overtaken`: a restart of a STOPPED job whose entry changed leaves it
  STARTING with nothing started, and the terminate after that throws out of the
  destructor.  So does a job whose stoptime is negative: the timer rejects it after the
  signal was sent.
* `ConfiguredHaveJobs`: `failed`; and `overtaken` by a reload that brings back a name whose
  job is marked REMOVE: it finds the name in `_jobs`, and `update()` erases the job.
* `ReloadSparesUnchanged`: an autostart job that is STOPPING is started again by the
  `start()` at the end of `reload`, which resets its retry counters.
* `WaitsEnd`: once the watch was interrupted, a `taskmasterctl` waiting for a response
  when the daemon goes away spins.  And while a child that inherited the connection
  outlives the daemon, it waits (`Outlived`): neither the end of the stream nor EPOLLHUP comes.
* `StopsEnd`: a stoptime of 0; and stops without end, each of which puts off the kill, which
  `MaxStops` cuts off.
* `NoOrphansAtExit`, `NoChildAbandoned`: a job with a negative starttime, whose `start` throws
  when the child is forked and not yet watched.
* `TerminatedEnds`: `lost` and `slipped`.
* `events`: a timer and something else are ready in one batch; the callback of the
  other destroys the timer, its number goes to a new pidfd, client or timer, and the
  event of the old timer calls the new owner.  `waitpid` then waits for a
  child that is alive, `recv` for a client that has sent nothing (`Blocked`), or
  the read of the new timer fails, which leaves it registered but STOPPED
  (`stray`), and destroying it leaves a callback of a dead object in the map
  (`undefined`, where the model ends).  `EventsAreTrue` says that only an event of a
  timer can go astray like this.

Bounds.  Two processes are enough for a loop over processes to be cut short
before, at and after an element; with one retry every branch of `Job::onExit` is
taken, and 0 and 2 retries are the edges of the comparison with `==`.  Commands are
counted because each adds behaviour: five are a start, a stop, a restart during
it, and two more.  `MaxProcesses` stops failing starts of an EMPTY job from piling
up processes.  Batches of three let a death, a command and a reload meet before
`update()`.  The real `MAX_EVENTS` is 1024.  In `ipc` sizes are chosen so that the size
of a message, the message and the end of it may each come alone or together, and
three commands let what one exchange leaves behind disturb the next.
Connections meet only in `g_state`: what another client does to this one is to
terminate the daemon, and `SignalHandler` does that at every point.  Two signals
are a SIGINT and the SIGHUP that undoes it.  In `events` two starts are a restart of
one process, whose old pidfd is left open, or two processes, of which one
has an event in the batch that the other's callback makes stale; the client competes
with both for descriptors.  Two stops of a child are one and one that comes while it is
STOPPING.

Runs may stop (`CHECK_DEADLOCK FALSE`): a job that is stopped, with no command
left, has no step, and neither has a daemon that exited.

Fairness.  `epoll` is level triggered and the loop goes round for ever, so a
callback that stays due is run; a timer that is armed expires; SIGKILL kills.
A `main` that waits is woken by a connection that is ready; other events need not
come.  A callback that waits in `recv` or `waitpid` is owed nothing.
Both threads of `taskmasterctl` are scheduled.
Weak fairness of each of these, of the steps of `main` and of the destructor is all that is
assumed: clients, signals and children that were not killed may do nothing at all.

## 4. Proofs

All proofs are for every value of the constants that the named assumptions allow:
any sets of configs, files, clients and processes, any sizes and bounds.

| Module | Theorem | States | From |
|---|---|---|---|
| `SingleJobProofs` | `TypeCorrect`, `ChildrenMatchStates`, `TimersAreInTime`, `RetriesAreBounded` | `TypeOK`, `ChildMatchesState`, `TimersFitStates`, `RestartsBounded` | `Inv` |
| | `ForksAreCounted` | `RetriesAreCounted` (action property) | `Inv` |
| | `StoppedJobsAreDead` | `StoppedMeansDead` | `Inv`, `Settled`; nothing fails |
| | `ChildrenAreWatched`, `TimersAreInPlace` | `LiveChildrenWatched`, `TimerInPlace` | `Inv`, `AllTended`; nothing fails |
| `SupervisionProofs` | `StoppingJobsWait`, `StopsReachAll`, `StopsWin`, `RunningJobsRun` | `StoppingWaits`, `StopReachesAll`, `StopWins`, `RunningRuns` | all of these and `Calm`; nothing fails or crashes |
| | `JobsAreSupervised` | `ImplementsSupervision` (refinement) | the same |
| `JobManagerProofs` | `ManagerTypes`, `MarksDoNotLast`, `ExitLeavesNoChild`, `ChildrenAreKept` | `TypeOK`, `MarksAreHandled`, `NoOrphansAtExit`, `NoChildAbandoned` | `ManagerInv` |
| | `NamesHaveJobs` | `ConfiguredHaveJobs` | `ManagerInv`, `NamesCovered` |
| | `ReloadLeavesUnchanged` | `ReloadSparesUnchanged` (action property) | `ManagerInv`, `SameJobSameConfig` |
| `ConfigFileProofs` | `SortedIsStdSort`, `ParserIgnoresSpelling`, `SameJobSameConfig` | what the parser makes of entries that mean the same | exit codes that are lists: `ListsAssumption` in `JobManager` |
| `ShutdownProofs` | `ShutdownDoesNotThrow` | `NeverAborts` | `ManagerInv`, `AllReady`; nothing crashes |
| `EventManagerProofs` | `TypeIsOK`, `MapsMatch`, `EventsTellTheTruth`, `DescriptorsHaveOwners` | `TypeOK`, `CallbacksMatch`, `EventsAreTrue`, `DescriptorsAreOwned` | `EventInv` |
| `IpcProofs` | `IpcTypes`, `PromptIsQuiet` | `TypeOK`, `NothingInFlight` | `IpcInv` |
| | `CallsAreRemote` | `ImplementsRpc` (refinement) | `IpcInv` |

`JobProofs` has no theorem of its own: it has the lemmas about the operators of
`Process` and `Job`, which the proofs about one job and about all of them share.

**One job.**  None of the properties is inductive alone.  `ChildMatchesState` needs to
know which timers are pending, since `onStartTime` sets RUNNING without looking at
the state; the timers need to know that a watched child was not waited for; and both
need that a start is only ever tried on a process that is down.  `Inv` says of the job
that it is typed, that each process is well formed (child, pidfd, watch, timer and
state agree) and that its retry count is within the limit.  Lemmas about `Start`,
`Stop`, `Reaped` and the timers say that each keeps a process well formed; lemmas about
the loops lift that to the sequence; one step per action does the rest.  `Inv` and
what follows from it alone hold with any call failing and any child crashing.

`Settled` ties the state of the job to those of its processes; `AllTended` says that
each child is watched and has its timer; `Calm` that the processes of a job are
where the state of the job puts them and that only a process that was told to stop
died by a signal.  They are invariant under assumptions on the constants, all of
them necessary and all of them met by the runs of the same properties:

* `NothingFails`: `Faults` is empty, and no config has a negative start time or number
  of processes or a command without a word, since those make `start` throw as well.
* for `TimersAreInPlace` no stop time is negative: `Process::stop` then throws at the
  timer with the signal already sent, and the process has no kill timer.
* `NothingCrashes` adds `~Crashes` (`stop_after_crash` shows why) and `numprocs >= 1`
  (a stop of a job without processes waits for ever).

**Supervision.**  *Wanted* is STARTING or RUNNING, *live* the processes whose child
was not waited for, *told* those that are STOPPING.  A command maps to the step of its
name, `HandleExit` to a process that has gone, which may be the last, and the death of
the child and the two timers to a stutter.  What has to be shown is that the loops of
`Job::stop` and `Job::start` reach every process, for which `Calm` is needed, and that
`Job::onExit` forks only in the place of the process that died.

**All jobs.**  `JobManagerProofs` has no assumption beyond the module's own: crashes,
jobs that cannot start, reloads that throw half way and any size of a batch are in.
`ManagerInv` says that every job is well formed, has a config of some file, and is
*quiet*: one whose start does not throw after the fork has no live process when it is
EMPTY, STOPPED, or marked.  That is weaker than `Settled`, which an exception of
`start` breaks, and it is what the tests of `update` and of the destructor rest on.
The loops over the hash maps are handled once for every set of names that they may
have got to.  With these lemmas `reload` is the composition of its four loops.

`NamesCovered` adds to `ConfiguredHaveJobs` that a job marked REMOVE has a name that the
file does not have: that is what makes it safe for `update()` to erase it.  A reload
keeps it because it starts from jobs that carry no mark (or else is `overtaken`), stops
only what drifted, and creates every name that has no job.

**The parser.**  `ParserIgnoresSpelling` says that entries that mean the same give the same
set of configs.  The options that are copied or have defaults are a case each.  The
exit codes are the work: two lists with the same bag of nodes, read item by item and
sorted, give the same list.  The proof carries a reading of one list over to the
other through a bijection of their positions, without induction; the two readings then
have the same bag of numbers, and that is all that `Sorted` looks at.  That this choice is
the result of `std::sort` is `SortedIsStdSort`: any ordered arrangement of the numbers equals
it, since of two that differ at place *i* one would have *i* numbers for *i* - 1 places.
With the mutant that leaves the sort out the reload of another spelling restarts the job.
`SameJobSameConfig` takes that through the loop over the names: other entries, also ones
that do not parse, do not matter.  `ReloadLeavesUnchanged` then has a job whose config
equals the new one, so it is not stopped, created or updated, and only `start()` sees it.

**The shutdown.**  `kill()` throws when `Process::stop` meets a process that is up to the job
and that cannot be signalled.  `AllReady` says that there is none: every job with a
stoptime that is not negative is `Ready`, unless a mark was overtaken.  A job that can
start is `Active`: its children are watched, its state and those of its processes agree
(`Poised`: under STARTING and RUNNING no process is STOPPED; under STOPPING all are
STOPPING or STOPPED), and only a process that was told to stop died by a signal.
A job that cannot start is `Inert`: it stays EMPTY, whatever its failed starts left behind,
so that `Job::stop` does nothing to it; no event will ever come for it.  Each
operation of `Job` keeps a job ready, each loop of `JobManager` keeps all jobs ready; the
assumption `~Crashes` is needed at one place, the death of a child (`ReadyChildExit`),
and `stop_after_crash` shows what happens without it.

**Descriptors.**  `EventInv` says who holds which descriptor and who waits at it, as
two relations on the record that a handler transforms: no two objects hold the same,
everything held is open, the callbacks are those of the objects that wait, and the
events of the batch are true of their objects unless stale; a command is executed between
two events.  Each operation of a
handler (open, close, register, unregister, start and destroy a timer) keeps it, so
that the long handlers are chains of lemmas.  The leak of pidfds is bounded by
counting the closed ones against the starts.

**The connection.**  `IpcInv` says that each connection is in one of three cases: idle;
one command under way; one response under way.  In the last two, what the reader has
of the message and what lies in the socket are together the first part of its frame, without
a gap, and its length is what the writer counts as sent.  Lemmas about such
pieces (append, head, tail, whole frame) make every `send` and `recv` of any number of bytes
keep it; that the reader is complete exactly when the last byte has come, returns
the message that was sent and is new again then follows, and so `Parses` never
fails.  A step of one client is a step of `Rpc` or a stutter, and leaves the others
alone; those of main, of the signals and of the children are stutters.

Only model-checked is all liveness (`StopCompletes`, `ProcessStops`, `DriftResolves`,
`CleanTerminateEnds`, `WaitsEnd`, `GoneIsClosed`, `TerminateTakesEffect`, `TerminatedEnds`,
`StopsEnd`, `CommandsAnswered`): fairness is out of the prover's reach.

So every invariant, every action property and both refinements that a passing run checks
are also theorems.

## 5. Not modelled

* yaml-cpp: `ConfigFile` starts from what its conversions give.
* The status table, logging, and the splitting and completion of a typed line: text
  that no state depends on.  That the signal handler logs, which is not safe in a
  handler, is listed as a hazard; the model takes the handler for its assignment.
* `bind`, `listen`, addresses, and what the child does between fork and execve: each
  has one outcome for the rest of the program, an exception or a way to end.
* Running out of descriptors: `DescriptorsAreOwned` counts the pidfds that are left
  open, one for each start; a call that fails for want of one is a fault of
  `job_faults`, not combined with the descriptors of `EventManager`.
* The composition of all modules in one: `EventManager` leaves open why processes
  start, `JobManager` runs callbacks of events that are true, `Ipc` has opaque commands.

## 6. Plan

The model is complete along the plan, and all its safety properties are proved.  What is
left is out of the prover's reach or of TLC's: liveness for every value of the constants,
and one composition of `JobManager` with the stale events of `EventManager`.

------------------------------ MODULE Process ------------------------------
(***************************************************************************)
(* One Process object of taskmasterd and the child it forks.               *)
(*                                                                         *)
(* The operators are pure: each takes the record of a process and returns  *)
(* the record after the method of Process.cpp it is named for, up to the   *)
(* point where that method calls back into the Job.  Module Job composes   *)
(* them with those callbacks.                                              *)
(***************************************************************************)
EXTENDS Integers, Sequences

CONSTANT Faults  \* the system calls that may fail, a subset of SystemCalls

(***************************************************************************)
(* The calls of Process::start and Process::stop that can throw, in the    *)
(* order Process::start makes them.  "timer_start" stands for the          *)
(* timerfd_settime and the registration in Timer::start, "epoll_add" for   *)
(* the registration of the pidfd.                                          *)
(***************************************************************************)
SystemCalls == {"timerfd_create", "fork", "timer_start", "pidfd_open", "epoll_add"}

ASSUME FaultsAssumption == Faults \subseteq SystemCalls

(***************************************************************************)
(* What a call of a handler meets: nothing fails, or one call does; it     *)
(* throws, so a handler meets one failure at most.                         *)
(***************************************************************************)
Outcomes == {"ok"} \cup Faults

RestartPolicy == {"NEVER", "ALWAYS", "ON_FAILURE"}

(***************************************************************************)
(* The options of a job.  The numbers are plain integers in the code:      *)
(* nothing rejects 0 or a negative one.  The command "" stands for every   *)
(* one that split_shell finds no word in.  An optional path is a set of    *)
(* one or none, the environment a set of pairs.                            *)
(***************************************************************************)
JobConfig == [cmd            : STRING,
              numprocs       : Int,
              umask          : Nat,
              working_dir    : STRING,
              autostart      : BOOLEAN,
              restart_policy : RestartPolicy,
              exit_codes     : Seq(Int),
              start_retries  : Int,
              start_time     : Int,
              stop_signal    : STRING,
              stop_time      : Int,
              out            : SUBSET STRING,
              err            : SUBSET STRING,
              env            : SUBSET (STRING \X STRING)]

ProcessState == {"STOPPED", "STARTING", "RUNNING", "BACKOFF", "STOPPING", "EXITED",
                 "FATAL", "UNKNOWN"}

(***************************************************************************)
(* The child as the kernel sees it: never forked, alive, sent SIGKILL,     *)
(* dead and not waited for (with an exit code the config expects, with     *)
(* another one, or killed by a signal), waited for.                        *)
(***************************************************************************)
Zombie == {"expected", "unexpected", "signalled"}
Unreaped == {"alive", "dying"} \cup Zombie
ChildState == {"none", "reaped"} \cup Unreaped

Process == [state    : ProcessState,
            child    : ChildState,
            pidfd    : BOOLEAN,                    \* _fd is the pidfd of this child
            watched  : BOOLEAN,                    \* onStateChange is registered for it
            timer    : {"none", "start", "kill"},  \* the registered timer, by its callback
            restarts : Nat]

NewProcess == [state |-> "STOPPED", child |-> "none", pidfd |-> FALSE,
               watched |-> FALSE, timer |-> "none", restarts |-> 0]

\* The states of a process that has a child, and of one that can be started again.
LiveStates == {"STARTING", "RUNNING", "STOPPING"}
RestartableStates == {"STOPPED", "EXITED", "BACKOFF"}

----------------------------------------------------------------------------
(***************************************************************************)
(* timerfd_settime rejects a negative interval, and an interval of 0       *)
(* disarms the timer: registered, it never expires.                        *)
(***************************************************************************)
IntervalRejected(interval) == interval < 0
Expires(interval) == interval > 0

\* argv[0] is a null pointer, and making the path of Process::start from it throws.
HasNoArgv(config) == config.cmd = ""

(***************************************************************************)
(* Process::start.  StartResult is the call that throws, or "ok".          *)
(***************************************************************************)
StartResult(config, outcome) ==
    IF HasNoArgv(config) THEN "argv"
    ELSE IF outcome \notin {"timerfd_create", "fork"} /\ IntervalRejected(config.start_time)
    THEN "timer_start"
    ELSE outcome

\* After fork() in the parent: a new child, and no pidfd for it yet.
Forked(p) == [p EXCEPT !.child = "alive", !.state = "STARTING", !.pidfd = FALSE]

\* Mutant: the process is STARTING before fork() is known to have worked.
StartUnchecked(p, config, outcome) ==
    IF StartResult(config, outcome) = "fork"
    THEN [p EXCEPT !.timer = "none", !.child = "none", !.state = "STARTING"]
    ELSE IF StartResult(config, outcome) = "ok"
         THEN [Forked(p) EXCEPT !.timer = "start", !.pidfd = TRUE, !.watched = TRUE]
         ELSE p

\* Mutant: only the first child of a process is registered with the event loop.
StartRegistersOnce(p, config, outcome) ==
    [Forked(p) EXCEPT !.timer = "start", !.pidfd = TRUE, !.watched = ~p.pidfd]

Start(p, config, outcome) ==
    LET result == StartResult(config, outcome)
    IN  CASE result \in {"argv", "timerfd_create"} -> p
          [] result = "fork"           -> [p EXCEPT !.timer = "none", !.child = "none"]
          [] result = "timer_start"    -> [Forked(p) EXCEPT !.timer = "none"]
          [] result = "pidfd_open"     -> [Forked(p) EXCEPT !.timer = "start"]
          [] result = "epoll_add"      -> [Forked(p) EXCEPT !.timer = "start", !.pidfd = TRUE]
          [] OTHER                     -> [Forked(p) EXCEPT !.timer = "start", !.pidfd = TRUE,
                                                            !.watched = TRUE]

(***************************************************************************)
(* pidfd_send_signal succeeds on a child that was not waited for, dead or  *)
(* alive, and fails with ESRCH on a reaped one.                            *)
(***************************************************************************)
CanSignal(p) == p.pidfd /\ p.child \in Unreaped

\* Mutant: Process::stop forgets that a process may have EXITED.
HasBackedOff(p) == p.state = "BACKOFF"

(***************************************************************************)
(* Process::stop.  A process in BACKOFF or EXITED has nothing to signal:   *)
(* it becomes STOPPED and tells its job.  Otherwise StopResult is the call *)
(* that throws, or "ok".  When the kill timer cannot be created the start  *)
(* timer is still there, as is the signal that was sent.                   *)
(***************************************************************************)
HasExited(p) == p.state \in {"BACKOFF", "EXITED"}

StopResult(p, config, outcome) ==
    CASE HasExited(p) -> "ok"
      [] ~HasExited(p) /\ ~CanSignal(p) -> "send_signal"
      [] ~HasExited(p) /\ CanSignal(p) ->
            IF outcome = "timerfd_create" THEN outcome
            ELSE IF outcome = "timer_start" \/ IntervalRejected(config.stop_time)
                 THEN "timer_start"
                 ELSE "ok"

\* Mutant: the start timer is not replaced by a kill timer.
StopKeepsTimer(p, config, outcome) ==
    CASE HasExited(p) -> [p EXCEPT !.state = "STOPPED"]
      [] ~HasExited(p) /\ ~CanSignal(p) -> p
      [] ~HasExited(p) /\ CanSignal(p) -> [p EXCEPT !.state = "STOPPING"]

Stop(p, config, outcome) ==
    LET result == StopResult(p, config, outcome)
    IN  CASE HasExited(p) -> [p EXCEPT !.state = "STOPPED"]
          [] ~HasExited(p) /\ result = "send_signal"    -> p
          [] ~HasExited(p) /\ result = "timerfd_create" -> [p EXCEPT !.state = "STOPPING"]
          [] ~HasExited(p) /\ result = "timer_start" ->
                [p EXCEPT !.state = "STOPPING", !.timer = "none"]
          [] ~HasExited(p) /\ result = "ok" ->
                [p EXCEPT !.state = "STOPPING", !.timer = "kill"]

\* Process::onStartTime: the state is not looked at.
OnStartTime(p) == [p EXCEPT !.timer = "none", !.state = "RUNNING"]

\* Mutant: the kill timer only warns.
WarnOnKillTime(p) == [p EXCEPT !.timer = "none"]

(***************************************************************************)
(* The callback of the kill timer, with Process::kill: SIGKILL for a       *)
(* process that is still STOPPING.                                         *)
(***************************************************************************)
OnKillTime(p) ==
    [p EXCEPT !.timer = "none",
              !.child = IF p.state = "STOPPING" /\ @ = "alive" THEN "dying" ELSE @]

\* Mutant: the timer outlives the child.
ReapedWithTimer(p) == [p EXCEPT !.child = "reaped", !.watched = FALSE]

(***************************************************************************)
(* The first half of Process::onStateChange: waitpid, the timer destroyed, *)
(* the pidfd unregistered (and left open).                                 *)
(***************************************************************************)
Reaped(p) == [p EXCEPT !.child = "reaped", !.timer = "none", !.watched = FALSE]

(***************************************************************************)
(* Process::onExit and Process::onForcedExit: the state a reaped process   *)
(* takes.  A death by signal is always STOPPED.                            *)
(***************************************************************************)
StateAfterDeath(p) ==
    CASE p.child = "signalled" \/ p.state = "STOPPING"  -> "STOPPED"
      [] p.child # "signalled" /\ p.state = "STARTING" -> "BACKOFF"
      [] p.child # "signalled" /\ p.state = "RUNNING"  -> "EXITED"
      [] OTHER -> p.state
=============================================================================

---------------------------- MODULE MCSingleJob ----------------------------
(***************************************************************************)
(* Small instances of SingleJob for TLC.                                   *)
(***************************************************************************)
EXTENDS SingleJob

Config(numprocs, policy, retries, startTime, stopTime) ==
    [cmd |-> "a", numprocs |-> numprocs, umask |-> 18, working_dir |-> ".",
     autostart |-> TRUE, restart_policy |-> policy, exit_codes |-> <<0>>,
     start_retries |-> retries, start_time |-> startTime,
     stop_signal |-> "TERM", stop_time |-> stopTime, out |-> {}, err |-> {}, env |-> {}]

\* Every policy, two processes, one retry.
TwoProcesses == {Config(2, policy, 1, 1, 1) : policy \in RestartPolicy}

\* No retry at all, and two of them for a single process.
RetryEdges == {Config(1, "ALWAYS", 0, 1, 1), Config(1, "ON_FAILURE", 2, 1, 1)}

\* Options the parser lets through: 0 and negative times, no process, fewer than none,
\* a command without a word.
OddOptions == {Config(1, "ALWAYS", 1, 0, 0), Config(2, "ALWAYS", 1, -1, 1),
               Config(1, "NEVER", 1, 1, -1), Config(0, "ALWAYS", 1, 1, 1),
               Config(-1, "ALWAYS", 1, 1, 1), [Config(2, "ALWAYS", 1, 1, 1) EXCEPT !.cmd = ""]}

\* One policy is enough for the stop of a crashed job.
TwoNeverRestarted == {Config(2, "NEVER", 0, 1, 1)}

FaultConfigs == {Config(2, "ALWAYS", 1, 1, 1)} \cup RetryEdges \cup OddOptions
CrashConfigs == TwoProcesses \cup RetryEdges
                     \cup {Config(1, "ALWAYS", 1, 0, 0), Config(1, "NEVER", 1, 1, 0)}
CleanConfigs == TwoProcesses \cup RetryEdges
============================================================================

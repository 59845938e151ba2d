------------------------- MODULE SupervisionProofs -------------------------
(***************************************************************************)
(* Proofs about SingleJob when neither a system call fails nor a child     *)
(* crashes: a stop reaches every process, nothing undoes it, and the job   *)
(* implements Supervision.                                                 *)
(***************************************************************************)
EXTENDS SingleJobProofs

USE DEF LiveStates, RestartableStates, Unreaped, Zombie

(***************************************************************************)
(* Job::stop of a job that is STARTING or RUNNING throws when it meets a   *)
(* process that is STOPPED.  A crash makes one (Job::onStop only logs), so *)
(* this is what the absence of crashes is needed for.  Without a process   *)
(* (numprocs 0) a stop would wait for ever.                                *)
(***************************************************************************)
NothingCrashes == /\ NothingFails
                  /\ ~Crashes
                  /\ \A c \in Configs : c.numprocs >= 1 /\ c.stop_time >= 0

Uncrashed(p) == p.child \in {"dying", "signalled"} => p.state = "STOPPING"

Orderly(j) ==
    /\ j.state \in {"EMPTY", "STARTING", "RUNNING", "STOPPING", "STOPPED"}
    /\ j.state = "EMPTY" <=> DOMAIN j.procs = {}
    /\ j.state = "STARTING" =>
          AllProcessesInStates(j.procs, LiveStates \cup {"BACKOFF", "EXITED"})
    /\ j.state = "RUNNING" =>
          /\ AllProcessesInStates(j.procs, {"RUNNING", "EXITED"})
          /\ ~AllProcessesInStates(j.procs, {"EXITED"})
    /\ j.state = "STOPPED" => AllProcessesInStates(j.procs, RestartableStates)
    /\ j.state = "STOPPING" =>
          /\ AllProcessesInStates(j.procs, {"STOPPING", "STOPPED"})
          /\ ~AllProcessesInStates(j.procs, {"STOPPED"})

Calm(j) == Orderly(j) /\ \A i \in DOMAIN j.procs : Uncrashed(j.procs[i])

----------------------------------------------------------------------------
(***************************************************************************)
(* What the commands do to a calm job.                                     *)
(***************************************************************************)
LEMMA CalmStop ==
    ASSUME NEW j, JobOK(j), AllTended(j), Calm(j), j.config.stop_time >= 0
    PROVE  LET k == JobStop(j, NoFailure, "keep")
           IN  /\ ~JobStopThrows(j, NoFailure)
               /\ Calm(k)
               /\ k.state \in {"EMPTY", "STOPPED", "STOPPING"}
               /\ DOMAIN k.procs = DOMAIN j.procs
               /\ \A i \in DOMAIN j.procs :
                     /\ k.procs[i].child = j.procs[i].child
                     /\ j.procs[i].state \in LiveStates => k.procs[i].state = "STOPPING"
PROOF
    <1> DEFINE k == JobStop(j, NoFailure, "keep")
    <1>0. "keep" \in Fates /\ \A s : Marked(s, "keep") = s
        BY DEF Fates, Marked
    <1>1. \A i \in DOMAIN j.procs : Sound(j.procs[i])
        BY DEF JobOK, ProcOK
    <1>2. CASE IgnoresStop(j)
        <2>1. ~JobStopThrows(j, NoFailure) /\ k.procs = j.procs /\ k.state = j.state
            BY <1>0, <1>2, IgnoredStopIs
        <2>2. \A i \in DOMAIN j.procs : j.procs[i].state \in LiveStates => j.procs[i].state = "STOPPING"
            BY <1>2 DEF Calm, Orderly, IgnoresStop, AllProcessesInStates
        <2> HIDE DEF k
        <2>3. Calm(k)
            BY <2>1 DEF Calm, Orderly
        <2> QED
            BY <1>2, <2>1, <2>2, <2>3 DEF IgnoresStop, k
    <1>3. CASE ~IgnoresStop(j)
        <2>1. \A i \in DOMAIN j.procs : j.procs[i].state \in LiveStates \cup {"BACKOFF", "EXITED"}
            BY <1>3 DEF Calm, Orderly, IgnoresStop, AllProcessesInStates
        <2>2. \A i \in DOMAIN j.procs : Stoppable(j.procs[i])
            BY <1>1, <2>1
               DEF AllTended, Tended, Stoppable, HasExited, CanSignal, Sound, ChildFits
        <2>3. /\ ~JobStopThrows(j, NoFailure)
              /\ DOMAIN k.procs = DOMAIN j.procs
              /\ \A i \in DOMAIN j.procs : k.procs[i] = Halted(j.procs[i])
              /\ \/ k.state = "STOPPED" /\ AllProcessesInStates(k.procs, {"STOPPED"})
                 \/ /\ k.state = "STOPPING"
                    /\ \/ ~AllProcessesInStates(k.procs, {"STOPPED"})
                       \/ \A i \in DOMAIN j.procs : ~HasExited(j.procs[i])
            BY <1>0, <1>3, <2>2, JobStopIs
        <2>4. ASSUME NEW i \in DOMAIN j.procs
              PROVE  /\ k.procs[i].child = j.procs[i].child
                     /\ j.procs[i].state \in LiveStates => k.procs[i].state = "STOPPING"
                     /\ ~HasExited(j.procs[i]) => k.procs[i].state = "STOPPING"
                     /\ k.procs[i].state \in {"STOPPING", "STOPPED"}
                     /\ Uncrashed(k.procs[i])
            <3> DEFINE p == j.procs[i]
            <3>1. Sound(p) /\ Uncrashed(p) /\ k.procs[i] = Halted(p)
                BY <1>1, <2>3 DEF Calm
            <3> HIDE DEF p, k
            <3> QED
                BY <3>1 DEF Halted, HasExited, Sound, ChildFits, Process, Uncrashed, p
        <2>5. DOMAIN j.procs # {}
            BY <1>3 DEF Calm, Orderly, IgnoresStop
        <2> HIDE DEF k
        <2>6. Orderly(k)
            BY <2>3, <2>4, <2>5 DEF Orderly, AllProcessesInStates
        <2> QED
            BY <2>3, <2>4, <2>6 DEF Calm, k
    <1> QED
        BY <1>2, <1>3

LEMMA CalmStart ==
    ASSUME NEW j, JobOK(j), Calm(j), Startable(j.config), j.config.numprocs >= 1
    PROVE  LET k == JobStart(j, NoFailure)
           IN  /\ Calm(k)
               /\ k.state = "STARTING"
               /\ DOMAIN j.procs \subseteq DOMAIN k.procs
               /\ \A i \in DOMAIN j.procs :
                     j.procs[i].state \in LiveStates => k.procs[i].state = j.procs[i].state
               /\ \A i \in DOMAIN k.procs :
                     k.procs[i].state = "STOPPING" =>
                        i \in DOMAIN j.procs /\ j.procs[i].state = "STOPPING"
PROOF
    <1> DEFINE k == JobStart(j, NoFailure)
    <1>0. j.config.numprocs \in Int
        BY DEF JobOK, Job, JobConfig
    <1>1. \A i \in DOMAIN j.procs : Sound(j.procs[i]) /\ Uncrashed(j.procs[i])
        BY DEF JobOK, ProcOK, Calm
    <1>2. j.state = "EMPTY" => DOMAIN j.procs = {}
        BY DEF Calm, Orderly
    <1>3. /\ k.state = "STARTING"
          /\ j.state \in {"STOPPING", "STOPPED"} =>
                /\ DOMAIN k.procs = DOMAIN j.procs
                /\ \A i \in DOMAIN j.procs : k.procs[i] = RestartedOrNot(j.procs[i])
          /\ j.state = "EMPTY" =>
                /\ DOMAIN k.procs = 1..j.config.numprocs
                /\ \A i \in DOMAIN k.procs : k.procs[i] = Started(NewProcess)
          /\ j.state \notin {"STOPPING", "STOPPED", "EMPTY"} => k.procs = j.procs
        BY <1>2, JobStartIs
    <1> HIDE DEF k
    <1>4. CASE j.state \in {"STOPPING", "STOPPED"}
        <2>1. ASSUME NEW i \in DOMAIN j.procs
              PROVE  /\ j.procs[i].state \in LiveStates => k.procs[i].state = j.procs[i].state
                     /\ k.procs[i].state = "STOPPING" => j.procs[i].state = "STOPPING"
                     /\ k.procs[i].state \in LiveStates
                     /\ Uncrashed(k.procs[i])
            <3> DEFINE p == j.procs[i]
            <3>1. Sound(p) /\ Uncrashed(p) /\ k.procs[i] = RestartedOrNot(p)
                BY <1>1, <1>3, <1>4
            <3>2. p.state \in {"STOPPING"} \cup RestartableStates
                BY <1>4 DEF Calm, Orderly, AllProcessesInStates
            <3> HIDE DEF p
            <3>3. CASE IsDown(p)
                <4>1. k.procs[i] = Started([p EXCEPT !.restarts = 0])
                    BY <3>1, <3>3 DEF RestartedOrNot
                <4>2. k.procs[i].state = "STARTING" /\ k.procs[i].child = "alive"
                    BY <3>1, <4>1 DEF Started, Forked, Sound, Process
                <4> QED
                    BY <3>3, <4>2 DEF IsDown, Uncrashed, p
            <3>4. CASE ~IsDown(p)
                <4>1. k.procs[i] = [p EXCEPT !.restarts = 0]
                    BY <3>1, <3>4 DEF RestartedOrNot
                <4>2. k.procs[i].state = p.state /\ k.procs[i].child = p.child
                    BY <3>1, <4>1 DEF Sound, Process
                <4> QED
                    BY <3>1, <3>2, <3>4, <4>2 DEF IsDown, Uncrashed, p
            <3> QED
                BY <3>3, <3>4
        <2>2. DOMAIN k.procs = DOMAIN j.procs /\ DOMAIN j.procs # {}
            BY <1>3, <1>4 DEF Calm, Orderly
        <2>3. Orderly(k)
            BY <1>3, <2>1, <2>2 DEF Orderly, AllProcessesInStates
        <2> QED
            BY <1>3, <2>1, <2>2, <2>3 DEF Calm, k
    <1>5. CASE j.state = "EMPTY"
        <2>1. /\ Started(NewProcess).state = "STARTING"
              /\ Started(NewProcess).child = "alive"
            BY DEF Started, Forked, NewProcess
        <2>2. 1 \in DOMAIN k.procs /\ \A i \in DOMAIN k.procs : k.procs[i] = Started(NewProcess)
            BY <1>0, <1>3, <1>5
        <2>3. Orderly(k)
            BY <1>3, <2>1, <2>2 DEF Orderly, AllProcessesInStates
        <2> QED
            BY <1>2, <1>3, <1>5, <2>1, <2>2, <2>3 DEF Calm, Uncrashed, k
    <1>6. CASE j.state \notin {"STOPPING", "STOPPED", "EMPTY"}
        <2>1. Orderly(k)
            BY <1>3, <1>6 DEF Calm, Orderly, AllProcessesInStates
        <2> QED
            BY <1>3, <1>6, <2>1 DEF Calm, k
    <1> QED
        BY <1>4, <1>5, <1>6

(***************************************************************************)
(* The death of a child of a calm job: it is started again only for a job  *)
(* that is wanted, and the job is STOPPED only when nothing is left.       *)
(***************************************************************************)
LEMMA DeadIs ==
    ASSUME NEW p, Sound(p), p.child \in Zombie
    PROVE  /\ Dead(p).child = "reaped"
           /\ Dead(p).state = IF WasStopped(p) THEN "STOPPED"
                              ELSE IF p.state = "STARTING" THEN "BACKOFF" ELSE "EXITED"
PROOF
    <1>1. p.state \in LiveStates
        BY DEF Sound, ChildFits
    <1>2. Dead(p).state = StateAfterDeath(p) /\ Dead(p).child = "reaped"
        BY DEF Dead, Reaped, Sound, Process
    <1> QED
        BY <1>1, <1>2 DEF StateAfterDeath, WasStopped

LEMMA CalmDeath ==
    ASSUME NEW j, JobOK(j), Calm(j), Startable(j.config), NEW i \in DOMAIN j.procs,
           j.procs[i].child \in Zombie
    PROVE  LET k == OnStateChange(j, i, "ok", "keep")
           IN  /\ Calm(k)
               /\ DOMAIN k.procs = DOMAIN j.procs
               /\ \A h \in DOMAIN j.procs \ {i} : k.procs[h] = j.procs[h]
               /\ k.procs[i].state # "STOPPING"
               /\ \/ /\ k.procs[i].state \notin LiveStates
                     /\ k.procs[i].child = "reaped"
                     /\ \/ k.state = j.state
                        \/ /\ k.state = "STOPPED"
                           /\ AllProcessesInStates(k.procs, RestartableStates)
                  \/ /\ k.procs[i].state = "STARTING"
                     /\ k.state = "STARTING"
                     /\ j.state \in {"STARTING", "RUNNING"}
PROOF
    <1> DEFINE k == OnStateChange(j, i, "ok", "keep")
               p == j.procs[i]
               more == [Dead(p) EXCEPT !.restarts = @ + 1]
    <1>0. "keep" \in Fates /\ \A s : Marked(s, "keep") = s
        BY DEF Fates, Marked
    <1>1. /\ Sound(p) /\ ProcOK(p, j.config) /\ Uncrashed(p) /\ j.config \in JobConfig
          /\ p.state \in LiveStates
        BY DEF JobOK, ProcOK, Calm, Job, Sound, ChildFits
    <1>2. /\ Sound(Dead(p)) /\ ProcOK(Dead(p), j.config)
          /\ Dead(p).child = "reaped"
          /\ Dead(p).state = IF WasStopped(p) THEN "STOPPED"
                             ELSE IF p.state = "STARTING" THEN "BACKOFF" ELSE "EXITED"
        BY <1>1, DeadSound, DeadIs, KeepsRestarts
    <1>3. /\ DOMAIN k.procs = DOMAIN j.procs
          /\ \A h \in DOMAIN j.procs \ {i} : k.procs[h] = j.procs[h]
          /\ IF WasStopped(p) THEN AfterStop(j, i, k, "ok", "keep") ELSE AfterExit(j, i, k, "ok")
        BY <1>0, OnStateChangeIs
    <1>4. \A q \in Process : Started(q).state = "STARTING" /\ Started(q).child = "alive"
        BY DEF Started, Forked, Process
    <1>5. Dead(p) \in Process /\ more \in Process
        BY <1>2 DEF Sound, Process
    <1>6. /\ AddRestart(Dead(p), j.config).child = "reaped"
          /\ AddRestart(Dead(p), j.config).state = Dead(p).state
        BY <1>1, <1>2, AddRestartOK
    <1>7. WasStopped(p) <=> p.state = "STOPPING"
        BY <1>1 DEF WasStopped, Uncrashed
    <1>8. j.state \notin {"EMPTY", "STOPPED"}
        BY <1>1 DEF Calm, Orderly, AllProcessesInStates
    <1> HIDE DEF k, more
    <1>9. CASE WasStopped(p)
        <2>1. j.state \in {"STARTING", "STOPPING"}
            BY <1>7, <1>8, <1>9 DEF Calm, Orderly, AllProcessesInStates
        <2>2. CASE j.state = "STARTING"
            <3>1. k.state = "STARTING" /\ k.procs[i] = Started(Dead(p))
                BY <1>1, <1>3, <1>9, <2>2, StartIs DEF AfterStop
            <3>2. k.procs[i].state = "STARTING" /\ Uncrashed(k.procs[i])
                BY <1>4, <1>5, <3>1 DEF Uncrashed
            <3>3. Calm(k)
                BY <1>3, <2>2, <3>1, <3>2 DEF Calm, Orderly, AllProcessesInStates
            <3> QED
                BY <1>3, <2>2, <3>1, <3>2, <3>3 DEF k
        <2>3. CASE j.state = "STOPPING"
            <3>1. /\ k.procs[i] = Dead(p)
                  /\ k.state = IF AllProcessesInStates(k.procs, {"STOPPED"})
                               THEN "STOPPED" ELSE "STOPPING"
                BY <1>0, <1>3, <1>9, <2>3 DEF AfterStop
            <3>2. Uncrashed(k.procs[i]) /\ k.procs[i].state = "STOPPED"
                BY <1>2, <1>9, <3>1 DEF Uncrashed
            <3>3. \A h \in DOMAIN j.procs : k.procs[h].state \in {"STOPPING", "STOPPED"}
                BY <1>3, <2>3, <3>2 DEF Calm, Orderly, AllProcessesInStates
            <3>4. Calm(k)
                BY <1>3, <2>3, <3>1, <3>2, <3>3 DEF Calm, Orderly, AllProcessesInStates
            <3> QED
                BY <1>2, <1>3, <2>3, <3>1, <3>2, <3>4 DEF AllProcessesInStates, k
        <2> QED
            BY <2>1, <2>2, <2>3
    <1>10. CASE ~WasStopped(p)
        <2>1. j.state \in {"STARTING", "RUNNING"} /\ (j.state = "RUNNING" => p.state = "RUNNING")
            BY <1>1, <1>7, <1>8, <1>10 DEF Calm, Orderly, AllProcessesInStates
        <2>2. CASE k.state = "STARTING" /\ k.procs[i] = Start(more, j.config, "ok")
            <3>1. k.procs[i] = Started(more)
                BY <1>1, <2>2, StartIs
            <3>2. k.procs[i].state = "STARTING" /\ Uncrashed(k.procs[i])
                BY <1>4, <1>5, <3>1 DEF Uncrashed
            <3>3. Calm(k)
                BY <1>3, <2>1, <2>2, <3>2 DEF Calm, Orderly, AllProcessesInStates
            <3> QED
                BY <1>3, <2>1, <2>2, <3>2, <3>3 DEF k
        <2>3. CASE /\ k.procs[i] = AddRestart(Dead(p), j.config)
                   /\ k.state = IF AllProcessesInStates(k.procs, RestartableStates)
                                THEN "STOPPED" ELSE j.state
            <3>1. /\ k.procs[i].child = "reaped"
                  /\ Uncrashed(k.procs[i])
                  /\ k.procs[i].state = IF p.state = "STARTING" THEN "BACKOFF" ELSE "EXITED"
                BY <1>2, <1>6, <1>10, <2>3 DEF Uncrashed
            <3>2. Calm(k)
                BY <1>3, <2>1, <2>3, <3>1 DEF Calm, Orderly, AllProcessesInStates
            <3> QED
                BY <1>3, <2>3, <3>1, <3>2 DEF k
        <2> QED
            BY <1>3, <1>10, <2>2, <2>3 DEF AfterExit, more
    <1> QED
        BY <1>9, <1>10

(***************************************************************************)
(* The timers of a calm job, and the end of a child.                       *)
(***************************************************************************)
LEMMA CalmStartTime ==
    ASSUME NEW j, JobOK(j), AllTended(j), Calm(j), NEW i \in DOMAIN j.procs,
           j.procs[i].timer = "start"
    PROVE  LET k == OnProcessSurpassedStartTime(j, i)
           IN  /\ Calm(k)
               /\ j.state = "STARTING"
               /\ k.state \in {"STARTING", "RUNNING"}
               /\ DOMAIN k.procs = DOMAIN j.procs
               /\ \A h \in DOMAIN j.procs \ {i} : k.procs[h] = j.procs[h]
               /\ k.procs[i].child = j.procs[i].child
               /\ j.procs[i].state = "STARTING" /\ k.procs[i].state = "RUNNING"
PROOF
    <1> DEFINE k == OnProcessSurpassedStartTime(j, i)
               p == j.procs[i]
               procs == [j.procs EXCEPT ![i] = OnStartTime(@)]
    <1>1. Sound(p) /\ p.state = "STARTING" /\ Uncrashed(p)
        BY DEF JobOK, ProcOK, AllTended, Tended, Calm
    <1>2. j.state = "STARTING"
        BY <1>1 DEF Calm, Orderly, AllProcessesInStates
    <1>3. /\ k.procs = procs
          /\ k.state = IF AllProcessesInStates(procs, {"RUNNING"}) THEN "RUNNING" ELSE j.state
        BY DEF OnProcessSurpassedStartTime, JobOK, Job
    <1>4. OnStartTime(p).state = "RUNNING" /\ OnStartTime(p).child = p.child
        BY <1>1 DEF OnStartTime, Sound, Process
    <1>5. /\ DOMAIN procs = DOMAIN j.procs
          /\ \A h \in DOMAIN j.procs \ {i} : procs[h] = j.procs[h]
          /\ procs[i] = OnStartTime(p)
        OBVIOUS
    <1>6. Uncrashed(procs[i])
        BY <1>1, <1>4, <1>5 DEF Uncrashed
    <1> HIDE DEF k, procs
    <1>7. Calm(k)
        BY <1>2, <1>3, <1>4, <1>5, <1>6 DEF Calm, Orderly, AllProcessesInStates
    <1> QED
        BY <1>1, <1>2, <1>3, <1>4, <1>5, <1>7 DEF k

LEMMA CalmOneProcess ==
    ASSUME NEW j, JobOK(j), Calm(j), NEW i \in DOMAIN j.procs, NEW q,
           ProcOK(q, j.config), Uncrashed(q), q.state = j.procs[i].state
    PROVE  Calm([j EXCEPT !.procs[i] = q])
PROOF
    <1> DEFINE k == [j EXCEPT !.procs[i] = q]
    <1>1. /\ k.state = j.state
          /\ DOMAIN k.procs = DOMAIN j.procs
          /\ \A h \in DOMAIN j.procs : k.procs[h] = IF h = i THEN q ELSE j.procs[h]
        BY ReplaceOne
    <1>2. \A h \in DOMAIN j.procs : k.procs[h].state = j.procs[h].state /\ Uncrashed(k.procs[h])
        BY <1>1 DEF Calm
    <1> HIDE DEF k
    <1>3. Calm(k)
        BY <1>1, <1>2 DEF Calm, Orderly, AllProcessesInStates
    <1> QED
        BY <1>3 DEF k

LEMMA CalmRestart ==
    ASSUME NEW j, JobOK(j), AllTended(j), Calm(j), Startable(j.config), j.config.numprocs >= 1,
           j.config.stop_time >= 0
    PROVE  LET k == JobRestart(j, NoFailure, NoFailure, "keep")
           IN  /\ Calm(k)
               /\ k.state = "STARTING"
               /\ DOMAIN j.procs \subseteq DOMAIN k.procs
               /\ \A i \in DOMAIN j.procs :
                     j.procs[i].state \in LiveStates => k.procs[i].state = "STOPPING"
               /\ \A i \in DOMAIN k.procs :
                     k.procs[i].state = "STOPPING" =>
                        i \in DOMAIN j.procs /\ j.procs[i].state \in LiveStates
PROOF
    <1> DEFINE m == JobStop(j, NoFailure, "keep")
               k == JobRestart(j, NoFailure, NoFailure, "keep")
    <1>0. "keep" \in Fates
        BY DEF Fates
    <1>1. /\ ~JobStopThrows(j, NoFailure)
          /\ Calm(m)
          /\ DOMAIN m.procs = DOMAIN j.procs
          /\ \A i \in DOMAIN j.procs :
                /\ m.procs[i].child = j.procs[i].child
                /\ j.procs[i].state \in LiveStates => m.procs[i].state = "STOPPING"
        BY CalmStop
    <1>2. JobOK(m) /\ m.config = j.config
        BY <1>0, JobStopOK
    <1>3. k = JobStart(m, NoFailure)
        BY <1>1 DEF JobRestart
    <1>4. \A i \in DOMAIN j.procs : m.procs[i].state = "STOPPING" => j.procs[i].state \in LiveStates
        BY <1>1, <1>2 DEF JobOK, ProcOK, Sound, ChildFits
    <1> HIDE DEF m, k
    <1>5. /\ Calm(k)
          /\ k.state = "STARTING"
          /\ DOMAIN m.procs \subseteq DOMAIN k.procs
          /\ \A i \in DOMAIN m.procs :
                m.procs[i].state \in LiveStates => k.procs[i].state = m.procs[i].state
          /\ \A i \in DOMAIN k.procs :
                k.procs[i].state = "STOPPING" =>
                   i \in DOMAIN m.procs /\ m.procs[i].state = "STOPPING"
        BY <1>1, <1>2, <1>3, CalmStart
    <1> QED
        BY <1>1, <1>4, <1>5 DEF k

LEMMA CalmKillTime ==
    ASSUME NEW j, JobOK(j), Calm(j), NEW i \in DOMAIN j.procs, j.procs[i].timer = "kill"
    PROVE  LET k == OnStopTime(j, i)
           IN  /\ Calm(k)
               /\ k.state = j.state
               /\ DOMAIN k.procs = DOMAIN j.procs
               /\ \A h \in DOMAIN j.procs \ {i} : k.procs[h] = j.procs[h]
               /\ k.procs[i].state = j.procs[i].state
               /\ k.procs[i].child = "alive" => j.procs[i].child = "alive"
PROOF
    <1> DEFINE p == j.procs[i]
               q == OnKillTime(p)
    <1>1. Sound(p) /\ Uncrashed(p)
        BY DEF JobOK, ProcOK, Calm
    <1>2. ProcOK(q, j.config)
        BY OnKillTimeSound, KeepsRestarts DEF JobOK, ProcOK
    <1>3. q.state = p.state /\ Uncrashed(q) /\ (q.child = "alive" => p.child = "alive")
        BY <1>1 DEF Sound, TimerFits, Process, OnKillTime, Uncrashed
    <1>4. OnStopTime(j, i) = [j EXCEPT !.procs[i] = q]
        BY DEF OnStopTime
    <1> HIDE DEF q
    <1> QED
        BY <1>2, <1>3, <1>4, CalmOneProcess, ReplaceOne

LEMMA CalmChildExit ==
    ASSUME NEW j, JobOK(j), Calm(j), NEW i \in DOMAIN j.procs,
           NEW status \in Endings(j.procs[i], FALSE)
    PROVE  LET k == [j EXCEPT !.procs[i].child = status]
           IN  /\ Calm(k)
               /\ k.state = j.state
               /\ DOMAIN k.procs = DOMAIN j.procs
               /\ \A h \in DOMAIN j.procs \ {i} : k.procs[h] = j.procs[h]
               /\ k.procs[i].state = j.procs[i].state
               /\ k.procs[i].child # "alive"
PROOF
    <1> DEFINE p == j.procs[i]
               q == [p EXCEPT !.child = status]
    <1>1. Sound(p) /\ Uncrashed(p)
        BY DEF JobOK, ProcOK, Calm
    <1>2. /\ p.child \in {"alive", "dying"} /\ status \in Zombie
          /\ status = "signalled" => p.child = "dying" \/ p.state = "STOPPING"
        BY DEF Endings
    <1>3. ProcOK(q, j.config)
        BY <1>2, ChildExitSound, KeepsRestarts DEF JobOK, ProcOK
    <1>4. q.state = p.state /\ q.child = status /\ Uncrashed(q)
        BY <1>1, <1>2 DEF Sound, Process, Uncrashed
    <1> HIDE DEF q
    <1>5. [j EXCEPT !.procs[i].child = status] = [j EXCEPT !.procs[i] = q]
        BY DEF q
    <1> QED
        BY <1>2, <1>3, <1>4, <1>5, CalmOneProcess, ReplaceOne

----------------------------------------------------------------------------
(***************************************************************************)
(* The steps of SingleJob when nothing fails.                              *)
(***************************************************************************)
Dying(i) == \E status \in Zombie : ChildExit(i, status)
Reaping(i) == job.procs[i].child \in Zombie /\ job' = OnStateChange(job, i, "ok", "keep")

LEMMA FaultlessStep ==
    ASSUME NothingFails, Next
    PROVE  \/ CountCommand /\ job' = JobStart(job, NoFailure)
           \/ CountCommand /\ job' = JobStop(job, NoFailure, "keep")
           \/ CountCommand /\ job' = JobRestart(job, NoFailure, NoFailure, "keep")
           \/ \E i \in DOMAIN job.procs :
                 /\ commands' = commands
                 /\ Dying(i) \/ Reaping(i) \/ HandleStartTime(i) \/ HandleStopTime(i)
PROOF
    <1>1. CASE StartCommand
        BY <1>1, OnlyNoFailure DEF StartCommand, StartFailures, NothingFails
    <1>2. CASE StopCommand
        BY <1>2, OnlyNoFailure DEF StopCommand, StopFailures, NothingFails
    <1>3. CASE RestartCommand
        BY <1>3, OnlyNoFailure DEF RestartCommand, StartFailures, StopFailures, NothingFails
    <1>4. ASSUME NEW i \in DOMAIN job.procs, ProcessStep(i)
          PROVE  /\ commands' = commands
                 /\ Dying(i) \/ Reaping(i) \/ HandleStartTime(i) \/ HandleStopTime(i)
        <2>1. CASE \E status \in Zombie : ChildExit(i, status)
            BY <2>1 DEF Dying, ChildExit
        <2>2. CASE HandleExit(i)
            BY <2>2 DEF HandleExit, Outcomes, NothingFails, ExitReady, Reaping
        <2>3. CASE HandleStartTime(i) \/ HandleStopTime(i)
            BY <2>3 DEF HandleStartTime, HandleStopTime
        <2> QED
            BY <1>4, <2>1, <2>2, <2>3 DEF ProcessStep
    <1> QED
        BY <1>1, <1>2, <1>3, <1>4 DEF Next

CleanInv == Inv /\ Settled(job) /\ AllTended(job) /\ Calm(job)

LEMMA CleanConfig ==
    ASSUME NothingCrashes, CleanInv
    PROVE  /\ JobOK(job) /\ AllTended(job) /\ Calm(job)
           /\ Startable(job.config) /\ job.config.numprocs >= 1 /\ job.config.stop_time >= 0
           /\ commands \in Nat
    BY BoundsAssumption DEF NothingCrashes, NothingFails, CleanInv, Inv

LEMMA NextCalm ==
    ASSUME NothingCrashes, CleanInv, [Next]_vars
    PROVE  Calm(job')
PROOF
    <1>1. CASE UNCHANGED vars
        BY <1>1, CleanConfig DEF vars
    <1>2. CASE Next
        <2>1. CASE job' = JobStart(job, NoFailure)
            BY <2>1, CleanConfig, CalmStart
        <2>2. CASE job' = JobStop(job, NoFailure, "keep")
            BY <2>2, CleanConfig, CalmStop
        <2>3. CASE job' = JobRestart(job, NoFailure, NoFailure, "keep")
            BY <2>3, CleanConfig, CalmRestart
        <2>4. ASSUME NEW i \in DOMAIN job.procs,
                     Dying(i) \/ Reaping(i) \/ HandleStartTime(i) \/ HandleStopTime(i)
              PROVE  Calm(job')
            <3>1. CASE Dying(i)
                <4>1. PICK status : /\ status \in Endings(job.procs[i], FALSE)
                                    /\ job' = [job EXCEPT !.procs[i].child = status]
                    BY <3>1, CrashesAssumption DEF Dying, ChildExit, NothingCrashes
                <4> QED
                    BY <4>1, CleanConfig, CalmChildExit
            <3>2. CASE Reaping(i)
                BY <3>2, CleanConfig, CalmDeath DEF Reaping
            <3>3. CASE HandleStartTime(i)
                BY <3>3, CleanConfig, CalmStartTime DEF HandleStartTime, StartTimeReady
            <3>4. CASE HandleStopTime(i)
                BY <3>4, CleanConfig, CalmKillTime DEF HandleStopTime, StopTimeReady
            <3> QED
                BY <2>4, <3>1, <3>2, <3>3, <3>4
        <2> QED
            BY <1>2, <2>1, <2>2, <2>3, <2>4, FaultlessStep DEF NothingCrashes
    <1> QED
        BY <1>1, <1>2

LEMMA CleanInvariance ==
    ASSUME NothingCrashes
    PROVE  Spec => []CleanInv
PROOF
    <1>1. NothingFails
        BY DEF NothingCrashes
    <1>2. Init => Calm(job)
        BY DEF Init, NewJob, Calm, Orderly
    <1>3. CleanInv /\ [Next]_vars => Calm(job)'
        BY NextCalm DEF Calm, Orderly, AllProcessesInStates, Uncrashed
    <1> QED
        BY <1>1, <1>2, <1>3, TendedInvariance, PTL DEF Spec, CleanInv

(***************************************************************************)
(* When nothing fails or crashes, a job that is STOPPING waits for a child *)
(* that was told to stop, and has none that was not.                       *)
(***************************************************************************)
THEOREM StoppingJobsWait ==
    ASSUME NothingCrashes
    PROVE  Spec => []StoppingWaits
PROOF
    <1>1. CleanInv => StoppingWaits
        BY DEF CleanInv, Calm, Orderly, AllProcessesInStates, StoppingWaits
    <1> QED
        BY <1>1, CleanInvariance, PTL

----------------------------------------------------------------------------
(***************************************************************************)
(* When nothing fails or crashes, a job that is RUNNING has a process that *)
(* runs, and its other processes ran and have exited.                      *)
(***************************************************************************)
THEOREM RunningJobsRun ==
    ASSUME NothingCrashes
    PROVE  Spec => []RunningRuns
PROOF
    <1>1. CleanInv => RunningRuns
        BY DEF CleanInv, Calm, Orderly, AllProcessesInStates, RunningRuns
    <1> QED
        BY <1>1, CleanInvariance, PTL

----------------------------------------------------------------------------
(***************************************************************************)
(* The step that takes a job to STOPPING reaches every process that is up, *)
(* however many there are.                                                 *)
(***************************************************************************)
THEOREM StopsReachAll ==
    ASSUME NothingCrashes
    PROVE  Spec => StopReachesAll
PROOF
    <1>1. ASSUME CleanInv, Next, job.state # "STOPPING", job'.state = "STOPPING",
                 NEW h \in DOMAIN job.procs, job.procs[h].state \in LiveStates
          PROVE  job'.procs[h].state = "STOPPING"
        <2>1. CASE job' = JobStart(job, NoFailure)
            BY <1>1, <2>1, CleanConfig, CalmStart
        <2>2. CASE job' = JobStop(job, NoFailure, "keep")
            BY <1>1, <2>2, CleanConfig, CalmStop
        <2>3. CASE job' = JobRestart(job, NoFailure, NoFailure, "keep")
            BY <1>1, <2>3, CleanConfig, CalmRestart
        <2>4. ASSUME NEW i \in DOMAIN job.procs,
                     Dying(i) \/ Reaping(i) \/ HandleStartTime(i) \/ HandleStopTime(i)
              PROVE  FALSE
            <3>1. CASE Dying(i)
                <4>1. PICK status : /\ status \in Endings(job.procs[i], FALSE)
                                    /\ job' = [job EXCEPT !.procs[i].child = status]
                    BY <3>1, CrashesAssumption DEF Dying, ChildExit, NothingCrashes
                <4> QED
                    BY <1>1, <4>1, CleanConfig, CalmChildExit
            <3>2. CASE Reaping(i)
                BY <1>1, <3>2, CleanConfig, CalmDeath DEF Reaping
            <3>3. CASE HandleStartTime(i)
                BY <1>1, <3>3, CleanConfig, CalmStartTime DEF HandleStartTime, StartTimeReady
            <3>4. CASE HandleStopTime(i)
                BY <1>1, <3>4, CleanConfig, CalmKillTime DEF HandleStopTime, StopTimeReady
            <3> QED
                BY <2>4, <3>1, <3>2, <3>3, <3>4
        <2> QED
            BY <1>1, <2>1, <2>2, <2>3, <2>4, FaultlessStep DEF NothingCrashes
    <1>2. CleanInv /\ [Next]_vars =>
             [job.state # "STOPPING" /\ job'.state = "STOPPING" =>
                 \A i \in DOMAIN job.procs :
                     job.procs[i].state \in LiveStates => job'.procs[i].state = "STOPPING"]_vars
        BY <1>1
    <1> QED
        BY <1>2, CleanInvariance, PTL DEF Spec, StopReachesAll

(***************************************************************************)
(* Nothing but a command forks a child for a job that is STOPPING.         *)
(***************************************************************************)
THEOREM StopsWin ==
    ASSUME NothingCrashes
    PROVE  Spec => StopWins
PROOF
    <1>1. ASSUME CleanInv, Next, job.state = "STOPPING", commands' = commands,
                 NEW h \in DOMAIN job.procs, job'.procs[h].child = "alive"
          PROVE  job.procs[h].child = "alive"
        <2>1. ~CountCommand
            BY <1>1, CleanConfig DEF CountCommand
        <2>2. ASSUME NEW i \in DOMAIN job.procs,
                     Dying(i) \/ Reaping(i) \/ HandleStartTime(i) \/ HandleStopTime(i)
              PROVE  job.procs[h].child = "alive"
            <3>1. CASE Dying(i)
                <4>1. PICK status : /\ status \in Endings(job.procs[i], FALSE)
                                    /\ job' = [job EXCEPT !.procs[i].child = status]
                    BY <3>1, CrashesAssumption DEF Dying, ChildExit, NothingCrashes
                <4>2. JobOK(job) /\ Calm(job)
                    BY <1>1, CleanConfig
                <4>3. /\ \A g \in DOMAIN job.procs \ {i} : job'.procs[g] = job.procs[g]
                      /\ job'.procs[i].child # "alive"
                    <5>1. /\ job \in Job
                          /\ job.procs[i] \in Process
                          /\ status # "alive"
                        BY <4>1, <4>2 DEF JobOK, ProcOK, Sound, Endings
                    <5> QED
                        BY <4>1, <5>1 DEF Process, Job
                <4> QED
                    BY <1>1, <4>3
            <3>2. CASE Reaping(i)
                BY <1>1, <3>2, CleanConfig, CalmDeath DEF Reaping
            <3>3. CASE HandleStartTime(i)
                BY <1>1, <3>3, CleanConfig, CalmStartTime DEF HandleStartTime, StartTimeReady
            <3>4. CASE HandleStopTime(i)
                BY <1>1, <3>4, CleanConfig, CalmKillTime DEF HandleStopTime, StopTimeReady
            <3> QED
                BY <2>2, <3>1, <3>2, <3>3, <3>4
        <2> QED
            BY <1>1, <2>1, <2>2, FaultlessStep DEF NothingCrashes
    <1>2. CleanInv /\ [Next]_vars =>
             [job.state = "STOPPING" /\ commands' = commands =>
                 \A i \in DOMAIN job.procs :
                     job'.procs[i].child = "alive" => job.procs[i].child = "alive"]_vars
        BY <1>1
    <1> QED
        BY <1>2, CleanInvariance, PTL DEF Spec, StopWins

----------------------------------------------------------------------------
(***************************************************************************)
(* The refinement.  By ChildMatchesState the processes that have a child   *)
(* are those that say so; Live and Told are the mapping of live and told.  *)
(***************************************************************************)
Live(j) == {i \in DOMAIN j.procs : j.procs[i].child \in Unreaped}
Told(j) == {i \in DOMAIN j.procs : j.procs[i].state = "STOPPING"}
Wanted(j) == j.state \in {"STARTING", "RUNNING"}

LEMMA LiveByState ==
    ASSUME NEW j, JobOK(j)
    PROVE  Live(j) = {i \in DOMAIN j.procs : j.procs[i].state \in LiveStates}
    BY DEF JobOK, ProcOK, Sound, ChildFits, Live

LEMMA CommandsRefine ==
    ASSUME NothingCrashes, CleanInv, Inv', CountCommand
    PROVE  /\ job' = JobStart(job, NoFailure) =>
                 Wanted(job') /\ Live(job) \subseteq Live(job') /\ Told(job') = Told(job)
           /\ job' = JobStop(job, NoFailure, "keep") =>
                 ~Wanted(job') /\ Live(job') = Live(job) /\ Told(job') = Live(job)
           /\ job' = JobRestart(job, NoFailure, NoFailure, "keep") =>
                 Wanted(job') /\ Live(job) \subseteq Live(job') /\ Told(job') = Live(job)
PROOF
    <1>0. JobOK(job) /\ JobOK(job')
        BY CleanConfig DEF Inv, JobOK
    <1>1. /\ Live(job) = {i \in DOMAIN job.procs : job.procs[i].state \in LiveStates}
          /\ Live(job') = {i \in DOMAIN job'.procs : job'.procs[i].state \in LiveStates}
        BY <1>0, LiveByState
    <1>2. ASSUME job' = JobStart(job, NoFailure)
          PROVE  Wanted(job') /\ Live(job) \subseteq Live(job') /\ Told(job') = Told(job)
        <2>1. /\ job'.state = "STARTING"
              /\ DOMAIN job.procs \subseteq DOMAIN job'.procs
              /\ \A i \in DOMAIN job.procs :
                    job.procs[i].state \in LiveStates => job'.procs[i].state = job.procs[i].state
              /\ \A i \in DOMAIN job'.procs :
                    job'.procs[i].state = "STOPPING" =>
                       i \in DOMAIN job.procs /\ job.procs[i].state = "STOPPING"
            BY <1>2, CleanConfig, CalmStart
        <2> QED
            BY <1>1, <2>1 DEF Wanted, Told
    <1>3. ASSUME job' = JobStop(job, NoFailure, "keep")
          PROVE  ~Wanted(job') /\ Live(job') = Live(job) /\ Told(job') = Live(job)
        <2>1. /\ job'.state \in {"EMPTY", "STOPPED", "STOPPING"}
              /\ DOMAIN job'.procs = DOMAIN job.procs
              /\ \A i \in DOMAIN job.procs :
                    /\ job'.procs[i].child = job.procs[i].child
                    /\ job.procs[i].state \in LiveStates => job'.procs[i].state = "STOPPING"
            BY <1>3, CleanConfig, CalmStop
        <2>2. Live(job') = Live(job)
            BY <2>1 DEF Live
        <2>3. Told(job') \subseteq Live(job')
            BY <1>1 DEF Told
        <2>4. Live(job) \subseteq Told(job')
            BY <1>1, <2>1 DEF Told
        <2> QED
            BY <2>1, <2>2, <2>3, <2>4 DEF Wanted
    <1>4. ASSUME job' = JobRestart(job, NoFailure, NoFailure, "keep")
          PROVE  Wanted(job') /\ Live(job) \subseteq Live(job') /\ Told(job') = Live(job)
        <2>1. /\ job'.state = "STARTING"
              /\ DOMAIN job.procs \subseteq DOMAIN job'.procs
              /\ \A i \in DOMAIN job.procs :
                    job.procs[i].state \in LiveStates => job'.procs[i].state = "STOPPING"
              /\ \A i \in DOMAIN job'.procs :
                    job'.procs[i].state = "STOPPING" =>
                       i \in DOMAIN job.procs /\ job.procs[i].state \in LiveStates
            BY <1>4, CleanConfig, CalmRestart
        <2> QED
            BY <1>1, <2>1 DEF Wanted, Told
    <1> QED
        BY <1>2, <1>3, <1>4

(***************************************************************************)
(* A death is Gone or LastGone of Supervision; the other steps of the      *)
(* processes are stutters.                                                 *)
(***************************************************************************)
LEMMA DeathRefines ==
    ASSUME NothingCrashes, CleanInv, Inv', NEW i \in DOMAIN job.procs, Reaping(i)
    PROVE  /\ i \in Live(job)
           /\ \/ /\ \/ Live(job') = Live(job) \ {i}
                    \/ Wanted(job) /\ Live(job') = Live(job)
                 /\ Told(job') = Told(job) \ {i}
                 /\ Wanted(job') = Wanted(job)
              \/ /\ Live(job) = {i}
                 /\ ~Wanted(job')
                 /\ Live(job') = {}
                 /\ Told(job') = {}
PROOF
    <1>0. JobOK(job) /\ JobOK(job')
        BY CleanConfig DEF Inv, JobOK
    <1>1. /\ Live(job) = {h \in DOMAIN job.procs : job.procs[h].state \in LiveStates}
          /\ Live(job') = {h \in DOMAIN job'.procs : job'.procs[h].state \in LiveStates}
        BY <1>0, LiveByState
    <1>2. i \in Live(job)
        BY DEF Reaping, Live
    <1>3. /\ DOMAIN job'.procs = DOMAIN job.procs
          /\ \A h \in DOMAIN job.procs \ {i} : job'.procs[h] = job.procs[h]
          /\ job'.procs[i].state # "STOPPING"
          /\ \/ /\ job'.procs[i].state \notin LiveStates
                /\ \/ job'.state = job.state
                   \/ /\ job'.state = "STOPPED"
                      /\ AllProcessesInStates(job'.procs, RestartableStates)
             \/ /\ job'.procs[i].state = "STARTING"
                /\ job'.state = "STARTING"
                /\ job.state \in {"STARTING", "RUNNING"}
        BY CleanConfig, CalmDeath DEF Reaping
    <1>4. Told(job') = Told(job) \ {i}
        BY <1>3 DEF Told
    <1>5. CASE job'.procs[i].state = "STARTING" /\ job'.state = "STARTING" /\ Wanted(job)
        <2>1. Live(job') = Live(job)
            BY <1>1, <1>2, <1>3, <1>5
        <2> QED
            BY <1>2, <1>4, <1>5, <2>1 DEF Wanted
    <1>6. CASE job'.procs[i].state \notin LiveStates
        <2>1. Live(job') = Live(job) \ {i}
            BY <1>1, <1>3, <1>6
        <2>2. CASE job'.state = job.state
            BY <1>2, <1>4, <2>1, <2>2 DEF Wanted
        <2>3. CASE /\ job'.state = "STOPPED"
                   /\ AllProcessesInStates(job'.procs, RestartableStates)
            <3>1. Live(job') = {}
                BY <1>1, <2>3 DEF AllProcessesInStates
            <3>2. Told(job') = {}
                BY <2>3 DEF Told, AllProcessesInStates
            <3>3. Live(job) = {i}
                BY <1>2, <2>1, <3>1
            <3> QED
                BY <1>2, <2>3, <3>1, <3>2, <3>3 DEF Wanted
        <2> QED
            BY <1>3, <1>6, <2>2, <2>3
    <1> QED
        BY <1>3, <1>5, <1>6 DEF Wanted

LEMMA SameView ==
    ASSUME NothingCrashes, CleanInv, Inv', NEW i \in DOMAIN job.procs,
           Dying(i) \/ HandleStartTime(i) \/ HandleStopTime(i)
    PROVE  Wanted(job') = Wanted(job) /\ Live(job') = Live(job) /\ Told(job') = Told(job)
PROOF
    <1>0. JobOK(job) /\ JobOK(job')
        BY CleanConfig DEF Inv, JobOK
    <1>1. /\ Live(job) = {h \in DOMAIN job.procs : job.procs[h].state \in LiveStates}
          /\ Live(job') = {h \in DOMAIN job'.procs : job'.procs[h].state \in LiveStates}
        BY <1>0, LiveByState
    <1>2. CASE Dying(i)
        <2>1. PICK status : /\ status \in Endings(job.procs[i], FALSE)
                            /\ job' = [job EXCEPT !.procs[i].child = status]
            BY <1>2, CrashesAssumption DEF Dying, ChildExit, NothingCrashes
        <2>2. /\ job'.state = job.state
              /\ DOMAIN job'.procs = DOMAIN job.procs
              /\ \A h \in DOMAIN job.procs : job'.procs[h].state = job.procs[h].state
            BY <2>1, CleanConfig, CalmChildExit
        <2> QED
            BY <1>1, <2>2 DEF Wanted, Told
    <1>3. CASE HandleStartTime(i)
        <2>1. /\ job.state = "STARTING" /\ job'.state \in {"STARTING", "RUNNING"}
              /\ DOMAIN job'.procs = DOMAIN job.procs
              /\ \A h \in DOMAIN job.procs \ {i} : job'.procs[h] = job.procs[h]
              /\ job.procs[i].state = "STARTING" /\ job'.procs[i].state = "RUNNING"
            BY <1>3, CleanConfig, CalmStartTime DEF HandleStartTime, StartTimeReady
        <2> QED
            BY <1>1, <2>1 DEF Wanted, Told
    <1>4. CASE HandleStopTime(i)
        <2>1. /\ job'.state = job.state
              /\ DOMAIN job'.procs = DOMAIN job.procs
              /\ \A h \in DOMAIN job.procs : job'.procs[h].state = job.procs[h].state
            BY <1>4, CleanConfig, CalmKillTime DEF HandleStopTime, StopTimeReady
        <2> QED
            BY <1>1, <2>1 DEF Wanted, Told
    <1> QED
        BY <1>2, <1>3, <1>4

(***************************************************************************)
(* When nothing fails or crashes, a job of any size keeps the promise of   *)
(* Supervision.                                                            *)
(***************************************************************************)
THEOREM JobsAreSupervised ==
    ASSUME NothingCrashes
    PROVE  Spec => ImplementsSupervision
PROOF
    <1> DEFINE live == {i \in DOMAIN job.procs : job.procs[i].child \in Unreaped}
               told == {i \in DOMAIN job.procs : job.procs[i].state = "STOPPING"}
    <1>1. Init => Promise!Init
        BY DEF Init, NewJob, Promise!Init
    <1>2. ASSUME CleanInv, Inv', [Next]_vars
          PROVE  [Promise!Next]_(Promise!vars)
        <2>0. Inv /\ commands \in Nat
            BY <1>2, CleanConfig DEF CleanInv
        <2>1. CASE UNCHANGED vars
            BY <2>1 DEF vars, Promise!vars
        <2>2. CASE CountCommand /\ job' = JobStart(job, NoFailure)
            <3>1. Promise!Start
                BY <1>2, <2>0, <2>2, CommandsRefine
                   DEF Promise!Start, CountCommand, Wanted, Live, Told
            <3> QED
                BY <3>1 DEF Promise!Next
        <2>3. CASE CountCommand /\ job' = JobStop(job, NoFailure, "keep")
            <3>1. Promise!Stop
                BY <1>2, <2>0, <2>3, CommandsRefine
                   DEF Promise!Stop, CountCommand, Wanted, Live, Told
            <3> QED
                BY <3>1 DEF Promise!Next
        <2>4. CASE CountCommand /\ job' = JobRestart(job, NoFailure, NoFailure, "keep")
            <3>1. Promise!Restart
                BY <1>2, <2>0, <2>4, CommandsRefine
                   DEF Promise!Restart, CountCommand, Wanted, Live, Told
            <3> QED
                BY <3>1 DEF Promise!Next
        <2>5. ASSUME NEW i \in DOMAIN job.procs, commands' = commands, Reaping(i)
              PROVE  Promise!Next
            <3>1. i \in live /\ (Promise!Gone(i) \/ Promise!LastGone(i))
                BY <1>2, <2>0, <2>5, DeathRefines
                   DEF Promise!Gone, Promise!LastGone, Wanted, Live, Told
            <3> QED
                BY <3>1 DEF Promise!Next
        <2>6. ASSUME NEW i \in DOMAIN job.procs, commands' = commands,
                     Dying(i) \/ HandleStartTime(i) \/ HandleStopTime(i)
              PROVE  UNCHANGED (Promise!vars)
            BY <1>2, <2>0, <2>6, SameView DEF Promise!vars, Wanted, Live, Told
        <2> QED
            BY <1>2, <2>1, <2>2, <2>3, <2>4, <2>5, <2>6, FaultlessStep DEF NothingCrashes
    <1>3. CleanInv /\ Inv' /\ [Next]_vars => [Promise!Next]_(Promise!vars)
        BY <1>2
    <1> QED
        BY <1>1, <1>3, CleanInvariance, Invariance, PTL
           DEF Spec, ImplementsSupervision, Promise!Spec
============================================================================

---------------------------- MODULE EventManager ----------------------------
(***************************************************************************)
(* EventManager::handleEvents, its maps from descriptors to callbacks, and *)
(* the objects that open, register and close descriptors: the Server, the  *)
(* Clients, and each Process with its Timer.  The kernel gives the lowest  *)
(* descriptor that is free, so that one closed in a batch of events may    *)
(* belong to something else when its own event of that batch is handled.   *)
(* Why a process is started or stopped is left open here (see Job).        *)
(***************************************************************************)
EXTENDS Naturals, FiniteSets

CONSTANTS Clients,      \* connections
          Procs,        \* Process objects
          NoStartTime,  \* those with a starttime of 0
          NoStopTime,   \* those with a stoptime of 0
          MaxStarts,    \* bound on the starts of processes
          MaxStops,     \* bound on the stops of one child
          MaxCommands   \* bound on the commands sent

ASSUME EventAssumption ==
    /\ IsFiniteSet(Clients)
    /\ IsFiniteSet(Procs)
    /\ NoStartTime \subseteq Procs /\ NoStopTime \subseteq Procs
    /\ MaxStarts \in Nat
    /\ MaxStops \in Nat
    /\ MaxCommands \in Nat

VARIABLES open,       \* descriptors in use
          callbacks,  \* _read_callbacks and _write_callbacks; also what epoll watches
          batch,      \* the events that epoll_wait returned and that are left
          current,    \* the event whose callback is running, or NoEvent
          procs,      \* Procs -> Process with its Timer and its child
          conns,      \* Clients -> Client with what its peer sent
          starts, commands,
          stray,      \* history: a callback ran for the event of another object
          undefined   \* a Timer was destroyed that epoll still watches

vars == <<open, callbacks, batch, current, procs, conns, starts, commands, stray, undefined>>

NoFd == 0
ServerFd == 1
TheServer == <<"server", "server">>
AClient(c) == <<"client", c>>
ATimer(p) == <<"timer", p>>
AProcess(p) == <<"process", p>>
Nobody == <<"nobody", "nobody">>

\* stale is history: the descriptor was closed after epoll_wait returned the event.
EventOf(fd, on, object) == [fd |-> fd, on |-> on, of |-> object, stale |-> FALSE]
NoEvent == EventOf(NoFd, "none", Nobody)

(***************************************************************************)
(* timer is "none" without a Timer, else its _state; fired tells whether   *)
(* it expired.  fd is the pidfd, which stays open after the child is gone; *)
(* stops counts the calls of Process::stop for one child.                  *)
(***************************************************************************)
NewProc == [phase |-> "down", fd |-> NoFd, child |-> "none",
            timer |-> "none", tfd |-> NoFd, fired |-> FALSE, stops |-> 0]
NewClient == [mode |-> "none", fd |-> NoFd, input |-> FALSE, gone |-> FALSE]

Init == /\ open = {ServerFd}
        /\ callbacks = [fd \in {ServerFd} |-> [on |-> "read", of |-> TheServer]]
        /\ batch = {}
        /\ current = NoEvent
        /\ procs = [p \in Procs |-> NewProc]
        /\ conns = [c \in Clients |-> NewClient]
        /\ starts = 0
        /\ commands = 0
        /\ stray = FALSE
        /\ undefined = FALSE

\* The part of the state that the handlers work on, and its next value.
Daemon == [open |-> open, callbacks |-> callbacks, batch |-> batch, procs |-> procs,
           undefined |-> undefined]

Becomes(d) == /\ open' = d.open
              /\ callbacks' = d.callbacks
              /\ batch' = d.batch
              /\ procs' = d.procs
              /\ undefined' = d.undefined

----------------------------------------------------------------------------
\* The descriptor that the kernel gives next, in a set of its own.
Lowest(fds) == {fd \in ServerFd..(ServerFd + Cardinality(fds)) :
                  fd \notin fds /\ ServerFd..(fd - 1) \subseteq fds}

Opened(d, fd) == [d EXCEPT !.open = @ \cup {fd}]

(***************************************************************************)
(* FileDescriptor::close.  epoll forgets a descriptor that is closed, but  *)
(* the maps do not, nor do the events that were already returned.          *)
(***************************************************************************)
Close(d, fd) ==
    [d EXCEPT !.open = @ \ {fd},
              !.undefined = @ \/ fd \in DOMAIN d.callbacks,
              !.batch = {[e EXCEPT !.stale = @ \/ e.fd = fd] : e \in @}]

RegisterEvent(d, fd, on, object) ==
    [d EXCEPT !.callbacks = [f \in DOMAIN @ \cup {fd} |->
                                IF f = fd THEN [on |-> on, of |-> object] ELSE @[f]]]

\* Mutant: the callback is set to nullptr.
UnsetEvent(d, fd) == [d EXCEPT !.callbacks[fd].on = "none"]

UnregisterEvent(d, fd) ==
    [d EXCEPT !.callbacks = [f \in DOMAIN @ \ {fd} |-> @[f]]]

----------------------------------------------------------------------------
\* Mutant: the destructor leaves epoll alone.
DestroyRegistered(d, p) ==
    IF d.procs[p].timer = "none" THEN d
    ELSE [Close(d, d.procs[p].tfd) EXCEPT !.procs[p].timer = "none", !.procs[p].tfd = NoFd]

\* Timer::~Timer and FileDescriptor::~FileDescriptor
DestroyTimer(d, p) ==
    LET fd == d.procs[p].tfd
        known == IF d.procs[p].timer = "running" THEN UnregisterEvent(d, fd) ELSE d
    IN  IF d.procs[p].timer = "none" THEN d
        ELSE [Close(known, fd) EXCEPT !.procs[p].timer = "none", !.procs[p].tfd = NoFd]

\* Mutant: Timer::start is forgotten.
ResetUnstarted(d, p, tfd) ==
    [DestroyTimer(Opened(d, tfd), p)
        EXCEPT !.procs[p].timer = "stopped",
               !.procs[p].tfd = tfd,
               !.procs[p].fired = FALSE]

\* _timer.reset(new Timer(...)), the new one before the old one goes, and Timer::start.
ResetTimer(d, p, tfd) ==
    [RegisterEvent(DestroyTimer(Opened(d, tfd), p), tfd, "read", ATimer(p))
        EXCEPT !.procs[p].timer = "running",
               !.procs[p].tfd = tfd,
               !.procs[p].fired = FALSE]

(***************************************************************************)
(* Process::start: the timer, the child, and a pidfd that takes the place  *)
(* of the last one without closing it.                                     *)
(***************************************************************************)
Watched(d, p, fd) ==
    [RegisterEvent(Opened(d, fd), fd, "read", AProcess(p))
        EXCEPT !.procs[p].phase = "starting",
               !.procs[p].child = "alive",
               !.procs[p].fd = fd]

ProcessStart(d, p) ==
    UNION {{Watched(ResetTimer(d, p, tfd), p, fd) : fd \in Lowest(d.open \cup {tfd})} :
              tfd \in Lowest(d.open)}

(***************************************************************************)
(* Process::stop of a process that has a child, be it STOPPING: the        *)
(* signal, and a new timer of the kill.                                    *)
(***************************************************************************)
ProcessStop(d, p) ==
    {[ResetTimer(d, p, tfd) EXCEPT !.procs[p].phase = "stopping",
                                   !.procs[p].stops = @ + 1] : tfd \in Lowest(d.open)}

\* Process::onStateChange once waitpid has returned.
OnStateChange(d, p) ==
    [UnregisterEvent(DestroyTimer(d, p), d.procs[p].fd)
        EXCEPT !.procs[p].phase = "down", !.procs[p].child = "none", !.procs[p].stops = 0]

\* Mutant: the process is killed and reaped at once.
ReapOnExpire(d, p) ==
    LET q == d.procs[p]
        stopped == UnregisterEvent([d EXCEPT !.procs[p].timer = "stopped"], q.tfd)
    IN  IF q.phase = "stopping" THEN OnStateChange(stopped, p) ELSE stopped

(***************************************************************************)
(* Timer::onExpire: the timer is STOPPED first; if it has not expired,     *)
(* read() fails and the exception leaves it registered.                    *)
(***************************************************************************)
OnExpire(d, p) ==
    LET q == d.procs[p]
        stopped == [d EXCEPT !.procs[p].timer = "stopped"]
    IN  IF ~q.fired THEN stopped
        ELSE [UnregisterEvent(stopped, q.tfd)
                EXCEPT !.procs[p].phase = IF @ = "starting" THEN "running" ELSE @,
                       !.procs[p].child = IF q.phase = "stopping" /\ @ = "alive"
                                          THEN "killed" ELSE @]

\* The Job of a stopped process is erased or replaced: ~Process closes its pidfd.
DestroyProcess(d, p) ==
    [Close(d, d.procs[p].fd) EXCEPT !.procs[p].fd = NoFd]

(***************************************************************************)
(* What a command, manager.update() or manager.reload() may do next with a *)
(* process; started counts the starts.                                     *)
(***************************************************************************)
Outcomes(states, started) == {[d |-> d, started |-> started] : d \in states}

Restarted(d, p) == IF starts < MaxStarts THEN Outcomes(ProcessStart(d, p), 1) ELSE {}

Managed(d) ==
    LET down == {p \in Procs : d.procs[p].phase = "down"}
        up == {p \in Procs : d.procs[p].phase # "down" /\ d.procs[p].stops < MaxStops}
        ended == {p \in down : d.procs[p].fd # NoFd}
    IN  (UNION {Restarted(d, p) : p \in down})
        \cup (UNION {Outcomes(ProcessStop(d, p), 0) : p \in up})
        \cup Outcomes({DestroyProcess(d, p) : p \in ended}, 0)

----------------------------------------------------------------------------
\* taskmasterctl connects, sends a command, or goes away.
Connect(c) == /\ conns[c].mode = "none"
              /\ conns' = [conns EXCEPT ![c].mode = "backlog"]
              /\ UNCHANGED <<open, callbacks, batch, current, procs, starts, commands, stray, undefined>>

SendCommand(c) ==
    /\ conns[c].mode \in {"backlog", "reading"}
    /\ ~conns[c].gone /\ ~conns[c].input
    /\ commands < MaxCommands
    /\ commands' = commands + 1
    /\ conns' = [conns EXCEPT ![c].input = TRUE]
    /\ UNCHANGED <<open, callbacks, batch, current, procs, starts, stray, undefined>>

HangUp(c) == /\ conns[c].mode \in {"backlog", "reading", "executing", "writing"}
             /\ ~conns[c].gone
             /\ conns' = [conns EXCEPT ![c].gone = TRUE]
             /\ UNCHANGED <<open, callbacks, batch, current, procs, starts, commands, stray, undefined>>

ChildDies(p) == /\ procs[p].child \in {"alive", "killed"}
                /\ procs' = [procs EXCEPT ![p].child = "dead"]
                /\ UNCHANGED <<open, callbacks, batch, current, conns, starts, commands, stray, undefined>>

\* timerfd_settime disarms a timer whose interval is 0.
Armed(p) == p \notin (IF procs[p].phase = "stopping" THEN NoStopTime ELSE NoStartTime)

TimerExpires(p) == /\ procs[p].tfd \in DOMAIN callbacks
                   /\ Armed(p)
                   /\ ~procs[p].fired
                   /\ procs' = [procs EXCEPT ![p].fired = TRUE]
                   /\ UNCHANGED <<open, callbacks, batch, current, conns, starts, commands, stray, undefined>>

----------------------------------------------------------------------------
\* What the kernel has to report of an object, and the event that says so.
Readable(c) == conns[c].input \/ conns[c].gone

IsReady(object) ==
    \/ object = TheServer /\ \E c \in Clients : conns[c].mode = "backlog"
    \/ \E c \in Clients : object = AClient(c) /\ (conns[c].mode = "writing" \/ Readable(c))
    \/ \E p \in Procs : \/ object = ATimer(p) /\ procs[p].fired
                        \/ object = AProcess(p) /\ procs[p].child = "dead"

Events == {EventOf(fd, callbacks[fd].on, callbacks[fd].of) :
              fd \in {fd \in DOMAIN callbacks : IsReady(callbacks[fd].of)}}

\* The daemon is in Server::onCommand, called by the callback of a client.
Executing == \E c \in Clients : conns[c].mode = "executing"

AtTop == batch = {} /\ current = NoEvent /\ ~Executing

\* epoll_wait: every event there is.
EpollWait == /\ AtTop
             /\ ~undefined
             /\ Events # {}
             /\ batch' = Events
             /\ UNCHANGED <<open, callbacks, current, procs, conns, starts, commands, stray, undefined>>

(***************************************************************************)
(* One call of Process among those that a command makes, or between two    *)
(* batches manager.update(), or manager.reload() after a signal.           *)
(***************************************************************************)
Manage == /\ AtTop \/ Executing
          /\ ~undefined
          /\ \E o \in Managed(Daemon) : Becomes(o.d) /\ starts' = starts + o.started
          /\ UNCHANGED <<current, conns, commands, stray>>

\* The loop of handleEvents, which meets the events in any order.
NextEvent == /\ current = NoEvent
             /\ ~undefined /\ ~Executing
             /\ \E e \in batch : current' = e /\ batch' = batch \ {e}
             /\ UNCHANGED <<open, callbacks, procs, conns, starts, commands, stray, undefined>>

(***************************************************************************)
(* The callback that the maps name for the descriptor of the event.        *)
(* Without one (out_of_range, bad_function_call) the event is skipped.     *)
(***************************************************************************)
Target == IF current.fd \in DOMAIN callbacks /\ callbacks[current.fd].on = current.on
          THEN callbacks[current.fd].of ELSE Nobody

Handles(object) == /\ current # NoEvent
                   /\ ~undefined
                   /\ Target = object
                   /\ current' = NoEvent
                   /\ stray' = (stray \/ (object # Nobody /\ current.stale))

Skip == /\ Handles(Nobody)
        /\ Becomes(Daemon)
        /\ UNCHANGED <<conns, starts, commands>>

\* Server::onAccept, with the constructor of the Client.
OnAccept(c) ==
    /\ Handles(TheServer)
    /\ conns[c].mode = "backlog"
    /\ \E fd \in Lowest(open) :
          /\ Becomes(RegisterEvent(Opened(Daemon, fd), fd, "read", AClient(c)))
          /\ conns' = [conns EXCEPT ![c].mode = "reading", ![c].fd = fd]
    /\ UNCHANGED <<starts, commands>>

\* Mutant: FileDescriptor::close leaves _fd as it is.
DisconnectKeepsFd(c) == /\ Becomes(Close(UnregisterEvent(Daemon, conns[c].fd), conns[c].fd))
                        /\ conns' = [conns EXCEPT ![c].mode = "closed"]
                        /\ UNCHANGED <<starts, commands>>

\* unregisterEvent and close, for a client that went away.
Disconnect(c) == /\ Becomes(Close(UnregisterEvent(Daemon, conns[c].fd), conns[c].fd))
                 /\ conns' = [conns EXCEPT ![c].mode = "closed", ![c].fd = NoFd]
                 /\ UNCHANGED <<starts, commands>>

(***************************************************************************)
(* Client::handleRead, which waits in recv() when there is nothing to read *)
(* yet, and Client::handleMessage, before and after the execution of the   *)
(* command: the client is out of the maps in between.                      *)
(***************************************************************************)
HandleRead(c) ==
    /\ Handles(AClient(c))
    /\ current.on = "read"
    /\ conns[c].input
    /\ Becomes(UnregisterEvent(Daemon, conns[c].fd))
    /\ conns' = [conns EXCEPT ![c].mode = "executing", ![c].input = FALSE]
    /\ UNCHANGED <<starts, commands>>

\* Mutant: the client is not registered for the write.
EndUnregistered(c) ==
    /\ conns[c].mode = "executing"
    /\ ~undefined
    /\ conns' = [conns EXCEPT ![c].mode = "writing"]
    /\ Becomes(Daemon)
    /\ UNCHANGED <<current, starts, commands, stray>>

EndCommand(c) ==
    /\ conns[c].mode = "executing"
    /\ ~undefined
    /\ Becomes(RegisterEvent(Daemon, conns[c].fd, "write", AClient(c)))
    /\ conns' = [conns EXCEPT ![c].mode = "writing"]
    /\ UNCHANGED <<current, starts, commands, stray>>

ReadEnd(c) == /\ Handles(AClient(c))
              /\ current.on = "read"
              /\ ~conns[c].input /\ conns[c].gone
              /\ Disconnect(c)

\* Client::handleWrite of the last bytes; send() fails when the peer is gone.
HandleWrite(c) ==
    /\ Handles(AClient(c))
    /\ current.on = "write"
    /\ ~conns[c].gone
    /\ Becomes(RegisterEvent(UnregisterEvent(Daemon, conns[c].fd), conns[c].fd, "read", AClient(c)))
    /\ conns' = [conns EXCEPT ![c].mode = "reading"]
    /\ UNCHANGED <<starts, commands>>

WriteFails(c) == /\ Handles(AClient(c))
                 /\ current.on = "write"
                 /\ conns[c].gone
                 /\ Disconnect(c)

\* Process::onStateChange, which waits in waitpid() for a child that is alive; the
\* Job may start the process again.
HandleExit(p) ==
    /\ Handles(AProcess(p))
    /\ procs[p].child = "dead"
    /\ \E reaped \in {OnStateChange(Daemon, p)} :
          \E o \in Outcomes({reaped}, 0) \cup Restarted(reaped, p) :
              Becomes(o.d) /\ starts' = starts + o.started
    /\ UNCHANGED <<conns, commands>>

HandleTimer(p) == /\ Handles(ATimer(p))
                  /\ Becomes(OnExpire(Daemon, p))
                  /\ UNCHANGED <<conns, starts, commands>>

----------------------------------------------------------------------------
ClientCallback(c) == \/ OnAccept(c)
                     \/ HandleRead(c) \/ EndCommand(c) \/ ReadEnd(c)
                     \/ HandleWrite(c) \/ WriteFails(c)

HandleEvent == \/ NextEvent
               \/ Skip
               \/ \E c \in Clients : ClientCallback(c)
               \/ \E p \in Procs : HandleExit(p) \/ HandleTimer(p)

Next == \/ \E c \in Clients : Connect(c) \/ SendCommand(c) \/ HangUp(c)
        \/ \E p \in Procs : ChildDies(p) \/ TimerExpires(p)
        \/ EpollWait
        \/ Manage
        \/ HandleEvent

Spec == Init /\ [][Next]_vars

(***************************************************************************)
(* Fairness: the daemon goes on, time passes, and SIGKILL kills.  A        *)
(* callback that waits in recv() or waitpid() is not enabled: it depends   *)
(* on the peer or on the child, who owe nothing.  Nobody owes a call of    *)
(* Process, and a command makes finitely many of them (MaxStarts, MaxStops *)
(* bound them).                                                            *)
(***************************************************************************)
Fairness == /\ WF_vars(EpollWait \/ HandleEvent)
            /\ \A p \in Procs : /\ WF_vars(TimerExpires(p))
                                /\ WF_vars(procs[p].child = "killed" /\ ChildDies(p))

FairSpec == Spec /\ Fairness

----------------------------------------------------------------------------
Objects == {TheServer, Nobody} \cup {AClient(c) : c \in Clients}
                    \cup {ATimer(p) : p \in Procs} \cup {AProcess(p) : p \in Procs}

\* Types.
TypeOK ==
    /\ open \subseteq Nat
    /\ DOMAIN callbacks \subseteq Nat
    /\ \A fd \in DOMAIN callbacks : /\ callbacks[fd].on \in {"read", "write"}
                                    /\ callbacks[fd].of \in Objects
    /\ \A e \in batch \cup {current} : e.of \in Objects /\ e.stale \in BOOLEAN
    /\ procs \in [Procs -> [phase : {"down", "starting", "running", "stopping"}, fd : Nat,
                             child : {"none", "alive", "killed", "dead"},
                             timer : {"none", "stopped", "running"}, tfd : Nat,
                             fired : BOOLEAN, stops : 0..MaxStops]]
    /\ conns \in [Clients -> [mode : {"none", "backlog", "reading", "executing", "writing",
                                      "closed"},
                               fd : Nat, input : BOOLEAN, gone : BOOLEAN]]
    /\ starts \in 0..MaxStarts
    /\ commands \in 0..MaxCommands
    /\ stray \in BOOLEAN /\ undefined \in BOOLEAN

(***************************************************************************)
(* Each object that holds a descriptor holds an open one of its own.  The  *)
(* open ones that nobody holds are the pidfds of earlier starts, at most   *)
(* one for each start; epoll watches none of them.                         *)
(***************************************************************************)
Held == {<<TheServer, ServerFd>>}
        \cup {<<AClient(c), conns[c].fd>> : c \in {c \in Clients : conns[c].fd # NoFd}}
        \cup {<<ATimer(p), procs[p].tfd>> : p \in {p \in Procs : procs[p].tfd # NoFd}}
        \cup {<<AProcess(p), procs[p].fd>> : p \in {p \in Procs : procs[p].fd # NoFd}}

HeldFds == {h[2] : h \in Held}

DescriptorsAreOwned ==
    /\ Cardinality(HeldFds) = Cardinality(Held)
    /\ HeldFds \subseteq open
    /\ Cardinality(open \ HeldFds) + Cardinality({p \in Procs : procs[p].fd # NoFd}) <= starts
    /\ ~undefined => (open \ HeldFds) \cap DOMAIN callbacks = {}

(***************************************************************************)
(* The maps name the objects that wait for something and no other: the     *)
(* Server, a Client for what it does next, a Timer that is RUNNING, a      *)
(* Process with a child that was not reaped, each at the descriptor it     *)
(* holds.  So nobody who should be called back is forgotten, and nobody is *)
(* called after his end, until a stray event makes a Timer throw.          *)
(***************************************************************************)
Waiting ==
    {<<ServerFd, "read", TheServer>>}
    \cup {<<conns[c].fd, "read", AClient(c)>> : c \in {c \in Clients : conns[c].mode = "reading"}}
    \cup {<<conns[c].fd, "write", AClient(c)>> : c \in {c \in Clients : conns[c].mode = "writing"}}
    \cup {<<procs[p].tfd, "read", ATimer(p)>> : p \in {p \in Procs : procs[p].timer = "running"}}
    \cup {<<procs[p].fd, "read", AProcess(p)>> : p \in {p \in Procs : procs[p].child # "none"}}

CallbacksMatch ==
    stray \/ {<<fd, callbacks[fd].on, callbacks[fd].of>> : fd \in DOMAIN callbacks} = Waiting

(***************************************************************************)
(* When the turn of an event comes, and its descriptor was not closed in   *)
(* the meantime by an earlier callback of the batch, the callback is the   *)
(* one of the object that was ready, and it is ready still: waitpid, recv, *)
(* accept and the read of the timer do not block or fail.  A descriptor    *)
(* closed under its event was that of a Timer.                             *)
(***************************************************************************)
EventsAreTrue ==
    /\ current # NoEvent /\ ~current.stale /\ ~undefined => Target = current.of /\ IsReady(current.of)
    /\ \A e \in batch : e.stale => e.of \in {ATimer(p) : p \in Procs}

\* The daemon waits in a callback that it called for an event of something else.
Blocked == /\ current # NoEvent
           /\ current.stale
           /\ Target \notin {Nobody, TheServer} \cup {ATimer(p) : p \in Procs}
           /\ ~IsReady(Target)

(***************************************************************************)
(* A process that is stopped ends: its kill timer fires, or its exit is    *)
(* seen before, whatever else is in the batch, unless a stray event blocks *)
(* the daemon.  It needs a stoptime, since the timer of one of 0 is never  *)
(* armed, and stops that come to an end: each one of a process that is     *)
(* STOPPING already puts off the kill, and MaxStops ends them here.        *)
(***************************************************************************)
StopsEnd == \A p \in Procs \ NoStopTime :
    procs[p].phase = "stopping" ~> (procs[p].phase # "stopping" \/ Blocked \/ undefined)

(***************************************************************************)
(* A command that a connected client sent gets its response: it is read    *)
(* and executed, so that the response is to be written, and it is written, *)
(* so that the client is heard again, unless the peer is gone.  The        *)
(* exception is the same.                                                  *)
(***************************************************************************)
CommandsAnswered == \A c \in Clients :
    /\ conns[c].input ~> (conns[c].mode = "writing" \/ Blocked \/ undefined)
    /\ conns[c].mode = "writing" ~>
          (conns[c].mode = "reading" \/ conns[c].gone \/ Blocked \/ undefined)
=============================================================================

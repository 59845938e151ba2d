-------------------------------- MODULE Ipc ---------------------------------
(***************************************************************************)
(* The daemon's Server and Client objects, and the programs taskmasterctl  *)
(* that talk to it: each with its main thread, which sends one command at  *)
(* a time and waits for the response, and its thread checkSocketState,     *)
(* which raises SIGINT when the daemon hangs up.                           *)
(*                                                                         *)
(* The sockets are blocking streams.  A send takes some of the bytes, a    *)
(* recv gives some of those that are there.  The children of the daemon    *)
(* inherit its sockets: they are not closed on exec, nor by Process::start *)
(* in the child, and a socket is closed when nobody holds it any more.     *)
(***************************************************************************)
EXTENDS Framing, MainLoop

CONSTANTS Clients,      \* the running programs taskmasterctl
          CommandSize,  \* bytes of a command
          ResponseSize, \* bytes of a response
          MaxCommands   \* bound on the commands a user types

ASSUME SizesAssumption ==
    CommandSize \in Nat \ {0} /\ ResponseSize \in Nat \ {0} /\ MaxCommands \in Nat

(***************************************************************************)
(* "job" stands for the commands that the JobManager handles, "terminate"  *)
(* for terminate, "refused" for one with the wrong number of arguments.    *)
(***************************************************************************)
Kinds == {"job", "terminate", "refused"}
Command == [n : 1..MaxCommands, kind : Kinds, size : {CommandSize}]
Response == [n : 1..MaxCommands, ok : BOOLEAN, size : {ResponseSize}]

VARIABLES ctl,       \* Clients -> the program taskmasterctl
          conn,      \* Clients -> the Client object of the daemon
          up,        \* Clients -> bytes on their way to the daemon
          down,      \* Clients -> bytes on their way to taskmasterctl
          executed   \* Clients -> commands that were executed

vars == <<ctl, conn, up, down, executed, loop>>

(***************************************************************************)
(* ctl[c].pc is where the main thread is: before the connection, at the    *)
(* prompt, in sendCommandToDaemon, in awaitDaemonResponse, done with a     *)
(* terminate or an exception, joining the other thread, or gone.           *)
(***************************************************************************)
Ended == {"exit0", "exit1", "killed"}
CtlStates == {"connect", "prompt", "send", "await", "succeeded", "failed",
              "join0", "join1"} \cup Ended
CheckerStates == {"none", "watching", "hangup", "raising", "done", "interrupted"}
ConnStates == {"none", "backlog", "reading", "writing", "closed"}

NewCtl == [pc |-> "connect", kind |-> "job", asked |-> 0, answered |-> 0,
           writer |-> IdleWriter, reader |-> NewReader,
           checker |-> "none", exitChecker |-> FALSE]

\* held: a child of the daemon holds this end of the connection, or the listening
\* socket at which it waits.
NewConn == [mode |-> "none", kind |-> "job", writer |-> IdleWriter, reader |-> NewReader,
            held |-> FALSE]

Init == /\ ctl = [c \in Clients |-> NewCtl]
        /\ conn = [c \in Clients |-> NewConn]
        /\ up = [c \in Clients |-> <<>>]
        /\ down = [c \in Clients |-> <<>>]
        /\ LoopInit
        /\ executed = [c \in Clients |-> 0]

CtlGone(c) == ctl[c].pc \in Ended
HungUp(c) == conn[c].mode = "closed" /\ ~conn[c].held

\* The first n bytes leave a stream.
Drop(stream, n) == SubSeq(stream, n + 1, Len(stream))
Recv(stream) == 1..Smaller(Len(stream), BufferSize)

----------------------------------------------------------------------------
(***************************************************************************)
(* connectToDaemon, and the start of the other thread.  The name of the    *)
(* socket stays when the daemon goes, so that with a child that holds the  *)
(* listening socket one connects to a daemon that is gone.                 *)
(***************************************************************************)
Connect(c) ==
    /\ ctl[c].pc = "connect"
    /\ \E childLives \in BOOLEAN :
          IF Serving \/ childLives
          THEN /\ ctl' = [ctl EXCEPT ![c].pc = "prompt", ![c].checker = "watching"]
               /\ conn' = [conn EXCEPT ![c].mode = IF Serving THEN "backlog" ELSE "closed",
                                       ![c].held = childLives]
          ELSE /\ ctl' = [ctl EXCEPT ![c].pc = "exit1"]
               /\ UNCHANGED conn
    /\ UNCHANGED <<up, down, executed, loop>>

\* getCommandFromUser, and the writer of sendCommandToDaemon.
TypeCommand(c, kind) ==
    LET command == [n |-> ctl[c].asked + 1, kind |-> kind, size |-> CommandSize]
    IN  /\ ctl[c].pc = "prompt"
        /\ ctl[c].asked < MaxCommands
        /\ ctl' = [ctl EXCEPT ![c].pc = "send", ![c].kind = kind, ![c].asked = @ + 1,
                              ![c].writer = WriterOf(command)]
        /\ UNCHANGED <<conn, up, down, executed, loop>>

\* The end of the input is exit(0); a SIGINT from the terminal ends the program.
LeavePrompt(c) == /\ ctl[c].pc = "prompt"
                  /\ ctl' = [ctl EXCEPT ![c].pc = "exit0"]
                  /\ UNCHANGED <<conn, up, down, executed, loop>>

Interrupt(c) == /\ ~CtlGone(c)
                /\ ctl' = [ctl EXCEPT ![c].pc = "killed"]
                /\ UNCHANGED <<conn, up, down, executed, loop>>

\* An exception of the main thread.
Fail(c) == ctl' = [ctl EXCEPT ![c].pc = "failed"]

\* One round of the loop in sendCommandToDaemon; send() fails on a closed socket.
SendCommand(c) ==
    /\ ctl[c].pc = "send"
    /\ IF HungUp(c)
       THEN Fail(c) /\ UNCHANGED up
       ELSE \E n \in Sendable(ctl[c].writer) :
              /\ up' = [up EXCEPT ![c] = @ \o BytesSent(ctl[c].writer, n)]
              /\ ctl' = [ctl EXCEPT ![c].writer = Written(@, n),
                                    ![c].reader = NewReader,
                                    ![c].pc = IF WriteEnds(ctl[c].writer, n) THEN "await" ELSE @]
    /\ UNCHANGED <<conn, down, executed, loop>>

(***************************************************************************)
(* One round of the loop in awaitDaemonResponse that gets some bytes, and  *)
(* what main does with a response.  A terminate that went well ends main.  *)
(***************************************************************************)
Await(c) ==
    /\ ctl[c].pc = "await"
    /\ \E n \in Recv(down[c]) :
         LET r == Received(ctl[c].reader, SubSeq(down[c], 1, n))
             response == Message(r)
             ends == ctl[c].kind = "terminate" /\ response.ok
         IN  /\ down' = [down EXCEPT ![c] = Drop(@, n)]
             /\ IF ~Complete(r)
                THEN ctl' = [ctl EXCEPT ![c].reader = r]
                ELSE IF ~Parses(r)
                THEN Fail(c)
                ELSE ctl' = [ctl EXCEPT ![c].reader = Erased(r),
                                        ![c].answered = response.n,
                                        ![c].pc = IF ends THEN "succeeded" ELSE "prompt"]
    /\ UNCHANGED <<conn, up, executed, loop>>

(***************************************************************************)
(* The daemon closed the socket and everything it sent was read.  When it  *)
(* left bytes unread recv() fails; otherwise it returns 0, and the loop    *)
(* goes round (no step).                                                   *)
(***************************************************************************)
AwaitReset(c) == /\ ctl[c].pc = "await"
                 /\ HungUp(c)
                 /\ down[c] = <<>>
                 /\ up[c] # <<>>
                 /\ Fail(c)
                 /\ UNCHANGED <<conn, up, down, executed, loop>>

\* main tells the other thread to end, by g_exitChecker, and joins it.
TellChecker(c) ==
    /\ ctl[c].pc \in {"succeeded", "failed"}
    /\ ctl' = [ctl EXCEPT ![c].pc = IF @ = "succeeded" THEN "join0" ELSE "join1",
                          ![c].exitChecker = TRUE]
    /\ UNCHANGED <<conn, up, down, executed, loop>>

Join(c) == /\ ctl[c].pc \in {"join0", "join1"}
           /\ ctl[c].checker \in {"done", "interrupted"}
           /\ ctl' = [ctl EXCEPT ![c].pc = IF @ = "join0" THEN "exit0" ELSE "exit1"]
           /\ UNCHANGED <<conn, up, down, executed, loop>>

----------------------------------------------------------------------------
\* checkSocketState: epoll_wait returns EPOLLHUP.
SeeHangup(c) == /\ ~CtlGone(c)
                /\ ctl[c].checker = "watching"
                /\ HungUp(c)
                /\ ctl' = [ctl EXCEPT ![c].checker = "hangup"]
                /\ UNCHANGED <<conn, up, down, executed, loop>>

\* Mutant: the thread returns without raising a signal.
ReturnAfterHangup(c) == /\ ~CtlGone(c)
                        /\ ctl[c].checker = "hangup"
                        /\ ctl' = [ctl EXCEPT ![c].checker = "done"]
                        /\ UNCHANGED <<conn, up, down, executed, loop>>

\* It tests g_exitChecker once more, and raises SIGINT or returns.
RaiseOrReturn(c) ==
    /\ ~CtlGone(c)
    /\ ctl[c].checker = "hangup"
    /\ ctl' = [ctl EXCEPT ![c].checker = IF ctl[c].exitChecker THEN "done" ELSE "raising"]
    /\ UNCHANGED <<conn, up, down, executed, loop>>

Raise(c) == /\ ~CtlGone(c)
            /\ ctl[c].checker = "raising"
            /\ ctl' = [ctl EXCEPT ![c].pc = "killed"]
            /\ UNCHANGED <<conn, up, down, executed, loop>>

\* The timeout of epoll_wait, and the condition of the loop.
StopWatching(c) == /\ ~CtlGone(c)
                   /\ ctl[c].checker = "watching"
                   /\ ctl[c].exitChecker
                   /\ ctl' = [ctl EXCEPT ![c].checker = "done"]
                   /\ UNCHANGED <<conn, up, down, executed, loop>>

(***************************************************************************)
(* epoll_wait fails with EINTR: a signal handler ran in this thread, or    *)
(* the program was stopped (control-Z) and continued.  The watch is over.  *)
(***************************************************************************)
WatchInterrupted(c) == /\ ~CtlGone(c)
                       /\ ctl[c].checker = "watching"
                       /\ ctl' = [ctl EXCEPT ![c].checker = "interrupted"]
                       /\ UNCHANGED <<conn, up, down, executed, loop>>

----------------------------------------------------------------------------
\* Server::onAccept: a socket that no child has yet.
OnAccept(c) == /\ Callback(c, FALSE)
               /\ conn[c].mode = "backlog"
               /\ conn' = [conn EXCEPT ![c].mode = "reading", ![c].held = FALSE]
               /\ UNCHANGED <<ctl, up, down, executed>>

(***************************************************************************)
(* Server::onCommand and Server::parseCommand: the responses a command may *)
(* get.  A job command is an OK or an error, as the JobManager says.       *)
(***************************************************************************)
OnCommand(command) ==
    {r \in Response : /\ r.n = command.n
                      /\ command.kind = "terminate" => r.ok
                      /\ command.kind = "refused" => ~r.ok}

(***************************************************************************)
(* Client::handleRead of n bytes, with Client::handleMessage for a whole   *)
(* command: the response is made at once, and nothing is read until it is  *)
(* written.                                                                *)
(***************************************************************************)
HandleRead(c) ==
    /\ Callback(c, FALSE)
    /\ conn[c].mode = "reading"
    /\ \E n \in Recv(up[c]) :
         LET r == Received(conn[c].reader, SubSeq(up[c], 1, n))
         IN  /\ up' = [up EXCEPT ![c] = Drop(@, n)]
             /\ IF ~Complete(r)
                THEN conn' = [conn EXCEPT ![c].reader = r] /\ UNCHANGED executed
                ELSE IF ~Parses(r)
                THEN conn' = [conn EXCEPT ![c].mode = "closed"] /\ UNCHANGED executed
                ELSE \E response \in OnCommand(Message(r)) :
                       /\ conn' = [conn EXCEPT ![c].mode = "writing",
                                               ![c].kind = Message(r).kind,
                                               ![c].reader = Erased(r),
                                               ![c].writer = WriterOf(response)]
                       /\ executed' = [executed EXCEPT ![c] = @ + 1]
    /\ UNCHANGED <<ctl, down>>

\* Mutant: recv() that returns 0 is taken for an incomplete message.
IgnoreEnd(c) == /\ Callback(c, FALSE)
                /\ conn[c].mode = "reading"
                /\ CtlGone(c)
                /\ up[c] = <<>>
                /\ UNCHANGED <<ctl, conn, up, down, executed>>

\* recv() returns 0, or fails: the client is closed.
ReadEnd(c) == /\ Callback(c, FALSE)
              /\ conn[c].mode = "reading"
              /\ CtlGone(c)
              /\ up[c] = <<>>
              /\ conn' = [conn EXCEPT ![c].mode = "closed"]
              /\ UNCHANGED <<ctl, up, down, executed>>

\* Mutant: a terminate is answered and forgotten.
WriteOnly(c) ==
    /\ Callback(c, FALSE)
    /\ conn[c].mode = "writing"
    /\ ~CtlGone(c)
    /\ \E n \in Sendable(conn[c].writer) :
         /\ down' = [down EXCEPT ![c] = @ \o BytesSent(conn[c].writer, n)]
         /\ conn' = [conn EXCEPT ![c].writer = Written(@, n),
                                 ![c].mode = IF WriteEnds(conn[c].writer, n)
                                             THEN "reading" ELSE @]
    /\ UNCHANGED <<ctl, up, executed>>

(***************************************************************************)
(* Client::handleWrite.  Only a terminate whose response was written to    *)
(* the last byte terminates the daemon.  send() fails when taskmasterctl   *)
(* is gone.                                                                *)
(***************************************************************************)
HandleWrite(c) ==
    /\ conn[c].mode = "writing"
    /\ ~CtlGone(c)
    /\ \E n \in Sendable(conn[c].writer) :
         LET ends == WriteEnds(conn[c].writer, n)
         IN  /\ down' = [down EXCEPT ![c] = @ \o BytesSent(conn[c].writer, n)]
             /\ conn' = [conn EXCEPT ![c].writer = Written(@, n),
                                     ![c].mode = IF ends THEN "reading" ELSE @]
             /\ Callback(c, ends /\ conn[c].kind = "terminate")
    /\ UNCHANGED <<ctl, up, executed>>

WriteFails(c) == /\ Callback(c, FALSE)
                 /\ conn[c].mode = "writing"
                 /\ CtlGone(c)
                 /\ conn' = [conn EXCEPT ![c].mode = "closed"]
                 /\ UNCHANGED <<ctl, up, down, executed>>

\* The events that epoll_wait returns: every connection that is ready, and one for
\* the listening socket however many clients wait there.
Ready(c) == \/ conn[c].mode = "writing"
            \/ conn[c].mode = "reading" /\ (up[c] # <<>> \/ CtlGone(c))

Backlog == {c \in Clients : conn[c].mode = "backlog"}

Wake == /\ \E accepted \in IF Backlog = {} THEN {{}} ELSE {{c} : c \in Backlog} :
              WakeUp({c \in Clients : Ready(c)} \cup accepted)
        /\ UNCHANGED <<ctl, conn, up, down, executed>>

\* The steps of main that leave the connections alone.
MainStep == /\ Switch \/ EpollWait \/ EndBatch \/ FinishReload
            /\ UNCHANGED <<ctl, conn, up, down, executed>>

CatchSignal == /\ \E signum \in Caught : SignalHandler(signum)
               /\ UNCHANGED <<ctl, conn, up, down, executed>>

\* A callback or a reload forks a child, which inherits every socket; children end.
Fork == /\ at \in {"batch", "reloading"}
        /\ conn' = [c \in Clients |-> IF conn[c].mode \in {"none", "closed"} THEN conn[c]
                                      ELSE [conn[c] EXCEPT !.held = TRUE]]
        /\ UNCHANGED <<ctl, up, down, executed, loop>>

HeirsEnd(c) == /\ conn[c].held
               /\ conn' = [conn EXCEPT ![c].held = FALSE]
               /\ UNCHANGED <<ctl, up, down, executed, loop>>

\* main leaves its loop: ~Server and ~Client close the sockets of the daemon.
Shutdown == /\ LeaveLoop \/ ThrowOut
            /\ conn' = [c \in Clients |-> IF conn[c].mode = "none" THEN conn[c]
                                          ELSE [conn[c] EXCEPT !.mode = "closed"]]
            /\ UNCHANGED <<ctl, up, down, executed>>

----------------------------------------------------------------------------
CtlStep(c) == \/ Connect(c)
              \/ \E kind \in Kinds : TypeCommand(c, kind)
              \/ LeavePrompt(c)
              \/ Interrupt(c)
              \/ SendCommand(c)
              \/ Await(c)
              \/ AwaitReset(c)
              \/ TellChecker(c)
              \/ Join(c)
              \/ SeeHangup(c)
              \/ RaiseOrReturn(c)
              \/ Raise(c)
              \/ StopWatching(c)
              \/ WatchInterrupted(c)

DaemonStep(c) == \/ OnAccept(c)
                 \/ HandleRead(c)
                 \/ ReadEnd(c)
                 \/ HandleWrite(c)
                 \/ WriteFails(c)

Next == \/ \E c \in Clients : CtlStep(c) \/ DaemonStep(c) \/ HeirsEnd(c)
        \/ Fork
        \/ Wake
        \/ MainStep
        \/ CatchSignal
        \/ Shutdown

Spec == Init /\ [][Next]_vars

(***************************************************************************)
(* Fairness: both threads of taskmasterctl run on, and so does main of the *)
(* daemon, which is woken when a connection is ready.  The user, the       *)
(* signals and the children owe nothing, other events need not come, and   *)
(* main need not be left by an exception.                                  *)
(***************************************************************************)
Fairness ==
    /\ WF_vars(MainStep)
    /\ WF_vars(Wake /\ due' # {})
    /\ WF_vars(Shutdown /\ g_state = "TERMINATED" /\ at = "top")
    /\ \A c \in Clients :
         /\ WF_vars(DaemonStep(c))
         /\ WF_vars(SendCommand(c) \/ Await(c) \/ AwaitReset(c) \/ TellChecker(c) \/ Join(c))
         /\ WF_vars(SeeHangup(c) \/ RaiseOrReturn(c) \/ Raise(c) \/ StopWatching(c))

FairSpec == Spec /\ Fairness

----------------------------------------------------------------------------
IsByte(b) == /\ b.of \in Command \cup Response
             /\ b.at \in 1..(HeaderSize + b.of.size)

WriterOK(w, Messages) == /\ w.message \in Messages \cup {NoMessage}
                         /\ w.sizeWritten \in BOOLEAN
                         /\ w.bytesWritten \in 0..w.message.size

ReaderOK(r) == /\ \A k \in DOMAIN r.buffer : IsByte(r.buffer[k])
               /\ r.size \in {NoSize, CommandSize, ResponseSize}

(***************************************************************************)
(* Types; a writer never claims to have sent more than there is.           *)
(***************************************************************************)
TypeOK ==
    /\ \A c \in Clients :
         /\ ctl[c].pc \in CtlStates
         /\ ctl[c].kind \in Kinds
         /\ ctl[c].asked \in 0..MaxCommands
         /\ ctl[c].answered \in 0..MaxCommands
         /\ ctl[c].checker \in CheckerStates
         /\ ctl[c].exitChecker \in BOOLEAN
         /\ WriterOK(ctl[c].writer, Command)
         /\ ReaderOK(ctl[c].reader)
         /\ conn[c].mode \in ConnStates
         /\ conn[c].kind \in Kinds
         /\ conn[c].held \in BOOLEAN
         /\ WriterOK(conn[c].writer, Response)
         /\ ReaderOK(conn[c].reader)
         /\ \A k \in DOMAIN up[c] : IsByte(up[c][k])
         /\ \A k \in DOMAIN down[c] : IsByte(down[c][k])
         /\ executed[c] \in 0..MaxCommands
    /\ LoopTypeOK
    /\ due \subseteq Clients

(***************************************************************************)
(* A taskmasterctl at its prompt has nothing in flight: no byte of a       *)
(* command or a response is left in a socket or in a ProtoReader, where    *)
(* the next message would be appended to it.                               *)
(***************************************************************************)
NothingInFlight ==
    \A c \in Clients : ctl[c].pc = "prompt" =>
        /\ up[c] = <<>>
        /\ down[c] = <<>>
        /\ ctl[c].reader = NewReader
        /\ conn[c].reader = NewReader

(***************************************************************************)
(* The connection implements Rpc: whatever pieces the messages come in,    *)
(* each command is executed once at most and the response that main takes  *)
(* is the one to the command it sent.                                      *)
(***************************************************************************)
CallState(c) ==
    CASE ctl[c].pc \in {"connect", "prompt", "succeeded", "join0"} -> "idle"
      [] ctl[c].pc \in {"send", "await"} -> "calling"
      [] ctl[c].pc \in {"failed", "join1"} \cup Ended -> "left"

R == INSTANCE Rpc WITH client   <- [c \in Clients |-> CallState(c)],
                       asked    <- [c \in Clients |-> ctl[c].asked],
                       answered <- [c \in Clients |-> ctl[c].answered]

ImplementsRpc == R!Spec

(***************************************************************************)
(* taskmasterctl waits for no response and for no thread for ever: when    *)
(* the daemon goes away under it, the loop of awaitDaemonResponse, which   *)
(* takes the end of the stream for a message yet to come, is ended by the  *)
(* signal of the other thread.  Two windows are left: an interrupt ended   *)
(* the watch before, or a child that outlives the daemon still holds the   *)
(* connection, so that neither the end nor a hang-up comes.                *)
(***************************************************************************)
Unwatched(c) == ctl[c].pc = "await" /\ ctl[c].checker = "interrupted"
Outlived(c) == ctl[c].pc = "await" /\ conn[c].mode = "closed" /\ conn[c].held

WaitsEnd ==
    \A c \in Clients :
        LET waits == ctl[c].pc \in {"await", "join0", "join1"}
        IN  waits ~> (~waits \/ Unwatched(c) \/ Outlived(c))

(***************************************************************************)
(* The daemon closes the connection of a taskmasterctl that is gone,       *)
(* wherever in an exchange it left.                                        *)
(***************************************************************************)
GoneIsClosed ==
    \A c \in Clients : (CtlGone(c) /\ conn[c].mode # "none") ~> conn[c].mode = "closed"

(***************************************************************************)
(* A terminate that taskmasterctl saw succeed stops the daemon, unless a   *)
(* SIGHUP that came before the end of the batch undid it.                  *)
(***************************************************************************)
TerminateTakesEffect ==
    \A c \in Clients : ctl[c].pc = "succeeded" ~> (~Serving \/ lost)

(***************************************************************************)
(* CheckSocketState.cpp: "If a terminate command has been sent then the    *)
(* main thread is already waiting for this thread to end".  When the       *)
(* daemon answered a terminate and hung up, and this thread notices, main  *)
(* has the answer and is joining.                                          *)
(***************************************************************************)
Answered(c) == executed[c] = ctl[c].asked /\ conn[c].writer = IdleWriter

TerminateIsJoining ==
    \A c \in Clients :
        ctl[c].checker = "hangup" /\ ctl[c].kind = "terminate" /\ Answered(c)
            => ctl[c].pc \in {"join0", "join1"} \cup Ended
=============================================================================

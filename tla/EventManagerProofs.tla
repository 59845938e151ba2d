------------------------- MODULE EventManagerProofs -------------------------
(***************************************************************************)
(* Proofs about EventManager, for any number of clients and processes.     *)
(*                                                                         *)
(* A handler is a chain of operations on the part of the state that Daemon *)
(* gathers, so the invariant is stated of such a record d, together with   *)
(* the clients, and each operation keeps it.  It knows the descriptors by  *)
(* two sets: what each object holds, and what each object waits for.       *)
(***************************************************************************)
EXTENDS EventManager, FiniteSetTheorems, TLAPS

Timers == {ATimer(p) : p \in Procs}

Callback == [on : {"read", "write"}, of : Objects]
Event == [fd : Nat, on : {"read", "write"}, of : Objects, stale : BOOLEAN]

Proc == [phase : {"down", "starting", "running", "stopping"}, fd : Nat,
         child : {"none", "alive", "killed", "dead"},
         timer : {"none", "stopped", "running"}, tfd : Nat, fired : BOOLEAN,
         stops : 0..MaxStops]

\* While its command is executed a client holds its descriptor and waits for nothing.
Conn == [mode : {"none", "backlog", "reading", "executing", "writing", "closed"},
         fd : Nat, input : BOOLEAN, gone : BOOLEAN]

\* Held, Waiting and IsReady for any processes and clients.
HeldIn(ps, cs) ==
    {<<TheServer, ServerFd>>}
    \cup {<<AClient(c), cs[c].fd>> : c \in {c \in Clients : cs[c].fd # NoFd}}
    \cup {<<ATimer(p), ps[p].tfd>> : p \in {p \in Procs : ps[p].tfd # NoFd}}
    \cup {<<AProcess(p), ps[p].fd>> : p \in {p \in Procs : ps[p].fd # NoFd}}

WaitingIn(ps, cs) ==
    {<<ServerFd, "read", TheServer>>}
    \cup {<<cs[c].fd, "read", AClient(c)>> : c \in {c \in Clients : cs[c].mode = "reading"}}
    \cup {<<cs[c].fd, "write", AClient(c)>> : c \in {c \in Clients : cs[c].mode = "writing"}}
    \cup {<<ps[p].tfd, "read", ATimer(p)>> : p \in {p \in Procs : ps[p].timer = "running"}}
    \cup {<<ps[p].fd, "read", AProcess(p)>> : p \in {p \in Procs : ps[p].child # "none"}}

ReadyIn(ps, cs, object) ==
    \/ object = TheServer /\ \E c \in Clients : cs[c].mode = "backlog"
    \/ \E c \in Clients :
          object = AClient(c) /\ (cs[c].mode = "writing" \/ cs[c].input \/ cs[c].gone)
    \/ \E p \in Procs : \/ object = ATimer(p) /\ ps[p].fired
                        \/ object = AProcess(p) /\ ps[p].child = "dead"

----------------------------------------------------------------------------
(***************************************************************************)
(* The parts of the invariant: types; which objects have a descriptor; no  *)
(* two objects share one; the open ones that nobody holds are counted; the *)
(* maps say who waits, except for a Timer that threw; the events left tell *)
(* the truth about descriptors that were not closed since.                 *)
(***************************************************************************)
Shaped(d) == d \in [open : {d.open}, callbacks : {d.callbacks}, batch : {d.batch},
                    procs : {d.procs}, undefined : {d.undefined}]

Typed(d, cs) ==
    /\ Shaped(d)
    /\ d.open \subseteq Nat
    /\ DOMAIN d.callbacks \subseteq Nat
    /\ \A fd \in DOMAIN d.callbacks : d.callbacks[fd] \in Callback
    /\ d.batch \subseteq Event
    /\ d.procs \in [Procs -> Proc]
    /\ d.undefined \in BOOLEAN
    /\ cs \in [Clients -> Conn]

Linked(ps, cs) ==
    /\ \A p \in Procs : /\ ps[p].tfd # NoFd <=> ps[p].timer # "none"
                        /\ ps[p].child = "none" <=> ps[p].phase = "down"
                        /\ ps[p].child # "none" => ps[p].fd # NoFd
    /\ \A c \in Clients : cs[c].fd # NoFd <=> cs[c].mode \in {"reading", "executing", "writing"}

Fds(held) == {h[2] : h \in held}

Owned(held, fds) ==
    /\ IsFiniteSet(held)
    /\ \A g, h \in held : g[2] = h[2] => g = h
    /\ \A h \in held : h[2] \in fds

Orphans(held, fds) == fds \ Fds(held)

Counted(held, fds, ps, n) ==
    /\ IsFiniteSet(Orphans(held, fds))
    /\ Cardinality(Orphans(held, fds)) + Cardinality({p \in Procs : ps[p].fd # NoFd}) <= n

Mapped(maps, held, waiting, thrown) ==
    /\ \A fd \in DOMAIN maps :
          /\ <<maps[fd].of, fd>> \in held
          /\ \/ <<fd, maps[fd].on, maps[fd].of>> \in waiting
             \/ maps[fd].of \in thrown /\ maps[fd].on = "read"
    /\ \A w \in waiting : w[1] \in DOMAIN maps /\ maps[w[1]] = [on |-> w[2], of |-> w[3]]

\* The event is true of the state, unless it is stale.
TrueEvent(e, d, cs) ==
    /\ e.stale => e.of \in Timers
    /\ ~e.stale /\ ~d.undefined => /\ e.fd \in DOMAIN d.callbacks
                                   /\ d.callbacks[e.fd] = [on |-> e.on, of |-> e.of]
                                   /\ ReadyIn(d.procs, cs, e.of)

Traced(d, cs) ==
    /\ \A e \in d.batch : TrueEvent(e, d, cs)
    /\ \A e, g \in d.batch : e.fd = g.fd => e = g

Good(d, cs, thrown, n) ==
    /\ Typed(d, cs)
    /\ Linked(d.procs, cs)
    /\ Owned(HeldIn(d.procs, cs), d.open)
    /\ n \in Nat
    /\ Counted(HeldIn(d.procs, cs), d.open, d.procs, n)
    /\ ~d.undefined =>
          Mapped(d.callbacks, HeldIn(d.procs, cs), WaitingIn(d.procs, cs), thrown)
    /\ d.undefined => thrown # {}
    /\ thrown \subseteq Timers
    /\ Traced(d, cs)

\* The timers that may be in the maps though they are STOPPED.
Thrown == IF stray THEN Timers ELSE {}

EventInv ==
    /\ Good(Daemon, conns, Thrown, starts)
    /\ Executing => current = NoEvent
    /\ starts <= MaxStarts
    /\ commands \in 0..MaxCommands
    /\ current # NoEvent => /\ current \in Event
                            /\ TrueEvent(current, Daemon, conns)
                            /\ \A e \in batch : e.fd # current.fd

----------------------------------------------------------------------------
(***************************************************************************)
(* The operations on d, field by field.                                    *)
(***************************************************************************)
Staled(events, fd) == {[e EXCEPT !.stale = @ \/ e.fd = fd] : e \in events}
Without(maps, fd) == [f \in DOMAIN maps \ {fd} |-> maps[f]]
With(maps, fd, on, object) ==
    [f \in DOMAIN maps \cup {fd} |-> IF f = fd THEN [on |-> on, of |-> object] ELSE maps[f]]

\* d has these fields.
Is(d, fds, maps, events, ps, u) ==
    /\ Shaped(d)
    /\ d.open = fds /\ d.callbacks = maps /\ d.batch = events /\ d.procs = ps /\ d.undefined = u

LEMMA OpenedIs ==
    ASSUME NEW d, Shaped(d), NEW fd
    PROVE  Is(Opened(d, fd), d.open \cup {fd}, d.callbacks, d.batch, d.procs, d.undefined)
    BY DEF Shaped, Opened, Is

LEMMA CloseIs ==
    ASSUME NEW d, Shaped(d), NEW fd
    PROVE  Is(Close(d, fd), d.open \ {fd}, d.callbacks, Staled(d.batch, fd), d.procs,
              d.undefined \/ fd \in DOMAIN d.callbacks)
PROOF
    <1> DEFINE u == d.undefined \/ fd \in DOMAIN d.callbacks
               b == Staled(d.batch, fd)
    <1>1. Close(d, fd) = [d EXCEPT !.open = d.open \ {fd}, !.undefined = u, !.batch = b]
        BY DEF Close, Staled
    <1> HIDE DEF u, b
    <1>2. Is([d EXCEPT !.open = d.open \ {fd}, !.undefined = u, !.batch = b],
             d.open \ {fd}, d.callbacks, b, d.procs, u)
        BY DEF Shaped, Is
    <1> QED
        BY <1>1, <1>2 DEF u, b

LEMMA RegisterEventIs ==
    ASSUME NEW d, Shaped(d), NEW fd, NEW on, NEW object
    PROVE  Is(RegisterEvent(d, fd, on, object), d.open, With(d.callbacks, fd, on, object),
              d.batch, d.procs, d.undefined)
    BY DEF Shaped, RegisterEvent, With, Is

LEMMA UnregisterEventIs ==
    ASSUME NEW d, Shaped(d), NEW fd
    PROVE  Is(UnregisterEvent(d, fd), d.open, Without(d.callbacks, fd), d.batch, d.procs,
              d.undefined)
    BY DEF Shaped, UnregisterEvent, Without, Is

LEMMA DestroyTimerIs ==
    ASSUME NEW d, Shaped(d), d.procs \in [Procs -> Proc], NEW p \in Procs
    PROVE  LET q == d.procs[p]
               maps == IF q.timer = "running" THEN Without(d.callbacks, q.tfd) ELSE d.callbacks
           IN  IF q.timer = "none" THEN DestroyTimer(d, p) = d
               ELSE Is(DestroyTimer(d, p), d.open \ {q.tfd}, maps, Staled(d.batch, q.tfd),
                       [d.procs EXCEPT ![p] = [q EXCEPT !.timer = "none", !.tfd = NoFd]],
                       d.undefined \/ q.tfd \in DOMAIN maps)
PROOF
    <1> DEFINE q == d.procs[p]
               known == IF q.timer = "running" THEN UnregisterEvent(d, q.tfd) ELSE d
               maps == IF q.timer = "running" THEN Without(d.callbacks, q.tfd) ELSE d.callbacks
               u == d.undefined \/ q.tfd \in DOMAIN maps
               closed == Close(known, q.tfd)
    <1>1. Is(known, d.open, maps, d.batch, d.procs, d.undefined)
        BY UnregisterEventIs DEF Is
    <1> HIDE DEF known, maps
    <1>2. Is(closed, d.open \ {q.tfd}, maps, Staled(d.batch, q.tfd), d.procs, u)
        BY <1>1, CloseIs DEF Is
    <1> HIDE DEF closed, u
    <1>3. Is([closed EXCEPT !.procs[p].timer = "none", !.procs[p].tfd = NoFd],
             d.open \ {q.tfd}, maps, Staled(d.batch, q.tfd),
             [d.procs EXCEPT ![p] = [q EXCEPT !.timer = "none", !.tfd = NoFd]], u)
        BY <1>2 DEF Proc, Is, Shaped
    <1>4. DestroyTimer(d, p) = IF q.timer = "none" THEN d
                               ELSE [closed EXCEPT !.procs[p].timer = "none", !.procs[p].tfd = NoFd]
        BY DEF DestroyTimer, closed, known
    <1> QED
        BY <1>3, <1>4 DEF maps, u

----------------------------------------------------------------------------
(***************************************************************************)
(* Who holds what, and who waits for what, when one process changes, or    *)
(* one client.                                                             *)
(***************************************************************************)
USE DEF TheServer, AClient, ATimer, AProcess, Nobody, NoFd, ServerFd

LEMMA HeldByProc ==
    ASSUME NEW ps \in [Procs -> Proc], NEW cs, NEW p \in Procs, NEW q \in Proc, NEW h
    PROVE  h \in HeldIn([ps EXCEPT ![p] = q], cs) <=>
              \/ h \in HeldIn(ps, cs) /\ h[1] # ATimer(p) /\ h[1] # AProcess(p)
              \/ h = <<ATimer(p), q.tfd>> /\ q.tfd # NoFd
              \/ h = <<AProcess(p), q.fd>> /\ q.fd # NoFd
    BY DEF HeldIn

LEMMA WaitingProc ==
    ASSUME NEW ps \in [Procs -> Proc], NEW cs, NEW p \in Procs, NEW q \in Proc, NEW w
    PROVE  w \in WaitingIn([ps EXCEPT ![p] = q], cs) <=>
              \/ w \in WaitingIn(ps, cs) /\ w[3] # ATimer(p) /\ w[3] # AProcess(p)
              \/ w = <<q.tfd, "read", ATimer(p)>> /\ q.timer = "running"
              \/ w = <<q.fd, "read", AProcess(p)>> /\ q.child # "none"
    BY DEF WaitingIn

LEMMA HeldByClient ==
    ASSUME NEW ps, NEW cs \in [Clients -> Conn], NEW c \in Clients, NEW q \in Conn, NEW h
    PROVE  h \in HeldIn(ps, [cs EXCEPT ![c] = q]) <=>
              \/ h \in HeldIn(ps, cs) /\ h[1] # AClient(c)
              \/ h = <<AClient(c), q.fd>> /\ q.fd # NoFd
    BY DEF HeldIn

LEMMA WaitingClient ==
    ASSUME NEW ps, NEW cs \in [Clients -> Conn], NEW c \in Clients, NEW q \in Conn, NEW w
    PROVE  w \in WaitingIn(ps, [cs EXCEPT ![c] = q]) <=>
              \/ w \in WaitingIn(ps, cs) /\ w[3] # AClient(c)
              \/ w = <<q.fd, "read", AClient(c)>> /\ q.mode = "reading"
              \/ w = <<q.fd, "write", AClient(c)>> /\ q.mode = "writing"
    BY DEF WaitingIn

\* Who waits holds the descriptor that he waits on.
LEMMA WaitingHold ==
    ASSUME NEW ps, NEW cs, Linked(ps, cs)
    PROVE  /\ \A w \in WaitingIn(ps, cs) : /\ w = <<w[1], w[2], w[3]>>
                                           /\ <<w[3], w[1]>> \in HeldIn(ps, cs)
           /\ \A v, w \in WaitingIn(ps, cs) : v[3] = w[3] => v = w
           /\ \A h \in HeldIn(ps, cs) : h = <<h[1], h[2]>>
           /\ \A g, h \in HeldIn(ps, cs) : g[1] = h[1] => g = h
PROOF
    <1>1. \A g, h \in HeldIn(ps, cs) : g[1] = h[1] => g = h
        BY DEF HeldIn
    <1> QED
        BY <1>1 DEF WaitingIn, HeldIn, Linked

----------------------------------------------------------------------------
(***************************************************************************)
(* A descriptor that is released, acquired, or left open by its holder.    *)
(***************************************************************************)
LEMMA ReleaseOwned ==
    ASSUME NEW held, NEW fds, Owned(held, fds), NEW g \in held
    PROVE  /\ Owned(held \ {g}, fds \ {g[2]})
           /\ Orphans(held \ {g}, fds \ {g[2]}) = Orphans(held, fds)
PROOF
    <1>1. IsFiniteSet(held \ {g})
        BY FS_RemoveElement DEF Owned
    <1>2. \A h \in held \ {g} : h[2] \in fds \ {g[2]}
        BY DEF Owned
    <1>3. Fds(held) = Fds(held \ {g}) \cup {g[2]}
        BY DEF Fds
    <1> QED
        BY <1>1, <1>2, <1>3 DEF Owned, Orphans

LEMMA AcquireOwned ==
    ASSUME NEW held, NEW fds, Owned(held, fds), NEW g, g[2] \notin fds
    PROVE  /\ Owned(held \cup {g}, fds \cup {g[2]})
           /\ Orphans(held \cup {g}, fds \cup {g[2]}) = Orphans(held, fds)
PROOF
    <1>1. IsFiniteSet(held \cup {g})
        BY FS_AddElement DEF Owned
    <1>2. Fds(held \cup {g}) = Fds(held) \cup {g[2]}
        BY DEF Fds
    <1>3. \A h \in held : h[2] # g[2]
        BY DEF Owned
    <1>4. Owned(held \cup {g}, fds \cup {g[2]})
        BY <1>1, <1>3 DEF Owned
    <1> QED
        BY <1>2, <1>4 DEF Orphans

LEMMA AbandonOwned ==
    ASSUME NEW held, NEW fds, Owned(held, fds), NEW g \in held
    PROVE  /\ Owned(held \ {g}, fds)
           /\ Orphans(held \ {g}, fds) = Orphans(held, fds) \cup {g[2]}
PROOF
    <1>1. IsFiniteSet(held \ {g})
        BY FS_RemoveElement DEF Owned
    <1> QED
        BY <1>1 DEF Owned, Orphans, Fds

(***************************************************************************)
(* The maps after unregisterEvent and registerEvent.                       *)
(***************************************************************************)
LEMMA UnregisterMapped ==
    ASSUME NEW ps, NEW cs, Linked(ps, cs), NEW fds, Owned(HeldIn(ps, cs), fds),
           NEW maps, NEW thrown, Mapped(maps, HeldIn(ps, cs), WaitingIn(ps, cs), thrown),
           NEW g \in HeldIn(ps, cs),
           NEW waiting, \A w : w \in waiting <=> w \in WaitingIn(ps, cs) /\ w[3] # g[1]
    PROVE  Mapped(Without(maps, g[2]), HeldIn(ps, cs) \ {g}, waiting, thrown)
PROOF
    <1> DEFINE H == HeldIn(ps, cs)
               W == WaitingIn(ps, cs)
    <1>1. /\ \A w \in W : /\ w = <<w[1], w[2], w[3]>>
                          /\ <<w[3], w[1]>> \in H
          /\ \A h \in H : h = <<h[1], h[2]>>
          /\ \A h \in H : h[1] = g[1] => h = g
          /\ \A h \in H : h[2] = g[2] => h = g
          /\ Mapped(maps, H, W, thrown)
        BY WaitingHold DEF Owned
    <1> HIDE DEF H, W
    <1>2. \A w \in W : w[3] = g[1] <=> w[1] = g[2]
        <2> TAKE w \in W
        <2> DEFINE h == <<w[3], w[1]>>
        <2>1. h \in H /\ h[1] = w[3] /\ h[2] = w[1]
            BY <1>1
        <2> QED
            BY <1>1, <2>1
    <1>3. \A w : w \in waiting <=> w \in W /\ w[3] # g[1]
        BY DEF W
    <1>4. Mapped(Without(maps, g[2]), H \ {g}, waiting, thrown)
        BY ONLY <1>1, <1>2, <1>3 DEF Mapped, Without
    <1> QED
        BY <1>4 DEF H, W

LEMMA MappedInMore ==
    ASSUME NEW maps, NEW held, NEW more, held \subseteq more, NEW waiting,
           NEW thrown, Mapped(maps, held, waiting, thrown)
    PROVE  Mapped(maps, more, waiting, thrown)
    BY DEF Mapped

LEMMA RegisterMapped ==
    ASSUME NEW held, NEW waiting, NEW maps, NEW thrown, Mapped(maps, held, waiting, thrown),
           NEW fd, fd \notin DOMAIN maps, NEW on, NEW object
    PROVE  Mapped(With(maps, fd, on, object), held \cup {<<object, fd>>},
                  waiting \cup {<<fd, on, object>>}, thrown)
    BY DEF Mapped, With

----------------------------------------------------------------------------
\* A close leaves the events as they are but for their staleness.
LEMMA StaledIs ==
    ASSUME NEW events, events \subseteq Event, NEW fd
    PROVE  /\ Staled(events, fd) \subseteq Event
           /\ \A e \in Staled(events, fd) :
                 \E g \in events : /\ e.fd = g.fd /\ e.on = g.on /\ e.of = g.of
                                   /\ e.stale = (g.stale \/ g.fd = fd)
           /\ (\A e, g \in events : e.fd = g.fd => e = g) =>
                 \A e, g \in Staled(events, fd) : e.fd = g.fd => e = g
PROOF
    <1>1. ASSUME NEW e \in Staled(events, fd)
          PROVE  \E g \in events : /\ e = [g EXCEPT !.stale = g.stale \/ g.fd = fd]
                                   /\ e \in Event
                                   /\ e.fd = g.fd /\ e.on = g.on /\ e.of = g.of
                                   /\ e.stale = (g.stale \/ g.fd = fd)
        <2>1. PICK g \in events : e = [g EXCEPT !.stale = g.stale \/ g.fd = fd]
            BY DEF Staled
        <2>2. (g.stale \/ g.fd = fd) \in BOOLEAN
            OBVIOUS
        <2>3. g \in Event
            OBVIOUS
        <2> QED
            BY <2>1, <2>2, <2>3 DEF Event
    <1> QED
        BY <1>1

\* The maps name the holder of a descriptor.
LEMMA CallbackOf ==
    ASSUME NEW held, NEW fds, Owned(held, fds),
           NEW maps, NEW waiting, NEW thrown, Mapped(maps, held, waiting, thrown),
           NEW object, NEW fd \in DOMAIN maps, <<object, fd>> \in held
    PROVE  maps[fd].of = object
PROOF
    <1> DEFINE h == <<maps[fd].of, fd>>
               g == <<object, fd>>
    <1>1. h \in held /\ g \in held /\ h[2] = g[2] /\ h[1] = maps[fd].of /\ g[1] = object
        BY DEF Mapped
    <1> HIDE DEF h, g
    <1>2. h = g
        BY <1>1 DEF Owned
    <1> QED
        BY <1>1, <1>2

----------------------------------------------------------------------------
(***************************************************************************)
(* Timer::~Timer.                                                          *)
(***************************************************************************)
LEMMA DestroyTimerGood ==
    ASSUME NEW d, NEW cs, NEW thrown, NEW n, Good(d, cs, thrown, n), NEW p \in Procs,
           ~d.undefined \/ d.procs[p].timer = "none"
    PROVE  LET k == DestroyTimer(d, p)
           IN  /\ Good(k, cs, thrown, n)
               /\ \A x \in Procs \ {p} : k.procs[x] = d.procs[x]
               /\ k.procs[p].timer = "none" /\ k.procs[p].fd = d.procs[p].fd
               /\ k.procs[p].child = d.procs[p].child /\ k.procs[p].phase = d.procs[p].phase
               /\ k.procs[p].stops = d.procs[p].stops
               /\ k.open = d.open \ (IF d.procs[p].timer = "none" THEN {} ELSE {d.procs[p].tfd})
               /\ \A e \in k.batch : \E g \in d.batch : e.fd = g.fd
PROOF
    <1> DEFINE k == DestroyTimer(d, p)
               q == d.procs[p]
               r == [q EXCEPT !.timer = "none", !.tfd = NoFd]
               t == q.tfd
               H == HeldIn(d.procs, cs)
               W == WaitingIn(d.procs, cs)
               maps == IF q.timer = "running" THEN Without(d.callbacks, t) ELSE d.callbacks
    <1>0. /\ d.procs \in [Procs -> Proc] /\ q \in Proc /\ Shaped(d) /\ Typed(d, cs)
          /\ Linked(d.procs, cs) /\ Owned(H, d.open)
        BY DEF Good, Typed
    <1>1. CASE q.timer = "none"
        <2>1. k = d
            BY <1>0, <1>1, DestroyTimerIs
        <2> QED
            BY <1>1, <2>1
    <1>2. CASE q.timer # "none"
        <2>1. Is(k, d.open \ {t}, maps, Staled(d.batch, t), [d.procs EXCEPT ![p] = r],
                 d.undefined \/ t \in DOMAIN maps)
            BY <1>0, <1>2, DestroyTimerIs
        <2> HIDE DEF k
        <2>2. /\ r \in Proc /\ r.timer = "none" /\ r.tfd = NoFd /\ r.fd = q.fd
              /\ r.child = q.child /\ r.phase = q.phase /\ r.fired = q.fired
            BY <1>0 DEF Proc
        <2> DEFINE ps == [d.procs EXCEPT ![p] = r]
        <2>3. ps \in [Procs -> Proc] /\ ps[p] = r /\ \A x \in Procs : x # p => ps[x] = d.procs[x]
            BY <1>0, <2>2
        <2>4. t # NoFd /\ <<ATimer(p), t>> \in H
            BY <1>0, <1>2 DEF Linked, HeldIn
        <2>5. HeldIn(ps, cs) = H \ {<<ATimer(p), t>>}
            BY <1>0, <2>2, HeldByProc DEF HeldIn
        <2>6. WaitingIn(ps, cs) = {w \in W : w[3] # ATimer(p)}
            BY <1>0, <2>2, WaitingProc DEF WaitingIn
        <2>7. Linked(ps, cs)
            BY <1>0, <2>2, <2>3 DEF Linked
        <2>8. /\ Owned(HeldIn(ps, cs), d.open \ {t})
              /\ Orphans(HeldIn(ps, cs), d.open \ {t}) = Orphans(H, d.open)
            <3> DEFINE g == <<ATimer(p), t>>
            <3>1. g \in H /\ g[2] = t
                BY <2>4
            <3> HIDE DEF g
            <3>2. Owned(H \ {g}, d.open \ {t}) /\ Orphans(H \ {g}, d.open \ {t}) = Orphans(H, d.open)
                BY <1>0, <3>1, ReleaseOwned
            <3> QED
                BY <2>5, <3>2 DEF g
        <2>9. Counted(HeldIn(ps, cs), d.open \ {t}, ps, n)
            <3>1. {x \in Procs : ps[x].fd # NoFd} = {x \in Procs : d.procs[x].fd # NoFd}
                BY <2>2, <2>3
            <3> QED
                BY <2>8, <3>1 DEF Good, Counted
        <2>10. ASSUME t \notin DOMAIN maps
               PROVE  Mapped(maps, HeldIn(ps, cs), WaitingIn(ps, cs), thrown)
            <3> DEFINE g == <<ATimer(p), t>>
            <3>1. g \in H /\ g[2] = t /\ g[1] = ATimer(p)
                BY <2>4
            <3> HIDE DEF g
            <3>2. Mapped(d.callbacks, H, W, thrown)
                BY <1>2 DEF Good
            <3>3. Mapped(Without(d.callbacks, t), H \ {g}, WaitingIn(ps, cs), thrown)
                BY <1>0, <2>6, <3>1, <3>2, UnregisterMapped
            <3>4. CASE q.timer = "running"
                BY <2>5, <2>6, <3>3, <3>4 DEF g
            <3>5. CASE q.timer # "running"
                <4>1. WaitingIn(ps, cs) \subseteq W
                    BY <2>6
                <4>2. W \subseteq WaitingIn(ps, cs)
                    BY <2>6, <3>5 DEF WaitingIn
                <4>3. t \notin DOMAIN d.callbacks
                    BY <2>10, <3>5
                <4>4. W = WaitingIn(ps, cs)
                    BY <4>1, <4>2
                <4>5. \A fd \in DOMAIN d.callbacks : <<d.callbacks[fd].of, fd>> \in HeldIn(ps, cs)
                    BY <2>5, <3>2, <4>3 DEF Mapped
                <4> QED
                    BY <3>2, <3>5, <4>4, <4>5 DEF Mapped
            <3> QED
                BY <3>4, <3>5
        <2>11. t \in DOMAIN maps => thrown # {}
            <3>1. CASE q.timer = "running"
                BY <3>1 DEF Without
            <3>2. CASE q.timer # "running"
                <4>1. ~\E on : <<t, on, ATimer(p)>> \in W
                    BY <3>2 DEF WaitingIn
                <4> DEFINE object == ATimer(p)
                <4>2. /\ <<object, t>> \in H /\ Mapped(d.callbacks, H, W, thrown)
                      /\ ~\E on : <<t, on, object>> \in W
                    BY <1>2, <2>4, <4>1 DEF Good
                <4> HIDE DEF object
                <4>3. ASSUME t \in DOMAIN d.callbacks
                      PROVE  thrown # {}
                    <5>1. d.callbacks[t].of = object
                        BY <1>0, <4>2, <4>3, CallbackOf
                    <5> QED
                        BY <4>2, <4>3, <5>1 DEF Mapped
                <4> QED
                    BY <3>2, <4>3
            <3> QED
                BY <3>1, <3>2
        <2>12. Traced(k, cs)
            <3>1. ASSUME NEW e \in k.batch
                  PROVE  TrueEvent(e, k, cs)
                <4>1. PICK g \in d.batch : /\ e.fd = g.fd /\ e.on = g.on /\ e.of = g.of
                                           /\ e.stale = (g.stale \/ g.fd = t)
                    BY <1>0, <2>1, <3>1, StaledIs DEF Is, Typed
                <4>2. TrueEvent(g, d, cs) /\ g \in Event
                    BY <1>0, <4>1 DEF Good, Traced, Typed
                <4>3. ~g.stale /\ g.fd = t => g.of = ATimer(p)
                    <5> DEFINE object == ATimer(p)
                    <5>1. <<object, t>> \in H /\ ~d.undefined /\ Mapped(d.callbacks, H, W, thrown)
                        BY <1>2, <2>4 DEF Good
                    <5> HIDE DEF object
                    <5>2. t \in DOMAIN d.callbacks => d.callbacks[t].of = object
                        BY <1>0, <5>1, CallbackOf
                    <5>3. ~g.stale /\ g.fd = t => g.of = object
                        BY <4>2, <5>1, <5>2 DEF TrueEvent
                    <5> QED
                        BY <5>3 DEF object
                <4>4. ReadyIn(d.procs, cs, g.of) => ReadyIn(ps, cs, g.of)
                    BY <2>2, <2>3 DEF ReadyIn
                <4>5. \A f \in DOMAIN d.callbacks : f # t => f \in DOMAIN maps /\ maps[f] = d.callbacks[f]
                    BY DEF Without
                <4> HIDE DEF maps
                <4>6. e.stale => e.of \in Timers
                    BY <4>1, <4>2, <4>3 DEF TrueEvent, Timers
                <4>7. ASSUME ~e.stale, ~k.undefined
                      PROVE  /\ e.fd \in DOMAIN k.callbacks
                             /\ k.callbacks[e.fd] = [on |-> e.on, of |-> e.of]
                             /\ ReadyIn(k.procs, cs, e.of)
                    <5>1. ~g.stale /\ g.fd # t
                        BY <4>1, <4>7
                    <5>2. ~d.undefined /\ k.callbacks = maps /\ k.procs = ps
                        BY <1>2, <2>1 DEF Is
                    <5> QED
                        BY <4>1, <4>2, <4>4, <4>5, <5>1, <5>2 DEF TrueEvent
                <4> QED
                    BY <4>6, <4>7 DEF TrueEvent
            <3>2. \A e, g \in d.batch : e.fd = g.fd => e = g
                BY DEF Good, Traced
            <3> QED
                BY <1>0, <2>1, <3>1, <3>2, StaledIs DEF Traced, Is, Typed
        <2>13. Typed(k, cs)
            <3>1. DOMAIN maps \subseteq DOMAIN d.callbacks /\ \A f \in DOMAIN maps : maps[f] = d.callbacks[f]
                BY DEF Without
            <3> HIDE DEF maps
            <3>2. k.undefined \in BOOLEAN
                BY <2>1 DEF Is
            <3> QED
                BY <1>0, <2>1, <2>3, <3>1, <3>2, StaledIs DEF Typed, Is
        <2>14. Good(k, cs, thrown, n)
            BY <1>2, <2>1, <2>7, <2>8, <2>9, <2>10, <2>11, <2>12, <2>13 DEF Good, Is
        <2>15. \A e \in k.batch : \E g \in d.batch : e.fd = g.fd
            BY <1>0, <2>1, StaledIs DEF Is, Typed
        <2> QED
            BY <1>2, <2>1, <2>2, <2>3, <2>14, <2>15 DEF k, Is
    <1> QED
        BY <1>1, <1>2

----------------------------------------------------------------------------
(***************************************************************************)
(* The changes that the handlers make, by what they do to the two sets.    *)
(***************************************************************************)
ProcsWithFd(ps) == {p \in Procs : ps[p].fd # NoFd}

LEMMA ProcsWithFdFinite ==
    ASSUME NEW ps
    PROVE  IsFiniteSet(ProcsWithFd(ps)) /\ Cardinality(ProcsWithFd(ps)) \in Nat
PROOF
    <1>1. ProcsWithFd(ps) \in SUBSET Procs
        BY DEF ProcsWithFd
    <1> QED
        BY <1>1, EventAssumption, FS_Subset, FS_CardinalityType

\* An event that is not stale is of the holder of its descriptor, who waits for it.
LEMMA EventOfHolder ==
    ASSUME NEW d, NEW cs, NEW thrown, NEW n, Good(d, cs, thrown, n), ~d.undefined,
           NEW e \in d.batch, ~e.stale
    PROVE  /\ \E h \in HeldIn(d.procs, cs) : h[1] = e.of /\ h[2] = e.fd
           /\ \/ \E w \in WaitingIn(d.procs, cs) : w[1] = e.fd /\ w[2] = e.on /\ w[3] = e.of
              \/ e.of \in thrown
           /\ e.fd \in DOMAIN d.callbacks
           /\ d.callbacks[e.fd] = [on |-> e.on, of |-> e.of]
           /\ e.fd \in d.open
PROOF
    <1>1. /\ e.fd \in DOMAIN d.callbacks
          /\ d.callbacks[e.fd] = [on |-> e.on, of |-> e.of]
        BY DEF Good, Traced, TrueEvent
    <1>2. /\ <<e.of, e.fd>> \in HeldIn(d.procs, cs)
          /\ <<e.fd, e.on, e.of>> \in WaitingIn(d.procs, cs) \/ e.of \in thrown
        BY <1>1 DEF Good, Mapped
    <1>3. \E h \in HeldIn(d.procs, cs) : h[1] = e.of /\ h[2] = e.fd
        BY <1>2
    <1>4. \/ \E w \in WaitingIn(d.procs, cs) : w[1] = e.fd /\ w[2] = e.on /\ w[3] = e.of
          \/ e.of \in thrown
        BY <1>2
    <1> QED
        BY <1>1, <1>3, <1>4 DEF Good, Owned

LEMMA MapsOpen ==
    ASSUME NEW d, NEW cs, NEW thrown, NEW n, Good(d, cs, thrown, n), ~d.undefined
    PROVE  DOMAIN d.callbacks \subseteq d.open
PROOF
    <1> SUFFICES ASSUME NEW fd \in DOMAIN d.callbacks
                 PROVE  fd \in d.open
        OBVIOUS
    <1> DEFINE g == <<d.callbacks[fd].of, fd>>
    <1>1. g \in HeldIn(d.procs, cs) /\ g[2] = fd
        BY DEF Good, Mapped
    <1> HIDE DEF g
    <1> QED
        BY <1>1 DEF Good, Owned

\* An event stays true when the maps and the object of the event do.
LEMMA StillTrue ==
    ASSUME NEW e, NEW d, NEW cs, TrueEvent(e, d, cs), NEW k, NEW cs2,
           ~k.undefined => ~d.undefined,
           ~e.stale /\ ~d.undefined => /\ e.fd \in DOMAIN k.callbacks
                                       /\ k.callbacks[e.fd] = d.callbacks[e.fd],
           ~e.stale /\ ~d.undefined /\ ReadyIn(d.procs, cs, e.of) => ReadyIn(k.procs, cs2, e.of)
    PROVE  TrueEvent(e, k, cs2)
    BY DEF TrueEvent

(***************************************************************************)
(* An object gets a new descriptor and is registered.                      *)
(***************************************************************************)
LEMMA AcquireGood ==
    ASSUME NEW d, NEW cs, NEW thrown, NEW n, Good(d, cs, thrown, n),
           NEW fd \in Nat, fd \notin d.open, NEW on \in {"read", "write"}, NEW object \in Objects,
           NEW ps \in [Procs -> Proc], NEW cs2 \in [Clients -> Conn], Linked(ps, cs2),
           HeldIn(ps, cs2) = HeldIn(d.procs, cs) \cup {<<object, fd>>},
           WaitingIn(ps, cs2) = WaitingIn(d.procs, cs) \cup {<<fd, on, object>>},
           \A e \in d.batch : ~e.stale /\ ~d.undefined /\ ReadyIn(d.procs, cs, e.of)
                                 => ReadyIn(ps, cs2, e.of),
           NEW m \in Nat,
           Cardinality(ProcsWithFd(ps)) + n <= Cardinality(ProcsWithFd(d.procs)) + m,
           NEW k, Is(k, d.open \cup {fd}, With(d.callbacks, fd, on, object), d.batch, ps, d.undefined)
    PROVE  Good(k, cs2, thrown, m)
PROOF
    <1> DEFINE H == HeldIn(d.procs, cs)
               W == WaitingIn(d.procs, cs)
    <1>1. /\ Owned(HeldIn(ps, cs2), d.open \cup {fd})
          /\ Orphans(HeldIn(ps, cs2), d.open \cup {fd}) = Orphans(H, d.open)
        <2> DEFINE g == <<object, fd>>
        <2>1. Owned(H, d.open) /\ HeldIn(ps, cs2) = H \cup {g} /\ g[2] = fd
            BY DEF Good
        <2> HIDE DEF H, g
        <2> QED
            BY <2>1, AcquireOwned
    <1>2. Counted(HeldIn(ps, cs2), d.open \cup {fd}, ps, m)
        <2>1. /\ Cardinality(ProcsWithFd(ps)) \in Nat /\ Cardinality(ProcsWithFd(d.procs)) \in Nat
              /\ IsFiniteSet(Orphans(H, d.open)) /\ Cardinality(Orphans(H, d.open)) \in Nat
              /\ n \in Nat /\ Cardinality(Orphans(H, d.open)) + Cardinality(ProcsWithFd(d.procs)) <= n
            BY ProcsWithFdFinite, FS_CardinalityType DEF Good, Counted, ProcsWithFd
        <2> QED
            BY <1>1, <2>1 DEF Counted, ProcsWithFd
    <1>3. ~d.undefined => Mapped(With(d.callbacks, fd, on, object), HeldIn(ps, cs2),
                                 WaitingIn(ps, cs2), thrown)
        BY MapsOpen, RegisterMapped DEF Good
    <1>4. Traced(k, cs2)
        <2>1. ASSUME NEW e \in d.batch
              PROVE  TrueEvent(e, k, cs2)
            <3>1. TrueEvent(e, d, cs)
                BY DEF Good, Traced
            <3>2. ~e.stale /\ ~d.undefined => e.fd \in d.open /\ e.fd \in DOMAIN d.callbacks
                BY EventOfHolder
            <3>3. ~e.stale /\ ~d.undefined => /\ e.fd \in DOMAIN k.callbacks
                                              /\ k.callbacks[e.fd] = d.callbacks[e.fd]
                BY <3>2 DEF With, Is
            <3>4. k.undefined = d.undefined /\ k.procs = ps
                BY DEF Is
            <3> QED
                BY <3>1, <3>3, <3>4, StillTrue
        <2> QED
            BY <2>1 DEF Traced, Is, Good
    <1>5. Typed(k, cs2)
        <2>1. [on |-> on, of |-> object] \in Callback
            BY DEF Callback
        <2> QED
            BY <2>1 DEF Good, Typed, Is, With
    <1> QED
        BY <1>1, <1>2, <1>3, <1>4, <1>5 DEF Good, Is

(***************************************************************************)
(* An object that keeps its descriptor is registered.                      *)
(***************************************************************************)
LEMMA AttachGood ==
    ASSUME NEW d, NEW cs, NEW thrown, NEW n, Good(d, cs, thrown, n),
           NEW fd, NEW on \in {"read", "write"}, NEW object \in Objects,
           fd \notin DOMAIN d.callbacks \/ d.undefined, fd \in Nat,
           NEW cs2 \in [Clients -> Conn], Linked(d.procs, cs2),
           HeldIn(d.procs, cs2) = HeldIn(d.procs, cs), <<object, fd>> \in HeldIn(d.procs, cs),
           WaitingIn(d.procs, cs2) = WaitingIn(d.procs, cs) \cup {<<fd, on, object>>},
           \A e \in d.batch : ~e.stale /\ ~d.undefined /\ ReadyIn(d.procs, cs, e.of)
                                 => ReadyIn(d.procs, cs2, e.of),
           NEW k, Is(k, d.open, With(d.callbacks, fd, on, object), d.batch, d.procs, d.undefined)
    PROVE  Good(k, cs2, thrown, n)
PROOF
    <1>1. ~d.undefined => Mapped(With(d.callbacks, fd, on, object), HeldIn(d.procs, cs2),
                                 WaitingIn(d.procs, cs2), thrown)
        <2>1. HeldIn(d.procs, cs) = HeldIn(d.procs, cs) \cup {<<object, fd>>}
            OBVIOUS
        <2> QED
            BY <2>1, RegisterMapped DEF Good
    <1>2. Traced(k, cs2)
        <2>1. ASSUME NEW e \in d.batch
              PROVE  TrueEvent(e, k, cs2)
            <3>1. TrueEvent(e, d, cs)
                BY DEF Good, Traced
            <3>2. ~e.stale /\ ~d.undefined => e.fd # fd /\ e.fd \in DOMAIN d.callbacks
                BY EventOfHolder
            <3>3. ~e.stale /\ ~d.undefined => /\ e.fd \in DOMAIN k.callbacks
                                              /\ k.callbacks[e.fd] = d.callbacks[e.fd]
                BY <3>2 DEF With, Is
            <3>4. k.undefined = d.undefined /\ k.procs = d.procs
                BY DEF Is
            <3> QED
                BY <3>1, <3>3, <3>4, StillTrue
        <2> QED
            BY <2>1 DEF Traced, Is, Good
    <1>3. Typed(k, cs2)
        <2>1. [on |-> on, of |-> object] \in Callback
            BY DEF Callback
        <2> QED
            BY <2>1 DEF Good, Typed, Is, With
    <1> QED
        BY <1>1, <1>2, <1>3 DEF Good, Is

(***************************************************************************)
(* An object that keeps its descriptor is unregistered.                    *)
(***************************************************************************)
LEMMA DetachGood ==
    ASSUME NEW d, NEW cs, NEW thrown, NEW n, Good(d, cs, thrown, n),
           NEW g \in HeldIn(d.procs, cs), \A e \in d.batch : e.fd # g[2],
           NEW ps \in [Procs -> Proc], NEW cs2 \in [Clients -> Conn], Linked(ps, cs2),
           HeldIn(ps, cs2) = HeldIn(d.procs, cs),
           \A w : w \in WaitingIn(ps, cs2) <=> w \in WaitingIn(d.procs, cs) /\ w[3] # g[1],
           ProcsWithFd(ps) = ProcsWithFd(d.procs),
           \A e \in d.batch : ~e.stale /\ ~d.undefined /\ ReadyIn(d.procs, cs, e.of)
                                 => ReadyIn(ps, cs2, e.of),
           NEW k, Is(k, d.open, Without(d.callbacks, g[2]), d.batch, ps, d.undefined)
    PROVE  Good(k, cs2, thrown, n)
PROOF
    <1>1. ~d.undefined => Mapped(Without(d.callbacks, g[2]), HeldIn(ps, cs2), WaitingIn(ps, cs2),
                                 thrown)
        <2> SUFFICES ASSUME ~d.undefined
                     PROVE  Mapped(Without(d.callbacks, g[2]), HeldIn(ps, cs2),
                                   WaitingIn(ps, cs2), thrown)
            OBVIOUS
        <2>0. /\ Linked(d.procs, cs) /\ Owned(HeldIn(d.procs, cs), d.open)
              /\ Mapped(d.callbacks, HeldIn(d.procs, cs), WaitingIn(d.procs, cs), thrown)
            BY DEF Good
        <2>1. Mapped(Without(d.callbacks, g[2]), HeldIn(d.procs, cs) \ {g}, WaitingIn(ps, cs2),
                     thrown)
            BY <2>0, UnregisterMapped
        <2>2. HeldIn(d.procs, cs) \ {g} \subseteq HeldIn(ps, cs2)
            OBVIOUS
        <2> QED
            BY <2>1, <2>2, MappedInMore
    <1>2. Traced(k, cs2)
        <2>1. ASSUME NEW e \in d.batch
              PROVE  TrueEvent(e, k, cs2)
            <3>1. TrueEvent(e, d, cs)
                BY DEF Good, Traced
            <3>2. ~e.stale /\ ~d.undefined => e.fd \in DOMAIN d.callbacks
                BY EventOfHolder
            <3>3. ~e.stale /\ ~d.undefined => /\ e.fd \in DOMAIN k.callbacks
                                              /\ k.callbacks[e.fd] = d.callbacks[e.fd]
                BY <3>2 DEF Without, Is
            <3>4. k.undefined = d.undefined /\ k.procs = ps
                BY DEF Is
            <3> QED
                BY <3>1, <3>3, <3>4, StillTrue
        <2> QED
            BY <2>1 DEF Traced, Is, Good
    <1>3. Typed(k, cs2)
        BY DEF Good, Typed, Is, Without
    <1>4. Counted(HeldIn(ps, cs2), d.open, ps, n)
        BY DEF Good, Counted, ProcsWithFd
    <1> QED
        BY <1>1, <1>2, <1>3, <1>4 DEF Good, Is

(***************************************************************************)
(* An object that is not registered closes its descriptor.                 *)
(***************************************************************************)
LEMMA UnwatchedUnmapped ==
    ASSUME NEW d, NEW cs, NEW thrown, NEW n, Good(d, cs, thrown, n), ~d.undefined,
           NEW g \in HeldIn(d.procs, cs), g[1] \notin Timers,
           \A w \in WaitingIn(d.procs, cs) : w[3] # g[1]
    PROVE  g[2] \notin DOMAIN d.callbacks
PROOF
    <1>0. /\ Owned(HeldIn(d.procs, cs), d.open) /\ Linked(d.procs, cs)
          /\ Mapped(d.callbacks, HeldIn(d.procs, cs), WaitingIn(d.procs, cs), thrown)
          /\ thrown \subseteq Timers
        BY DEF Good
    <1> SUFFICES ASSUME g[2] \in DOMAIN d.callbacks
                 PROVE  FALSE
        OBVIOUS
    <1>1. g = <<g[1], g[2]>>
        BY <1>0, WaitingHold
    <1>2. <<g[1], g[2]>> \in HeldIn(d.procs, cs)
        BY <1>1
    <1>3. d.callbacks[g[2]].of = g[1]
        BY <1>0, <1>2, CallbackOf
    <1> QED
        BY <1>0, <1>3 DEF Mapped

LEMMA ReleaseGood ==
    ASSUME NEW d, NEW cs, NEW thrown, NEW n, Good(d, cs, thrown, n), ~d.undefined,
           NEW g \in HeldIn(d.procs, cs), g[1] \notin Timers,
           \A w \in WaitingIn(d.procs, cs) : w[3] # g[1],
           NEW ps \in [Procs -> Proc], NEW cs2 \in [Clients -> Conn], Linked(ps, cs2),
           HeldIn(ps, cs2) = HeldIn(d.procs, cs) \ {g},
           WaitingIn(ps, cs2) = WaitingIn(d.procs, cs),
           ProcsWithFd(ps) \subseteq ProcsWithFd(d.procs),
           \A e \in d.batch : ~e.stale /\ ~d.undefined /\ ReadyIn(d.procs, cs, e.of)
                                 => ReadyIn(ps, cs2, e.of),
           NEW k, Is(k, d.open \ {g[2]}, d.callbacks, Staled(d.batch, g[2]), ps, d.undefined)
    PROVE  Good(k, cs2, thrown, n)
PROOF
    <1>0. /\ Owned(HeldIn(d.procs, cs), d.open) /\ Linked(d.procs, cs)
          /\ Mapped(d.callbacks, HeldIn(d.procs, cs), WaitingIn(d.procs, cs), thrown)
          /\ d.batch \subseteq Event /\ thrown \subseteq Timers
        BY DEF Good, Typed
    <1>1. g[2] \notin DOMAIN d.callbacks
        BY UnwatchedUnmapped
    <1>2. ~k.undefined
        BY DEF Is
    <1>3. /\ Owned(HeldIn(ps, cs2), d.open \ {g[2]})
          /\ Orphans(HeldIn(ps, cs2), d.open \ {g[2]}) = Orphans(HeldIn(d.procs, cs), d.open)
        BY <1>0, ReleaseOwned
    <1>4. Counted(HeldIn(ps, cs2), d.open \ {g[2]}, ps, n)
        <2>1. /\ Cardinality(ProcsWithFd(ps)) <= Cardinality(ProcsWithFd(d.procs))
              /\ Cardinality(ProcsWithFd(ps)) \in Nat /\ Cardinality(ProcsWithFd(d.procs)) \in Nat
            BY ProcsWithFdFinite, FS_Subset
        <2>2. /\ n \in Nat /\ IsFiniteSet(Orphans(HeldIn(d.procs, cs), d.open))
              /\ Cardinality(Orphans(HeldIn(d.procs, cs), d.open)) \in Nat
              /\ Cardinality(Orphans(HeldIn(d.procs, cs), d.open))
                    + Cardinality(ProcsWithFd(d.procs)) <= n
            BY FS_CardinalityType DEF Good, Counted, ProcsWithFd
        <2> QED
            BY <1>3, <2>1, <2>2 DEF Counted, ProcsWithFd
    <1>5. Mapped(d.callbacks, HeldIn(ps, cs2), WaitingIn(ps, cs2), thrown)
        <2>1. \A fd \in DOMAIN d.callbacks : <<d.callbacks[fd].of, fd>> \in HeldIn(ps, cs2)
            <3> TAKE fd \in DOMAIN d.callbacks
            <3> DEFINE h == <<d.callbacks[fd].of, fd>>
            <3>1. h \in HeldIn(d.procs, cs) /\ h[2] # g[2]
                BY <1>0, <1>1 DEF Mapped
            <3> HIDE DEF h
            <3>2. h \in HeldIn(ps, cs2)
                BY <3>1
            <3> QED
                BY <3>2 DEF h
        <2> QED
            BY <1>0, <2>1 DEF Mapped
    <1>6. Traced(k, cs2)
        <2>1. ASSUME NEW e \in k.batch
              PROVE  TrueEvent(e, k, cs2)
            <3>1. PICK f \in d.batch : /\ e.fd = f.fd /\ e.on = f.on /\ e.of = f.of
                                       /\ e.stale = (f.stale \/ f.fd = g[2])
                BY <1>0, <2>1, StaledIs DEF Is
            <3>2. TrueEvent(f, d, cs)
                BY <3>1 DEF Good, Traced
            <3>3. f.fd # g[2] \/ f.stale
                BY <1>1, <3>2 DEF TrueEvent
            <3>4. (e.stale => f.stale) /\ (f.stale => e.stale)
                BY <3>1, <3>3
            <3>5. k.callbacks = d.callbacks /\ k.procs = ps
                BY DEF Is
            <3>6. e.stale => e.of \in Timers
                BY <3>1, <3>2, <3>4 DEF TrueEvent
            <3>7. ~e.stale => /\ e.fd \in DOMAIN k.callbacks
                              /\ k.callbacks[e.fd] = [on |-> e.on, of |-> e.of]
                              /\ ReadyIn(k.procs, cs2, e.of)
                BY <3>1, <3>2, <3>4, <3>5 DEF TrueEvent
            <3> QED
                BY <3>6, <3>7 DEF TrueEvent
        <2>2. \A e, f \in d.batch : e.fd = f.fd => e = f
            BY DEF Good, Traced
        <2> QED
            BY <1>0, <2>1, <2>2, StaledIs DEF Traced, Is
    <1>7. Typed(k, cs2)
        BY <1>0, <1>2, StaledIs DEF Good, Typed, Is
    <1> QED
        BY <1>2, <1>3, <1>4, <1>5, <1>6, <1>7 DEF Good, Is

(***************************************************************************)
(* Nobody's descriptor changes, nor who waits.                             *)
(***************************************************************************)
LEMMA QuietGood ==
    ASSUME NEW d, NEW cs, NEW thrown, NEW n, Good(d, cs, thrown, n),
           NEW ps \in [Procs -> Proc], NEW cs2 \in [Clients -> Conn], Linked(ps, cs2),
           HeldIn(ps, cs2) = HeldIn(d.procs, cs),
           WaitingIn(ps, cs2) = WaitingIn(d.procs, cs),
           ProcsWithFd(ps) = ProcsWithFd(d.procs),
           \A e \in d.batch : ~e.stale /\ ~d.undefined /\ ReadyIn(d.procs, cs, e.of)
                                 => ReadyIn(ps, cs2, e.of),
           NEW k, Is(k, d.open, d.callbacks, d.batch, ps, d.undefined)
    PROVE  Good(k, cs2, thrown, n)
PROOF
    <1>1. Traced(k, cs2)
        <2>1. ASSUME NEW e \in d.batch
              PROVE  TrueEvent(e, k, cs2)
            <3>1. TrueEvent(e, d, cs)
                BY DEF Good, Traced
            <3>2. ~e.stale /\ ~d.undefined => e.fd \in DOMAIN d.callbacks
                BY EventOfHolder
            <3>3. k.undefined = d.undefined /\ k.procs = ps /\ k.callbacks = d.callbacks
                BY DEF Is
            <3> QED
                BY <3>1, <3>2, <3>3, StillTrue
        <2> QED
            BY <2>1 DEF Traced, Is, Good
    <1>2. Typed(k, cs2)
        BY DEF Good, Typed, Is
    <1>3. Counted(HeldIn(ps, cs2), d.open, ps, n)
        BY DEF Good, Counted, ProcsWithFd
    <1> QED
        BY <1>1, <1>2, <1>3 DEF Good, Is

----------------------------------------------------------------------------
(***************************************************************************)
(* The operations of a Process.                                            *)
(***************************************************************************)
LEMMA LowestIsNew ==
    ASSUME NEW fds, NEW fd \in Lowest(fds)
    PROVE  fd \in Nat /\ fd # NoFd /\ fd \notin fds
    BY DEF Lowest

LEMMA ResetTimerIs ==
    ASSUME NEW d, Shaped(d), d.procs \in [Procs -> Proc], NEW p \in Procs,
           NEW tfd \in Nat, tfd # d.procs[p].tfd
    PROVE  LET h == DestroyTimer(d, p)
               q == [h.procs[p] EXCEPT !.timer = "running", !.tfd = tfd, !.fired = FALSE]
           IN  Is(ResetTimer(d, p, tfd), h.open \cup {tfd},
                  With(h.callbacks, tfd, "read", ATimer(p)), h.batch,
                  [h.procs EXCEPT ![p] = q], h.undefined)
PROOF
    <1> DEFINE o == Opened(d, tfd)
               h == DestroyTimer(d, p)
               g == DestroyTimer(o, p)
               r == RegisterEvent(g, tfd, "read", ATimer(p))
               q == [h.procs[p] EXCEPT !.timer = "running", !.tfd = tfd, !.fired = FALSE]
    <1>1. Is(o, d.open \cup {tfd}, d.callbacks, d.batch, d.procs, d.undefined)
        BY OpenedIs
    <1>2. Shaped(o) /\ o.procs = d.procs /\ o.callbacks = d.callbacks /\ o.batch = d.batch
          /\ o.undefined = d.undefined /\ o.open = d.open \cup {tfd}
        BY <1>1 DEF Is
    <1> HIDE DEF o
    <1>3. /\ Is(g, h.open \cup {tfd}, h.callbacks, h.batch, h.procs, h.undefined)
          /\ h.procs \in [Procs -> Proc]
        <2>1. CASE d.procs[p].timer = "none"
            <3>1. h = d /\ g = o
                BY <1>2, <2>1, DestroyTimerIs
            <3> QED
                BY <1>1, <3>1
        <2>2. CASE d.procs[p].timer # "none"
            <3> DEFINE t == d.procs[p].tfd
                       maps == IF d.procs[p].timer = "running" THEN Without(d.callbacks, t)
                               ELSE d.callbacks
                       ps == [d.procs EXCEPT ![p] = [d.procs[p] EXCEPT !.timer = "none",
                                                                       !.tfd = NoFd]]
                       u == d.undefined \/ t \in DOMAIN maps
            <3>1. Is(h, d.open \ {t}, maps, Staled(d.batch, t), ps, u)
                BY <2>2, DestroyTimerIs
            <3>2. Is(g, (d.open \cup {tfd}) \ {t}, maps, Staled(d.batch, t), ps, u)
                BY <1>2, <2>2, DestroyTimerIs
            <3>3. (d.open \cup {tfd}) \ {t} = (d.open \ {t}) \cup {tfd}
                OBVIOUS
            <3>4. ps \in [Procs -> Proc]
                BY DEF Proc
            <3> HIDE DEF maps, ps, u
            <3> QED
                BY <3>1, <3>2, <3>3, <3>4 DEF Is
        <2> QED
            BY <2>1, <2>2
    <1> HIDE DEF g, h
    <1>4. Is(r, h.open \cup {tfd}, With(h.callbacks, tfd, "read", ATimer(p)), h.batch, h.procs,
             h.undefined)
        BY <1>3, RegisterEventIs DEF Is
    <1> HIDE DEF r
    <1>5. Is([r EXCEPT !.procs[p].timer = "running", !.procs[p].tfd = tfd, !.procs[p].fired = FALSE],
             h.open \cup {tfd}, With(h.callbacks, tfd, "read", ATimer(p)), h.batch,
             [h.procs EXCEPT ![p] = q], h.undefined)
        BY <1>3, <1>4 DEF Is, Shaped, Proc
    <1> QED
        BY <1>5 DEF ResetTimer, r, g, h, o

LEMMA ResetTimerGood ==
    ASSUME NEW d, NEW cs, NEW thrown, NEW n, Good(d, cs, thrown, n), NEW p \in Procs,
           ~d.undefined \/ d.procs[p].timer = "none", NEW tfd \in Lowest(d.open)
    PROVE  LET k == ResetTimer(d, p, tfd)
           IN  /\ Good(k, cs, thrown, n)
               /\ k.procs[p].fd = d.procs[p].fd /\ k.procs[p].child = d.procs[p].child
               /\ k.procs[p].phase = d.procs[p].phase /\ k.procs[p].stops = d.procs[p].stops
               /\ k.open \subseteq d.open \cup {tfd}
               /\ \A e \in k.batch : \E g \in d.batch : e.fd = g.fd
PROOF
    <1> DEFINE h == DestroyTimer(d, p)
               k == ResetTimer(d, p, tfd)
               q == [h.procs[p] EXCEPT !.timer = "running", !.tfd = tfd, !.fired = FALSE]
               ps == [h.procs EXCEPT ![p] = q]
    <1>1. tfd \in Nat /\ tfd # NoFd /\ tfd \notin d.open
        BY LowestIsNew
    <1>2. Shaped(d) /\ d.procs \in [Procs -> Proc] /\ cs \in [Clients -> Conn]
        BY DEF Good, Typed
    <1>3. tfd # d.procs[p].tfd
        <2>1. d.procs[p].tfd # NoFd => <<ATimer(p), d.procs[p].tfd>> \in HeldIn(d.procs, cs)
            BY DEF HeldIn
        <2> DEFINE g == <<ATimer(p), d.procs[p].tfd>>
        <2>2. g[2] = d.procs[p].tfd
            OBVIOUS
        <2> HIDE DEF g
        <2>3. g \in HeldIn(d.procs, cs) => g[2] \in d.open
            BY DEF Good, Owned
        <2> QED
            BY <1>1, <2>1, <2>2, <2>3 DEF g
    <1>4. /\ Good(h, cs, thrown, n)
          /\ h.procs[p].timer = "none" /\ h.procs[p].fd = d.procs[p].fd
          /\ h.procs[p].child = d.procs[p].child /\ h.procs[p].phase = d.procs[p].phase
          /\ h.procs[p].stops = d.procs[p].stops
          /\ h.open \subseteq d.open
          /\ \A e \in h.batch : \E g \in d.batch : e.fd = g.fd
        BY DestroyTimerGood
    <1>5. Is(k, h.open \cup {tfd}, With(h.callbacks, tfd, "read", ATimer(p)), h.batch, ps,
             h.undefined)
        BY <1>1, <1>2, <1>3, ResetTimerIs
    <1> HIDE DEF h, k
    <1>6. h.procs \in [Procs -> Proc] /\ h.procs[p].tfd = NoFd /\ Linked(h.procs, cs)
        BY <1>4 DEF Good, Typed, Linked
    <1>7. /\ q \in Proc /\ q.timer = "running" /\ q.tfd = tfd /\ q.fd = h.procs[p].fd
          /\ q.child = h.procs[p].child /\ q.phase = h.procs[p].phase
          /\ q.stops = h.procs[p].stops
        BY <1>1, <1>6 DEF Proc
    <1> HIDE DEF q
    <1>8. ps \in [Procs -> Proc] /\ ps[p] = q /\ \A x \in Procs : x # p => ps[x] = h.procs[x]
        BY <1>6, <1>7
    <1>9. Linked(ps, cs)
        BY <1>1, <1>4, <1>6, <1>7, <1>8 DEF Linked
    <1>10. HeldIn(ps, cs) = HeldIn(h.procs, cs) \cup {<<ATimer(p), tfd>>}
        BY <1>1, <1>6, <1>7, HeldByProc DEF HeldIn
    <1>11. WaitingIn(ps, cs) = WaitingIn(h.procs, cs) \cup {<<tfd, "read", ATimer(p)>>}
        BY <1>4, <1>6, <1>7, WaitingProc DEF WaitingIn
    <1>12. ASSUME NEW e \in h.batch, ~e.stale, ~h.undefined, ReadyIn(h.procs, cs, e.of)
           PROVE  ReadyIn(ps, cs, e.of)
        <2>1. \A x \in HeldIn(h.procs, cs) : x[1] # ATimer(p)
            BY <1>6 DEF HeldIn
        <2>2. PICK x \in HeldIn(h.procs, cs) : x[1] = e.of
            BY <1>4, <1>12, EventOfHolder
        <2>3. e.of # ATimer(p)
            BY <2>1, <2>2
        <2> QED
            BY <1>7, <1>8, <1>12, <2>3 DEF ReadyIn
    <1>13. ProcsWithFd(ps) = ProcsWithFd(h.procs)
        BY <1>7, <1>8 DEF ProcsWithFd
    <1>14. n \in Nat /\ Cardinality(ProcsWithFd(h.procs)) \in Nat
        BY <1>4, ProcsWithFdFinite DEF Good
    <1> DEFINE object == ATimer(p)
    <1>15. /\ object \in Objects
           /\ HeldIn(ps, cs) = HeldIn(h.procs, cs) \cup {<<object, tfd>>}
           /\ WaitingIn(ps, cs) = WaitingIn(h.procs, cs) \cup {<<tfd, "read", object>>}
           /\ Is(k, h.open \cup {tfd}, With(h.callbacks, tfd, "read", object), h.batch, ps,
                 h.undefined)
        BY <1>5, <1>10, <1>11 DEF Objects
    <1> HIDE DEF ps, object
    <1>16. tfd \notin h.open /\ Cardinality(ProcsWithFd(ps)) + n <= Cardinality(ProcsWithFd(h.procs)) + n
        BY <1>1, <1>4, <1>13, <1>14
    <1>17. Good(k, cs, thrown, n)
        BY <1>1, <1>2, <1>4, <1>8, <1>9, <1>12, <1>14, <1>15, <1>16, AcquireGood
    <1> QED
        BY <1>4, <1>5, <1>7, <1>8, <1>17 DEF k, Is

\* A process that is down has a pidfd, if it has one, that is not registered.
LEMMA DownUnregistered ==
    ASSUME NEW d, NEW cs, NEW thrown, NEW n, Good(d, cs, thrown, n), ~d.undefined,
           NEW p \in Procs, d.procs[p].child = "none", d.procs[p].fd # NoFd
    PROVE  d.procs[p].fd \notin DOMAIN d.callbacks
PROOF
    <1> DEFINE object == AProcess(p)
               fd == d.procs[p].fd
    <1>1. <<object, fd>> \in HeldIn(d.procs, cs) /\ object \notin Timers
        BY DEF HeldIn, Timers
    <1>2. \A w \in WaitingIn(d.procs, cs) : w[3] # object
        BY DEF WaitingIn
    <1> HIDE DEF object
    <1>3. /\ Owned(HeldIn(d.procs, cs), d.open) /\ thrown \subseteq Timers
          /\ Mapped(d.callbacks, HeldIn(d.procs, cs), WaitingIn(d.procs, cs), thrown)
        BY DEF Good
    <1>4. fd \in DOMAIN d.callbacks => d.callbacks[fd].of = object
        BY <1>1, <1>3, CallbackOf
    <1> QED
        BY <1>1, <1>2, <1>3, <1>4 DEF Mapped

(***************************************************************************)
(* Process::start gives up the pidfd of the last child without closing it. *)
(***************************************************************************)
Forget(d, p) == [d EXCEPT !.procs = [d.procs EXCEPT ![p] = [d.procs[p] EXCEPT !.fd = NoFd]]]

LEMMA ForgetGood ==
    ASSUME NEW d, NEW cs, NEW thrown, NEW n, Good(d, cs, thrown, n),
           NEW p \in Procs, d.procs[p].child = "none"
    PROVE  LET k == Forget(d, p)
               q == [d.procs[p] EXCEPT !.fd = NoFd]
           IN  /\ Good(k, cs, thrown, n)
               /\ Is(k, d.open, d.callbacks, d.batch, [d.procs EXCEPT ![p] = q], d.undefined)
PROOF
    <1> DEFINE k == Forget(d, p)
               q == [d.procs[p] EXCEPT !.fd = NoFd]
               ps == [d.procs EXCEPT ![p] = q]
               f == d.procs[p].fd
               H == HeldIn(d.procs, cs)
    <1>0. /\ Shaped(d) /\ Typed(d, cs) /\ d.procs \in [Procs -> Proc] /\ cs \in [Clients -> Conn]
          /\ Linked(d.procs, cs) /\ Owned(H, d.open) /\ n \in Nat
          /\ Counted(H, d.open, d.procs, n)
          /\ ~d.undefined => Mapped(d.callbacks, H, WaitingIn(d.procs, cs), thrown)
          /\ d.undefined => thrown # {}
          /\ thrown \subseteq Timers
          /\ Traced(d, cs)
        BY DEF Good, Typed
    <1>1. Is(k, d.open, d.callbacks, d.batch, ps, d.undefined)
        BY <1>0 DEF Forget, Is, Shaped
    <1> HIDE DEF k
    <1>2. /\ q \in Proc /\ q.fd = NoFd /\ q.tfd = d.procs[p].tfd /\ q.timer = d.procs[p].timer
          /\ q.child = "none" /\ q.phase = d.procs[p].phase /\ q.fired = d.procs[p].fired
          /\ q.stops = d.procs[p].stops
        BY <1>0 DEF Proc
    <1> HIDE DEF q
    <1>3. ps \in [Procs -> Proc] /\ ps[p] = q /\ \A x \in Procs : x # p => ps[x] = d.procs[x]
        BY <1>0, <1>2
    <1>4. Linked(ps, cs)
        BY <1>0, <1>2, <1>3 DEF Linked
    <1>5. WaitingIn(ps, cs) = WaitingIn(d.procs, cs)
        BY <1>0, <1>2, WaitingProc DEF WaitingIn
    <1>6. CASE f = NoFd
        <2>1. ps = d.procs
            <3>1. q = d.procs[p]
                BY <1>0, <1>2, <1>6 DEF Proc
            <3> QED
                BY <1>0, <3>1
        <2> HIDE DEF ps
        <2>2. k.procs = d.procs /\ k.open = d.open /\ k.callbacks = d.callbacks /\ k.batch = d.batch
              /\ k.undefined = d.undefined /\ Shaped(k)
            BY <1>1, <2>1 DEF Is
        <2>3. Typed(k, cs) /\ Traced(k, cs)
            BY <1>0, <2>2 DEF Typed, Traced, TrueEvent
        <2>4. Good(k, cs, thrown, n)
            BY <1>0, <2>2, <2>3 DEF Good
        <2> QED
            BY <1>1, <2>4 DEF k, ps, q
    <1>7. CASE f # NoFd
        <2> DEFINE g == <<AProcess(p), f>>
        <2>1. HeldIn(ps, cs) = H \ {g}
            BY <1>0, <1>2, HeldByProc DEF HeldIn
        <2>2. g \in H /\ g[2] = f
            BY <1>7 DEF HeldIn
        <2> HIDE DEF g, H, ps
        <2>3. Owned(H \ {g}, d.open) /\ Orphans(H \ {g}, d.open) = Orphans(H, d.open) \cup {f}
            BY <1>0, <2>2, AbandonOwned
        <2>4. Counted(H \ {g}, d.open, ps, n)
            <3>1. ProcsWithFd(ps) = ProcsWithFd(d.procs) \ {p} /\ p \in ProcsWithFd(d.procs)
                BY <1>2, <1>3, <1>7 DEF ProcsWithFd
            <3>2. /\ Cardinality(ProcsWithFd(ps)) = Cardinality(ProcsWithFd(d.procs)) - 1
                  /\ Cardinality(ProcsWithFd(d.procs)) \in Nat
                BY <3>1, ProcsWithFdFinite, FS_RemoveElement
            <3>3. /\ IsFiniteSet(Orphans(H, d.open)) /\ Cardinality(Orphans(H, d.open)) \in Nat
                  /\ Cardinality(Orphans(H, d.open)) + Cardinality(ProcsWithFd(d.procs)) <= n
                BY <1>0, FS_CardinalityType DEF Counted, ProcsWithFd
            <3> DEFINE orphans == Orphans(H, d.open)
                       more == orphans \cup {f}
            <3> HIDE DEF orphans, f
            <3>4. IsFiniteSet(more) /\ Cardinality(more) = IF f \in orphans THEN Cardinality(orphans)
                                                          ELSE Cardinality(orphans) + 1
                BY <3>3, FS_AddElement DEF orphans
            <3> HIDE DEF more
            <3>5. Cardinality(more) + Cardinality(ProcsWithFd(ps)) <= n
                BY <1>0, <3>2, <3>3, <3>4 DEF orphans
            <3>6. Orphans(H \ {g}, d.open) = more
                BY <2>3 DEF orphans, more
            <3> QED
                BY <3>4, <3>5, <3>6 DEF Counted, ProcsWithFd
        <2>5. ~d.undefined => Mapped(d.callbacks, H \ {g}, WaitingIn(ps, cs), thrown)
            <3> SUFFICES ASSUME ~d.undefined
                         PROVE  Mapped(d.callbacks, H \ {g}, WaitingIn(ps, cs), thrown)
                OBVIOUS
            <3>1. f \notin DOMAIN d.callbacks
                BY <1>7, DownUnregistered
            <3>2. ASSUME NEW fd \in DOMAIN d.callbacks
                  PROVE  <<d.callbacks[fd].of, fd>> \in H \ {g}
                <4> DEFINE h == <<d.callbacks[fd].of, fd>>
                <4>1. h \in H /\ h[2] = fd /\ fd # f
                    BY <1>0, <3>1 DEF Mapped
                <4> HIDE DEF h
                <4>2. h \in H \ {g}
                    BY <2>2, <4>1
                <4> QED
                    BY <4>2 DEF h
            <3> QED
                BY <1>0, <1>5, <3>2 DEF Mapped
        <2>6. k.procs = ps /\ k.open = d.open /\ k.callbacks = d.callbacks /\ k.batch = d.batch
              /\ k.undefined = d.undefined /\ Shaped(k)
            BY <1>1 DEF Is
        <2>7. Typed(k, cs)
            BY <1>0, <1>3, <2>6 DEF Typed
        <2>8. \A object : ReadyIn(ps, cs, object) <=> ReadyIn(d.procs, cs, object)
            BY <1>2, <1>3 DEF ReadyIn
        <2>9. Traced(k, cs)
            BY <1>0, <2>6, <2>8 DEF Traced, TrueEvent
        <2>10. Good(k, cs, thrown, n)
            BY <1>0, <1>4, <2>1, <2>3, <2>4, <2>5, <2>6, <2>7, <2>9 DEF Good
        <2> QED
            BY <1>1, <2>10 DEF k, ps, q
    <1> QED
        BY <1>6, <1>7

LEMMA WatchedIs ==
    ASSUME NEW d, Shaped(d), d.procs \in [Procs -> Proc], NEW p \in Procs, NEW fd \in Nat
    PROVE  LET q == [d.procs[p] EXCEPT !.phase = "starting", !.child = "alive", !.fd = fd]
           IN  Is(Watched(d, p, fd), d.open \cup {fd}, With(d.callbacks, fd, "read", AProcess(p)),
                  d.batch, [d.procs EXCEPT ![p] = q], d.undefined)
PROOF
    <1> DEFINE o == Opened(d, fd)
               r == RegisterEvent(o, fd, "read", AProcess(p))
               q == [d.procs[p] EXCEPT !.phase = "starting", !.child = "alive", !.fd = fd]
    <1>1. Is(o, d.open \cup {fd}, d.callbacks, d.batch, d.procs, d.undefined)
        BY OpenedIs
    <1> HIDE DEF o
    <1>2. Is(r, d.open \cup {fd}, With(d.callbacks, fd, "read", AProcess(p)), d.batch, d.procs,
             d.undefined)
        BY <1>1, RegisterEventIs DEF Is
    <1> HIDE DEF r
    <1>3. Is([r EXCEPT !.procs[p].phase = "starting", !.procs[p].child = "alive", !.procs[p].fd = fd],
             d.open \cup {fd}, With(d.callbacks, fd, "read", AProcess(p)), d.batch,
             [d.procs EXCEPT ![p] = q], d.undefined)
        BY <1>2 DEF Is, Shaped, Proc
    <1> QED
        BY <1>3 DEF Watched, r, o

LEMMA WatchedGood ==
    ASSUME NEW d, NEW cs, NEW thrown, NEW n, Good(d, cs, thrown, n),
           NEW p \in Procs, d.procs[p].child = "none",
           NEW fd \in Nat, fd # NoFd, fd \notin d.open
    PROVE  Good(Watched(d, p, fd), cs, thrown, n + 1) /\ Watched(d, p, fd).batch = d.batch
PROOF
    <1> DEFINE h == Forget(d, p)
               k == Watched(d, p, fd)
               q == [d.procs[p] EXCEPT !.phase = "starting", !.child = "alive", !.fd = fd]
               r == [d.procs[p] EXCEPT !.fd = NoFd]
               ps == [h.procs EXCEPT ![p] = q]
    <1>1. Shaped(d) /\ d.procs \in [Procs -> Proc] /\ cs \in [Clients -> Conn]
        BY DEF Good, Typed
    <1>2. Is(k, d.open \cup {fd}, With(d.callbacks, fd, "read", AProcess(p)), d.batch,
             [d.procs EXCEPT ![p] = q], d.undefined)
        BY <1>1, WatchedIs
    <1>3. /\ Good(h, cs, thrown, n)
          /\ Is(h, d.open, d.callbacks, d.batch, [d.procs EXCEPT ![p] = r], d.undefined)
        BY ForgetGood
    <1> HIDE DEF h, k
    <1>4. /\ h.open = d.open /\ h.callbacks = d.callbacks /\ h.batch = d.batch
          /\ h.undefined = d.undefined /\ h.procs = [d.procs EXCEPT ![p] = r]
        BY <1>3 DEF Is
    <1>5. r \in Proc /\ r.fd = NoFd /\ r.child = "none" /\ r.timer = d.procs[p].timer
          /\ r.tfd = d.procs[p].tfd /\ r.fired = d.procs[p].fired
        BY <1>1 DEF Proc
    <1>6. q \in Proc /\ q.fd = fd /\ q.child = "alive" /\ q.phase = "starting"
          /\ q.timer = d.procs[p].timer /\ q.tfd = d.procs[p].tfd /\ q.fired = d.procs[p].fired
        BY <1>1 DEF Proc
    <1> HIDE DEF q, r
    <1>7. h.procs \in [Procs -> Proc] /\ h.procs[p] = r /\ Linked(h.procs, cs)
        BY <1>1, <1>3, <1>4, <1>5 DEF Good
    <1>8. /\ ps = [d.procs EXCEPT ![p] = q] /\ ps \in [Procs -> Proc] /\ ps[p] = q
          /\ \A x \in Procs : x # p => ps[x] = h.procs[x]
        BY <1>1, <1>4, <1>5, <1>6, <1>7
    <1>9. Linked(ps, cs)
        BY <1>5, <1>6, <1>7, <1>8 DEF Linked
    <1> DEFINE object == AProcess(p)
    <1>10. HeldIn(ps, cs) = HeldIn(h.procs, cs) \cup {<<object, fd>>}
        BY <1>5, <1>6, <1>7, HeldByProc DEF HeldIn
    <1>11. WaitingIn(ps, cs) = WaitingIn(h.procs, cs) \cup {<<fd, "read", object>>}
        BY <1>5, <1>6, <1>7, WaitingProc DEF WaitingIn
    <1>12. \A e \in h.batch : ReadyIn(h.procs, cs, e.of) => ReadyIn(ps, cs, e.of)
        BY <1>5, <1>6, <1>7, <1>8 DEF ReadyIn
    <1>13. /\ n \in Nat /\ n + 1 \in Nat
           /\ Cardinality(ProcsWithFd(ps)) + n <= Cardinality(ProcsWithFd(h.procs)) + (n + 1)
        <2>1. ProcsWithFd(ps) = ProcsWithFd(h.procs) \cup {p}
            BY <1>6, <1>8 DEF ProcsWithFd
        <2>2. n \in Nat /\ Cardinality(ProcsWithFd(h.procs)) \in Nat
            BY ProcsWithFdFinite DEF Good
        <2>3. \/ Cardinality(ProcsWithFd(ps)) = Cardinality(ProcsWithFd(h.procs)) + 1
              \/ Cardinality(ProcsWithFd(ps)) = Cardinality(ProcsWithFd(h.procs))
            BY <2>1, ProcsWithFdFinite, FS_AddElement
        <2> QED
            BY <2>2, <2>3
    <1>14. /\ object \in Objects
           /\ Is(k, h.open \cup {fd}, With(h.callbacks, fd, "read", object), h.batch, ps,
                 h.undefined)
        BY <1>2, <1>4, <1>8 DEF Objects
    <1> HIDE DEF ps, object
    <1>15. Good(k, cs, thrown, n + 1)
        BY <1>1, <1>3, <1>4, <1>8, <1>9, <1>10, <1>11, <1>12, <1>13, <1>14, AcquireGood
    <1> QED
        BY <1>2, <1>15 DEF k, Is

(***************************************************************************)
(* Process::start and Process::stop.                                       *)
(***************************************************************************)
LEMMA ProcessStartGood ==
    ASSUME NEW d, NEW cs, NEW thrown, NEW n, Good(d, cs, thrown, n), NEW p \in Procs,
           d.procs[p].phase = "down", ~d.undefined \/ d.procs[p].timer = "none",
           NEW k \in ProcessStart(d, p)
    PROVE  /\ Good(k, cs, thrown, n + 1)
           /\ \A e \in k.batch : \E g \in d.batch : e.fd = g.fd
PROOF
    <1>0. PICK tfd \in Lowest(d.open) :
             k \in {Watched(ResetTimer(d, p, tfd), p, fd) : fd \in Lowest(d.open \cup {tfd})}
        BY DEF ProcessStart
    <1>1. PICK fd \in Lowest(d.open \cup {tfd}) : k = Watched(ResetTimer(d, p, tfd), p, fd)
        BY <1>0
    <1> DEFINE h == ResetTimer(d, p, tfd)
    <1>2. fd \in Nat /\ fd # NoFd /\ fd \notin d.open \cup {tfd}
        BY LowestIsNew
    <1>3. d.procs[p].child = "none"
        BY DEF Good, Linked
    <1>4. /\ Good(h, cs, thrown, n) /\ h.procs[p].child = "none"
          /\ h.open \subseteq d.open \cup {tfd}
          /\ \A e \in h.batch : \E g \in d.batch : e.fd = g.fd
        BY <1>3, ResetTimerGood
    <1> HIDE DEF h
    <1> QED
        BY <1>1, <1>2, <1>4, WatchedGood DEF h

LEMMA ProcessStopGood ==
    ASSUME NEW d, NEW cs, NEW thrown, NEW n, Good(d, cs, thrown, n), NEW p \in Procs,
           d.procs[p].phase # "down", d.procs[p].stops < MaxStops, ~d.undefined,
           NEW k \in ProcessStop(d, p)
    PROVE  /\ Good(k, cs, thrown, n)
           /\ \A e \in k.batch : \E g \in d.batch : e.fd = g.fd
PROOF
    <1>1. PICK tfd \in Lowest(d.open) :
             k = [ResetTimer(d, p, tfd) EXCEPT !.procs[p].phase = "stopping",
                                               !.procs[p].stops = @ + 1]
        BY DEF ProcessStop
    <1> DEFINE h == ResetTimer(d, p, tfd)
               q == [h.procs[p] EXCEPT !.phase = "stopping", !.stops = @ + 1]
               ps == [h.procs EXCEPT ![p] = q]
    <1>2. d.procs[p].child # "none"
        BY DEF Good, Linked
    <1>3. /\ Good(h, cs, thrown, n) /\ h.procs[p].child # "none"
          /\ h.procs[p].stops < MaxStops
          /\ \A e \in h.batch : \E g \in d.batch : e.fd = g.fd
        BY <1>2, ResetTimerGood
    <1> HIDE DEF h
    <1>4. /\ Shaped(h) /\ h.procs \in [Procs -> Proc] /\ cs \in [Clients -> Conn]
          /\ Linked(h.procs, cs)
        BY <1>3 DEF Good, Typed
    <1>5. Is(k, h.open, h.callbacks, h.batch, ps, h.undefined)
        BY <1>1, <1>4 DEF Is, Shaped, Proc, h
    <1>6. /\ q \in Proc /\ q.phase = "stopping" /\ q.child = h.procs[p].child /\ q.fd = h.procs[p].fd
          /\ q.timer = h.procs[p].timer /\ q.tfd = h.procs[p].tfd /\ q.fired = h.procs[p].fired
        <2>1. h.procs[p].stops + 1 \in 0..MaxStops
            <3>1. h.procs[p].stops \in Nat /\ MaxStops \in Nat
                BY <1>4, EventAssumption DEF Proc
            <3> QED
                BY <1>3, <3>1
        <2> DEFINE s == h.procs[p].stops + 1
        <2>2. q = [h.procs[p] EXCEPT !.phase = "stopping", !.stops = s]
            BY <1>4 DEF Proc
        <2> HIDE DEF s
        <2> QED
            BY <1>4, <2>1, <2>2 DEF Proc, s
    <1> HIDE DEF q
    <1>7. ps \in [Procs -> Proc] /\ ps[p] = q /\ \A x \in Procs : x # p => ps[x] = h.procs[x]
        BY <1>4, <1>6
    <1>8. Linked(ps, cs)
        BY <1>3, <1>4, <1>6, <1>7 DEF Linked
    <1>9. HeldIn(ps, cs) = HeldIn(h.procs, cs)
        BY <1>4, <1>6, HeldByProc DEF HeldIn
    <1>10. WaitingIn(ps, cs) = WaitingIn(h.procs, cs)
        BY <1>4, <1>6, WaitingProc DEF WaitingIn
    <1>11. ProcsWithFd(ps) = ProcsWithFd(h.procs)
        BY <1>6, <1>7 DEF ProcsWithFd
    <1>12. \A e \in h.batch : ReadyIn(h.procs, cs, e.of) => ReadyIn(ps, cs, e.of)
        BY <1>6, <1>7 DEF ReadyIn
    <1> HIDE DEF ps
    <1>13. Good(k, cs, thrown, n)
        BY <1>3, <1>4, <1>5, <1>7, <1>8, <1>9, <1>10, <1>11, <1>12, QuietGood
    <1> QED
        BY <1>3, <1>5, <1>13 DEF Is

(***************************************************************************)
(* Process::~Process of a process that is down.                            *)
(***************************************************************************)
LEMMA DestroyProcessGood ==
    ASSUME NEW d, NEW cs, NEW thrown, NEW n, Good(d, cs, thrown, n), NEW p \in Procs,
           d.procs[p].phase = "down", d.procs[p].fd # NoFd, ~d.undefined
    PROVE  LET k == DestroyProcess(d, p)
           IN  /\ Good(k, cs, thrown, n)
               /\ \A e \in k.batch : \E g \in d.batch : e.fd = g.fd
PROOF
    <1> DEFINE f == d.procs[p].fd
               h == Close(d, f)
               k == DestroyProcess(d, p)
               q == [d.procs[p] EXCEPT !.fd = NoFd]
               ps == [d.procs EXCEPT ![p] = q]
               g == <<AProcess(p), f>>
    <1>1. /\ Shaped(d) /\ d.procs \in [Procs -> Proc] /\ cs \in [Clients -> Conn]
          /\ Linked(d.procs, cs) /\ d.procs[p].child = "none"
        BY DEF Good, Typed, Linked
    <1>2. Is(h, d.open \ {f}, d.callbacks, Staled(d.batch, f), d.procs,
             d.undefined \/ f \in DOMAIN d.callbacks)
        BY <1>1, CloseIs
    <1> DEFINE u == d.undefined \/ f \in DOMAIN d.callbacks
    <1> HIDE DEF h
    <1>3. Is(k, d.open \ {f}, d.callbacks, Staled(d.batch, f), ps, u)
        <2>1. Is(h, d.open \ {f}, d.callbacks, Staled(d.batch, f), d.procs, u)
            BY <1>2
        <2> HIDE DEF u
        <2>2. Is([h EXCEPT !.procs[p].fd = NoFd], d.open \ {f}, d.callbacks, Staled(d.batch, f), ps, u)
            BY <1>1, <2>1 DEF Is, Shaped, Proc
        <2> QED
            BY <2>2 DEF DestroyProcess, h
    <1> HIDE DEF k
    <1>4. /\ q \in Proc /\ q.phase = "down" /\ q.child = d.procs[p].child /\ q.fd = NoFd
          /\ q.timer = d.procs[p].timer /\ q.tfd = d.procs[p].tfd /\ q.fired = d.procs[p].fired
        BY <1>1 DEF Proc
    <1> HIDE DEF q
    <1>5. ps \in [Procs -> Proc] /\ ps[p] = q /\ \A x \in Procs : x # p => ps[x] = d.procs[x]
        BY <1>1, <1>4
    <1>6. Linked(ps, cs)
        BY <1>1, <1>4, <1>5 DEF Linked
    <1>7. HeldIn(ps, cs) = HeldIn(d.procs, cs) \ {g}
        BY <1>1, <1>4, HeldByProc DEF HeldIn
    <1>8. WaitingIn(ps, cs) = WaitingIn(d.procs, cs)
        BY <1>1, <1>4, WaitingProc DEF WaitingIn
    <1>9. ProcsWithFd(ps) \subseteq ProcsWithFd(d.procs)
        BY <1>4, <1>5 DEF ProcsWithFd
    <1>10. \A e \in d.batch : ReadyIn(d.procs, cs, e.of) => ReadyIn(ps, cs, e.of)
        BY <1>4, <1>5 DEF ReadyIn
    <1>11. /\ g \in HeldIn(d.procs, cs) /\ g[1] \notin Timers /\ g[2] = f
           /\ \A w \in WaitingIn(d.procs, cs) : w[3] # g[1]
        BY <1>1 DEF HeldIn, WaitingIn, Timers
    <1> HIDE DEF ps, g
    <1>12. Is(k, d.open \ {g[2]}, d.callbacks, Staled(d.batch, g[2]), ps, d.undefined)
        <2>1. d.undefined \in BOOLEAN /\ g[2] \notin DOMAIN d.callbacks
            BY <1>11, UnwatchedUnmapped DEF Good, Typed
        <2> QED
            BY <1>3, <1>11, <2>1
    <1> HIDE DEF u
    <1>13. Good(k, cs, thrown, n)
        BY <1>1, <1>5, <1>6, <1>7, <1>8, <1>9, <1>10, <1>11, <1>12, ReleaseGood
    <1>14. \A e \in k.batch : \E x \in d.batch : e.fd = x.fd
        BY <1>3, StaledIs DEF Is, Good, Typed
    <1> QED
        BY <1>13, <1>14 DEF k

(***************************************************************************)
(* Process::onStateChange, called for the descriptor of the current event. *)
(***************************************************************************)
LEMMA OnStateChangeGood ==
    ASSUME NEW d, NEW cs, NEW thrown, NEW n, Good(d, cs, thrown, n), NEW p \in Procs,
           d.procs[p].child # "none", ~d.undefined,
           \A e \in d.batch : e.fd # d.procs[p].fd
    PROVE  LET k == OnStateChange(d, p)
           IN  /\ Good(k, cs, thrown, n)
               /\ k.procs[p].phase = "down" /\ k.procs[p].timer = "none"
               /\ \A e \in k.batch : \E g \in d.batch : e.fd = g.fd
PROOF
    <1> DEFINE f == d.procs[p].fd
               h == DestroyTimer(d, p)
               o == UnregisterEvent(h, f)
               k == OnStateChange(d, p)
               q == [h.procs[p] EXCEPT !.phase = "down", !.child = "none", !.stops = 0]
               ps == [h.procs EXCEPT ![p] = q]
               g == <<AProcess(p), f>>
    <1>1. /\ Good(h, cs, thrown, n)
          /\ h.procs[p].timer = "none" /\ h.procs[p].fd = f
          /\ h.procs[p].child = d.procs[p].child
          /\ \A e \in h.batch : \E x \in d.batch : e.fd = x.fd
        BY DestroyTimerGood
    <1> HIDE DEF h
    <1>2. /\ Shaped(h) /\ h.procs \in [Procs -> Proc] /\ cs \in [Clients -> Conn]
          /\ Linked(h.procs, cs) /\ f # NoFd
        BY <1>1 DEF Good, Typed, Linked
    <1>3. Is(o, h.open, Without(h.callbacks, f), h.batch, h.procs, h.undefined)
        BY <1>2, UnregisterEventIs
    <1> HIDE DEF o
    <1>4. Is(k, h.open, Without(h.callbacks, f), h.batch, ps, h.undefined)
        <2>1. Is([o EXCEPT !.procs[p].phase = "down", !.procs[p].child = "none",
                           !.procs[p].stops = 0],
                 h.open, Without(h.callbacks, f), h.batch, ps, h.undefined)
            BY <1>2, <1>3 DEF Is, Shaped, Proc
        <2> QED
            BY <2>1 DEF OnStateChange, o, h
    <1> HIDE DEF k
    <1>5. /\ q \in Proc /\ q.phase = "down" /\ q.child = "none" /\ q.fd = h.procs[p].fd
          /\ q.timer = h.procs[p].timer /\ q.tfd = h.procs[p].tfd /\ q.fired = h.procs[p].fired
        <2>1. 0 \in 0..MaxStops
            BY EventAssumption
        <2> QED
            BY <1>2, <2>1 DEF Proc
    <1> HIDE DEF q
    <1>6. ps \in [Procs -> Proc] /\ ps[p] = q /\ \A x \in Procs : x # p => ps[x] = h.procs[x]
        BY <1>2, <1>5
    <1>7. Linked(ps, cs)
        BY <1>2, <1>5, <1>6 DEF Linked
    <1>8. HeldIn(ps, cs) = HeldIn(h.procs, cs)
        BY <1>2, <1>5, HeldByProc DEF HeldIn
    <1>9. g \in HeldIn(h.procs, cs) /\ g[1] = AProcess(p) /\ g[2] = f
        BY <1>1, <1>2 DEF HeldIn
    <1>10. \A w : w \in WaitingIn(ps, cs) <=> w \in WaitingIn(h.procs, cs) /\ w[3] # g[1]
        BY <1>1, <1>2, <1>5, <1>9, WaitingProc DEF WaitingIn
    <1>11. ProcsWithFd(ps) = ProcsWithFd(h.procs)
        BY <1>5, <1>6 DEF ProcsWithFd
    <1>12. \A e \in h.batch : e.fd # g[2]
        BY <1>1, <1>9
    <1>13. ASSUME NEW e \in h.batch, ~e.stale, ~h.undefined, ReadyIn(h.procs, cs, e.of)
           PROVE  ReadyIn(ps, cs, e.of)
        <2>1. \A x \in HeldIn(h.procs, cs) : x[1] = AProcess(p) => x[2] = f
            BY <1>1 DEF HeldIn
        <2>2. PICK x \in HeldIn(h.procs, cs) : x[1] = e.of /\ x[2] = e.fd
            <3>1. Good(h, cs, thrown, n)
                BY <1>1
            <3> QED
                BY ONLY <3>1, <1>13, EventOfHolder
        <2>3. e.of # AProcess(p)
            BY <1>9, <1>12, <2>1, <2>2
        <2> QED
            BY <1>5, <1>6, <1>13, <2>3 DEF ReadyIn
    <1> HIDE DEF ps, g
    <1>14. Is(k, h.open, Without(h.callbacks, g[2]), h.batch, ps, h.undefined)
        BY <1>4, <1>9
    <1>15. Good(k, cs, thrown, n)
        BY <1>1, <1>2, <1>6, <1>7, <1>8, <1>9, <1>10, <1>11, <1>12, <1>13, <1>14, DetachGood
    <1>16. k.procs[p] = q /\ k.batch = h.batch
        BY <1>4, <1>6 DEF Is
    <1> QED
        BY <1>1, <1>5, <1>15, <1>16 DEF k

(***************************************************************************)
(* Timer::onExpire, called for the descriptor of the current event.        *)
(***************************************************************************)
LEMMA EarlyExpireGood ==
    ASSUME NEW d, NEW cs, NEW thrown, NEW n, Good(d, cs, thrown, n), NEW p \in Procs,
           d.procs[p].timer # "none", ~d.procs[p].fired, ATimer(p) \in thrown
    PROVE  LET k == OnExpire(d, p) IN Good(k, cs, thrown, n) /\ k.batch = d.batch
PROOF
    <1> DEFINE k == OnExpire(d, p)
               q == [d.procs[p] EXCEPT !.timer = "stopped"]
               ps == [d.procs EXCEPT ![p] = q]
    <1>0. /\ Shaped(d) /\ Typed(d, cs) /\ d.procs \in [Procs -> Proc] /\ cs \in [Clients -> Conn]
          /\ Linked(d.procs, cs) /\ Owned(HeldIn(d.procs, cs), d.open) /\ n \in Nat
          /\ Counted(HeldIn(d.procs, cs), d.open, d.procs, n)
          /\ ~d.undefined => Mapped(d.callbacks, HeldIn(d.procs, cs), WaitingIn(d.procs, cs), thrown)
          /\ d.undefined => thrown # {}
          /\ thrown \subseteq Timers
          /\ Traced(d, cs)
        BY DEF Good, Typed
    <1>1. Is(k, d.open, d.callbacks, d.batch, ps, d.undefined)
        BY <1>0 DEF OnExpire, Is, Shaped
    <1> HIDE DEF k
    <1>2. /\ q \in Proc /\ q.timer = "stopped" /\ q.fd = d.procs[p].fd /\ q.tfd = d.procs[p].tfd
          /\ q.child = d.procs[p].child /\ q.phase = d.procs[p].phase /\ q.fired = d.procs[p].fired
        BY <1>0 DEF Proc
    <1> HIDE DEF q
    <1>3. ps \in [Procs -> Proc] /\ ps[p] = q /\ \A x \in Procs : x # p => ps[x] = d.procs[x]
        BY <1>0, <1>2
    <1>4. Linked(ps, cs)
        BY <1>0, <1>2, <1>3 DEF Linked
    <1>5. HeldIn(ps, cs) = HeldIn(d.procs, cs)
        BY <1>0, <1>2, HeldByProc DEF HeldIn
    <1>6. /\ WaitingIn(ps, cs) \subseteq WaitingIn(d.procs, cs)
          /\ \A w \in WaitingIn(d.procs, cs) :
                w \notin WaitingIn(ps, cs) => w[3] = ATimer(p) /\ w[2] = "read"
        BY <1>0, <1>2, WaitingProc DEF WaitingIn
    <1>7. \A object : ReadyIn(ps, cs, object) <=> ReadyIn(d.procs, cs, object)
        BY <1>2, <1>3 DEF ReadyIn
    <1>8. ProcsWithFd(ps) = ProcsWithFd(d.procs)
        BY <1>2, <1>3 DEF ProcsWithFd
    <1> HIDE DEF ps
    <1>9. ~d.undefined => Mapped(d.callbacks, HeldIn(ps, cs), WaitingIn(ps, cs), thrown)
        <2> SUFFICES ASSUME ~d.undefined
                     PROVE  Mapped(d.callbacks, HeldIn(ps, cs), WaitingIn(ps, cs), thrown)
            OBVIOUS
        <2>1. ASSUME NEW fd \in DOMAIN d.callbacks
              PROVE  \/ <<fd, d.callbacks[fd].on, d.callbacks[fd].of>> \in WaitingIn(ps, cs)
                     \/ d.callbacks[fd].of \in thrown /\ d.callbacks[fd].on = "read"
            <3> DEFINE w == <<fd, d.callbacks[fd].on, d.callbacks[fd].of>>
            <3>1. \/ w \in WaitingIn(d.procs, cs)
                  \/ d.callbacks[fd].of \in thrown /\ d.callbacks[fd].on = "read"
                BY <1>0 DEF Mapped
            <3>2. w[2] = d.callbacks[fd].on /\ w[3] = d.callbacks[fd].of
                OBVIOUS
            <3> DEFINE timer == ATimer(p)
            <3>3. /\ timer \in thrown
                  /\ \A v \in WaitingIn(d.procs, cs) :
                        v \notin WaitingIn(ps, cs) => v[3] = timer /\ v[2] = "read"
                BY <1>6, Zenon
            <3> HIDE DEF w, timer
            <3>4. \/ w \in WaitingIn(ps, cs)
                  \/ d.callbacks[fd].of \in thrown /\ d.callbacks[fd].on = "read"
                BY <3>1, <3>2, <3>3
            <3> QED
                BY <3>4 DEF w
        <2> QED
            BY <1>0, <1>5, <1>6, <2>1 DEF Mapped
    <1>10. /\ k.procs = ps /\ k.open = d.open /\ k.callbacks = d.callbacks /\ k.batch = d.batch
           /\ k.undefined = d.undefined /\ Shaped(k)
        BY <1>1 DEF Is
    <1>11. Typed(k, cs) /\ Traced(k, cs)
        BY <1>0, <1>3, <1>7, <1>10 DEF Typed, Traced, TrueEvent
    <1>12. Counted(HeldIn(ps, cs), d.open, ps, n)
        BY <1>0, <1>5, <1>8 DEF Counted, ProcsWithFd
    <1>13. Good(k, cs, thrown, n)
        BY <1>0, <1>4, <1>5, <1>9, <1>10, <1>11, <1>12 DEF Good
    <1> QED
        BY <1>10, <1>13 DEF k

LEMMA OnExpireGood ==
    ASSUME NEW d, NEW cs, NEW thrown, NEW n, Good(d, cs, thrown, n), NEW p \in Procs,
           d.procs[p].timer # "none", d.procs[p].fired,
           \A e \in d.batch : e.fd # d.procs[p].tfd
    PROVE  LET k == OnExpire(d, p) IN Good(k, cs, thrown, n) /\ k.batch = d.batch
PROOF
    <1> DEFINE k == OnExpire(d, p)
               t == d.procs[p].tfd
               phase == IF d.procs[p].phase = "starting" THEN "running" ELSE d.procs[p].phase
               child == IF d.procs[p].phase = "stopping" /\ d.procs[p].child = "alive"
                        THEN "killed" ELSE d.procs[p].child
               h == [d EXCEPT !.procs[p].timer = "stopped"]
               o == UnregisterEvent(h, t)
               q == [d.procs[p] EXCEPT !.timer = "stopped", !.phase = phase, !.child = child]
               ps == [d.procs EXCEPT ![p] = q]
               g == <<ATimer(p), t>>
    <1>1. /\ Shaped(d) /\ d.procs \in [Procs -> Proc] /\ cs \in [Clients -> Conn]
          /\ Linked(d.procs, cs) /\ t # NoFd
        BY DEF Good, Typed, Linked
    <1>2. Is(h, d.open, d.callbacks, d.batch, [d.procs EXCEPT ![p].timer = "stopped"], d.undefined)
        BY <1>1 DEF Is, Shaped
    <1>3. k = [o EXCEPT !.procs[p].phase = IF @ = "starting" THEN "running" ELSE @,
                        !.procs[p].child = IF d.procs[p].phase = "stopping" /\ @ = "alive"
                                           THEN "killed" ELSE @]
        BY DEF OnExpire
    <1> HIDE DEF h
    <1>4. Is(o, d.open, Without(d.callbacks, t), d.batch, [d.procs EXCEPT ![p].timer = "stopped"],
             d.undefined)
        BY <1>2, UnregisterEventIs DEF Is
    <1> HIDE DEF o
    <1>5. Is(k, d.open, Without(d.callbacks, t), d.batch, ps, d.undefined)
        <2>1. /\ o.procs[p].phase = d.procs[p].phase /\ o.procs[p].child = d.procs[p].child
              /\ o.procs = [d.procs EXCEPT ![p] = [d.procs[p] EXCEPT !.timer = "stopped"]]
            BY <1>1, <1>4 DEF Is, Proc
        <2>2. k = [o EXCEPT !.procs[p].phase = phase, !.procs[p].child = child]
            BY <1>1, <1>3, <1>4, <2>1 DEF Is, Shaped, Proc
        <2> HIDE DEF phase, child, k
        <2>3. [o.procs EXCEPT ![p].phase = phase, ![p].child = child] = ps
            BY <1>1, <2>1 DEF Proc
        <2>4. Is(k, d.open, Without(d.callbacks, t), d.batch,
                 [o.procs EXCEPT ![p].phase = phase, ![p].child = child], d.undefined)
            BY <1>1, <1>4, <2>1, <2>2 DEF Is, Shaped, Proc
        <2> QED
            BY <2>3, <2>4
    <1> HIDE DEF k
    <1>6. /\ q \in Proc /\ q.timer = "stopped" /\ q.fd = d.procs[p].fd /\ q.tfd = t
          /\ q.fired = d.procs[p].fired
          /\ q.child = "none" <=> d.procs[p].child = "none"
          /\ q.phase = "down" <=> d.procs[p].phase = "down"
          /\ d.procs[p].child = "dead" => q.child = "dead"
        BY <1>1 DEF Proc
    <1> HIDE DEF q
    <1>7. ps \in [Procs -> Proc] /\ ps[p] = q /\ \A x \in Procs : x # p => ps[x] = d.procs[x]
        BY <1>1, <1>6
    <1>8. Linked(ps, cs)
        BY <1>1, <1>6, <1>7 DEF Linked
    <1>9. HeldIn(ps, cs) = HeldIn(d.procs, cs)
        BY <1>1, <1>6, HeldByProc DEF HeldIn
    <1>10. g \in HeldIn(d.procs, cs) /\ g[1] = ATimer(p) /\ g[2] = t
        BY <1>1 DEF HeldIn
    <1>11. \A w : w \in WaitingIn(ps, cs) <=> w \in WaitingIn(d.procs, cs) /\ w[3] # g[1]
        BY <1>1, <1>6, <1>10, WaitingProc DEF WaitingIn
    <1>12. ProcsWithFd(ps) = ProcsWithFd(d.procs)
        BY <1>6, <1>7 DEF ProcsWithFd
    <1>13. \A e \in d.batch : ReadyIn(d.procs, cs, e.of) => ReadyIn(ps, cs, e.of)
        BY <1>6, <1>7 DEF ReadyIn
    <1> HIDE DEF ps, g
    <1>14. /\ Is(k, d.open, Without(d.callbacks, g[2]), d.batch, ps, d.undefined)
           /\ \A e \in d.batch : e.fd # g[2]
        BY <1>5, <1>10
    <1>15. Good(k, cs, thrown, n)
        BY <1>1, <1>7, <1>8, <1>9, <1>10, <1>11, <1>12, <1>13, <1>14, DetachGood
    <1> QED
        BY <1>5, <1>15 DEF k, Is

(***************************************************************************)
(* What a command or the main loop does with a process.                    *)
(***************************************************************************)
LEMMA RestartedGood ==
    ASSUME NEW d, NEW cs, NEW thrown, Good(d, cs, thrown, starts), NEW p \in Procs,
           d.procs[p].phase = "down", ~d.undefined \/ d.procs[p].timer = "none",
           NEW o \in Restarted(d, p), MaxStarts \in Nat
    PROVE  /\ Good(o.d, cs, thrown, starts + o.started)
           /\ starts + o.started <= MaxStarts
           /\ \A e \in o.d.batch : \E g \in d.batch : e.fd = g.fd
PROOF
    <1>1. starts < MaxStarts /\ o \in Outcomes(ProcessStart(d, p), 1) /\ starts \in Nat
        BY DEF Restarted, Good
    <1>2. o.d \in ProcessStart(d, p) /\ o.started = 1
        BY <1>1 DEF Outcomes
    <1> QED
        BY <1>1, <1>2, ProcessStartGood

LEMMA ManagedGood ==
    ASSUME NEW d, NEW cs, NEW thrown, Good(d, cs, thrown, starts), ~d.undefined,
           NEW o \in Managed(d), starts <= MaxStarts
    PROVE  /\ Good(o.d, cs, thrown, starts + o.started)
           /\ starts + o.started <= MaxStarts
           /\ \A e \in o.d.batch : \E g \in d.batch : e.fd = g.fd
PROOF
    <1>0. starts \in Nat /\ MaxStarts \in Nat
        BY EventAssumption DEF Good
    <1>2. ASSUME NEW p \in Procs, d.procs[p].phase = "down", o \in Restarted(d, p)
          PROVE  /\ Good(o.d, cs, thrown, starts + o.started)
                 /\ starts + o.started <= MaxStarts
                 /\ \A e \in o.d.batch : \E g \in d.batch : e.fd = g.fd
        BY <1>0, <1>2, RestartedGood
    <1>3. ASSUME NEW p \in Procs, d.procs[p].phase # "down", d.procs[p].stops < MaxStops,
                 o \in Outcomes(ProcessStop(d, p), 0)
          PROVE  /\ Good(o.d, cs, thrown, starts + o.started)
                 /\ starts + o.started <= MaxStarts
                 /\ \A e \in o.d.batch : \E g \in d.batch : e.fd = g.fd
        <2>1. o.d \in ProcessStop(d, p) /\ o.started = 0
            BY <1>3 DEF Outcomes
        <2> QED
            BY <1>0, <1>3, <2>1, ProcessStopGood
    <1>4. ASSUME NEW p \in Procs, d.procs[p].phase = "down", d.procs[p].fd # NoFd,
                 o.d = DestroyProcess(d, p), o.started = 0
          PROVE  /\ Good(o.d, cs, thrown, starts + o.started)
                 /\ starts + o.started <= MaxStarts
                 /\ \A e \in o.d.batch : \E g \in d.batch : e.fd = g.fd
        BY <1>0, <1>4, DestroyProcessGood
    <1>5. \/ \E p \in Procs : d.procs[p].phase = "down" /\ o \in Restarted(d, p)
          \/ \E p \in Procs : /\ d.procs[p].phase # "down" /\ d.procs[p].stops < MaxStops
                              /\ o \in Outcomes(ProcessStop(d, p), 0)
          \/ \E p \in Procs : /\ d.procs[p].phase = "down" /\ d.procs[p].fd # NoFd
                              /\ o.d = DestroyProcess(d, p) /\ o.started = 0
        <2> DEFINE down == {p \in Procs : d.procs[p].phase = "down"}
                   ended == {p \in down : d.procs[p].fd # NoFd}
                   gone == {DestroyProcess(d, p) : p \in ended}
        <2>1. o \in Outcomes(gone, 0) => o.d \in gone /\ o.started = 0
            BY DEF Outcomes
        <2> QED
            BY <2>1 DEF Managed
    <1> QED
        BY <1>2, <1>3, <1>4, <1>5

----------------------------------------------------------------------------
(***************************************************************************)
(* The operations of a Client.                                             *)
(***************************************************************************)
LEMMA ClientHolds ==
    ASSUME NEW ps, NEW cs, NEW c \in Clients, cs[c].fd # NoFd
    PROVE  /\ <<AClient(c), cs[c].fd>> \in HeldIn(ps, cs)
           /\ \A h \in HeldIn(ps, cs) : h[1] = AClient(c) => h[2] = cs[c].fd
           /\ \A w \in WaitingIn(ps, cs) : w[3] = AClient(c) => cs[c].mode \in {"reading", "writing"}
           /\ AClient(c) \notin Timers
PROOF
    <1>1. \A w \in WaitingIn(ps, cs) : w[3] = AClient(c) => cs[c].mode \in {"reading", "writing"}
        BY DEF WaitingIn
    <1> QED
        BY <1>1 DEF HeldIn, Timers

\* A client that waits for nothing has no event that is not stale.
LEMMA ExecutingHasNoEvent ==
    ASSUME NEW d, NEW cs, NEW thrown, NEW n, Good(d, cs, thrown, n), ~d.undefined,
           NEW c \in Clients, cs[c].mode \notin {"reading", "writing"},
           NEW e \in d.batch, ~e.stale
    PROVE  e.of # AClient(c)
PROOF
    <1> DEFINE object == AClient(c)
    <1>1. object \notin Timers /\ \A w \in WaitingIn(d.procs, cs) : w[3] # object
        BY DEF WaitingIn, Timers
    <1> HIDE DEF object
    <1>2. thrown \subseteq Timers
        BY DEF Good
    <1>3. \/ \E w \in WaitingIn(d.procs, cs) : w[3] = e.of
          \/ e.of \in thrown
        <2>1. /\ e.fd \in DOMAIN d.callbacks
              /\ d.callbacks[e.fd] = [on |-> e.on, of |-> e.of]
            BY DEF Good, Traced, TrueEvent
        <2>2. Mapped(d.callbacks, HeldIn(d.procs, cs), WaitingIn(d.procs, cs), thrown)
            BY DEF Good
        <2> DEFINE f == e.fd
                   x == d.callbacks[f]
        <2>3. /\ f \in DOMAIN d.callbacks
              /\ x.of = e.of /\ x.on = e.on
            BY ONLY <2>1
        <2> HIDE DEF f
        <2>4. <<f, x.on, x.of>> \in WaitingIn(d.procs, cs) \/ x.of \in thrown
            BY ONLY <2>2, <2>3 DEF Mapped
        <2> QED
            BY ONLY <2>3, <2>4
    <1>4. e.of # object
        BY ONLY <1>1, <1>2, <1>3
    <1> QED
        BY <1>4 DEF object

LEMMA DetachClient ==
    ASSUME NEW d, NEW cs, NEW thrown, NEW n, Good(d, cs, thrown, n), NEW c \in Clients,
           cs[c].mode \in {"reading", "writing"}, \A e \in d.batch : e.fd # cs[c].fd,
           NEW q \in Conn, q.mode = "executing", q.fd = cs[c].fd
    PROVE  Good(UnregisterEvent(d, cs[c].fd), [cs EXCEPT ![c] = q], thrown, n)
PROOF
    <1> DEFINE fd == cs[c].fd
               k == UnregisterEvent(d, fd)
               cs2 == [cs EXCEPT ![c] = q]
               g == <<AClient(c), fd>>
    <1>1. /\ Shaped(d) /\ d.procs \in [Procs -> Proc] /\ cs \in [Clients -> Conn]
          /\ Linked(d.procs, cs) /\ fd # NoFd
        BY DEF Good, Typed, Linked
    <1>2. Is(k, d.open, Without(d.callbacks, fd), d.batch, d.procs, d.undefined)
        BY <1>1, UnregisterEventIs
    <1> HIDE DEF k
    <1>3. cs2 \in [Clients -> Conn] /\ cs2[c] = q /\ \A x \in Clients : x # c => cs2[x] = cs[x]
        BY <1>1
    <1>4. Linked(d.procs, cs2)
        BY <1>1, <1>3 DEF Linked
    <1>5. HeldIn(d.procs, cs2) = HeldIn(d.procs, cs)
        BY <1>1, HeldByClient DEF HeldIn
    <1>6. g \in HeldIn(d.procs, cs) /\ g[1] = AClient(c) /\ g[2] = fd
        BY <1>1, ClientHolds
    <1>7. \A w : w \in WaitingIn(d.procs, cs2) <=> w \in WaitingIn(d.procs, cs) /\ w[3] # g[1]
        BY <1>1, <1>6, WaitingClient DEF WaitingIn
    <1>8. ASSUME NEW e \in d.batch, ~e.stale, ~d.undefined, ReadyIn(d.procs, cs, e.of)
          PROVE  ReadyIn(d.procs, cs2, e.of)
        <2>1. \A x \in HeldIn(d.procs, cs) : x[1] = AClient(c) => x[2] = fd
            BY DEF HeldIn
        <2>2. PICK x \in HeldIn(d.procs, cs) : x[1] = e.of /\ x[2] = e.fd
            BY ONLY Good(d, cs, thrown, n), <1>8, EventOfHolder
        <2>3. e.of # AClient(c)
            BY <2>1, <2>2
        <2> QED
            BY <1>3, <1>8, <2>3 DEF ReadyIn
    <1> HIDE DEF cs2, g
    <1>9. /\ Is(k, d.open, Without(d.callbacks, g[2]), d.batch, d.procs, d.undefined)
          /\ \A e \in d.batch : e.fd # g[2]
        BY <1>2, <1>6
    <1>10. Good(k, cs2, thrown, n)
        BY <1>1, <1>3, <1>4, <1>5, <1>6, <1>7, <1>8, <1>9, DetachGood
    <1> QED
        BY <1>10 DEF k, cs2

LEMMA AttachClient ==
    ASSUME NEW d, NEW cs, NEW thrown, NEW n, Good(d, cs, thrown, n), NEW c \in Clients,
           cs[c].mode = "executing", NEW on \in {"read", "write"},
           NEW q \in Conn, q.mode = IF on = "read" THEN "reading" ELSE "writing",
           q.fd = cs[c].fd
    PROVE  Good(RegisterEvent(d, cs[c].fd, on, AClient(c)), [cs EXCEPT ![c] = q], thrown, n)
PROOF
    <1> DEFINE fd == cs[c].fd
               object == AClient(c)
               k == RegisterEvent(d, fd, on, object)
               cs2 == [cs EXCEPT ![c] = q]
    <1>1. /\ Shaped(d) /\ d.procs \in [Procs -> Proc] /\ cs \in [Clients -> Conn]
          /\ Linked(d.procs, cs) /\ fd # NoFd /\ fd \in Nat
        BY DEF Good, Typed, Linked, Conn
    <1>2. Is(k, d.open, With(d.callbacks, fd, on, object), d.batch, d.procs, d.undefined)
        BY <1>1, RegisterEventIs
    <1> HIDE DEF k
    <1>3. cs2 \in [Clients -> Conn] /\ cs2[c] = q /\ \A x \in Clients : x # c => cs2[x] = cs[x]
        BY <1>1
    <1>4. Linked(d.procs, cs2)
        BY <1>1, <1>3 DEF Linked
    <1>5. HeldIn(d.procs, cs2) = HeldIn(d.procs, cs)
        BY <1>1, HeldByClient DEF HeldIn
    <1>6. WaitingIn(d.procs, cs2) = WaitingIn(d.procs, cs) \cup {<<fd, on, object>>}
        BY <1>1, WaitingClient DEF WaitingIn
    <1>7. /\ <<object, fd>> \in HeldIn(d.procs, cs) /\ object \notin Timers
          /\ \A w \in WaitingIn(d.procs, cs) : w[3] # object
          /\ object \in Objects
        BY <1>1, ClientHolds DEF Objects
    <1>8. ASSUME NEW e \in d.batch, ~e.stale, ~d.undefined, ReadyIn(d.procs, cs, e.of)
          PROVE  ReadyIn(d.procs, cs2, e.of)
        <2>1. e.of # AClient(c)
            BY <1>8, ExecutingHasNoEvent
        <2> QED
            BY <1>3, <1>8, <2>1 DEF ReadyIn
    <1> HIDE DEF cs2, object
    <1>9. fd \notin DOMAIN d.callbacks \/ d.undefined
        <2>1. ASSUME fd \in DOMAIN d.callbacks, ~d.undefined
              PROVE  FALSE
            <3>1. /\ Owned(HeldIn(d.procs, cs), d.open) /\ thrown \subseteq Timers
                  /\ Mapped(d.callbacks, HeldIn(d.procs, cs), WaitingIn(d.procs, cs), thrown)
                BY <2>1 DEF Good
            <3>2. d.callbacks[fd].of = object
                BY <1>7, <2>1, <3>1, CallbackOf
            <3> QED
                BY <1>7, <2>1, <3>1, <3>2 DEF Mapped
        <2> QED
            BY <2>1
    <1>10. Good(k, cs2, thrown, n)
        BY <1>1, <1>2, <1>3, <1>4, <1>5, <1>6, <1>7, <1>8, <1>9, AttachGood
    <1> QED
        BY <1>10 DEF k, cs2, object

LEMMA CloseClient ==
    ASSUME NEW d, NEW cs, NEW thrown, NEW n, Good(d, cs, thrown, n), NEW c \in Clients,
           cs[c].mode = "executing", ~d.undefined,
           NEW q \in Conn, q.mode = "closed", q.fd = NoFd
    PROVE  Good(Close(d, cs[c].fd), [cs EXCEPT ![c] = q], thrown, n)
PROOF
    <1> DEFINE fd == cs[c].fd
               k == Close(d, fd)
               cs2 == [cs EXCEPT ![c] = q]
               g == <<AClient(c), fd>>
               u == d.undefined \/ fd \in DOMAIN d.callbacks
    <1>1. /\ Shaped(d) /\ d.procs \in [Procs -> Proc] /\ cs \in [Clients -> Conn]
          /\ Linked(d.procs, cs) /\ fd # NoFd
        BY DEF Good, Typed, Linked
    <1>2. Is(k, d.open \ {fd}, d.callbacks, Staled(d.batch, fd), d.procs, u)
        BY <1>1, CloseIs
    <1> HIDE DEF k
    <1>3. cs2 \in [Clients -> Conn] /\ cs2[c] = q /\ \A x \in Clients : x # c => cs2[x] = cs[x]
        BY <1>1
    <1>4. Linked(d.procs, cs2)
        BY <1>1, <1>3 DEF Linked
    <1>5. HeldIn(d.procs, cs2) = HeldIn(d.procs, cs) \ {g}
        BY <1>1, HeldByClient DEF HeldIn
    <1>6. WaitingIn(d.procs, cs2) = WaitingIn(d.procs, cs)
        BY <1>1, WaitingClient DEF WaitingIn
    <1>7. /\ g \in HeldIn(d.procs, cs) /\ g[1] = AClient(c) /\ g[2] = fd /\ g[1] \notin Timers
          /\ \A w \in WaitingIn(d.procs, cs) : w[3] # g[1]
        BY <1>1, ClientHolds
    <1>8. ASSUME NEW e \in d.batch, ~e.stale, ~d.undefined, ReadyIn(d.procs, cs, e.of)
          PROVE  ReadyIn(d.procs, cs2, e.of)
        <2>1. e.of # AClient(c)
            BY <1>8, ExecutingHasNoEvent
        <2> QED
            BY <1>3, <1>8, <2>1 DEF ReadyIn
    <1> HIDE DEF cs2, g
    <1>9. Is(k, d.open \ {g[2]}, d.callbacks, Staled(d.batch, g[2]), d.procs, d.undefined)
        <2>1. d.undefined \in BOOLEAN /\ g[2] \notin DOMAIN d.callbacks
            BY <1>7, UnwatchedUnmapped DEF Good, Typed
        <2> QED
            BY <1>2, <1>7, <2>1
    <1> HIDE DEF u
    <1>10. /\ \A e \in d.batch : ~e.stale /\ ~d.undefined /\ ReadyIn(d.procs, cs, e.of)
                                  => ReadyIn(d.procs, cs2, e.of)
           /\ ProcsWithFd(d.procs) \subseteq ProcsWithFd(d.procs)
        BY <1>8
    <1>11. Good(k, cs2, thrown, n)
        BY <1>1, <1>3, <1>4, <1>5, <1>6, <1>7, <1>9, <1>10, ReleaseGood
    <1> QED
        BY <1>11 DEF k, cs2

LEMMA AcceptClient ==
    ASSUME NEW d, NEW cs, NEW thrown, NEW n, Good(d, cs, thrown, n), NEW c \in Clients,
           cs[c].mode = "backlog", \A e \in d.batch : e.fd # ServerFd,
           NEW fd \in Lowest(d.open),
           NEW q \in Conn, q.mode = "reading", q.fd = fd,
           q.input = cs[c].input, q.gone = cs[c].gone
    PROVE  Good(RegisterEvent(Opened(d, fd), fd, "read", AClient(c)), [cs EXCEPT ![c] = q],
                thrown, n)
PROOF
    <1> DEFINE object == AClient(c)
               o == Opened(d, fd)
               k == RegisterEvent(o, fd, "read", object)
               cs2 == [cs EXCEPT ![c] = q]
    <1>1. /\ Shaped(d) /\ d.procs \in [Procs -> Proc] /\ cs \in [Clients -> Conn]
          /\ Linked(d.procs, cs) /\ cs[c].fd = NoFd /\ n \in Nat
          /\ fd \in Nat /\ fd # NoFd /\ fd \notin d.open
        BY LowestIsNew DEF Good, Typed, Linked
    <1>2. Is(k, d.open \cup {fd}, With(d.callbacks, fd, "read", object), d.batch, d.procs,
             d.undefined)
        <2>1. Is(o, d.open \cup {fd}, d.callbacks, d.batch, d.procs, d.undefined)
            BY <1>1, OpenedIs
        <2> HIDE DEF o
        <2> QED
            BY <2>1, RegisterEventIs DEF Is
    <1> HIDE DEF k
    <1>3. cs2 \in [Clients -> Conn] /\ cs2[c] = q /\ \A x \in Clients : x # c => cs2[x] = cs[x]
        BY <1>1
    <1>4. Linked(d.procs, cs2)
        BY <1>1, <1>3 DEF Linked
    <1>5. HeldIn(d.procs, cs2) = HeldIn(d.procs, cs) \cup {<<object, fd>>}
        BY <1>1, HeldByClient DEF HeldIn
    <1>6. WaitingIn(d.procs, cs2) = WaitingIn(d.procs, cs) \cup {<<fd, "read", object>>}
        BY <1>1, WaitingClient DEF WaitingIn
    <1>7. object \in Objects
        BY DEF Objects
    <1>8. ASSUME NEW e \in d.batch, ~e.stale, ~d.undefined, ReadyIn(d.procs, cs, e.of)
          PROVE  ReadyIn(d.procs, cs2, e.of)
        <2>1. \A x \in HeldIn(d.procs, cs) : x[1] = TheServer => x[2] = ServerFd
            BY DEF HeldIn
        <2>2. PICK x \in HeldIn(d.procs, cs) : x[1] = e.of /\ x[2] = e.fd
            BY ONLY Good(d, cs, thrown, n), <1>8, EventOfHolder
        <2>3. e.of # TheServer
            BY <2>1, <2>2
        <2> QED
            BY <1>3, <1>8, <2>3 DEF ReadyIn
    <1> HIDE DEF cs2, object
    <1>9. /\ Cardinality(ProcsWithFd(d.procs)) + n <= Cardinality(ProcsWithFd(d.procs)) + n
        BY <1>1, ProcsWithFdFinite
    <1>10. Good(k, cs2, thrown, n)
        BY <1>1, <1>2, <1>3, <1>4, <1>5, <1>6, <1>7, <1>8, <1>9, AcquireGood
    <1> QED
        BY <1>10 DEF k, cs2, object, o

----------------------------------------------------------------------------
(***************************************************************************)
(* From the records to the variables.                                      *)
(***************************************************************************)
\* More timers may have thrown.
LEMMA GoodThrown ==
    ASSUME NEW d, NEW cs, NEW thrown, NEW n, Good(d, cs, thrown, n),
           NEW more, thrown \subseteq more, more \subseteq Timers
    PROVE  Good(d, cs, more, n)
PROOF
    <1>1. ~d.undefined =>
             Mapped(d.callbacks, HeldIn(d.procs, cs), WaitingIn(d.procs, cs), more)
        BY DEF Good, Mapped
    <1> QED
        BY <1>1 DEF Good

\* Only the fields count.
LEMMA SameGood ==
    ASSUME NEW d, NEW cs, NEW thrown, NEW n, Good(d, cs, thrown, n),
           NEW k, Is(k, d.open, d.callbacks, d.batch, d.procs, d.undefined)
    PROVE  Good(k, cs, thrown, n)
PROOF
    <1>1. d.procs \in [Procs -> Proc] /\ cs \in [Clients -> Conn] /\ Linked(d.procs, cs)
        BY DEF Good, Typed
    <1> QED
        BY <1>1, QuietGood

\* The end of a handler.
LEMMA HandlerEnds ==
    ASSUME NEW d, NEW cs, NEW n, Good(d, cs, Thrown', n), Becomes(d), conns' = cs, starts' = n,
           n <= MaxStarts,
           commands' \in 0..MaxCommands, current' = NoEvent
    PROVE  EventInv'
PROOF
    <1>1. Is(Daemon', d.open, d.callbacks, d.batch, d.procs, d.undefined)
        BY DEF Daemon, Is, Shaped, Becomes
    <1>2. Good(Daemon', cs, Thrown', n)
        BY <1>1, SameGood
    <1> QED
        BY <1>2 DEF EventInv

\* What a handler may rely on: its object holds the descriptor of the event, which no
\* other event of the batch has, and is ready unless the event is stale.
LEMMA TargetIs ==
    ASSUME EventInv, NEW object, object # Nobody, Handles(object)
    PROVE  /\ current.fd \in DOMAIN callbacks
           /\ \E h \in HeldIn(procs, conns) : h[1] = object /\ h[2] = current.fd
           /\ object \notin Thrown =>
                 \E w \in WaitingIn(procs, conns) :
                    w[1] = current.fd /\ w[2] = current.on /\ w[3] = object
           /\ \A e \in batch : e.fd # current.fd
           /\ ~current.stale => ReadyIn(procs, conns, object)
           /\ current.stale \in BOOLEAN
PROOF
    <1> DEFINE x == callbacks[current.fd]
    <1>1. /\ current.fd \in DOMAIN callbacks /\ x.on = current.on /\ x.of = object
          /\ ~undefined /\ current # NoEvent
        BY DEF Handles, Target
    <1>2. Mapped(callbacks, HeldIn(procs, conns), WaitingIn(procs, conns), Thrown)
        BY <1>1 DEF EventInv, Good, Daemon
    <1>3. /\ \A e \in batch : e.fd # current.fd
          /\ TrueEvent(current, Daemon, conns) /\ current.stale \in BOOLEAN
        BY <1>1 DEF EventInv, Event
    <1>4. ~current.stale => ReadyIn(procs, conns, object)
        BY <1>1, <1>3 DEF TrueEvent, Daemon
    <1>5. /\ <<x.of, current.fd>> \in HeldIn(procs, conns)
          /\ \/ <<current.fd, x.on, x.of>> \in WaitingIn(procs, conns)
             \/ x.of \in Thrown
        BY ONLY <1>1, <1>2 DEF Mapped
    <1>6. \E h \in HeldIn(procs, conns) : h[1] = object /\ h[2] = current.fd
        BY ONLY <1>1, <1>5
    <1>7. object \notin Thrown =>
             \E w \in WaitingIn(procs, conns) :
                w[1] = current.fd /\ w[2] = current.on /\ w[3] = object
        BY ONLY <1>1, <1>5
    <1> QED
        BY <1>1, <1>3, <1>4, <1>6, <1>7

LEMMA ClientTarget ==
    ASSUME EventInv, NEW c \in Clients, Handles(AClient(c))
    PROVE  /\ conns[c].fd = current.fd
           /\ current.on = "read" => conns[c].mode = "reading"
           /\ current.on = "write" => conns[c].mode = "writing"
           /\ conns[c].mode \in {"reading", "writing"}
           /\ \A e \in batch : e.fd # current.fd
PROOF
    <1> DEFINE object == AClient(c)
    <1>1. object # Nobody /\ object \notin Thrown
        BY DEF Thrown, Timers
    <1>2. /\ \A h \in HeldIn(procs, conns) : h[1] = object => h[2] = conns[c].fd
          /\ \A w \in WaitingIn(procs, conns) : w[3] = object =>
                \/ w[2] = "read" /\ conns[c].mode = "reading"
                \/ w[2] = "write" /\ conns[c].mode = "writing"
        BY DEF HeldIn, WaitingIn
    <1> HIDE DEF object
    <1>3. Handles(object)
        BY DEF object
    <1> QED
        BY <1>1, <1>2, <1>3, TargetIs

LEMMA ProcessTarget ==
    ASSUME EventInv, NEW p \in Procs, Handles(AProcess(p))
    PROVE  /\ procs[p].fd = current.fd
           /\ procs[p].child # "none"
           /\ \A e \in batch : e.fd # current.fd
PROOF
    <1> DEFINE object == AProcess(p)
    <1>1. object # Nobody /\ object \notin Thrown
        BY DEF Thrown, Timers
    <1>2. /\ \A h \in HeldIn(procs, conns) : h[1] = object => h[2] = procs[p].fd
          /\ \A w \in WaitingIn(procs, conns) : w[3] = object => procs[p].child # "none"
        BY DEF HeldIn, WaitingIn
    <1> HIDE DEF object
    <1>3. Handles(object)
        BY DEF object
    <1> QED
        BY <1>1, <1>2, <1>3, TargetIs

LEMMA TimerTarget ==
    ASSUME EventInv, NEW p \in Procs, Handles(ATimer(p))
    PROVE  /\ procs[p].tfd = current.fd
           /\ procs[p].timer # "none"
           /\ \A e \in batch : e.fd # current.fd
           /\ procs[p].fired \/ current.stale
PROOF
    <1> DEFINE object == ATimer(p)
    <1>1. object # Nobody
        OBVIOUS
    <1>2. /\ \A h \in HeldIn(procs, conns) : h[1] = object =>
                h[2] = procs[p].tfd /\ procs[p].tfd # NoFd
          /\ ReadyIn(procs, conns, object) => procs[p].fired
        BY DEF HeldIn, ReadyIn
    <1> HIDE DEF object
    <1>3. Handles(object)
        BY DEF object
    <1>4. procs[p].tfd = current.fd /\ procs[p].tfd # NoFd
        BY <1>1, <1>2, <1>3, TargetIs
    <1>5. procs[p].timer # "none"
        BY <1>4 DEF EventInv, Good, Daemon, Linked
    <1> QED
        BY <1>1, <1>2, <1>3, <1>4, <1>5, TargetIs

----------------------------------------------------------------------------
(***************************************************************************)
(* The steps of the peers, of the children and of time: what was ready is  *)
(* ready still.                                                            *)
(***************************************************************************)
LEMMA OutsideStep ==
    ASSUME EventInv, UNCHANGED <<open, callbacks, batch, current, starts, stray, undefined>>,
           procs' \in [Procs -> Proc], conns' \in [Clients -> Conn], Linked(procs', conns'),
           HeldIn(procs', conns') = HeldIn(procs, conns),
           WaitingIn(procs', conns') = WaitingIn(procs, conns),
           ProcsWithFd(procs') = ProcsWithFd(procs),
           \A object : ReadyIn(procs, conns, object) => ReadyIn(procs', conns', object),
           \A c \in Clients : conns'[c].mode = "executing" => conns[c].mode = "executing",
           commands' \in 0..MaxCommands
    PROVE  EventInv'
PROOF
    <1>1. /\ Is(Daemon', Daemon.open, Daemon.callbacks, Daemon.batch, procs', Daemon.undefined)
          /\ Daemon.procs = procs /\ Daemon.open = open /\ Daemon.callbacks = callbacks
          /\ Daemon.batch = batch /\ Daemon.undefined = undefined
        BY DEF Daemon, Is, Shaped
    <1>2. Good(Daemon, conns, Thrown, starts)
        BY DEF EventInv
    <1>3. Good(Daemon', conns', Thrown, starts)
        BY <1>1, <1>2, QuietGood
    <1>4. Thrown' = Thrown
        BY DEF Thrown
    <1>5. ASSUME current # NoEvent
          PROVE  TrueEvent(current, Daemon', conns')
        <2>1. TrueEvent(current, Daemon, conns)
            BY <1>5 DEF EventInv
        <2> QED
            BY <1>1, <2>1 DEF TrueEvent, Is
    <1>6. Executing' => current' = NoEvent
        BY DEF EventInv, Executing
    <1> QED
        BY <1>3, <1>4, <1>5, <1>6 DEF EventInv

LEMMA ClientStep ==
    ASSUME EventInv, NEW c \in Clients, NEW q \in Conn, conns' = [conns EXCEPT ![c] = q],
           q.fd = conns[c].fd,
           \/ q.mode = conns[c].mode
           \/ conns[c].mode = "none" /\ q.mode = "backlog",
           conns[c].input => q.input, conns[c].gone => q.gone,
           commands' \in 0..MaxCommands,
           UNCHANGED <<open, callbacks, batch, current, procs, starts, stray, undefined>>
    PROVE  EventInv'
PROOF
    <1>1. /\ procs \in [Procs -> Proc] /\ conns \in [Clients -> Conn] /\ Linked(procs, conns)
        BY DEF EventInv, Good, Typed, Daemon
    <1>2. /\ conns' \in [Clients -> Conn] /\ conns'[c] = q
          /\ \A x \in Clients : x # c => conns'[x] = conns[x]
        BY <1>1
    <1>3. Linked(procs', conns')
        BY <1>1, <1>2 DEF Linked
    <1>4. HeldIn(procs, conns') = HeldIn(procs, conns)
        BY <1>1, <1>2 DEF HeldIn
    <1>5. WaitingIn(procs, conns') = WaitingIn(procs, conns)
        BY <1>1, <1>2 DEF WaitingIn
    <1>6. \A object : ReadyIn(procs, conns, object) => ReadyIn(procs, conns', object)
        BY <1>1, <1>2 DEF ReadyIn
    <1>7. \A x \in Clients : conns'[x].mode = "executing" => conns[x].mode = "executing"
        BY <1>1, <1>2
    <1>8. procs' = procs
        OBVIOUS
    <1> QED
        BY <1>1, <1>2, <1>3, <1>4, <1>5, <1>6, <1>7, <1>8, OutsideStep

LEMMA ProcessStep ==
    ASSUME EventInv, NEW p \in Procs, NEW q \in Proc, procs' = [procs EXCEPT ![p] = q],
           q.phase = procs[p].phase, q.fd = procs[p].fd, q.tfd = procs[p].tfd,
           q.timer = procs[p].timer, procs[p].fired => q.fired,
           q.child = procs[p].child \/ (q.child = "dead" /\ procs[p].child # "none"),
           UNCHANGED <<open, callbacks, batch, current, conns, starts, commands, stray, undefined>>
    PROVE  EventInv'
PROOF
    <1>1. /\ procs \in [Procs -> Proc] /\ conns \in [Clients -> Conn] /\ Linked(procs, conns)
        BY DEF EventInv, Good, Typed, Daemon
    <1>2. /\ procs' \in [Procs -> Proc] /\ procs'[p] = q
          /\ \A x \in Procs : x # p => procs'[x] = procs[x]
        BY <1>1
    <1>3. Linked(procs', conns')
        BY <1>1, <1>2 DEF Linked
    <1>4. HeldIn(procs', conns) = HeldIn(procs, conns)
        BY <1>1, <1>2 DEF HeldIn
    <1>5. WaitingIn(procs', conns) = WaitingIn(procs, conns)
        BY <1>1, <1>2 DEF WaitingIn
    <1>6. \A object : ReadyIn(procs, conns, object) => ReadyIn(procs', conns, object)
        BY <1>1, <1>2 DEF ReadyIn
    <1>7. ProcsWithFd(procs') = ProcsWithFd(procs)
        BY <1>2 DEF ProcsWithFd
    <1>8. conns' = conns /\ commands' \in 0..MaxCommands
        BY DEF EventInv
    <1> QED
        BY <1>1, <1>2, <1>3, <1>4, <1>5, <1>6, <1>7, <1>8, OutsideStep

LEMMA OutsideSteps ==
    ASSUME EventInv,
           \/ \E c \in Clients : Connect(c) \/ SendCommand(c) \/ HangUp(c)
           \/ \E p \in Procs : ChildDies(p) \/ TimerExpires(p)
    PROVE  EventInv'
PROOF
    <1>1. /\ procs \in [Procs -> Proc] /\ conns \in [Clients -> Conn]
          /\ commands \in 0..MaxCommands
        BY DEF EventInv, Good, Typed, Daemon
    <1>2. ASSUME NEW c \in Clients, Connect(c)
          PROVE  EventInv'
        <2> DEFINE q == [conns[c] EXCEPT !.mode = "backlog"]
        <2>1. /\ q \in Conn /\ q.fd = conns[c].fd /\ q.mode = "backlog"
              /\ q.input = conns[c].input /\ q.gone = conns[c].gone
            BY <1>1 DEF Conn
        <2>2. conns' = [conns EXCEPT ![c] = q]
            BY <1>2 DEF Connect
        <2> HIDE DEF q
        <2> QED
            BY <1>1, <1>2, <2>1, <2>2, ClientStep DEF Connect
    <1>3. ASSUME NEW c \in Clients, SendCommand(c)
          PROVE  EventInv'
        <2> DEFINE q == [conns[c] EXCEPT !.input = TRUE]
        <2>1. /\ q \in Conn /\ q.fd = conns[c].fd /\ q.mode = conns[c].mode
              /\ q.input /\ q.gone = conns[c].gone
            BY <1>1 DEF Conn
        <2>2. conns' = [conns EXCEPT ![c] = q]
            BY <1>3 DEF SendCommand
        <2>3. commands' \in 0..MaxCommands
            BY <1>1, <1>3, EventAssumption DEF SendCommand
        <2> HIDE DEF q
        <2> QED
            BY <1>1, <1>3, <2>1, <2>2, <2>3, ClientStep DEF SendCommand
    <1>4. ASSUME NEW c \in Clients, HangUp(c)
          PROVE  EventInv'
        <2> DEFINE q == [conns[c] EXCEPT !.gone = TRUE]
        <2>1. /\ q \in Conn /\ q.fd = conns[c].fd /\ q.mode = conns[c].mode
              /\ q.input = conns[c].input /\ q.gone
            BY <1>1 DEF Conn
        <2>2. conns' = [conns EXCEPT ![c] = q]
            BY <1>4 DEF HangUp
        <2> HIDE DEF q
        <2> QED
            BY <1>1, <1>4, <2>1, <2>2, ClientStep DEF HangUp
    <1>5. ASSUME NEW p \in Procs, ChildDies(p)
          PROVE  EventInv'
        <2> DEFINE q == [procs[p] EXCEPT !.child = "dead"]
        <2>1. /\ q \in Proc /\ q.phase = procs[p].phase /\ q.fd = procs[p].fd
              /\ q.tfd = procs[p].tfd /\ q.timer = procs[p].timer /\ q.fired = procs[p].fired
              /\ q.child = "dead"
            BY <1>1 DEF Proc
        <2>2. procs' = [procs EXCEPT ![p] = q] /\ procs[p].child # "none"
            BY <1>5 DEF ChildDies
        <2> HIDE DEF q
        <2> QED
            BY <1>5, <2>1, <2>2, ProcessStep DEF ChildDies
    <1>6. ASSUME NEW p \in Procs, TimerExpires(p)
          PROVE  EventInv'
        <2> DEFINE q == [procs[p] EXCEPT !.fired = TRUE]
        <2>1. /\ q \in Proc /\ q.phase = procs[p].phase /\ q.fd = procs[p].fd
              /\ q.tfd = procs[p].tfd /\ q.timer = procs[p].timer /\ q.fired
              /\ q.child = procs[p].child
            BY <1>1 DEF Proc
        <2>2. procs' = [procs EXCEPT ![p] = q]
            BY <1>6 DEF TimerExpires
        <2>3. UNCHANGED <<open, callbacks, batch, current, conns, starts, commands, stray, undefined>>
            BY <1>6 DEF TimerExpires
        <2> HIDE DEF q
        <2>4. /\ procs[p].fired => q.fired
              /\ q.child = procs[p].child \/ (q.child = "dead" /\ procs[p].child # "none")
            BY <2>1
        <2> QED
            BY <2>1, <2>2, <2>3, <2>4, ProcessStep
    <1> QED
        BY <1>2, <1>3, <1>4, <1>5, <1>6

----------------------------------------------------------------------------
(***************************************************************************)
(* The loop of handleEvents.                                               *)
(***************************************************************************)
LEMMA BatchGood ==
    ASSUME NEW d, NEW cs, NEW thrown, NEW n, Good(d, cs, thrown, n),
           NEW events, events \subseteq Event, \A e \in events : TrueEvent(e, d, cs),
           \A e, g \in events : e.fd = g.fd => e = g,
           NEW k, Is(k, d.open, d.callbacks, events, d.procs, d.undefined)
    PROVE  Good(k, cs, thrown, n)
PROOF
    <1>1. Typed(k, cs)
        BY DEF Good, Typed, Is
    <1>2. \A e \in events : TrueEvent(e, k, cs)
        BY DEF TrueEvent, Is
    <1>3. Traced(k, cs)
        BY <1>2 DEF Traced, Is
    <1> QED
        BY <1>1, <1>3 DEF Good, Is

LEMMA EpollWaitStep ==
    ASSUME EventInv, EpollWait
    PROVE  EventInv'
PROOF
    <1>1. /\ Good(Daemon, conns, Thrown, starts) /\ ~undefined /\ current = NoEvent
          /\ \A fd \in DOMAIN callbacks : fd \in Nat /\ callbacks[fd] \in Callback
        BY DEF EventInv, EpollWait, AtTop, Good, Typed, Daemon
    <1>2. ASSUME NEW e \in Events
          PROVE  /\ e \in Event /\ e.fd \in DOMAIN callbacks /\ ~e.stale
                 /\ callbacks[e.fd] = [on |-> e.on, of |-> e.of]
                 /\ ReadyIn(procs, conns, e.of)
                 /\ e = EventOf(e.fd, callbacks[e.fd].on, callbacks[e.fd].of)
        <2>1. PICK fd \in DOMAIN callbacks : /\ e = EventOf(fd, callbacks[fd].on, callbacks[fd].of)
                                             /\ IsReady(callbacks[fd].of)
            BY DEF Events
        <2> DEFINE x == callbacks[fd]
        <2>2. x \in Callback /\ x = [on |-> x.on, of |-> x.of] /\ fd \in Nat
            BY <1>1 DEF Callback
        <2>3. ReadyIn(procs, conns, x.of)
            BY <2>1 DEF IsReady, Readable, ReadyIn
        <2>4. e.fd = fd /\ e.on = x.on /\ e.of = x.of /\ e.stale = FALSE /\ e \in Event
            BY <2>1, <2>2 DEF EventOf, Event, Callback
        <2> QED
            BY <2>1, <2>2, <2>3, <2>4
    <1>3. \A e \in Events : TrueEvent(e, Daemon, conns)
        BY <1>2 DEF TrueEvent, Daemon
    <1>4. \A e, g \in Events : e.fd = g.fd => e = g
        BY <1>2
    <1>5. Is(Daemon', Daemon.open, Daemon.callbacks, Events, Daemon.procs, Daemon.undefined)
        BY DEF EpollWait, Daemon, Is, Shaped
    <1>6. Good(Daemon', conns, Thrown, starts)
        BY <1>1, <1>2, <1>3, <1>4, <1>5, BatchGood
    <1>7. /\ conns' = conns /\ Thrown' = Thrown /\ starts' = starts /\ commands' = commands
          /\ current' = NoEvent
        BY <1>1 DEF EpollWait, Thrown
    <1> QED
        BY <1>6, <1>7 DEF EventInv

LEMMA NextEventStep ==
    ASSUME EventInv, NextEvent
    PROVE  EventInv'
PROOF
    <1>1. PICK e \in batch : current' = e /\ batch' = batch \ {e}
        BY DEF NextEvent
    <1>2. /\ Good(Daemon, conns, Thrown, starts) /\ batch \subseteq Event
          /\ \A g \in batch : TrueEvent(g, Daemon, conns)
          /\ \A f, g \in batch : f.fd = g.fd => f = g
        BY DEF EventInv, Good, Typed, Traced, Daemon
    <1>3. /\ Is(Daemon', Daemon.open, Daemon.callbacks, batch \ {e}, Daemon.procs, Daemon.undefined)
          /\ Daemon'.callbacks = Daemon.callbacks /\ Daemon'.procs = Daemon.procs
          /\ Daemon'.undefined = Daemon.undefined
        BY <1>1 DEF NextEvent, Daemon, Is, Shaped
    <1>4. Good(Daemon', conns, Thrown, starts)
        BY <1>2, <1>3, BatchGood
    <1>5. /\ TrueEvent(e, Daemon', conns)
          /\ \A g \in batch \ {e} : g.fd # e.fd
        BY <1>2, <1>3 DEF TrueEvent
    <1>6. /\ conns' = conns /\ Thrown' = Thrown /\ starts' = starts /\ commands' = commands
          /\ ~Executing'
        BY DEF NextEvent, Thrown, Executing
    <1> QED
        BY <1>1, <1>2, <1>4, <1>5, <1>6 DEF EventInv

LEMMA ManageStep ==
    ASSUME EventInv, Manage
    PROVE  EventInv'
PROOF
    <1>1. PICK o \in Managed(Daemon) : Becomes(o.d) /\ starts' = starts + o.started
        BY DEF Manage
    <1>2. /\ ~Daemon.undefined /\ starts <= MaxStarts /\ Good(Daemon, conns, Thrown, starts)
          /\ current = NoEvent
        BY DEF EventInv, Manage, AtTop, Daemon
    <1>3. /\ Good(o.d, conns, Thrown, starts + o.started)
          /\ starts + o.started <= MaxStarts
        BY <1>1, <1>2, ManagedGood
    <1>4. /\ conns' = conns /\ Thrown' = Thrown /\ commands' = commands /\ current' = NoEvent
          /\ commands \in 0..MaxCommands
        BY <1>2 DEF Manage, Thrown, EventInv
    <1> QED
        BY <1>1, <1>3, <1>4, HandlerEnds

----------------------------------------------------------------------------
(***************************************************************************)
(* The handlers.                                                           *)
(***************************************************************************)
\* What every handler starts from.
LEMMA HandlerBegins ==
    ASSUME EventInv, NEW object, Handles(object)
    PROVE  /\ Good(Daemon, conns, Thrown', starts)
           /\ ~Daemon.undefined /\ Daemon.batch = batch /\ Daemon.procs = procs
           /\ Daemon.open = open
           /\ starts <= MaxStarts /\ commands \in 0..MaxCommands
           /\ procs \in [Procs -> Proc] /\ conns \in [Clients -> Conn]
           /\ current' = NoEvent
PROOF
    <1>1. Good(Daemon, conns, Thrown, starts)
        BY DEF EventInv
    <1>2. Thrown \subseteq Thrown' /\ Thrown' \subseteq Timers
        BY DEF Handles, Thrown
    <1>3. Good(Daemon, conns, Thrown', starts)
        BY <1>1, <1>2, GoodThrown
    <1> QED
        BY <1>3 DEF EventInv, Handles, Daemon, Good, Typed

LEMMA SkipStep ==
    ASSUME EventInv, Skip
    PROVE  EventInv'
PROOF
    <1>1. /\ Good(Daemon, conns, Thrown', starts) /\ starts <= MaxStarts
          /\ commands \in 0..MaxCommands /\ current' = NoEvent
        BY HandlerBegins DEF Skip
    <1>2. Becomes(Daemon) /\ conns' = conns /\ starts' = starts /\ commands' = commands
        BY DEF Skip
    <1> QED
        BY <1>1, <1>2, HandlerEnds

LEMMA OnAcceptStep ==
    ASSUME EventInv, NEW c \in Clients, OnAccept(c)
    PROVE  EventInv'
PROOF
    <1>1. /\ Good(Daemon, conns, Thrown', starts) /\ Daemon.batch = batch /\ Daemon.open = open
          /\ starts <= MaxStarts
          /\ commands \in 0..MaxCommands
          /\ conns \in [Clients -> Conn] /\ current' = NoEvent
        BY HandlerBegins DEF OnAccept
    <1>2. PICK fd \in Lowest(open) :
             /\ Becomes(RegisterEvent(Opened(Daemon, fd), fd, "read", AClient(c)))
             /\ conns' = [conns EXCEPT ![c].mode = "reading", ![c].fd = fd]
        BY DEF OnAccept
    <1>3. \A e \in batch : e.fd # ServerFd
        <2> DEFINE object == TheServer
        <2>1. object # Nobody /\ \A h \in HeldIn(procs, conns) : h[1] = object => h[2] = ServerFd
            BY DEF HeldIn
        <2> HIDE DEF object
        <2>2. Handles(object)
            BY DEF object, OnAccept
        <2> QED
            BY <2>1, <2>2, TargetIs
    <1> DEFINE q == [conns[c] EXCEPT !.mode = "reading", !.fd = fd]
    <1>4. fd \in Nat
        BY DEF Lowest
    <1>5. /\ q \in Conn /\ q.mode = "reading" /\ q.fd = fd /\ q.input = conns[c].input
          /\ q.gone = conns[c].gone
        BY <1>1, <1>4 DEF Conn
    <1>6. conns' = [conns EXCEPT ![c] = q]
        BY <1>1, <1>2
    <1> HIDE DEF q
    <1>7. Good(RegisterEvent(Opened(Daemon, fd), fd, "read", AClient(c)), conns', Thrown', starts)
        <2>1. /\ fd \in Lowest(Daemon.open) /\ conns[c].mode = "backlog"
              /\ \A e \in Daemon.batch : e.fd # ServerFd
            BY <1>1, <1>2, <1>3 DEF OnAccept
        <2>2. Good(RegisterEvent(Opened(Daemon, fd), fd, "read", AClient(c)),
                   [conns EXCEPT ![c] = q], Thrown', starts)
            BY <1>1, <1>5, <2>1, AcceptClient
        <2> QED
            BY <1>6, <2>2
    <1>8. starts' = starts /\ commands' = commands
        BY DEF OnAccept
    <1> QED
        BY <1>1, <1>2, <1>7, <1>8, HandlerEnds

\* A client is taken out of the maps before anything else.
LEMMA ClientOut ==
    ASSUME EventInv, NEW c \in Clients, Handles(AClient(c)), NEW q \in Conn,
           q.mode = "executing", q.fd = conns[c].fd
    PROVE  LET k == UnregisterEvent(Daemon, conns[c].fd)
               cs == [conns EXCEPT ![c] = q]
           IN  /\ Good(k, cs, Thrown', starts)
               /\ ~k.undefined
               /\ cs[c] = q
PROOF
    <1> DEFINE object == AClient(c)
    <1>1. Handles(object)
        OBVIOUS
    <1> HIDE DEF object
    <1>2. /\ Good(Daemon, conns, Thrown', starts) /\ Daemon.batch = batch
          /\ conns \in [Clients -> Conn] /\ ~Daemon.undefined
        BY <1>1, HandlerBegins
    <1>3. /\ conns[c].mode \in {"reading", "writing"}
          /\ \A e \in Daemon.batch : e.fd # conns[c].fd
        BY <1>2, ClientTarget
    <1>4. Good(UnregisterEvent(Daemon, conns[c].fd), [conns EXCEPT ![c] = q], Thrown', starts)
        BY <1>2, <1>3, DetachClient
    <1>5. UnregisterEvent(Daemon, conns[c].fd).undefined = Daemon.undefined
        BY DEF UnregisterEvent, Daemon
    <1>6. [conns EXCEPT ![c] = q][c] = q
        BY <1>2
    <1> QED
        BY <1>2, <1>4, <1>5, <1>6

LEMMA HandleReadStep ==
    ASSUME EventInv, NEW c \in Clients, HandleRead(c)
    PROVE  EventInv'
PROOF
    <1> DEFINE unread == UnregisterEvent(Daemon, conns[c].fd)
               q == [conns[c] EXCEPT !.mode = "executing", !.input = FALSE]
               cs == [conns EXCEPT ![c] = q]
    <1>1. /\ Handles(AClient(c)) /\ Becomes(unread)
          /\ starts' = starts /\ commands' = commands
        BY DEF HandleRead
    <1>2. /\ starts <= MaxStarts /\ commands \in 0..MaxCommands
          /\ conns \in [Clients -> Conn] /\ current' = NoEvent
        BY <1>1, HandlerBegins
    <1>3. q \in Conn /\ q.mode = "executing" /\ q.fd = conns[c].fd
        BY <1>2 DEF Conn
    <1>4. conns' = cs
        BY DEF HandleRead
    <1> HIDE DEF q
    <1>5. Good(unread, cs, Thrown', starts)
        BY <1>1, <1>3, ClientOut
    <1> HIDE DEF unread, cs
    <1> QED
        BY <1>1, <1>2, <1>4, <1>5, HandlerEnds

LEMMA EndCommandStep ==
    ASSUME EventInv, NEW c \in Clients, EndCommand(c)
    PROVE  EventInv'
PROOF
    <1> DEFINE k == RegisterEvent(Daemon, conns[c].fd, "write", AClient(c))
               q == [conns[c] EXCEPT !.mode = "writing"]
    <1>1. /\ conns[c].mode = "executing" /\ Becomes(k) /\ conns' = [conns EXCEPT ![c] = q]
          /\ starts' = starts /\ commands' = commands /\ current' = current /\ stray' = stray
        BY DEF EndCommand
    <1>2. /\ Good(Daemon, conns, Thrown, starts) /\ conns \in [Clients -> Conn]
          /\ starts <= MaxStarts /\ commands \in 0..MaxCommands
        BY DEF EventInv, Good, Typed
    <1>3. current' = NoEvent /\ Thrown' = Thrown
        BY <1>1 DEF EventInv, Executing, Thrown
    <1>4. /\ q \in Conn /\ q.fd = conns[c].fd /\ "write" \in {"read", "write"}
          /\ q.mode = IF "write" = "read" THEN "reading" ELSE "writing"
        BY <1>2 DEF Conn
    <1> HIDE DEF q
    <1>5. Good(k, conns', Thrown', starts)
        BY <1>1, <1>2, <1>3, <1>4, AttachClient
    <1> HIDE DEF k
    <1> QED
        BY <1>1, <1>2, <1>3, <1>5, HandlerEnds

LEMMA HandleWriteStep ==
    ASSUME EventInv, NEW c \in Clients, HandleWrite(c)
    PROVE  EventInv'
PROOF
    <1> DEFINE k == UnregisterEvent(Daemon, conns[c].fd)
               q == [conns[c] EXCEPT !.mode = "executing"]
               r == [conns[c] EXCEPT !.mode = "reading"]
               cs == [conns EXCEPT ![c] = q]
    <1>1. /\ Becomes(RegisterEvent(k, conns[c].fd, "read", AClient(c)))
          /\ starts' = starts /\ commands' = commands
        BY DEF HandleWrite
    <1>2. Handles(AClient(c))
        BY DEF HandleWrite
    <1>3. /\ starts <= MaxStarts /\ commands \in 0..MaxCommands
          /\ conns \in [Clients -> Conn] /\ current' = NoEvent
        BY <1>2, HandlerBegins
    <1>4. /\ q \in Conn /\ q.mode = "executing" /\ q.fd = conns[c].fd
          /\ r \in Conn /\ r.mode = "reading" /\ r.fd = conns[c].fd
        BY <1>3 DEF Conn
    <1>5. /\ conns' = [cs EXCEPT ![c] = r]
          /\ conns' = [conns EXCEPT ![c] = r]
        BY <1>3 DEF HandleWrite
    <1> HIDE DEF q, r
    <1>6. Good(k, cs, Thrown', starts) /\ ~k.undefined /\ cs[c] = q
        BY <1>2, <1>4, ClientOut
    <1> HIDE DEF k, cs
    <1>8. Good(RegisterEvent(k, cs[c].fd, "read", AClient(c)), [cs EXCEPT ![c] = r], Thrown',
               starts)
        <2>1. /\ cs[c].mode = "executing" /\ "read" \in {"read", "write"}
              /\ r.mode = IF "read" = "read" THEN "reading" ELSE "writing"
              /\ r.fd = cs[c].fd
            BY <1>4, <1>6
        <2> QED
            BY <1>4, <1>6, <2>1, AttachClient
    <1>9. Good(RegisterEvent(k, conns[c].fd, "read", AClient(c)), conns', Thrown', starts)
        BY <1>4, <1>5, <1>6, <1>8
    <1> QED
        BY <1>1, <1>3, <1>9, HandlerEnds

LEMMA DisconnectStep ==
    ASSUME EventInv, NEW c \in Clients, Handles(AClient(c)), Disconnect(c)
    PROVE  EventInv'
PROOF
    <1> DEFINE k == UnregisterEvent(Daemon, conns[c].fd)
               q == [conns[c] EXCEPT !.mode = "executing"]
               r == [conns[c] EXCEPT !.mode = "closed", !.fd = NoFd]
               cs == [conns EXCEPT ![c] = q]
    <1>1. Becomes(Close(k, conns[c].fd)) /\ starts' = starts /\ commands' = commands
        BY DEF Disconnect
    <1>3. /\ starts <= MaxStarts /\ commands \in 0..MaxCommands
          /\ conns \in [Clients -> Conn] /\ current' = NoEvent
        BY HandlerBegins
    <1>4. /\ q \in Conn /\ q.mode = "executing" /\ q.fd = conns[c].fd
          /\ r \in Conn /\ r.mode = "closed" /\ r.fd = NoFd
        BY <1>3 DEF Conn
    <1>5. /\ conns' = [cs EXCEPT ![c] = r]
          /\ conns' = [conns EXCEPT ![c] = r]
        BY <1>3 DEF Disconnect
    <1> HIDE DEF q, r
    <1>6. Good(k, cs, Thrown', starts) /\ ~k.undefined /\ cs[c] = q
        BY <1>4, ClientOut
    <1> HIDE DEF k, cs
    <1>8. Good(Close(k, cs[c].fd), [cs EXCEPT ![c] = r], Thrown', starts)
        BY <1>4, <1>6, CloseClient
    <1>9. Good(Close(k, conns[c].fd), conns', Thrown', starts)
        BY <1>4, <1>5, <1>6, <1>8
    <1> QED
        BY <1>1, <1>3, <1>9, HandlerEnds

LEMMA HandleExitStep ==
    ASSUME EventInv, NEW p \in Procs, HandleExit(p)
    PROVE  EventInv'
PROOF
    <1> DEFINE reaped == OnStateChange(Daemon, p)
               object == AProcess(p)
    <1>1. PICK o \in Outcomes({reaped}, 0) \cup Restarted(reaped, p) :
             Becomes(o.d) /\ starts' = starts + o.started
        BY DEF HandleExit
    <1>2. Handles(object) /\ conns' = conns /\ commands' = commands
        BY DEF HandleExit
    <1>3. \A e \in batch : e.fd # procs[p].fd
        BY <1>2, ProcessTarget
    <1>4. procs[p].child # "none"
        BY DEF HandleExit
    <1> HIDE DEF object
    <1>5. /\ Good(Daemon, conns, Thrown', starts) /\ Daemon.batch = batch
          /\ Daemon.procs = procs /\ ~Daemon.undefined
          /\ starts <= MaxStarts /\ commands \in 0..MaxCommands
          /\ current' = NoEvent
        BY <1>2, HandlerBegins
    <1>6. /\ Good(reaped, conns, Thrown', starts)
          /\ reaped.procs[p].phase = "down" /\ reaped.procs[p].timer = "none"
        BY <1>3, <1>4, <1>5, OnStateChangeGood
    <1> HIDE DEF reaped
    <1>7. /\ Good(o.d, conns, Thrown', starts + o.started)
          /\ starts + o.started <= MaxStarts
        <2>1. CASE o \in Outcomes({reaped}, 0)
            <3>1. o.d = reaped /\ o.started = 0 /\ starts + 0 = starts
                BY <1>6, <2>1 DEF Outcomes, Good
            <3> QED
                BY <1>5, <1>6, <3>1
        <2>2. CASE o \in Restarted(reaped, p)
            BY <1>6, <2>2, RestartedGood, EventAssumption
        <2> QED
            BY <1>1, <2>1, <2>2
    <1> QED
        BY <1>1, <1>2, <1>5, <1>7, HandlerEnds

LEMMA HandleTimerStep ==
    ASSUME EventInv, NEW p \in Procs, HandleTimer(p)
    PROVE  EventInv'
PROOF
    <1> DEFINE k == OnExpire(Daemon, p)
               object == ATimer(p)
    <1>1. /\ Handles(object) /\ Becomes(k) /\ conns' = conns /\ starts' = starts
          /\ commands' = commands
        BY DEF HandleTimer
    <1>2. /\ procs[p].timer # "none" /\ \A e \in batch : e.fd # procs[p].tfd
          /\ procs[p].fired \/ current.stale
        BY <1>1, TimerTarget
    <1>3. ~procs[p].fired => object \in Thrown'
        BY <1>1, <1>2 DEF Handles, Thrown, Timers
    <1>4. object \in Timers
        BY DEF Timers
    <1>5. /\ Good(Daemon, conns, Thrown', starts) /\ Daemon.batch = batch
          /\ Daemon.procs = procs
          /\ starts <= MaxStarts /\ commands \in 0..MaxCommands
          /\ current' = NoEvent
        BY <1>1, HandlerBegins
    <1>6. Good(k, conns, Thrown', starts)
        <2>1. CASE procs[p].fired
            BY <1>2, <1>5, <2>1, OnExpireGood
        <2>2. CASE ~procs[p].fired
            BY <1>2, <1>3, <1>5, <2>2, EarlyExpireGood
        <2> QED
            BY <2>1, <2>2
    <1> HIDE DEF k
    <1> QED
        BY <1>1, <1>5, <1>6, HandlerEnds

----------------------------------------------------------------------------
LEMMA EventInvInit ==
    ASSUME Init
    PROVE  EventInv
PROOF
    <1>1. /\ HeldIn(procs, conns) = {<<TheServer, ServerFd>>}
          /\ WaitingIn(procs, conns) = {<<ServerFd, "read", TheServer>>}
        BY DEF Init, NewProc, NewClient, HeldIn, WaitingIn
    <1>2. Typed(Daemon, conns)
        <2>1. /\ open \subseteq Nat /\ DOMAIN callbacks = {ServerFd}
              /\ callbacks[ServerFd] \in Callback
              /\ batch = {} /\ undefined = FALSE
            BY DEF Init, Callback, Objects
        <2>2. procs \in [Procs -> Proc] /\ conns \in [Clients -> Conn]
            BY EventAssumption DEF Init, NewProc, NewClient, Proc, Conn
        <2>3. /\ Shaped(Daemon) /\ Daemon.open = open /\ Daemon.callbacks = callbacks
              /\ Daemon.batch = batch /\ Daemon.procs = procs /\ Daemon.undefined = undefined
            BY DEF Daemon, Shaped
        <2>4. undefined \in BOOLEAN
            BY DEF Init
        <2> QED
            BY <2>1, <2>2, <2>3, <2>4 DEF Typed
    <1>3. Linked(procs, conns)
        BY DEF Init, NewProc, NewClient, Linked
    <1>4. Owned(HeldIn(procs, conns), open)
        <2> DEFINE g == <<TheServer, ServerFd>>
        <2>1. g[2] \in open /\ HeldIn(procs, conns) = {g}
            BY <1>1 DEF Init
        <2> HIDE DEF g
        <2> QED
            BY <2>1, FS_Singleton DEF Owned
    <1>5. Counted(HeldIn(procs, conns), open, procs, 0)
        <2> DEFINE g == <<TheServer, ServerFd>>
        <2>1. {p \in Procs : procs[p].fd # NoFd} = {}
            BY DEF Init, NewProc
        <2>2. open = {g[2]} /\ HeldIn(procs, conns) = {g}
            BY <1>1 DEF Init
        <2> HIDE DEF g
        <2>3. Orphans(HeldIn(procs, conns), open) = {}
            BY <2>2 DEF Orphans, Fds
        <2> QED
            BY <2>1, <2>3, FS_EmptySet DEF Counted
    <1>6. Mapped(callbacks, HeldIn(procs, conns), WaitingIn(procs, conns), Thrown)
        BY <1>1 DEF Init, Mapped
    <1>7. Traced(Daemon, conns)
        BY DEF Init, Daemon, Traced
    <1>8. Good(Daemon, conns, Thrown, starts)
        BY <1>2, <1>3, <1>4, <1>5, <1>6, <1>7 DEF Good, Daemon, Init, Thrown
    <1> QED
        BY <1>8, EventAssumption DEF EventInv, Init

LEMMA EventInvNext ==
    ASSUME EventInv, [Next]_vars
    PROVE  EventInv'
PROOF
    <1>1. CASE UNCHANGED vars
        BY <1>1 DEF vars, EventInv, Daemon, Thrown, Executing
    <1>2. ASSUME NEW c \in Clients, ClientCallback(c)
          PROVE  EventInv'
        <2>1. CASE ReadEnd(c)
            BY <2>1, DisconnectStep DEF ReadEnd
        <2>2. CASE WriteFails(c)
            BY <2>2, DisconnectStep DEF WriteFails
        <2> QED
            BY <1>2, <2>1, <2>2, OnAcceptStep, HandleReadStep, EndCommandStep, HandleWriteStep
               DEF ClientCallback
    <1>3. CASE HandleEvent
        BY <1>2, <1>3, NextEventStep, SkipStep, HandleExitStep, HandleTimerStep DEF HandleEvent
    <1> QED
        BY <1>1, <1>3, OutsideSteps, EpollWaitStep, ManageStep DEF Next

\* In every state that the daemon reaches, the descriptors, the maps and the events left
\* agree as EventInv says.
THEOREM EventInvariant == Spec => []EventInv
    BY EventInvInit, EventInvNext, PTL DEF Spec

StrayType == stray \in BOOLEAN

LEMMA StrayIsBoolean == Spec => []StrayType
PROOF
    <1>1. Init => StrayType
        BY DEF Init, StrayType
    <1>2. StrayType /\ [Next]_vars => StrayType'
        <2> SUFFICES ASSUME stray \in BOOLEAN, [Next]_vars
                     PROVE  stray' \in BOOLEAN
            BY DEF StrayType
        <2>1. stray' = stray \/ \E object : Handles(object)
            BY DEF vars, Next, Connect, SendCommand, HangUp, ChildDies, TimerExpires, EpollWait,
                   Manage, HandleEvent, NextEvent, Skip, ClientCallback, OnAccept, HandleRead,
                   EndCommand, ReadEnd, HandleWrite, WriteFails, HandleExit, HandleTimer
        <2> QED
            BY <2>1 DEF Handles
    <1> QED
        BY <1>1, <1>2, PTL DEF Spec

\* Every variable of the event loop has its type, for any number of clients and processes.
THEOREM TypeIsOK == Spec => []TypeOK
PROOF
    <1>1. EventInv /\ StrayType => TypeOK
        <2> SUFFICES ASSUME EventInv, stray \in BOOLEAN
                     PROVE  TypeOK
            BY DEF StrayType
        <2>1. /\ Typed(Daemon, conns) /\ starts \in Nat
            BY DEF EventInv, Good
        <2>2. /\ open \subseteq Nat /\ DOMAIN callbacks \subseteq Nat
              /\ \A fd \in DOMAIN callbacks : callbacks[fd] \in Callback
              /\ batch \subseteq Event /\ procs \in [Procs -> Proc] /\ undefined \in BOOLEAN
              /\ conns \in [Clients -> Conn]
            BY <2>1 DEF Typed, Daemon
        <2>3. \A e \in batch \cup {current} : e.of \in Objects /\ e.stale \in BOOLEAN
            <3>1. \A e \in Event : e.of \in Objects /\ e.stale \in BOOLEAN
                BY DEF Event
            <3>2. NoEvent.of \in Objects /\ NoEvent.stale \in BOOLEAN
                BY DEF NoEvent, EventOf, Objects
            <3>3. current \in Event \/ current = NoEvent
                BY DEF EventInv
            <3> QED
                BY <2>2, <3>1, <3>2, <3>3
        <2>5. starts \in 0..MaxStarts /\ commands \in 0..MaxCommands
            BY <2>1, EventAssumption DEF EventInv
        <2>6. \A fd \in DOMAIN callbacks : /\ callbacks[fd].on \in {"read", "write"}
                                            /\ callbacks[fd].of \in Objects
            BY <2>2 DEF Callback
        <2> QED
            BY <2>2, <2>3, <2>5, <2>6 DEF TypeOK, Proc, Conn
    <1> QED
        BY <1>1, EventInvariant, StrayIsBoolean, PTL

\* The maps of the EventManager name the objects that wait for something, and no other,
\* until a callback runs for the event of another object.
THEOREM MapsMatch == Spec => []CallbacksMatch
PROOF
    <1>1. EventInv => CallbacksMatch
        <2> SUFFICES ASSUME EventInv, ~stray
                     PROVE  CallbacksMatch
            BY DEF CallbacksMatch
        <2>1. Mapped(callbacks, HeldIn(procs, conns), WaitingIn(procs, conns), {})
            BY DEF EventInv, Good, Daemon, Thrown
        <2>2. Waiting = WaitingIn(procs, conns)
            BY DEF Waiting, WaitingIn
        <2>3. ASSUME NEW fd \in DOMAIN callbacks
              PROVE  <<fd, callbacks[fd].on, callbacks[fd].of>> \in Waiting
            BY <2>1, <2>2 DEF Mapped
        <2>4. ASSUME NEW w \in Waiting
              PROVE  \E fd \in DOMAIN callbacks : w = <<fd, callbacks[fd].on, callbacks[fd].of>>
            <3>1. /\ w[1] \in DOMAIN callbacks
                  /\ callbacks[w[1]] = [on |-> w[2], of |-> w[3]]
                BY <2>1, <2>2 DEF Mapped
            <3>2. w = <<w[1], w[2], w[3]>>
                BY DEF Waiting
            <3> QED
                BY <3>1, <3>2
        <2> QED
            BY <2>3, <2>4 DEF CallbacksMatch
    <1> QED
        BY <1>1, EventInvariant, PTL

\* An event whose descriptor was not closed since is dispatched to the object that was
\* ready, and it is ready still; only the descriptor of a Timer is closed under its event.
THEOREM EventsTellTheTruth == Spec => []EventsAreTrue
PROOF
    <1>1. EventInv => EventsAreTrue
        <2> SUFFICES ASSUME EventInv
                     PROVE  EventsAreTrue
            OBVIOUS
        <2>1. ASSUME current # NoEvent, ~current.stale, ~undefined
              PROVE  Target = current.of /\ IsReady(current.of)
            <3>1. /\ current.fd \in DOMAIN callbacks
                  /\ callbacks[current.fd] = [on |-> current.on, of |-> current.of]
                  /\ ReadyIn(procs, conns, current.of)
                BY <2>1 DEF EventInv, TrueEvent, Daemon
            <3>2. IsReady(current.of)
                BY <3>1 DEF IsReady, Readable, ReadyIn
            <3> QED
                BY <3>1, <3>2 DEF Target
        <2>2. \A e \in batch : e.stale => e.of \in Timers
            BY DEF EventInv, Good, Traced, TrueEvent, Daemon
        <2> QED
            BY <2>1, <2>2 DEF EventsAreTrue, Timers
    <1> QED
        BY <1>1, EventInvariant, PTL

\* No two objects hold the same descriptor, those they hold are open, and the pidfds that
\* nobody holds any more are at most one for each start and are in no map.
THEOREM DescriptorsHaveOwners == Spec => []DescriptorsAreOwned
PROOF
    <1>1. EventInv => DescriptorsAreOwned
        <2> SUFFICES ASSUME EventInv
                     PROVE  DescriptorsAreOwned
            OBVIOUS
        <2> DEFINE held == HeldIn(procs, conns)
        <2>1. Held = held
            BY DEF Held, HeldIn
        <2>2. HeldFds = Fds(held)
            BY <2>1 DEF HeldFds, Fds
        <2>3. /\ Owned(held, open) /\ Counted(held, open, procs, starts)
              /\ ~undefined => Mapped(callbacks, held, WaitingIn(procs, conns), Thrown)
            BY DEF EventInv, Good, Daemon
        <2> HIDE DEF held
        <2>4. Cardinality(Fds(held)) = Cardinality(held)
            <3> DEFINE f == [h \in held |-> h[2]]
            <3>1. f \in Bijection(held, Fds(held))
                BY <2>3 DEF Owned, Fds, Bijection, Injection, Surjection, IsInjective
            <3> QED
                BY <2>3, <3>1, FS_Bijection DEF Owned, ExistsBijection
        <2>5. Fds(held) \subseteq open
            BY <2>3 DEF Owned, Fds
        <2>6. Cardinality(open \ Fds(held)) + Cardinality({p \in Procs : procs[p].fd # NoFd}) <= starts
            BY <2>3 DEF Counted, Orphans
        <2>7. ASSUME ~undefined, NEW fd \in DOMAIN callbacks
              PROVE  fd \in Fds(held)
            <3> DEFINE g == <<callbacks[fd].of, fd>>
            <3>1. g \in held /\ g[2] = fd
                BY <2>3, <2>7 DEF Mapped
            <3> HIDE DEF g
            <3> QED
                BY <3>1 DEF Fds
        <2> QED
            BY <2>1, <2>2, <2>4, <2>5, <2>6, <2>7 DEF DescriptorsAreOwned
    <1> QED
        BY <1>1, EventInvariant, PTL
=============================================================================

--------------------------- MODULE MCJobManager ----------------------------
(***************************************************************************)
(* Small instances of JobManager for TLC.                                  *)
(***************************************************************************)
EXTENDS JobManager

Named(name, entry) == [key |-> Scalar(name), entry |-> entry]
Document(entries) == [jobs |-> {entries}, dirs |-> {"/tmp"}]

\* A file with an entry whose name is a list: it cannot be loaded.
ListedName(entry) == Document(<<[key |-> List(<<>>), entry |-> entry]>>)

One == Number("1", 1)
Off == Boolean("no", FALSE)
Entry(cmd, autorestart) == [cmd |-> Scalar(cmd), autorestart |-> Scalar(autorestart),
                            startretries |-> One, stoptime |-> One]
Manual(cmd, autorestart) == Entry(cmd, autorestart) @@ [autostart |-> Off]

Path(text, dir) == [Scalar(text) EXCEPT !.dir = dir]
Pair(key, value) == [key |-> Scalar(key), value |-> Scalar(value)]
Env(pairs) == [Scalar("") EXCEPT !.type = "map", !.texts = {}, !.pairs = pairs]

\* Jobs that cannot be started: no word in the command, and a starttime that
\* timerfd_settime rejects.
Blank == Entry("", "false")
Broken == Entry("b", "false") @@ [starttime |-> Number("-1", -1)]

(***************************************************************************)
(* x kept, changed (to two processes) and blank; y dropped, autostarted,   *)
(* broken.                                                                 *)
(***************************************************************************)
SafetyFiles ==
    [v1 |-> Document(<<Named("x", Manual("a", "true")), Named("y", Entry("a", "false"))>>),
     v2 |-> Document(<<Named("x", Entry("b", "false") @@ [numprocs |-> Number("2", 2)])>>),
     v3 |-> Document(<<Named("y", Broken), Named("x", Blank)>>)]

(***************************************************************************)
(* x changed and dropped (its autorestart does not parse); y blank, and    *)
(* kept but written another way, with a second entry that does not count.  *)
(***************************************************************************)
LiveFiles ==
    LET y(codes) == Entry("a", "false") @@ [numprocs |-> Number("2", 2), exitcodes |-> codes,
                                            stdout |-> Path("/tmp/y", "/tmp"),
                                            stderr |-> Path("/no/y", "/no"),
                                            env |-> Env(<<Pair("K", "u"), Pair("K", "v")>>)]
        zero == Number("0", 0)
    IN  [v1 |-> Document(<<Named("x", Manual("a", "false")), Named("y", y(List(<<zero, One>>)))>>),
         v2 |-> Document(<<Named("x", Manual("b", "false")), Named("y", Blank)>>),
         v3 |-> Document(<<Named("y", y(List(<<One, zero>>)) @@ [autostart |-> Boolean("yes", TRUE)]),
                           Named("x", Manual("b", "yes")),
                           Named("y", Manual("b", "false"))>>),
         v4 |-> ListedName(Manual("b", "false"))]

AutostartFiles == [v1 |-> Document(<<Named("x", Entry("a", "false"))>>),
                   v2 |-> Document(<<Named("x", Entry("b", "false"))>>)]
ManualFiles == [v1 |-> Document(<<Named("x", Manual("a", "false"))>>),
                v2 |-> Document(<<Named("x", Manual("b", "false"))>>)]
============================================================================

---------------------------- MODULE ConfigFile -----------------------------
(***************************************************************************)
(* JobConfig::getJobConfigs: what taskmasterd makes of its YAML file.      *)
(*                                                                         *)
(* yaml-cpp is external.  A node carries what its conversions give: texts  *)
(* is {t} when as<std::string> gives t and {} when it throws, and so with  *)
(* ints, bools, and octals for a text of exactly three octal digits; items *)
(* are the nodes of a sequence, pairs the keys and values of a map in the  *)
(* order of the file, dir the directory part of a path.  Likewise every    *)
(* parser below gives the set of the value it sets, {} when it throws.     *)
(*                                                                         *)
(* A document is [jobs, dirs].  jobs is {} when the file cannot be loaded, *)
(* has no node "jobs" or a sequence there, or else the set of the sequence *)
(* of its keys and entries (a scalar there has none).  dirs are the        *)
(* directories that exist on disk.  An entry maps the options it gives to  *)
(* their nodes; one that is no map gives none.                             *)
(***************************************************************************)
EXTENDS Process, SequencesExt

\* The value of an option that is given, or the default.
OrDefault(entry, option, given, default) ==
    IF option \in DOMAIN entry THEN given ELSE {default}

Policies == [true |-> "ALWAYS", unexpected |-> "ON_FAILURE", false |-> "NEVER"]
Signals == {"HUP", "INT", "TERM", "QUIT", "KILL", "USR1", "USR2"}

ParseCmd(e) == IF "cmd" \in DOMAIN e THEN e["cmd"].texts ELSE {}

ParseNumberProcesses(e) == OrDefault(e, "numprocs", e["numprocs"].ints, 1)

ParseUnMask(e) == OrDefault(e, "umask", e["umask"].octals, 18)

ParseWorkingDir(e) == OrDefault(e, "workingdir", e["workingdir"].texts, ".")

ParseAutoStart(e) == OrDefault(e, "autostart", e["autostart"].bools, TRUE)

ParseAutoRestart(e) ==
    OrDefault(e, "autorestart",
              {Policies[t] : t \in e["autorestart"].texts \cap DOMAIN Policies}, "ON_FAILURE")

\* as<std::vector<i32>>: every item must be a number.
AsInts(node) ==
    {s \in [DOMAIN node.items -> UNION {node.items[k].ints : k \in DOMAIN node.items}] :
        \A k \in DOMAIN s : s[k] \in node.items[k].ints}

ReadCodes(node) ==
    CASE node.type = "scalar"   -> {<<n>> : n \in node.ints}
      [] node.type = "sequence" -> AsInts(node)
      [] OTHER                  -> {}

\* std::sort: the arrangement that is in order.
Sorted(s) == CHOOSE t \in [DOMAIN s -> Range(s)] :
                /\ ToBag(t) = ToBag(s)
                /\ \A i, j \in DOMAIN t : i < j => t[i] <= t[j]

\* Mutant: the exit codes are not sorted.
ParseExitCodesUnsorted(e) == OrDefault(e, "exitcodes", ReadCodes(e["exitcodes"]), <<0>>)

ParseExitCodes(e) ==
    OrDefault(e, "exitcodes", {Sorted(s) : s \in ReadCodes(e["exitcodes"])}, <<0>>)

ParseStartRetries(e) == OrDefault(e, "startretries", e["startretries"].ints, 3)

ParseStartTime(e) == OrDefault(e, "starttime", e["starttime"].ints, 1)

ParseStopSignal(e) ==
    OrDefault(e, "stopsignal", e["stopsignal"].texts \cap Signals, "TERM")

ParseStopTime(e) == OrDefault(e, "stoptime", e["stoptime"].ints, 10)

\* A path in a directory that does not exist is no redirection.
Redirection(node, dirs) == {IF node.dir \in dirs THEN {path} ELSE {} : path \in node.texts}

ParseSTDOUT(e, dirs) == OrDefault(e, "stdout", Redirection(e["stdout"], dirs), {})

ParseSTDERR(e, dirs) == OrDefault(e, "stderr", Redirection(e["stderr"], dirs), {})

(***************************************************************************)
(* The pairs of a map; a scalar has none, and the items of a sequence are  *)
(* no pairs.  env[key] = value: of two pairs with a key the last one wins. *)
(***************************************************************************)
LastPairs(pairs) ==
    {k \in DOMAIN pairs :
        \A h \in DOMAIN pairs : h > k => pairs[h].key.texts # pairs[k].key.texts}

ParseENV(e) ==
    LET pairs == e["env"].pairs
    IN  OrDefault(e, "env",
                  IF \/ e["env"].items # <<>>
                     \/ \E k \in DOMAIN pairs : pairs[k].key.texts = {} \/ pairs[k].value.texts = {}
                  THEN {}
                  ELSE {UNION {pairs[k].key.texts \X pairs[k].value.texts : k \in LastPairs(pairs)}},
                  {})

----------------------------------------------------------------------------
\* JobConfig::JobConfig: the config of an entry, or {} when one of the parsers throws.
ParseJob(e, dirs) ==
    [cmd            : ParseCmd(e),
     numprocs       : ParseNumberProcesses(e),
     umask          : ParseUnMask(e),
     working_dir    : ParseWorkingDir(e),
     autostart      : ParseAutoStart(e),
     restart_policy : ParseAutoRestart(e),
     exit_codes     : ParseExitCodes(e),
     start_retries  : ParseStartRetries(e),
     start_time     : ParseStartTime(e),
     stop_signal    : ParseStopSignal(e),
     stop_time      : ParseStopTime(e),
     out            : ParseSTDOUT(e, dirs),
     err            : ParseSTDERR(e, dirs),
     env            : ParseENV(e)]

\* config[name] is the first entry of that name.
EntriesOf(nodes, name) ==
    {k \in DOMAIN nodes : nodes[k].key.type = "scalar" /\ name \in nodes[k].key.texts}
FirstEntry(nodes, name) == nodes[Min(EntriesOf(nodes, name))].entry

\* Keys that are null are skipped, and so are entries that do not parse.
NamesIn(nodes) ==
    UNION {nodes[k].key.texts : k \in {h \in DOMAIN nodes : nodes[h].key.type = "scalar"}}

ParseJobs(nodes, dirs) ==
    LET Configs(name) == ParseJob(FirstEntry(nodes, name), dirs)
    IN  [name \in {n \in NamesIn(nodes) : Configs(n) # {}} |-> CHOOSE c \in Configs(name) : TRUE]

(***************************************************************************)
(* JobConfig::getJobConfigs: the set of the map it returns, {} when it     *)
(* throws.  A key that is no text throws outside the try.                  *)
(***************************************************************************)
GetJobConfigs(doc) ==
    {ParseJobs(nodes, doc.dirs) :
        nodes \in {s \in doc.jobs : \A k \in DOMAIN s : s[k].key.texts # {}}}

----------------------------------------------------------------------------
(***************************************************************************)
(* The nodes that a user would write for the defaults, and a reference for *)
(* when two entries mean the same: the options of both, defaults spelled   *)
(* out, are the same, and exit codes are the same in whatever order.       *)
(***************************************************************************)
Scalar(text) == [type |-> "scalar", texts |-> {text}, ints |-> {}, bools |-> {}, octals |-> {},
                 items |-> <<>>, pairs |-> <<>>, dir |-> ""]
Number(text, n) == [Scalar(text) EXCEPT !.ints = {n}]
Boolean(text, b) == [Scalar(text) EXCEPT !.bools = {b}]
Octal(text, n) == [Scalar(text) EXCEPT !.octals = {n}]
List(items) == [Scalar("") EXCEPT !.type = "sequence", !.texts = {}, !.items = items]

Defaults == [numprocs |-> Number("1", 1), umask |-> Octal("022", 18), workingdir |-> Scalar("."),
             autostart |-> Boolean("true", TRUE), autorestart |-> Scalar("unexpected"),
             exitcodes |-> Number("0", 0), startretries |-> Number("3", 3),
             starttime |-> Number("1", 1), stopsignal |-> Scalar("TERM"),
             stoptime |-> Number("10", 10)]

SpelledOut(e) == [o \in DOMAIN e \cup DOMAIN Defaults |->
                    IF o \in DOMAIN e THEN e[o] ELSE Defaults[o]]

\* A node that is neither (a map) holds no codes: not even those of an empty list.
HoldsCodes(node) == node.type \in {"scalar", "sequence"}
Codes(node) == IF node.type = "scalar" THEN <<node>> ELSE node.items
IsListOfCodes(node) == Len(Codes(node)) \in Nat /\ DOMAIN Codes(node) = 1..Len(Codes(node))
SameCodes(m, n) == HoldsCodes(m) /\ HoldsCodes(n) /\ ToBag(Codes(m)) = ToBag(Codes(n))

NumberOptions == {"numprocs", "startretries", "starttime", "stoptime"}

MeanTheSame(e, f) ==
    /\ DOMAIN SpelledOut(e) = DOMAIN SpelledOut(f)
    /\ \A o \in DOMAIN SpelledOut(e) :
          LET m == SpelledOut(e)[o]
              n == SpelledOut(f)[o]
          IN  CASE o \in NumberOptions -> m.ints = n.ints
                [] o = "autostart"     -> m.bools = n.bools
                [] o = "exitcodes"     -> SameCodes(m, n)
                [] OTHER               -> m = n

\* The entries of a name in two documents mean the same, on the same disk.
SameJob(doc1, doc2, name) ==
    /\ doc1.dirs = doc2.dirs
    /\ \A nodes1 \in doc1.jobs, nodes2 \in doc2.jobs :
          /\ name \in NamesIn(nodes1) \cap NamesIn(nodes2)
          /\ MeanTheSame(FirstEntry(nodes1, name), FirstEntry(nodes2, name))
============================================================================

-------------------------- MODULE ConfigFileProofs --------------------------
(***************************************************************************)
(* The parser of the configuration file gives the same config to entries   *)
(* that mean the same, for every document: JobConfig::operator==, which    *)
(* decides at a reload whether a job has changed, does not tell apart how  *)
(* an entry is written.                                                    *)
(***************************************************************************)
EXTENDS ConfigFile, FiniteSetTheorems, TLAPS

\* The places of a value in a sequence.
At(s, x) == {i \in DOMAIN s : s[i] = x}

IsIndexed(s, n) == n \in Nat /\ DOMAIN s = 1..n

LEMMA AtFinite ==
    ASSUME NEW s, NEW n, IsIndexed(s, n), NEW x
    PROVE  IsFiniteSet(At(s, x)) /\ IsFiniteSet(DOMAIN s) /\ Cardinality(DOMAIN s) = n
PROOF
    <1>1. IsFiniteSet(1..n) /\ Cardinality(1..n) = n
        BY FS_Interval DEF IsIndexed
    <1>2. At(s, x) \subseteq DOMAIN s
        BY DEF At
    <1> QED
        BY <1>1, <1>2, FS_Subset DEF IsIndexed

LEMMA BagIs ==
    ASSUME NEW s
    PROVE  /\ Range(s) = {s[i] : i \in DOMAIN s}
           /\ ToBag(s) = [x \in Range(s) |-> Cardinality(At(s, x))]
    BY DEF ToBag, Range, At

(***************************************************************************)
(* Two sequences with the same bag are arrangements of each other, and     *)
(* arrangements of each other have the same bag.                           *)
(***************************************************************************)
Arranges(p, s, t) == p \in Bijection(DOMAIN s, DOMAIN t) /\ \A k \in DOMAIN s : t[p[k]] = s[k]

LEMMA BijectionIs ==
    ASSUME NEW S, NEW T, NEW p
    PROVE  p \in Bijection(S, T) <=> /\ p \in [S -> T]
                                     /\ \A k, l \in S : p[k] = p[l] => k = l
                                     /\ \A x \in T : \E k \in S : p[k] = x
    BY DEF Bijection, Injection, Surjection, IsInjective

LEMMA SameBagArranges ==
    ASSUME NEW s, NEW m, IsIndexed(s, m), NEW t, NEW n, IsIndexed(t, n), ToBag(s) = ToBag(t)
    PROVE  \E p : Arranges(p, s, t)
PROOF
    <1>1. Range(s) = Range(t) /\ \A x \in Range(s) : Cardinality(At(s, x)) = Cardinality(At(t, x))
        BY BagIs
    <1>2. ASSUME NEW x \in Range(s)  PROVE \E g : g \in Bijection(At(s, x), At(t, x))
        BY <1>1, AtFinite, FS_SameCardinalityBij DEF ExistsBijection
    <1> DEFINE G == [x \in Range(s) |-> CHOOSE g : g \in Bijection(At(s, x), At(t, x))]
               p == [k \in DOMAIN s |-> G[s[k]][k]]
    <1>3. \A x \in Range(s) : G[x] \in Bijection(At(s, x), At(t, x))
        BY <1>2
    <1> HIDE DEF G
    <1>4. \A k \in DOMAIN s : s[k] \in Range(s) /\ k \in At(s, s[k])
        BY BagIs DEF At
    <1>5. \A k \in DOMAIN s : p[k] \in At(t, s[k])
        BY <1>3, <1>4, BijectionIs
    <1>6. p \in [DOMAIN s -> DOMAIN t] /\ \A k \in DOMAIN s : t[p[k]] = s[k]
        BY <1>5 DEF At
    <1>7. ASSUME NEW k \in DOMAIN s, NEW l \in DOMAIN s, p[k] = p[l]  PROVE k = l
        <2>1. s[k] = s[l]
            BY <1>6, <1>7
        <2> QED
            BY <1>3, <1>4, <1>7, <2>1, BijectionIs
    <1>8. ASSUME NEW l \in DOMAIN t  PROVE \E k \in DOMAIN s : p[k] = l
        <2>1. t[l] \in Range(s) /\ l \in At(t, t[l])
            BY <1>1, BagIs DEF At
        <2>2. PICK k \in At(s, t[l]) : G[t[l]][k] = l
            BY <1>3, <2>1, BijectionIs
        <2>3. k \in DOMAIN s /\ s[k] = t[l]
            BY DEF At
        <2> QED
            BY <2>2, <2>3
    <1>9. p \in Bijection(DOMAIN s, DOMAIN t)
        <2> HIDE DEF p
        <2> QED
            BY <1>6, <1>7, <1>8, BijectionIs
    <1> HIDE DEF p
    <1> QED
        BY <1>6, <1>9 DEF Arranges

LEMMA ArrangesSameBag ==
    ASSUME NEW s, NEW m, IsIndexed(s, m), NEW t, NEW n, IsIndexed(t, n), NEW p, Arranges(p, s, t)
    PROVE  ToBag(s) = ToBag(t) /\ Range(s) = Range(t) /\ m = n
PROOF
    <1>1. /\ p \in [DOMAIN s -> DOMAIN t]
          /\ \A k, l \in DOMAIN s : p[k] = p[l] => k = l
          /\ \A x \in DOMAIN t : \E k \in DOMAIN s : p[k] = x
          /\ \A k \in DOMAIN s : t[p[k]] = s[k]
        BY BijectionIs DEF Arranges
    <1>2. Range(s) = Range(t)
        BY <1>1, BagIs
    <1>3. ASSUME NEW x \in Range(s)  PROVE Cardinality(At(s, x)) = Cardinality(At(t, x))
        <2> DEFINE g == [k \in At(s, x) |-> p[k]]
        <2>1. g \in [At(s, x) -> At(t, x)]
            BY <1>1 DEF At
        <2>2. \A k, l \in At(s, x) : g[k] = g[l] => k = l
            BY <1>1 DEF At
        <2>3. ASSUME NEW l \in At(t, x)  PROVE \E k \in At(s, x) : g[k] = l
            BY <1>1 DEF At
        <2> HIDE DEF g
        <2>4. g \in Bijection(At(s, x), At(t, x))
            BY <2>1, <2>2, <2>3, BijectionIs
        <2> QED
            BY <2>4, AtFinite, FS_Bijection DEF ExistsBijection
    <1>4. ToBag(s) = ToBag(t)
        BY <1>2, <1>3, BagIs
    <1>5. ExistsBijection(DOMAIN s, DOMAIN t)
        BY DEF Arranges, ExistsBijection
    <1>6. Cardinality(DOMAIN t) = Cardinality(DOMAIN s)
        BY <1>5, AtFinite, FS_Bijection
    <1>7. m = n
        BY <1>6, AtFinite
    <1> QED
        BY <1>2, <1>4, <1>7

----------------------------------------------------------------------------
(***************************************************************************)
(* Of two ordered arrangements of the same numbers neither is below the    *)
(* other anywhere: what is not above place i of the one has no room below  *)
(* place i of the other.                                                   *)
(***************************************************************************)
IsOrdered(t) == \A i, j \in DOMAIN t : i < j => t[i] <= t[j]

LEMMA OrderedNotBelow ==
    ASSUME NEW n, NEW s \in [1..n -> Int], IsIndexed(s, n), IsOrdered(s),
           NEW t \in [1..n -> Int], IsIndexed(t, n), IsOrdered(t),
           NEW p, Arranges(p, s, t), NEW i \in 1..n
    PROVE  t[i] <= s[i]
PROOF
    <1> SUFFICES ASSUME s[i] < t[i]  PROVE FALSE
        OBVIOUS
    <1>1. /\ p \in [1..n -> 1..n]
          /\ \A k, l \in 1..n : p[k] = p[l] => k = l
          /\ \A k \in 1..n : t[p[k]] = s[k]
        <2> DEFINE places == 1..n
        <2>1. DOMAIN s = places /\ DOMAIN t = places
            BY DEF IsIndexed
        <2> HIDE DEF places
        <2>2. p \in Bijection(places, places) /\ \A k \in places : t[p[k]] = s[k]
            BY <2>1 DEF Arranges
        <2>3. p \in [places -> places] /\ \A k, l \in places : p[k] = p[l] => k = l
            BY <2>2, BijectionIs
        <2> QED
            BY <2>2, <2>3 DEF places
    <1>2. n \in Nat /\ i \in Nat /\ \A k \in 1..i : k \in 1..n
        BY DEF IsIndexed
    <1>3. ASSUME NEW k \in 1..i  PROVE p[k] \in 1..(i - 1)
        <2>1. k \in 1..n /\ p[k] \in 1..n /\ t[p[k]] = s[k]
            BY <1>1, <1>2
        <2>2. s[k] <= s[i]
            BY <1>2, <2>1 DEF IsOrdered, IsIndexed
        <2>3. t[p[k]] < t[i]
            BY <2>1, <2>2
        <2>4. ~(i < p[k]) /\ p[k] # i
            BY <2>1, <2>3 DEF IsOrdered, IsIndexed
        <2> QED
            BY <1>2, <2>1, <2>4
    <1> DEFINE g == [k \in 1..i |-> p[k]]
    <1>4. g \in [1..i -> 1..(i - 1)] /\ \A k, l \in 1..i : g[k] = g[l] => k = l
        BY <1>1, <1>2, <1>3
    <1> HIDE DEF g
    <1>5. g \in Injection(1..i, 1..(i - 1))
        BY <1>4 DEF Injection, IsInjective
    <1>6. /\ IsFiniteSet(1..(i - 1))
          /\ Cardinality(1..i) = i
          /\ Cardinality(1..(i - 1)) = i - 1
        <2>1. i - 1 \in Nat /\ 1 \in Int
            BY <1>2
        <2>2. Cardinality(1..i) = i
            BY <1>2, <2>1, FS_Interval
        <2>3. IsFiniteSet(1..(i - 1)) /\ Cardinality(1..(i - 1)) = IF 1 > i - 1 THEN 0 ELSE i - 1 - 1 + 1
            BY <2>1, FS_Interval
        <2> QED
            BY <2>1, <2>2, <2>3
    <1>7. Cardinality(1..i) <= Cardinality(1..(i - 1))
        BY <1>5, <1>6, FS_Injection
    <1> QED
        BY <1>2, <1>6, <1>7

(***************************************************************************)
(* Sorted is std::sort of parseExitCodes: whatever arranges the exit codes *)
(* in order, as std::sort does, gives the list that Sorted gives.          *)
(***************************************************************************)
THEOREM SortedIsStdSort ==
    ASSUME NEW n \in Nat, NEW s \in [1..n -> Int], NEW t \in [1..n -> Int],
           ToBag(t) = ToBag(s), IsOrdered(t)
    PROVE  Sorted(s) = t
PROOF
    <1> DEFINE Fits(u) == ToBag(u) = ToBag(s) /\ \A i, j \in DOMAIN u : i < j => u[i] <= u[j]
               r == Sorted(s)
    <1>1. IsIndexed(s, n) /\ IsIndexed(t, n)
        BY DEF IsIndexed
    <1>2. Range(s) = Range(t) /\ Range(s) \subseteq Int
        BY BagIs
    <1>3. t \in [DOMAIN s -> Range(s)] /\ Fits(t)
        BY <1>2, BagIs DEF IsOrdered
    <1>4. r = CHOOSE u \in [DOMAIN s -> Range(s)] : Fits(u)
        BY DEF Sorted
    <1> HIDE DEF Fits, r
    <1>5. r \in [DOMAIN s -> Range(s)] /\ Fits(r)
        BY <1>3, <1>4
    <1>6. r \in [1..n -> Int] /\ IsIndexed(r, n) /\ ToBag(r) = ToBag(t) /\ IsOrdered(r)
        BY <1>2, <1>5 DEF IsIndexed, IsOrdered, Fits
    <1>7. PICK p : Arranges(p, r, t)
        BY <1>1, <1>6, SameBagArranges
    <1>8. PICK q : Arranges(q, t, r)
        BY <1>1, <1>6, SameBagArranges
    <1>9. \A i \in 1..n : t[i] <= r[i] /\ r[i] <= t[i]
        BY <1>1, <1>6, <1>7, <1>8, OrderedNotBelow
    <1>10. \A i \in 1..n : t[i] = r[i]
        BY <1>6, <1>9
    <1> QED
        BY <1>6, <1>10 DEF r

----------------------------------------------------------------------------
\* What std::sort makes of two arrangements of the same numbers is the same.
LEMMA SortedSame ==
    ASSUME NEW s, NEW m, IsIndexed(s, m), NEW t, NEW n, IsIndexed(t, n), NEW p, Arranges(p, s, t)
    PROVE  Sorted(s) = Sorted(t)
PROOF
    <1>1. ToBag(s) = ToBag(t) /\ Range(s) = Range(t) /\ m = n
        BY ArrangesSameBag
    <1>2. DOMAIN s = DOMAIN t
        BY <1>1 DEF IsIndexed
    <1> QED
        BY <1>1, <1>2 DEF Sorted

LEMMA SortedOne ==
    ASSUME NEW c \in Int
    PROVE  Sorted(<<c>>) = <<c>>
PROOF
    <1> DEFINE s == <<c>>
               InOrder(t) == ToBag(t) = ToBag(s) /\ \A i, j \in DOMAIN t : i < j => t[i] <= t[j]
    <1>1. DOMAIN s = {1} /\ s[1] = c /\ s = [i \in {1} |-> c]
        OBVIOUS
    <1>2. Range(s) = {c}
        BY <1>1, BagIs
    <1>3. \A t \in [{1} -> {c}] : t = s
        BY <1>1
    <1>4. s \in [DOMAIN s -> Range(s)] /\ InOrder(s)
        BY <1>1, <1>2
    <1>5. \A t \in [DOMAIN s -> Range(s)] : t = s
        BY <1>1, <1>2, <1>3
    <1>6. Sorted(s) = CHOOSE t \in [DOMAIN s -> Range(s)] : InOrder(t)
        BY DEF Sorted
    <1> HIDE DEF s, InOrder
    <1>7. Sorted(s) \in [DOMAIN s -> Range(s)]
        BY <1>4, <1>6
    <1>8. Sorted(s) = s
        BY <1>5, <1>7
    <1> QED
        BY <1>8 DEF s

----------------------------------------------------------------------------
(***************************************************************************)
(* parseExitCodes: the numbers that a list of nodes reads as, and the same *)
(* for a scalar, which reads as a list of one.                             *)
(***************************************************************************)
Readings(items) ==
    {s \in [DOMAIN items -> UNION {items[k].ints : k \in DOMAIN items}] :
        \A k \in DOMAIN s : s[k] \in items[k].ints}

LEMMA ReadCodesIs ==
    ASSUME NEW node, HoldsCodes(node)
    PROVE  ReadCodes(node) = Readings(Codes(node))
PROOF
    <1>1. CASE node.type = "scalar"
        <2> DEFINE items == <<node>>
        <2>1. DOMAIN items = {1} /\ items[1] = node
            OBVIOUS
        <2>2. UNION {items[k].ints : k \in DOMAIN items} = node.ints
            BY <2>1
        <2> HIDE DEF items
        <2>3. Readings(items) = {s \in [{1} -> node.ints] : TRUE}
            BY <2>1, <2>2 DEF Readings
        <2>4. \A s : s \in [{1} -> node.ints] <=> \E n \in node.ints : s = <<n>>
            <3>1. ASSUME NEW s \in [{1} -> node.ints]  PROVE s = <<s[1]>> /\ s[1] \in node.ints
                OBVIOUS
            <3>2. ASSUME NEW n \in node.ints  PROVE <<n>> \in [{1} -> node.ints]
                OBVIOUS
            <3> QED
                BY <3>1, <3>2
        <2>5. ReadCodes(node) = {<<n>> : n \in node.ints}
            BY <1>1 DEF ReadCodes
        <2>6. Codes(node) = items
            BY <1>1 DEF Codes, items
        <2> QED
            BY <2>3, <2>4, <2>5, <2>6
    <1>2. CASE node.type = "sequence"
        BY <1>2 DEF ReadCodes, AsInts, Readings, Codes
    <1> QED
        BY <1>1, <1>2 DEF HoldsCodes

\* Every reading of a list is an arrangement of a reading of its arrangement.
LEMMA ReadingArranged ==
    ASSUME NEW a, NEW m, IsIndexed(a, m), NEW b, NEW n, IsIndexed(b, n), NEW p, Arranges(p, b, a),
           NEW s \in Readings(a)
    PROVE  \E t \in Readings(b) : Sorted(t) = Sorted(s)
PROOF
    <1> DEFINE t == [k \in DOMAIN b |-> s[p[k]]]
    <1>1. /\ p \in Bijection(DOMAIN b, DOMAIN a)
          /\ p \in [DOMAIN b -> DOMAIN a]
          /\ \A k \in DOMAIN b : a[p[k]] = b[k]
        BY BijectionIs DEF Arranges
    <1>2. DOMAIN s = DOMAIN a /\ \A k \in DOMAIN a : s[k] \in a[k].ints
        BY DEF Readings
    <1>3. \A k \in DOMAIN b : t[k] \in b[k].ints
        BY <1>1, <1>2
    <1>4. DOMAIN t = DOMAIN b
        OBVIOUS
    <1>5. t \in Readings(b)
        BY <1>3, <1>4 DEF Readings
    <1>6. \A k \in DOMAIN t : s[p[k]] = t[k]
        OBVIOUS
    <1> HIDE DEF t
    <1>7. Arranges(p, t, s) /\ IsIndexed(t, n) /\ IsIndexed(s, m)
        BY <1>1, <1>2, <1>4, <1>6 DEF Arranges, IsIndexed
    <1> QED
        BY <1>5, <1>7, SortedSame

LEMMA SortedReadings ==
    ASSUME NEW a, NEW m, IsIndexed(a, m), NEW b, NEW n, IsIndexed(b, n), ToBag(a) = ToBag(b)
    PROVE  {Sorted(s) : s \in Readings(a)} \subseteq {Sorted(s) : s \in Readings(b)}
PROOF
    <1>1. PICK p : Arranges(p, b, a)
        BY SameBagArranges
    <1> QED
        BY <1>1, ReadingArranged

LEMMA SortedCodesSame ==
    ASSUME NEW m, IsListOfCodes(m), NEW n, IsListOfCodes(n), SameCodes(m, n)
    PROVE  {Sorted(s) : s \in ReadCodes(m)} = {Sorted(s) : s \in ReadCodes(n)}
PROOF
    <1> DEFINE a == Codes(m)
               b == Codes(n)
    <1>1. IsIndexed(a, Len(a)) /\ IsIndexed(b, Len(b)) /\ ToBag(a) = ToBag(b)
        BY DEF IsListOfCodes, IsIndexed, SameCodes
    <1>2. ReadCodes(m) = Readings(a) /\ ReadCodes(n) = Readings(b)
        BY ReadCodesIs DEF SameCodes
    <1> HIDE DEF a, b
    <1>3. {Sorted(s) : s \in Readings(a)} \subseteq {Sorted(s) : s \in Readings(b)}
        BY <1>1, SortedReadings
    <1>4. {Sorted(s) : s \in Readings(b)} \subseteq {Sorted(s) : s \in Readings(a)}
        BY <1>1, SortedReadings
    <1> QED
        BY <1>2, <1>3, <1>4

----------------------------------------------------------------------------
(***************************************************************************)
(* What the parsers see of an entry is what it says spelled out.           *)
(***************************************************************************)
DefaultOptions == {"numprocs", "umask", "workingdir", "autostart", "autorestart", "exitcodes",
                   "startretries", "starttime", "stopsignal", "stoptime"}

LEMMA SpelledOutIs ==
    ASSUME NEW e
    PROVE  /\ DOMAIN SpelledOut(e) = DOMAIN e \cup DefaultOptions
           /\ \A o \in DOMAIN SpelledOut(e) :
                 SpelledOut(e)[o] = IF o \in DOMAIN e THEN e[o] ELSE Defaults[o]
    BY DEF SpelledOut, Defaults, DefaultOptions

LEMMA DefaultsAre ==
    /\ Defaults["numprocs"].ints = {1}
    /\ Defaults["umask"].octals = {18}
    /\ Defaults["workingdir"].texts = {"."}
    /\ Defaults["autostart"].bools = {TRUE}
    /\ Defaults["autorestart"].texts = {"unexpected"}
    /\ Defaults["exitcodes"].type = "scalar" /\ Defaults["exitcodes"].ints = {0}
    /\ Defaults["startretries"].ints = {3}
    /\ Defaults["starttime"].ints = {1}
    /\ Defaults["stopsignal"].texts = {"TERM"}
    /\ Defaults["stoptime"].ints = {10}
    BY DEF Defaults, Number, Octal, Boolean, Scalar

LEMMA NumbersSpelledOut ==
    ASSUME NEW e
    PROVE  LET S == SpelledOut(e)
           IN  /\ ParseNumberProcesses(e) = S["numprocs"].ints
               /\ ParseStartRetries(e) = S["startretries"].ints
               /\ ParseStartTime(e) = S["starttime"].ints
               /\ ParseStopTime(e) = S["stoptime"].ints
               /\ ParseUnMask(e) = S["umask"].octals
               /\ ParseWorkingDir(e) = S["workingdir"].texts
               /\ ParseAutoStart(e) = S["autostart"].bools
PROOF
    <1> DEFINE S == SpelledOut(e)
    <1>1. \A o \in DefaultOptions : S[o] = IF o \in DOMAIN e THEN e[o] ELSE Defaults[o]
        BY SpelledOutIs
    <1> HIDE DEF S
    <1>2. /\ ParseNumberProcesses(e) = S["numprocs"].ints
          /\ ParseStartRetries(e) = S["startretries"].ints
          /\ ParseStartTime(e) = S["starttime"].ints
          /\ ParseStopTime(e) = S["stoptime"].ints
        BY <1>1, DefaultsAre DEF DefaultOptions, OrDefault, ParseNumberProcesses,
                                 ParseStartRetries, ParseStartTime, ParseStopTime
    <1>3. /\ ParseUnMask(e) = S["umask"].octals
          /\ ParseWorkingDir(e) = S["workingdir"].texts
          /\ ParseAutoStart(e) = S["autostart"].bools
        BY <1>1, DefaultsAre DEF DefaultOptions, OrDefault, ParseUnMask, ParseWorkingDir,
                                 ParseAutoStart
    <1> QED
        BY <1>2, <1>3 DEF S

LEMMA ChoicesSpelledOut ==
    ASSUME NEW e
    PROVE  LET S == SpelledOut(e)
           IN  /\ ParseAutoRestart(e) =
                     {Policies[t] : t \in S["autorestart"].texts \cap DOMAIN Policies}
               /\ ParseStopSignal(e) = S["stopsignal"].texts \cap Signals
               /\ ParseExitCodes(e) = {Sorted(s) : s \in ReadCodes(S["exitcodes"])}
PROOF
    <1> DEFINE S == SpelledOut(e)
    <1>1. \A o \in DefaultOptions : S[o] = IF o \in DOMAIN e THEN e[o] ELSE Defaults[o]
        BY SpelledOutIs
    <1> HIDE DEF S
    <1>2. ParseAutoRestart(e) = {Policies[t] : t \in S["autorestart"].texts \cap DOMAIN Policies}
        <2>1. DOMAIN Policies = {"true", "unexpected", "false"} /\ Policies["unexpected"] = "ON_FAILURE"
            BY DEF Policies
        <2>2. {Policies[t] : t \in {"unexpected"} \cap DOMAIN Policies} = {"ON_FAILURE"}
            BY <2>1
        <2> QED
            BY <1>1, <2>2, DefaultsAre DEF DefaultOptions, OrDefault, ParseAutoRestart
    <1>3. ParseStopSignal(e) = S["stopsignal"].texts \cap Signals
        BY <1>1, DefaultsAre DEF DefaultOptions, OrDefault, ParseStopSignal, Signals
    <1>4. ParseExitCodes(e) = {Sorted(s) : s \in ReadCodes(S["exitcodes"])}
        <2>1. ReadCodes(Defaults["exitcodes"]) = {<<0>>}
            BY DefaultsAre DEF ReadCodes
        <2>2. {Sorted(s) : s \in ReadCodes(Defaults["exitcodes"])} = {<<0>>}
            BY <2>1, SortedOne
        <2> QED
            BY <1>1, <2>2 DEF DefaultOptions, OrDefault, ParseExitCodes
    <1> QED
        BY <1>2, <1>3, <1>4 DEF S

(***************************************************************************)
(* Entries that mean the same parse alike, option by option.               *)
(***************************************************************************)
LEMMA SameOptions ==
    ASSUME NEW e, NEW f, MeanTheSame(e, f)
    PROVE  LET S == SpelledOut(e)
               T == SpelledOut(f)
           IN  /\ \A o \in NumberOptions : S[o].ints = T[o].ints
               /\ S["autostart"].bools = T["autostart"].bools
               /\ SameCodes(S["exitcodes"], T["exitcodes"])
               /\ \A o \in {"umask", "workingdir", "autorestart", "stopsignal"} : S[o] = T[o]
               /\ \A o \in {"cmd", "stdout", "stderr", "env"} :
                     (o \in DOMAIN e <=> o \in DOMAIN f) /\ (o \in DOMAIN e => e[o] = f[o])
PROOF
    <1> DEFINE S == SpelledOut(e)
               T == SpelledOut(f)
    <1>1. /\ DOMAIN S = DOMAIN e \cup DefaultOptions /\ DOMAIN T = DOMAIN f \cup DefaultOptions
          /\ \A o \in DOMAIN S : S[o] = IF o \in DOMAIN e THEN e[o] ELSE Defaults[o]
          /\ \A o \in DOMAIN T : T[o] = IF o \in DOMAIN f THEN f[o] ELSE Defaults[o]
        BY SpelledOutIs
    <1>2. /\ DOMAIN S = DOMAIN T
          /\ \A o \in DOMAIN S :
                /\ o \in NumberOptions => S[o].ints = T[o].ints
                /\ o = "autostart" => S[o].bools = T[o].bools
                /\ o = "exitcodes" => SameCodes(S[o], T[o])
                /\ o \notin NumberOptions \cup {"autostart", "exitcodes"} => S[o] = T[o]
        <2>1. DOMAIN S = DOMAIN T
            BY DEF MeanTheSame
        <2>2. ASSUME NEW o \in DOMAIN S, o \in NumberOptions  PROVE S[o].ints = T[o].ints
            BY <2>2 DEF MeanTheSame, NumberOptions
        <2>3. ASSUME NEW o \in DOMAIN S, o = "autostart"  PROVE S[o].bools = T[o].bools
            BY <2>3 DEF MeanTheSame, NumberOptions
        <2>4. ASSUME NEW o \in DOMAIN S, o = "exitcodes"  PROVE SameCodes(S[o], T[o])
            BY <2>4 DEF MeanTheSame, NumberOptions
        <2>5. ASSUME NEW o \in DOMAIN S, o \notin NumberOptions \cup {"autostart", "exitcodes"}
              PROVE  S[o] = T[o]
            BY <2>5 DEF MeanTheSame, NumberOptions
        <2> QED
            BY <2>1, <2>2, <2>3, <2>4, <2>5
    <1> HIDE DEF S, T
    <1>3. DefaultOptions \subseteq DOMAIN S
        BY <1>1
    <1>4. /\ \A o \in NumberOptions : S[o].ints = T[o].ints
          /\ S["autostart"].bools = T["autostart"].bools
          /\ SameCodes(S["exitcodes"], T["exitcodes"])
          /\ \A o \in {"umask", "workingdir", "autorestart", "stopsignal"} : S[o] = T[o]
        BY <1>2, <1>3 DEF DefaultOptions, NumberOptions
    <1>5. ASSUME NEW o \in {"cmd", "stdout", "stderr", "env"}
          PROVE  (o \in DOMAIN e <=> o \in DOMAIN f) /\ (o \in DOMAIN e => e[o] = f[o])
        BY <1>1, <1>2 DEF DefaultOptions, NumberOptions
    <1> QED
        BY <1>4, <1>5 DEF S, T

HasListOfCodes(e) == IsListOfCodes(SpelledOut(e)["exitcodes"])

(***************************************************************************)
(* JobConfig::JobConfig gives entries that mean the same the same config,  *)
(* or rejects both: defaults spelled out, exit codes in another order, a   *)
(* single exit code as a list of one, numbers written differently.         *)
(***************************************************************************)
THEOREM ParserIgnoresSpelling ==
    ASSUME NEW e, HasListOfCodes(e), NEW f, HasListOfCodes(f), MeanTheSame(e, f), NEW dirs
    PROVE  ParseJob(e, dirs) = ParseJob(f, dirs)
PROOF
    <1>1. /\ ParseNumberProcesses(e) = ParseNumberProcesses(f)
          /\ ParseStartRetries(e) = ParseStartRetries(f)
          /\ ParseStartTime(e) = ParseStartTime(f)
          /\ ParseStopTime(e) = ParseStopTime(f)
        BY SameOptions, NumbersSpelledOut DEF NumberOptions
    <1>2. /\ ParseUnMask(e) = ParseUnMask(f)
          /\ ParseWorkingDir(e) = ParseWorkingDir(f)
          /\ ParseAutoStart(e) = ParseAutoStart(f)
        BY SameOptions, NumbersSpelledOut
    <1>3. /\ ParseAutoRestart(e) = ParseAutoRestart(f)
          /\ ParseStopSignal(e) = ParseStopSignal(f)
        BY SameOptions, ChoicesSpelledOut
    <1>4. ParseExitCodes(e) = ParseExitCodes(f)
        BY SameOptions, ChoicesSpelledOut, SortedCodesSame DEF HasListOfCodes
    <1>5. \A o \in {"cmd", "stdout", "stderr", "env"} :
             (o \in DOMAIN e <=> o \in DOMAIN f) /\ (o \in DOMAIN e => e[o] = f[o])
        BY SameOptions
    <1>6. ParseCmd(e) = ParseCmd(f)
        BY <1>5 DEF ParseCmd
    <1>7. ParseSTDOUT(e, dirs) = ParseSTDOUT(f, dirs) /\ ParseSTDERR(e, dirs) = ParseSTDERR(f, dirs)
        BY <1>5 DEF ParseSTDOUT, ParseSTDERR, OrDefault
    <1>8. ParseENV(e) = ParseENV(f)
        BY <1>5 DEF ParseENV, OrDefault
    <1> QED
        BY <1>1, <1>2, <1>3, <1>4, <1>6, <1>7, <1>8 DEF ParseJob

ListsIn(doc) == \A nodes \in doc.jobs : \A name \in NamesIn(nodes) :
                    HasListOfCodes(FirstEntry(nodes, name))

(***************************************************************************)
(* JobConfig::getJobConfigs: a name whose entries mean the same in two     *)
(* documents and that the first one configures is configured by the second *)
(* with an equal config, whatever else the documents hold.                 *)
(***************************************************************************)
THEOREM SameJobSameConfig ==
    ASSUME NEW doc1, ListsIn(doc1), NEW doc2, ListsIn(doc2), NEW n, SameJob(doc1, doc2, n),
           NEW cfg1 \in GetJobConfigs(doc1), n \in DOMAIN cfg1, NEW cfg2 \in GetJobConfigs(doc2)
    PROVE  n \in DOMAIN cfg2 /\ cfg2[n] = cfg1[n]
PROOF
    <1>1. PICK nodes1 \in doc1.jobs : cfg1 = ParseJobs(nodes1, doc1.dirs)
        BY DEF GetJobConfigs
    <1>2. PICK nodes2 \in doc2.jobs : cfg2 = ParseJobs(nodes2, doc2.dirs)
        BY DEF GetJobConfigs
    <1> DEFINE e == FirstEntry(nodes1, n)
               f == FirstEntry(nodes2, n)
               dirs == doc1.dirs
    <1>3. /\ doc2.dirs = dirs
          /\ n \in NamesIn(nodes1) /\ n \in NamesIn(nodes2)
          /\ MeanTheSame(e, f)
        BY DEF SameJob
    <1>4. HasListOfCodes(e) /\ HasListOfCodes(f)
        BY <1>3 DEF ListsIn
    <1> HIDE DEF dirs
    <1>5. ParseJob(e, dirs) = ParseJob(f, dirs)
        <2> HIDE DEF e, f
        <2> QED
            BY <1>3, <1>4, ParserIgnoresSpelling
    <1>6. ParseJob(e, dirs) # {} /\ cfg1[n] = CHOOSE c \in ParseJob(e, dirs) : TRUE
        BY <1>1 DEF ParseJobs, dirs
    <1>7. n \in DOMAIN cfg2 /\ cfg2[n] = CHOOSE c \in ParseJob(f, dirs) : TRUE
        BY <1>2, <1>3, <1>5, <1>6 DEF ParseJobs
    <1> QED
        BY <1>5, <1>6, <1>7
=============================================================================

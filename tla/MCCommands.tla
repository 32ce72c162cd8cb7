------------------------------ MODULE MCCommands ------------------------------
(***************************************************************************)
(* Archive commands that race for a name, the commands one after the other *)
(* over one contracts root, the paths of one command while somebody else   *)
(* changes the disk, or the operations of the kits on a shared pool: the   *)
(* subject is chosen at the start, the others are at their end or idle.    *)
(***************************************************************************)
EXTENDS ArchivePublication, ContractCommands, CatalogPaths, WorkPool, TLC

CONSTANTS q1, q2, q3, o1, o2, o3, o4, t1, signature, sketch

\* Three operations of one kit and one of the other share one thread.
TwoKits == [o \in Operation |-> IF o = o4 THEN sketch ELSE signature]
\* The three of one kit are alike: to number them as they are submitted leaves out no run.
Alike == <<o1, o2, o3>>
Numbered == \A i \in 1..2 : future'[Alike[i]] = "idle" => future'[Alike[i + 1]] = "idle"

\* The third command runs in another process-identifier namespace and has the
\* identifier of the first.
SharedPid == [q \in {q1, q2, q3} |-> IF q = q2 THEN 2 ELSE 1]

Lib == [name |-> "lib.rs", rust |-> TRUE]
Main == [name |-> "main.rs", rust |-> TRUE]
Util == [name |-> "util.rs", rust |-> TRUE]
Gone == [name |-> "gone.rs", rust |-> TRUE]
Notes == [name |-> "notes.md", rust |-> FALSE]
MCConventional == {Lib, Main}
MCTree == Lib :> 1 @@ Util :> 2 @@ Notes :> 9
Two == Lib :> 1 @@ Main :> 1

Crate(p) == [id |-> p.name, root |-> p]
Context(cfg) == [supported |-> TRUE, named |-> TRUE, expanded |-> TRUE, features |-> <<1, 2>>, cfg |-> cfg]
Syntax(roots) == [kind |-> "syntax", crates |-> roots]
Compiler(roots, cfg) == [kind |-> "compiler", crates |-> roots, context |-> Context(cfg)]
MCArtifacts == {[crates |-> <<Crate(Lib)>>, context |-> Context(<<1>>)],
                [crates |-> <<Crate(Lib)>>, context |-> Context(<<2>>)],
                [crates |-> <<Crate(Util)>>, context |-> Context(<<1>>)]}

(* Documents and files *)

Doc(sources_, signatures, extraction) ==
    [null |-> FALSE, decodes |-> TRUE, version |-> 2, root |-> "relative", binds |-> TRUE, complete |-> TRUE,
     listed |-> sources_, signatures |-> signatures, extraction |-> extraction]
Plain == Doc(<<Util>>, 0, NoExtraction)
Sound == {Plain, Doc(<<Lib>>, 1, Syntax(<<Crate(Lib)>>)),
          Doc(<<Util, Lib>>, 0, Syntax(<<Crate(Util), Crate(Lib)>>)),
          Doc(<<Lib>>, 1, Compiler(<<Crate(Lib)>>, <<1>>)), Doc(<<Lib>>, 1, Compiler(<<Crate(Lib)>>, <<2>>)),
          Doc(<<Lib, Util>>, 1, Compiler(<<Crate(Util)>>, <<1>>))}
Unsound == {[Plain EXCEPT !.null = TRUE], [Plain EXCEPT !.decodes = FALSE], [Plain EXCEPT !.version = 1],
            [Plain EXCEPT !.root = "malformed"], [Plain EXCEPT !.binds = FALSE],
            [Plain EXCEPT !.complete = FALSE], [Plain EXCEPT !.signatures = 1],
            Doc(<<Notes>>, 0, NoExtraction), Doc(<<Lib, Lib>>, 0, NoExtraction),
            Doc(<<Gone>>, 0, NoExtraction),
            Doc(<<Util>>, 1, Syntax(<<Crate(Lib)>>)), Doc(<<Lib>>, 1, Syntax(<<>>)),
            Doc(<<Lib>>, 1, Syntax(<<Crate(Lib), Crate(Lib)>>)),
            Doc(<<Lib>>, 1, Compiler(<<Crate(Lib)>>, <<2, 1>>))}

Text(name, documents) ==
    [path |-> name, direct |-> TRUE, size |-> 1 + Len(documents), utf8 |-> TRUE, sound |-> TRUE,
     raw |-> [r \in Resources |-> CASE r = "depth" -> 1 [] r = "aliases" -> 0 [] OTHER -> Len(documents)],
     replay |-> [r \in Replayed |-> 0], documents |-> documents]
\* An alias that repeats a node.
Aliased(file) == [file EXCEPT !.raw.aliases = 1, !.replay.nodes = 1]
A(documents) == Text("a.yml", documents)
B(documents) == Text("b.yml", documents)
\* Not looked at: a file below the root, however broken.
Nested == [B(<<>>) EXCEPT !.path = "sub/b.yml", !.direct = FALSE, !.utf8 = FALSE]

Catalogs ==
    {<<A(<<d>>)>> : d \in Sound \cup Unsound} \cup {<<A(<<d, e>>)>> : d, e \in Sound}
    \cup {<<A(<<d>>), B(<<e>>)>> : d, e \in Sound} \cup {<<A(<<d>>), B(<<e>>)>> : d \in Sound, e \in Unsound}
    \cup {<<>>, <<Nested>>, <<A(<<Plain>>), Nested>>, <<A(<<>>)>>}
    \cup {<<[A(<<Plain>>) EXCEPT !.utf8 = FALSE]>>, <<[A(<<Plain>>) EXCEPT !.sound = FALSE]>>,
          <<Aliased(A(<<Plain>>)), Aliased(B(<<Plain>>))>>}
Triples == {<<A(<<d, e>>), B(<<f>>)>> : d, e, f \in Sound}

Root(files) == [present |-> TRUE, files |-> files, manifest |-> 0]
Absent == [present |-> FALSE, files |-> <<>>, manifest |-> 0]

(* Commands and cases *)

Command(verb, subject, extractor, explicit) ==
    [verb |-> verb, subject |-> subject, extractor |-> extractor, explicit |-> explicit, disjoint |-> TRUE]
Check(subject, extractor) == Command("check", subject, extractor, <<>>)
Generate(subject, extractor) == Command("generate", subject, extractor, <<>>)
Archiving == Command("archive", "all", "syntax", <<>>)
Diffing == Command("diff", "all", "syntax", <<>>)
Editing(files, sources_) == [verb |-> "edit", files |-> files, tree |-> sources_]

Open == [entries |-> 99, total |-> 99, file |-> 9]
Wide == [r \in Resources |-> 9]
Case(contracts_, archived, commands) ==
    [root |-> contracts_, tree |-> MCTree, stored |-> archived, queue |-> commands, limits |-> Open, ceiling |-> Wide]

\* Every catalog is read by a check, and some by every command, on a budget that two
\* documents keep.
Single ==
    {Case(Root(c), NoArchive, <<Check("signatures", x)>>) : c \in Catalogs \cup Triples, x \in {"syntax", "compiler"}}
    \cup {[Case(Root(c), NoArchive, <<Check("sketches", "syntax")>>) EXCEPT !.ceiling = [@ EXCEPT ![r] = n]] :
             c \in Catalogs, r \in Resources, n \in {1}}
    \cup {Case(Root(c), NoArchive, <<k>>) : c \in Catalogs, k \in {
             Check("all", "compiler"), Generate("all", "syntax"), Generate("signatures", "compiler"),
             Generate("sketches", "syntax"), [Generate("all", "compiler") EXCEPT !.explicit = <<Crate(Lib)>>]}}

Fresh(subject, extractor, explicit) == [Generate(subject, extractor) EXCEPT !.explicit = explicit]
Sequences ==
    {Case(r, NoArchive, <<Fresh(s, x, e), Check(t, x), Generate(t, x)>>) :
        r \in {Absent, Root(<<Nested>>)}, s \in {"signatures", "all"}, x \in {"syntax", "compiler"},
        e \in {<<>>, <<Crate(Lib)>>, <<Crate(Util), Crate(Lib)>>, <<Crate(Lib), Crate(Lib)>>, <<Crate(Gone)>>,
               <<Crate(Notes)>>},
        t \in {"all", "sketches"}}
    \cup {[Case(Absent, NoArchive, <<Fresh("all", "syntax", <<>>)>>) EXCEPT !.tree = t] : t \in {Two, Notes :> 1}}
    \cup {Case(Absent, NoArchive, <<Fresh("all", "syntax", <<>>), Editing(<<A(<<Plain>>)>>, t), Check("all", "syntax")>>) :
             t \in {MCTree, Lib :> 1}}
    \cup {Case(Absent, NoArchive, <<[Archiving EXCEPT !.disjoint = FALSE], Archiving, Check("all", "syntax"), Diffing>>)}

Foreign_(change) == [kind |-> "foreign", files |-> <<A(<<Plain>>)>>, sound |-> change # "sound", clean |-> change # "clean",
                     packing |-> [expanded |-> IF change = "bomb" THEN 9 ELSE 4,
                                  compressed |-> IF change = "long" THEN 9 ELSE 1]]
Pair == <<A(<<Plain>>), B(<<Plain>>)>>
Archived ==
    {Case(Root(<<A(<<Plain>>)>>), Foreign_(c), <<Diffing>>) : c \in {"none", "sound", "clean", "bomb", "long"}}
    \cup {[Case(Root(c), NoArchive, <<Archiving, Diffing>>) EXCEPT !.ceiling = [@ EXCEPT ![r] = n]] :
             c \in {<<A(<<Plain>>)>>, Pair, <<A(<<Plain>>), Nested>>, <<Aliased(A(<<Plain>>))>>},
             r \in {"documents", "depth", "nodes"}, n \in 1..4}
    \cup {Case(Root(<<A(<<Plain, Plain, Plain, Plain>>)>>), NoArchive, <<Archiving>>),
          Case(Root(Pair \o <<Nested>>), NoArchive, <<Archiving>>),
          Case(Root(Pair), NoArchive, <<Archiving, Editing(<<A(<<Plain>>)>>, MCTree), Diffing>>)}
Limited ==
    {[Case(Root(Pair), NoArchive, q) EXCEPT !.limits = [Open EXCEPT ![l] = n]] :
        q \in {<<Archiving, Diffing>>, <<Check("sketches", "syntax")>>, <<Generate("sketches", "syntax")>>},
        l \in {"entries", "total"}, n \in 1..12}
    \cup {[Case(Absent, NoArchive, <<Fresh("all", x, <<>>), Generate("all", x)>>) EXCEPT !.limits = [Open EXCEPT ![l] = n]] :
             x \in {"syntax", "compiler"}, l \in {"entries", "total"}, n \in 1..12}
    \cup {[Case(Root(Pair), NoArchive, <<Check("sketches", "syntax")>>) EXCEPT !.limits.file = n] : n \in 1..2}
Cases == Single \cup Sequences \cup Archived \cup Limited

MCPackings == {[expanded |-> 5, compressed |-> 2], [expanded |-> 8, compressed |-> 2], [expanded |-> 7, compressed |-> 5]}
MCWire == [entries |-> 2, file |-> 4, expanded |-> 7, compressed |-> 4]

(* Disks and paths: 1 is the top, 2 the sources, 3 the contracts or nothing, 4 elsewhere. *)

Dir(entries) == [Blank("dir") EXCEPT !.entries = entries]
FileOf(text) == [Blank("file") EXCEPT !.text = text]
LinkTo(path) == [Blank("link") EXCEPT !.to = path]
Bare ==
    (1 :> Dir("src" :> 2 @@ "out" :> 4) @@ 2 :> Dir("f.rs" :> 5 @@ "d" :> 6) @@ 3 :> Blank("unused")
     @@ 4 :> Dir("f.rs" :> 7 @@ "d" :> 8) @@ 5 :> FileOf("a") @@ 6 :> Dir("f.rs" :> 9)
     @@ 7 :> FileOf("other") @@ 8 :> Dir(<<>>) @@ 9 :> FileOf("b"))
    @@ [n \in Node |-> Blank("unused")]
HasRoot(d, entries) == [d EXCEPT ![1].entries = @ @@ "con" :> 3, ![3] = Dir(entries)]
Add(d, at, name, node) == LET n == NextFree(d) IN [d EXCEPT ![at].entries = @ @@ name :> n, ![n] = node]
Reserving(d, name, entries) == LET k == Add(d, 3, name, Dir(<<>>)) IN Add(k, k[3].entries[name], entries, FileOf("c"))
MCDisks ==
    LET empty == HasRoot(Bare, <<>>)
        deep == Add(empty, 3, "d", Dir(<<>>))
        d == deep[3].entries["d"]
    IN {Bare, empty, Add(empty, 3, "d", FileOf("c")), Add(empty, 3, "d", LinkTo(<<"out">>)),
        Add(Add(deep, d, "f.rs", FileOf("c")), 3, "m", Dir(<<>>)), Add(deep, d, "f.rs", LinkTo(<<"out", "f.rs">>)), Add(deep, d, "f.rs", Dir(<<>>)),
        Add(Bare, 1, "con", LinkTo(<<"out">>)), Add(Bare, 1, "con", LinkTo(<<"src", "d">>)), Add(Bare, 1, "con", LinkTo(<<"gone">>)),
        Add(Bare, 1, "con", LinkTo(<<"con">>)), Add(Bare, 1, "con", FileOf("c")),
        Add(Bare, 1, "con", LinkTo(<<"src">>))}
Odd ==
    LET empty == HasRoot(Bare, <<>>)
    IN {Add(empty, 3, "m", FileOf("c")), Add(empty, 3, "m", LinkTo(<<"out">>)), Add(empty, 3, "M", Dir(<<>>)),
        Add(Add(empty, 3, "m", Dir(<<>>)), 3, "M", Dir(<<>>)),
        Reserving(empty, "m", "own"), Reserving(empty, "m", "lock"), Reserving(empty, "m", "x"), Add(Bare, 6, "l.rs", LinkTo(<<"out", "f.rs">>))}
Errand(s, c, name, act) == [source |-> s, contracts |-> c, name |-> name, act |-> act]
MCErrands ==
    {Errand(<<"src">>, <<"con">>, n, a) : n \in {<<"d", "f.rs">>, <<"d">>}, a \in {"publish", "new", "remove"}}
    \cup {Errand(<<"src">>, <<"con">>, <<"m", "lock">>, "lock"), Errand(<<"src">>, <<"con">>, <<"M", "x">>, "publish"),
          Errand(<<"src">>, <<"con">>, <<"d", "f.rs">>, "select")}
Spelt ==
    {Errand(<<"src">>, c, <<"d", "f.rs">>, "publish") : c \in {<<"con", "x">>, <<"con", "x", "y">>, <<"src", "..", "con">>, <<"con", "..">>, <<"gone", "..", "con">>, <<"con", "..", "new">>,
                 <<"src", "x">>, <<"src", "f.rs">>, <<>>}}
    \cup {Errand(s, <<"con">>, <<"d", "f.rs">>, "publish") : s \in {<<"con">>, <<"gone">>, <<"src", "d">>, <<"src", "f.rs">>, <<"con", "d">>}}
    \cup {Errand(<<"src">>, <<"con">>, n, "select") : n \in {<<"g", "f.rs">>, <<"d">>, <<"f.rs", "f.rs">>, <<"d", "l.rs">>}}
Alone(errands) == {e @@ ("swaps" :> 0) : e \in errands}
Disturbed(errands) == {e @@ ("swaps" :> 1) : e \in errands}
MCFound == [disk : MCDisks, errand : Disturbed(MCErrands)] \cup [disk : MCDisks \cup Odd, errand : Alone(Spelt)]
   \cup [disk : Odd, errand : Alone(MCErrands)]
Out == <<"out">>

-----------------------------------------------------------------------------
AtRest ==
    /\ dir = [n \in Names |-> Free] /\ data = [q \in Process |-> "none"] /\ pc = [q \in Process |-> "done"]
    /\ archive = [q \in Process |-> NoName] /\ temp = [q \in Process |-> NoName]
    /\ collision = [q \in Process |-> 0] /\ state = [q \in Process |-> "none"]
    /\ canceled = [q \in Process |-> FALSE] /\ outcome = [q \in Process |-> "none"]
    /\ failures = 0 /\ kills = 0
Idle ==
    /\ root = Absent /\ tree = MCTree /\ stored = NoArchive /\ queue = <<>> /\ limits = Open /\ ceiling = Wide
    /\ CommandInit
PathsIdle ==
    /\ volume = Bare /\ original = Bare /\ errand = CHOOSE e \in Alone(Spelt) : TRUE
    /\ swaps = 0 /\ stage = "idle" /\ retained = [r \in Roles |-> NoNode] /\ frames = <<>> /\ within = <<>>
    /\ focus = [role |-> "source", node |-> Top, name |-> ""]
    /\ seen = [r \in Roles |-> {}] /\ reach = [r \in Roles |-> {}] /\ touched = [r \in Roles |-> {}]
PoolRests ==
    /\ admitted = [k \in Kit |-> Capacity] /\ running = [k \in Kit |-> InFlight]
    /\ future = [o \in Operation |-> "dropped"] /\ job = [o \in Operation |-> "none"]
    /\ answer = [o \in Operation |-> "none"] /\ probe = [o \in Operation |-> FALSE]
    /\ stack = [t \in Thread |-> <<>>]
Walking == stage # "idle"
Racing == ~Walking /\ command.verb = "none" /\ queue = <<>>

everything == <<vars, commandVars, pathVars, poolVars>>
CommandsInit ==
    \/ Init /\ Idle /\ PathsIdle /\ PoolRests
    \/ /\ AtRest /\ PathsIdle /\ PoolRests
       /\ \E c \in Cases : /\ root = c.root /\ tree = c.tree /\ stored = c.stored /\ queue = c.queue
                           /\ limits = c.limits /\ ceiling = c.ceiling
       /\ CommandInit
    \/ PathsInit /\ AtRest /\ Idle /\ PoolRests
    \/ PoolInit /\ AtRest /\ Idle /\ PathsIdle
RacingStep == Racing /\ Next /\ UNCHANGED <<commandVars, pathVars, poolVars>>
CommandsStep == ~Walking /\ CommandNext /\ UNCHANGED <<vars, pathVars, poolVars>>
PathsStep == Walking /\ PathNext /\ UNCHANGED <<vars, commandVars, poolVars>>
PoolStep == PoolNext /\ Numbered /\ UNCHANGED <<vars, commandVars, pathVars>>
CommandsOver ==
    /\ ~Racing /\ IF Walking THEN stage \in Ended ELSE phase = "over" /\ queue = <<>>
    /\ UNCHANGED everything
CommandsNext == RacingStep \/ CommandsStep \/ PathsStep \/ PoolStep \/ CommandsOver
CommandsSpec ==
    /\ CommandsInit /\ [][CommandsNext]_everything
    /\ \A q \in Process : WF_vars(Racing /\ Step(q) /\ UNCHANGED <<commandVars, pathVars, poolVars>>)
    /\ \A o \in Operation : WF_poolVars(Caller(o))
    /\ \A t \in Thread : WF_poolVars(Worker(t))
=============================================================================

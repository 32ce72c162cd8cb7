---------------------------- MODULE SourceGraph -----------------------------
(***************************************************************************)
(* The module graph of the signature kit: an extraction lists source files *)
(* and crate roots, and RustSourceGraphBuilder walks the mod items from    *)
(* the roots, depth first (languages/rust/parser/source_graph.rs), over    *)
(* sources parsed at once or file by file (languages/rust/source.rs).      *)
(*                                                                         *)
(* A path is the sequence of its components.  A parsed source is a         *)
(* sequence of items, which count with their associated members; a mod     *)
(* item says whether a cfg conditions it or a cfg_attr may select a path,  *)
(* its path attributes, and whether its body is inline.                    *)
(***************************************************************************)
EXTENDS Integers, Sequences, SequencesExt, Folds, FiniteSets

CONSTANT Names      \* identifiers, in the order of their bytes

VARIABLES
    extraction,     \* files, crates, and whether complete or for required modules
    catalog,        \* path -> [parses, items] of the files that are there
    bounds,         \* limits.sources, limits.items and the diagnostics' count
    roots,          \* crate roots still to be walked
    stack,          \* one frame per collect_module under way
    active,         \* active_files
    modules,        \* module id -> file and syntax_index_path
    claimed,        \* claimed_files
    loaded,         \* files parsed so far
    conditional,    \* conditional_modules, each with a diagnostic
    items,          \* items encountered
    phase           \* what is under way, or how it ended

walk == <<roots, stack, active, modules, claimed, loaded, conditional, items>>
graph == <<extraction, catalog, bounds, walk, phase>>

-----------------------------------------------------------------------------
Complete == extraction.complete

IsAncestor(m, n) == m.crate = n.crate /\ IsPrefix(m.path, n.path)

NameRank(name) == CHOOSE k \in DOMAIN Names : Names[k] = name

SegmentsBefore(p, q) ==
    \/ IsStrictPrefix(p, q)
    \/ \E k \in 1..Len(p) :
          /\ k <= Len(q) /\ SubSeq(p, 1, k - 1) = SubSeq(q, 1, k - 1)
          /\ NameRank(p[k]) < NameRank(q[k])

Before(m, n) ==
    \/ NameRank(m.crate) < NameRank(n.crate)
    \/ m.crate = n.crate /\ SegmentsBefore(m.path, n.path)

NextBelow(m) ==
    LET after == {r \in extraction.required : Before(m, r)}
    IN  \E r \in after : (\A s \in after : ~Before(s, r)) /\ IsAncestor(m, r)

\* Only the first required module at or after m is looked at.
NextDescends(m) ==
    LET after == {r \in extraction.required : ~Before(r, m)}
    IN  \E r \in after : (\A s \in after : ~Before(s, r)) /\ IsAncestor(m, r)

Traverses(m) == Complete \/ NextDescends(m)

RsFile(name) == name \o ".rs"
IsRust(path) == \E k \in DOMAIN Names : Last(path) = RsFile(Names[k])
Stem(file) == CHOOSE name \in ToSet(Names) : RsFile(name) = file

ChildId(id, name) == [id EXCEPT !.path = Append(@, name)]

Frame(id, file, moduleDirectory, pathDirectory, body, enters, index) ==
    [id |-> id, file |-> file, moduleDirectory |-> moduleDirectory,
     pathDirectory |-> pathDirectory, body |-> body, enters |-> enters,
     index |-> index, next |-> 0]

RootFrame(crate) ==
    Frame([crate |-> crate.id, path |-> <<>>], crate.root, Front(crate.root),
          Front(crate.root), catalog[crate.root].items, TRUE, <<>>)

FileFrame(frame, name, file) ==
    Frame(ChildId(frame.id, name), file,
          IF Last(file) = "mod.rs" THEN Front(file)
                                   ELSE Append(Front(file), Stem(Last(file))),
          Front(file), catalog[file].items, TRUE, <<>>)

InlineFrame(frame, item, directory) ==
    Frame(ChildId(frame.id, item.name), frame.file, directory, directory,
          item.body, FALSE, Append(frame.index, frame.next))

ConventionalTargets(frame, name) ==
    {Append(frame.moduleDirectory, RsFile(name)),
     frame.moduleDirectory \o <<name, "mod.rs">>}

\* A component may not be empty, and ".." may not leave the catalog.
Escaped == <<"..">>
PathAttributeTarget(frame, value) ==
    LET step(path, c) ==
            CASE path = Escaped \/ c = "" -> Escaped
              [] c = "." -> path
              [] c = ".." -> IF path = <<>> THEN Escaped ELSE Front(path)
              [] OTHER -> Append(path, c)
    IN  FoldLeft(step, frame.pathDirectory, value)

-----------------------------------------------------------------------------
\* An operation may have to come to its extraction first.
GraphInit ==
    /\ roots = <<>> /\ stack = <<>> /\ active = <<>> /\ modules = <<>>
    /\ claimed = {} /\ loaded = {} /\ conditional = {} /\ items = 0
    /\ phase \in {"waiting", "extraction"}

Fail(error) == phase' = error /\ UNCHANGED walk

\* RustExtraction::from_roots: roots are read before files, both before ids.
Extract ==
    LET crates == extraction.crates
        ids == {crates[k].id : k \in DOMAIN crates}
        rustRoot(c) == IsRust(c.root)
    IN
    /\ phase = "extraction"
    /\ CASE ~ \A k \in DOMAIN crates : rustRoot(crates[k]) -> Fail("not_rust")
         [] crates = <<>> -> Fail("no_crate")
         [] ~ \A f \in extraction.files : IsRust(f) -> Fail("not_rust")
         [] Cardinality(ids) < Len(crates) -> Fail("duplicate_crate")
         [] ~ \A k \in DOMAIN crates : crates[k].root \in extraction.files ->
                Fail("unlisted_root")
         [] OTHER ->
                /\ roots' = SortSeq(crates, LAMBDA c, d : NameRank(c.id) < NameRank(d.id))
                /\ phase' = "sources"
                /\ UNCHANGED <<stack, active, modules, claimed, loaded, conditional, items>>
    /\ UNCHANGED <<extraction, catalog, bounds>>

\* A complete graph is built from sources parsed beforehand, a required one loads
\* what it reaches.
ParseSources ==
    /\ phase = "sources"
    /\ IF ~Complete THEN phase' = "roots" /\ UNCHANGED walk
       ELSE IF Cardinality(extraction.files) > bounds.sources THEN Fail("source_count")
       ELSE IF ~(extraction.files \subseteq DOMAIN catalog) THEN Fail("missing")
       ELSE IF \E f \in extraction.files : ~catalog[f].parses THEN Fail("syntax")
       ELSE /\ loaded' = extraction.files /\ phase' = "roots"
            /\ UNCHANGED <<roots, stack, active, modules, claimed, conditional, items>>
    /\ UNCHANGED <<extraction, catalog, bounds>>

\* RustSourceCatalog::load_syntax: what stops the first use of a file.
LoadError(file) ==
    CASE file \in loaded -> "none"
      [] file \notin DOMAIN catalog -> "missing"
      [] Cardinality(loaded) + 1 > bounds.sources -> "source_count"
      [] ~catalog[file].parses -> "syntax"
      [] OTHER -> "none"

Working == phase = "walking"
Top == Last(stack)
CurrentItem == Top.body[Top.next]
Push(frame) == Append([stack EXCEPT ![Len(stack)].next = @ + 1], frame)
Stepped == [stack EXCEPT ![Len(stack)].next = @ + 1]

BeginWalk ==
    /\ phase = "roots" /\ phase' = "walking"
    /\ UNCHANGED <<extraction, catalog, bounds, walk>>

WalkRoot ==
    /\ Working /\ stack = <<>> /\ roots # <<>>
    /\ LET crate == Head(roots)
       IN  IF ~Traverses([crate |-> crate.id, path |-> <<>>])
             THEN roots' = Tail(roots) /\ UNCHANGED <<stack, loaded, phase>>
           ELSE IF LoadError(crate.root) # "none"
             THEN phase' = LoadError(crate.root) /\ UNCHANGED <<roots, stack, loaded>>
           ELSE /\ roots' = Tail(roots)
                /\ stack' = <<RootFrame(crate)>>
                /\ loaded' = loaded \cup {crate.root}
                /\ UNCHANGED phase
    /\ UNCHANGED <<extraction, catalog, bounds, active, modules, claimed, conditional, items>>

\* collect_module up to its items.
Enter ==
    /\ Working /\ stack # <<>> /\ Top.next = 0
    /\ CASE Top.enters /\ Top.file \in ToSet(active) -> Fail("cycle")
         [] Top.id \in DOMAIN modules ->
                Fail(IF Top.id \in conditional THEN "conditional_duplicate" ELSE "duplicate")
         [] OTHER ->
                /\ active' = IF Top.enters THEN Append(active, Top.file) ELSE active
                /\ claimed' = claimed \cup {Top.file}
                /\ stack' = Stepped
                /\ UNCHANGED <<roots, modules, loaded, conditional, items, phase>>
    /\ UNCHANGED <<extraction, catalog, bounds>>

AtItem == Working /\ stack # <<>> /\ Top.next \in 1..Len(Top.body)
Encountered == items + 1 + Len(CurrentItem.members)
Followed == CurrentItem.kind = "mod" /\ Traverses(ChildId(Top.id, CurrentItem.name))

TooManyItems ==
    /\ AtItem /\ Encountered > bounds.items
    /\ Fail("item_count")
    /\ UNCHANGED <<extraction, catalog, bounds>>

PassItem ==
    /\ AtItem /\ Encountered <= bounds.items /\ ~Followed
    /\ items' = Encountered /\ stack' = Stepped
    /\ UNCHANGED <<extraction, catalog, bounds, roots, active, modules, claimed,
                   loaded, conditional, phase>>

Conditions(item) == item.cfg # "none"

AttributeError(frame, item) ==
    CASE item.cfg = "cfg_attr_path" -> "conditional_path"
      [] Len(item.paths) > 1 -> "path"
      [] item.paths # <<>> /\ PathAttributeTarget(frame, item.paths[1]) \in {Escaped, <<>>} ->
             "path"
      [] OTHER -> "none"

Targets(frame, item) ==
    extraction.files \cap
        IF item.paths = <<>> THEN ConventionalTargets(frame, item.name)
                             ELSE {PathAttributeTarget(frame, item.paths[1])}

TargetError(targets) ==
    CASE targets = {} -> "unlisted"
      [] Cardinality(targets) > 1 -> "ambiguous"
      [] OTHER -> LoadError(CHOOSE f \in targets : TRUE)

InlineDirectory(frame, item) ==
    IF item.paths = <<>> THEN Append(frame.moduleDirectory, item.name)
                         ELSE PathAttributeTarget(frame, item.paths[1])

Descend ==
    /\ AtItem /\ Encountered <= bounds.items /\ Followed
    /\ LET conditions == conditional \cup
               (IF Conditions(CurrentItem) THEN {ChildId(Top.id, CurrentItem.name)} ELSE {})
           targets == Targets(Top, CurrentItem)
           file == CHOOSE f \in targets : TRUE
       IN
       CASE Cardinality(conditions) > bounds.diagnostics -> Fail("diagnostic_count")
         [] AttributeError(Top, CurrentItem) # "none" -> Fail(AttributeError(Top, CurrentItem))
         [] ~CurrentItem.inline /\ TargetError(targets) # "none" -> Fail(TargetError(targets))
         [] OTHER ->
                /\ stack' = Push(IF CurrentItem.inline
                             THEN InlineFrame(Top, CurrentItem, InlineDirectory(Top, CurrentItem))
                             ELSE FileFrame(Top, CurrentItem.name, file))
                /\ loaded' = IF CurrentItem.inline THEN loaded ELSE loaded \cup {file}
                /\ conditional' = conditions
                /\ items' = Encountered
                /\ UNCHANGED <<roots, active, modules, claimed, phase>>
    /\ UNCHANGED <<extraction, catalog, bounds>>

Leave ==
    /\ Working /\ stack # <<>> /\ Top.next > Len(Top.body)
    /\ active' = IF Top.enters THEN Front(active) ELSE active
    /\ modules' = [id \in DOMAIN modules \cup {Top.id} |->
                      IF id = Top.id THEN [file |-> Top.file, index |-> Top.index]
                                     ELSE modules[id]]
    /\ stack' = Front(stack)
    /\ UNCHANGED <<extraction, catalog, bounds, roots, claimed, loaded, conditional,
                   items, phase>>

FinishGraph ==
    /\ Working /\ stack = <<>> /\ roots = <<>>
    /\ phase' = IF Complete /\ extraction.files \ claimed # {} THEN "disconnected"
                                                             ELSE "built"
    /\ UNCHANGED <<extraction, catalog, bounds, walk>>

Unfinished == {"extraction", "sources", "roots", "walking"}
\* A checkpoint finds the operation canceled.
CancelGraph ==
    /\ phase \in Unfinished /\ phase' = "canceled"
    /\ UNCHANGED <<extraction, catalog, bounds, walk>>

GraphStep ==
    \/ Extract \/ ParseSources \/ BeginWalk \/ WalkRoot \/ Enter \/ TooManyItems
    \/ PassItem \/ Descend \/ Leave \/ FinishGraph
GraphNext == GraphStep \/ CancelGraph

-----------------------------------------------------------------------------
(* What the graph should be: the mod items unfolded from the roots, each a *)
(* spot with the items that led to it and the files entered on the way.    *)
(* A spot on a file that its chain has already entered is not unfolded.    *)

InScope(id) == Complete \/ \E r \in extraction.required : IsAncestor(id, r)

Spot(frame, site, chain, plain) ==
    [frame |-> frame, site |-> site, plain |-> plain,
     chain |-> IF frame.enters THEN Append(chain, frame.file) ELSE chain]

Cyclic(spot) == ~IsInjective(spot.chain)
ModItems(spot) ==
    {k \in DOMAIN spot.frame.body :
        spot.frame.body[k].kind = "mod" /\ InScope(ChildId(spot.frame.id, spot.frame.body[k].name))}

Usable(file) == file \in DOMAIN catalog /\ catalog[file].parses

Below(spot, k) ==
    LET frame == [spot.frame EXCEPT !.next = k]
        item == frame.body[k]
        place(f) == Spot(f, Append(spot.site, k), spot.chain, spot.plain /\ item.paths = <<>>)
    IN  IF AttributeError(frame, item) # "none" THEN {}
        ELSE IF item.inline
          THEN {place(InlineFrame(frame, item, InlineDirectory(frame, item)))}
        ELSE {place(FileFrame(frame, item.name, f)) :
                  f \in {f \in Targets(frame, item) : Usable(f)}}

BelowAll(spots) ==
    UNION {UNION {Below(s, k) : k \in ModItems(s)} : s \in {s \in spots : ~Cyclic(s)}}

\* Bodies nest inline at most once per file in the instances.
Deepest == 2 * (Cardinality(extraction.files) + 1)
Unfolded ==
    LET crates == {c \in ToSet(extraction.crates) :
                       InScope([crate |-> c.id, path |-> <<>>]) /\ Usable(c.root)}
        first == {Spot(RootFrame(c), <<c.id>>, <<>>, TRUE) : c \in crates}
    IN  FoldLeft(LAMBDA spots, n : spots \cup BelowAll(spots), first, [n \in 1..Deepest |-> n])

ConditionalIds(spots) ==
    UNION {{ChildId(s.frame.id, s.frame.body[k].name) :
                k \in {k \in ModItems(s) : Conditions(s.frame.body[k])}} : s \in spots}
ItemCount(spots) ==
    MapThenFoldSet(+, 0, LAMBDA s : FoldLeft(LAMBDA n, item : n + 1 + Len(item.members), 0, s.frame.body),
                   LAMBDA S : CHOOSE s \in S : TRUE, spots)

Reached(spots) ==
    {s.frame.file : s \in spots} \cup
    {c.root : c \in {c \in ToSet(extraction.crates) :
                        InScope([crate |-> c.id, path |-> <<>>])}} \cup
    UNION {UNION {LET frame == s.frame  item == s.frame.body[k]
                  IN  IF item.inline \/ AttributeError(frame, item) # "none" THEN {}
                      ELSE Targets(frame, item) : k \in ModItems(s)} : s \in spots}

SameId(s, t) == s.site # t.site /\ s.frame.id = t.frame.id

\* Whether an error that ended the walk is there to be found.
IsFault(error, spots) ==
    LET files == IF Complete THEN extraction.files ELSE Reached(spots)
        some(P(_, _)) == \E s \in spots : \E k \in ModItems(s) : P(s.frame, s.frame.body[k])
        fileItem(item) == ~item.inline
    IN
    CASE error = "cycle" -> \E s \in spots : Cyclic(s)
      [] error = "duplicate" -> \E s, t \in spots : SameId(s, t)
      [] error = "conditional_duplicate" ->
            \E s, t \in spots : SameId(s, t) /\ s.frame.id \in ConditionalIds(spots)
      [] error \in {"path", "conditional_path"} ->
            some(LAMBDA frame, item : AttributeError(frame, item) = error)
      [] error = "unlisted" ->
            some(LAMBDA frame, item : fileItem(item) /\ Targets(frame, item) = {})
      [] error = "ambiguous" ->
            some(LAMBDA frame, item : fileItem(item) /\ Cardinality(Targets(frame, item)) = 2)
      [] error = "missing" -> ~(files \subseteq DOMAIN catalog)
      [] error = "syntax" -> \E f \in files \cap DOMAIN catalog : ~catalog[f].parses
      [] error = "source_count" -> Cardinality(files) > bounds.sources
      [] error = "item_count" -> ItemCount(spots) > bounds.items
      [] error = "diagnostic_count" -> Cardinality(ConditionalIds(spots)) > bounds.diagnostics
      [] error = "disconnected" ->
            Complete /\ extraction.files # {s.frame.file : s \in spots}
      [] OTHER -> TRUE

WalkErrors == {"cycle", "duplicate", "conditional_duplicate", "path", "conditional_path",
               "unlisted", "ambiguous", "missing", "syntax", "source_count", "item_count",
               "diagnostic_count", "disconnected"}

\* Conventional files of a module that no path attribute leads to.
Placed(spot) ==
    LET root == CHOOSE c \in ToSet(extraction.crates) : c.id = spot.frame.id.crate
        path == spot.frame.id.path
    IN  path = <<>> \/ spot.frame.file \in {Front(root.root) \o path \o <<"mod.rs">>,
                          Front(root.root) \o Front(path) \o <<RsFile(Last(path))>>}

\* The walk stays inside the allowlist and never enters a file below itself, which
\* is what ends it: at most as many files are under way as are listed, whatever
\* they declare.  (contains_file, the active_files of collect_module)
WalkStaysInside ==
    /\ IsInjective(active)
    /\ phase \notin {"waiting", "extraction"} =>
        /\ ToSet(active) \cup loaded \cup claimed \subseteq extraction.files
        /\ \A id \in DOMAIN modules : modules[id].file \in claimed

\* A graph is built if and only if nothing is wrong with what the required
\* modules need: it then holds every module that the mod items declare, under the
\* file and the place of its declaration, and every item was counted.  An error
\* names something that is wrong.  The walk that builds it stays inside.
\* (RustSourceGraphBuilder::build)
GraphIsExact ==
    /\ WalkStaysInside
    /\ phase \in WalkErrors \cup {"built"} =>
           LET spots == Unfolded
               of(id) == CHOOSE s \in spots : s.frame.id = id
           IN  IF phase # "built" THEN IsFault(phase, spots)
               ELSE /\ \A error \in WalkErrors : ~IsFault(error, spots)
                    /\ modules = [id \in {s.frame.id : s \in spots} |->
                           [file |-> of(id).frame.file, index |-> of(id).frame.index]]
                    /\ \A s \in spots : s.plain /\ s.frame.enters => Placed(s)
                    /\ items = ItemCount(spots)

GraphSpec == GraphInit /\ [][GraphNext]_graph

-----------------------------------------------------------------------------
(***************************************************************************)
(* The symbol table of the signature kit: the owner of an implementation   *)
(* block is resolved through type declarations, imports and child modules  *)
(* (languages/rust/parser/symbol_table.rs).  Each import under way is a    *)
(* frame; an import that is reached while it is under way is a cycle.      *)
(* Suggestions and other evidence of the errors are left out.              *)
(***************************************************************************)

VARIABLES
    types,          \* <<module, name>> -> number of type declarations
    imports,        \* <<module, name>> -> bindings: [leading, segments]
    frames,         \* paths under way: the symbol reached and the segments left
    inUse,          \* active_imports
    answer          \* the owner, or why there is none

resolution == <<types, imports, frames, inUse, answer>>

NoModule == [crate |-> "", path |-> <<>>]
NoKey == <<NoModule, "">>
Module(id) == [kind |-> "module", id |-> id, name |-> ""]
Type(id, name) == [kind |-> "type", id |-> id, name |-> name]
Failure(why) == [kind |-> why, id |-> NoModule, name |-> ""]
NoAnswer == Failure("pending")
Refusals == {"unsupported", "ambiguous_owner", "ambiguous_import", "unresolved", "import_cycle"}

SymbolInit ==
    /\ types = <<>> /\ imports = <<>> /\ frames = <<>> /\ inUse = {} /\ answer = NoAnswer

Keywords == {"crate", "self", "super"}

\* How many of the segments are super, from the k-th on.
Supers(segments, k) ==
    CHOOSE n \in 0..Len(segments) :
        /\ \A i \in k..(k + n - 1) : i <= Len(segments) /\ segments[i] = "super"
        /\ k + n > Len(segments) \/ segments[k + n] # "super"

\* resolve_path up to its first name: where it starts and the names to resolve.
Start(from, path) ==
    LET segments == path.segments
        first == IF segments = <<>> THEN "" ELSE Head(segments)
        skip == IF first \in {"crate", "self"} THEN 1 ELSE 0
        up == IF first \in {"self", "super"} THEN Supers(segments, skip + 1) ELSE 0
        base == IF first = "crate" THEN <<>> ELSE from.path
        rest == SubSeq(segments, skip + up + 1, Len(segments))
    IN  IF path.leading \/ segments = <<>> \/ up > Len(base)
           \/ ToSet(rest) \cap Keywords # {}
          THEN [at |-> Failure("unsupported"), rest |-> <<>>]
          ELSE [at |-> Module([from EXCEPT !.path = SubSeq(base, 1, Len(base) - up)]),
                rest |-> rest]

Resolving == phase = "collecting" /\ frames # <<>>
Current == Last(frames)

Answer(symbol) == answer' = symbol /\ frames' = <<>> /\ inUse' = {}

\* The path of the last frame begins, for the import key.
Open(key, start) ==
    IF start.at.kind \in Refusals THEN Answer(start.at)
    ELSE /\ frames' = Append(frames, [key |-> key, at |-> start.at, rest |-> start.rest])
         /\ inUse' = IF key = NoKey THEN inUse ELSE inUse \cup {key}
         /\ UNCHANGED answer

Reach(k, symbol) == [frames EXCEPT ![k].at = symbol, ![k].rest = Tail(@)]

ResolveName ==
    /\ Resolving /\ Current.rest # <<>>
    /\ LET at == Current.at
           name == Head(Current.rest)
           key == <<at.id, name>>
           reach(symbol) == frames' = Reach(Len(frames), symbol) /\ UNCHANGED <<inUse, answer>>
       IN
       CASE at.kind = "type" -> Answer(Failure("unsupported"))
         [] at.kind = "module" /\ key \in DOMAIN types ->
                IF types[key] = 1 THEN reach(Type(at.id, name))
                                  ELSE Answer(Failure("ambiguous_owner"))
         [] at.kind = "module" /\ key \notin DOMAIN types /\ key \in DOMAIN imports ->
                IF Len(imports[key]) # 1 THEN Answer(Failure("ambiguous_import"))
                ELSE IF key \in inUse THEN Answer(Failure("import_cycle"))
                ELSE Open(key, Start(at.id, imports[key][1]))
         [] OTHER ->
                IF ChildId(at.id, name) \in DOMAIN modules
                  THEN reach(Module(ChildId(at.id, name)))
                  ELSE Answer(Failure("unresolved"))
    /\ UNCHANGED <<types, imports, graph>>

StillUsed(key) == inUse

\* The path of an import is resolved: the import is no longer in use.
Released(key) == inUse \ {key}

Return ==
    /\ Resolving /\ Current.rest = <<>>
    /\ LET at == Current.at
       IN  IF Len(frames) = 1
             THEN Answer(IF at.kind = "type" THEN at ELSE Failure("unsupported"))
           ELSE /\ frames' = [Front(frames) EXCEPT ![Len(frames) - 1].at = at,
                                                   ![Len(frames) - 1].rest = Tail(@)]
                /\ inUse' = Released(Current.key)
                /\ UNCHANGED answer
    /\ UNCHANGED <<types, imports, graph>>

SymbolStep == ResolveName \/ Return

-----------------------------------------------------------------------------
(* What a path means, without a search: the meaning of every name, in      *)
(* terms of meanings in which one import less is followed.  What takes     *)
(* more imports than there are is cyclic.                                  *)

Through(start, meaning) ==
    FoldLeft(LAMBDA symbol, name :
                CASE symbol.kind = "module" -> meaning[<<symbol.id, name>>]
                  [] symbol.kind = "type" -> Failure("unsupported")
                  [] OTHER -> symbol,
             start.at, start.rest)

Named(names) == (DOMAIN modules) \X names

Refined(names, meanings) ==
    [key \in Named(names) |->
        CASE key \in DOMAIN types ->
                IF types[key] = 1 THEN Type(key[1], key[2]) ELSE Failure("ambiguous_owner")
          [] key \notin DOMAIN types /\ key \in DOMAIN imports ->
                IF Len(imports[key]) # 1 THEN Failure("ambiguous_import")
                ELSE Through(Start(key[1], imports[key][1]), meanings)
          [] OTHER ->
                IF ChildId(key[1], key[2]) \in DOMAIN modules
                  THEN Module(ChildId(key[1], key[2]))
                  ELSE Failure("unresolved")]

Meanings(names) ==
    FoldLeft(LAMBDA meanings, n : Refined(names, meanings),
             [key \in Named(names) |-> Failure("import_cycle")],
             [n \in 1..(Cardinality(DOMAIN imports) + 1) |-> n])

Meaning(from, path, meanings) ==
    LET symbol == Through(Start(from, path), meanings)
    IN  IF symbol.kind = "module" THEN Failure("unsupported") ELSE symbol
=============================================================================

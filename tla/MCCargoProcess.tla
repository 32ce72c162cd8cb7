--------------------------- MODULE MCCargoProcess ---------------------------
(* Small instances of CargoProcess, CompilerExtraction and RustdocDeclarations *)
(* for TLC.                                                                   *)
EXTENDS CompilerExtraction, RustdocDeclarations, TLC

CONSTANT KitMost    \* the limits of the signature kit

\* What the extractor hands over passes the checks of the signature kit, although
\* the two sides translate spans in opposite directions and by different code: it
\* is refused only if the crate root is not in the catalog or is no text, if a span
\* spells a path that does not end with the catalog's name of the file, or if the
\* kit's own limits are lower.
HandoffIsAccepted ==
    result = "extracted" =>
        LET error == ArtifactError(Artifact, ToSet(Catalog), Text, KitMost)
            root == Crate.root
        IN \/ error \in {"none", "limit"}
           \/ error = "root" /\ root \notin ToSet(Catalog)
           \/ error = "source" /\ ~Utf8(Text[root])
           \/ /\ error = "file"
              /\ \E item \in LocalItems : \E p \in Home(item) : ~EndsWith(item.span.file, Logical(p))

\* An extraction that succeeds is of exactly the sources the command read, the signature
\* kit accepts it, and what it declares of an item is what its source declares.
ExtractionIsUsable == ExtractionIsExact /\ HandoffIsAccepted /\ SurfaceIsExact

\* Nothing has been written by earlier processes.
MCUsed == [s \in Stream |-> 0]
\* stdout stays in its limit or overruns it, by one unit or two; stderr is empty
\* but may stay open.
MCMaxOutput == [s \in Stream |-> IF s = "stdout" THEN 3 ELSE 0]

(* The extraction *)

MCRoot == <<"ws", "src">>
MCDirectory == <<"ws">>
\* Two sources, the first with a wide character at its end, the second no UTF-8.
MCCatalog == <<<<"lib.rs">>, <<"sub", "a.rs">>>>
MCText == [f \in ToSet(MCCatalog) |-> IF f = <<"lib.rs">> THEN <<1, LineFeed, 2>> ELSE <<2, 1, Broken>>]
\* Two sources that the command has not read, and a link to the first.
MCUnlisted == {MCRoot \o <<"new.rs">>, <<"ws", "build.rs">>}
MCLinks == (MCRoot \o <<"alias.rs">>) :> (MCRoot \o <<"lib.rs">>)

Lib == [name |-> "k", kinds |-> {"lib"}, file |-> MCRoot \o <<"lib.rs">>]
Bin == [name |-> "tool", kinds |-> {"bin"}, file |-> MCRoot \o <<"sub", "a.rs">>]
Elsewhere == [name |-> "far", kinds |-> {"lib"}, file |-> <<"ws", "build.rs">>]
New == [name |-> "n", kinds |-> {"lib"}, file |-> MCRoot \o <<"new.rs">>]
Package(id, targets) == [id |-> id, name |-> "kit", features |-> {"f"}, targets |-> targets]
\* One package, a workspace without a root, targets that are ambiguous or outside the
\* source root, and as many targets as two answers may have, or one more.
MCMetadata == {
    [root |-> "p", defaults |-> <<>>, packages |-> <<Package("p", <<Lib, Bin>>)>>],
    [root |-> "", defaults |-> <<"p", "q">>,
     packages |-> <<Package("p", <<Lib, Bin>>), Package("q", <<Bin, Bin, Bin>>)>>],
    [root |-> "p", defaults |-> <<"p">>, packages |-> <<Package("p", <<Elsewhere>>)>>],
    [root |-> "p", defaults |-> <<"p">>, packages |-> <<Package("p", <<New>>)>>]}

LibRoot == [id |-> "k", root |-> <<"lib.rs">>, kind |-> "library"]
BinRoot == [id |-> "tool", root |-> <<"sub", "a.rs">>, kind |-> "binary"]
Context(cfg) == [version |-> "v", features |-> {"f"}, cfg |-> cfg, triple |-> "linux",
                 format |-> SupportedFormat, package |-> "kit", target |-> "k"]
Contracts(crates, cfg) == [kind |-> "compiler", crates |-> crates, context |-> Context(cfg)]
Ask(layout, fresh, explicit) ==
    [extractor |-> "compiler", use |-> "generation", fresh |-> fresh, layout |-> layout,
     explicit |-> explicit, package |-> "p", target |-> Library, triple |-> "", reads |-> 2]
\* Every combination of a request and a layout; those that extract differ in what
\* they select and expect.
MCCall ==
    [extractor : {"syntax", "compiler"}, use : {"check", "generation"}, fresh : {FALSE},
     layout : {NoLayout, [kind |-> "syntax"]}, explicit : {<<>>, <<LibRoot>>},
     package : {""}, target : {Automatic}, triple : {""}, reads : {2}]
    \cup {Ask(NoLayout, TRUE, <<LibRoot, BinRoot>>),
          [Ask(NoLayout, TRUE, <<>>) EXCEPT !.package = "", !.target = Automatic],
          [Ask(NoLayout, TRUE, <<BinRoot>>) EXCEPT !.target = "tool", !.triple = "linux"],
          [Ask(NoLayout, TRUE, <<LibRoot>>) EXCEPT !.target = "tool"],
          [Ask(NoLayout, TRUE, <<LibRoot>>) EXCEPT !.reads = 3],
          Ask(Contracts(<<LibRoot>>, {"doc", "docs", "linux"}), FALSE, <<>>)}

MCRecords == {[size |-> 1, accepted |-> TRUE, cfg |-> {"docs"}],
              [size |-> 1, accepted |-> FALSE, cfg |-> {}],
              [size |-> 2, accepted |-> TRUE, cfg |-> {}]}
MCVersions == {"v"}

In(file, begin, end) == [file |-> file, begin |-> begin, end |-> end]
Spans == {
    NoSpan,
    In(<<"src", "lib.rs">>, <<1, 1>>, <<1, 2>>),            \* to the line feed
    In(<<"/">> \o MCRoot \o <<"lib.rs">>, <<2, 1>>, <<2, 1>>),  \* the wide character
    In(<<"src", "lib.rs">>, <<1, 2>>, <<1, 1>>),            \* backwards
    In(<<"src", "sub", "a.rs">>, <<1, 1>>, <<1, 2>>),       \* not UTF-8
    In(<<"src", "alias.rs">>, <<1, 1>>, <<1, 1>>),          \* through a link
    In(<<"build.rs">>, <<1, 1>>, <<1, 1>>)}                 \* not in the catalog
Item(id, local, span) == [id |-> id, local |-> local, span |-> span]
Document(items) ==
    [copies |-> 1, valid |-> TRUE, size |-> 1, private |-> FALSE, root |-> 1, triple |-> "linux",
     format |-> SupportedFormat, items |-> items, paths |-> 1]
Pairs == {Document(<<Item(1, TRUE, a), Item(2, TRUE, b)>>) : a, b \in Spans}
Full == Document(<<Item(1, TRUE, NoSpan), Item(2, FALSE, NoSpan), Item(3, TRUE, NoSpan)>>)
\* Two local items that reach the limit, with an item of another crate between them;
\* one more; and documents that are refused on other grounds.
MCDocuments ==
    Pairs \cup {Full,
      [Full EXCEPT !.items = @ \o <<Item(4, TRUE, In(<<"src", "lib.rs">>, <<9, 1>>, <<9, 1>>))>>],
      [Full EXCEPT !.items = <<Item(0, TRUE, NoSpan)>> \o @],
      [Full EXCEPT !.copies = 2], [Full EXCEPT !.valid = FALSE], [Full EXCEPT !.size = 2],
      [Full EXCEPT !.private = TRUE], [Full EXCEPT !.triple = "mac"],
      [Full EXCEPT !.private = TRUE, !.triple = "mac"]}
MCMost == [packages |-> 3, targets |-> 6, bytes |-> 2, items |-> 4, mappings |-> 2, capture |-> 1,
           reads |-> 4]
MCKitMost == [bytes |-> 1, sources |-> 2, nodes |-> 6, file |-> 4]

(* Source items and what rustdoc may make of them *)

PublicSource(kind) == [Blank EXCEPT !.kind = kind, !.visibility = <<"pub">>]
TypedSource(kind) == [PublicSource(kind) EXCEPT !.type = "T"]
Reach(m) == {<<"pub">>, <<"crate">>, <<"self">>, <<>>} \cup (IF Len(m) = 1 THEN {} ELSE {<<"super">>, <<"crate", "a">>})
Places == {<<"k">>, <<"k", "a">>, <<"k", "a", "b">>}
Marks == {
    <<>>, <<Word("must_use"), Listed("derive", <<Word("Clone")>>)>>, <<Valued("must_use", "m"), Word("must_use")>>,
    <<Listed("deprecated", <<Valued("note", "n"), Valued("since", "1")>>), Word("non_exhaustive")>>,
    <<Word("deprecated")>>, <<Listed("repr", <<Listed("align", <<Word("16")>>), Word("C")>>)>>,
    <<Listed("repr", <<Word("u8"), Listed("packed", <<Word("1")>>)>>)>>, <<Listed("repr", <<Word("Rust")>>)>>,
    <<Valued("export_name", "e"), Valued("link_section", "s")>>, <<Word("no_mangle"), Listed("cfg", <<Word("unix")>>)>>,
    <<Listed("target_feature", <<Valued("enable", "a"), Valued("enable", "b")>>)>>,
    <<Listed("custom", <<Word("a")>>)>>, <<Listed("custom", <<>>)>>}
SomeMarks == {<<>>, <<Word("deprecated"), Word("must_use")>>, <<Listed("custom", <<Word("a")>>)>>}
SourceField(name, v, marks) == Field(name, v, "T", marks)
Takes == {<<>>, Receiver("value", TRUE, Absent), Receiver("reference", FALSE, Absent), Receiver("reference", TRUE, "'a"), Receiver("typed", FALSE, "Rc")}
Functions ==
    {[PublicSource("function") EXCEPT !.flags = f, !.abi = abi, !.parameters = p, !.variadic = v, !.type = r] :
        f \in {{}, {"const"}, {"async", "unsafe"}}, abi \in {NoAbi, Unnamed, "C-unwind", "system"},
        p \in {<<>>, <<Parameter("p", "T", <<Word("custom")>>), Parameter(Absent, "U", <<>>)>>},
        v \in {<<>>, <<Variadic("rest", <<>>)>>}, r \in {Absent, "R"}}
SourceMembers(v) ==
    {[PublicSource("method") EXCEPT !.visibility = v, !.receiver = r, !.parameters = p, !.flags = f, !.attributes = a] :
        r \in Takes, p \in {<<>>, <<Parameter("p", "T", <<>>)>>}, f \in {{}, {"default_body"}}, a \in SomeMarks}
    \cup {[TypedSource("associated_constant") EXCEPT !.visibility = v, !.value = e] : e \in {Absent, "1"}}
    \cup {[TypedSource("associated_type") EXCEPT !.visibility = v, !.generics = <<Generic("G", <<Word("custom")>>)>>, !.where = <<"W">>]}
Containers(kind, marked) ==
    {[PublicSource(kind) EXCEPT !.items = <<m>>, !.flags = f, !.attributes = a] :
        m \in SourceMembers(IF kind = "trait" THEN <<>> ELSE <<"pub">>), f \in {{}, {"unsafe"}}, a \in marked}
Structures(m) ==
    {[PublicSource(kind) EXCEPT !.fields = <<SourceField(n, v, a), SourceField(n, w, <<>>)>>, !.attributes = a] :
        kind \in {"struct", "union"}, n \in {"y", Absent}, v \in Reach(m), w \in {<<"pub">>, <<"crate">>}, a \in SomeMarks}
Enumerations ==
    {[PublicSource("enum") EXCEPT !.variants = <<Variant("y", fields, d, a), Variant("z", <<>>, Absent, <<>>)>>] :
        fields \in {<<>>, <<SourceField("y", Private, <<>>)>>, <<SourceField(Absent, Private, <<>>), SourceField(Absent, Private, <<Word("custom")>>)>>},
        d \in {Absent, "1"}, a \in SomeMarks}
InherentBlocks(m) ==
    {[PublicSource("impl") EXCEPT !.items = <<[x EXCEPT !.visibility = v], [x EXCEPT !.name = "y"]>>] :
        x \in SourceMembers(<<"pub">>), v \in Reach(m)}
    \cup {[PublicSource("impl") EXCEPT !.items = <<x>>] : x \in SourceMembers(<<"crate">>)}
TraitBlocks == {[b EXCEPT !.path = <<"Tr">>, !.flags = f] : b \in Containers("impl", {<<>>}), f \in {{}, {"negative"}}}
OtherSources ==
    {[PublicSource("use") EXCEPT !.path = p, !.alias = a] : p \in {<<"a">>, <<"a", "b">>}, a \in {Absent, "c", "b"}}
    \cup {[PublicSource("extern_crate") EXCEPT !.name = "y", !.alias = a] : a \in {Absent, "c"}}
    \cup {[PublicSource("module") EXCEPT !.flags = f, !.attributes = a] :
            f \in {{}, {"inline"}, {"unsafe"}}, a \in {<<>>, <<Valued("path", "p"), Word("custom")>>, <<Word("path")>>}}
    \cup {[PublicSource("macro") EXCEPT !.tokens = "t"]}
    \cup {[TypedSource("static") EXCEPT !.flags = f] : f \in {{}, {"mutable"}}}
    \cup {[TypedSource("constant") EXCEPT !.value = "1"], [TypedSource("type_alias") EXCEPT !.generics = <<Generic("G", <<>>)>>, !.where = <<"W">>],
          [PublicSource("trait_alias") EXCEPT !.bounds = <<"B">>]}
    \cup {[PublicSource("static") EXCEPT !.attributes = a, !.type = "T"] : a \in Marks}

\* Documents as rustdoc may write them of no source here, item by item.
Restrictions == {SeenIn(p, of, words) : p \in {<<>>, <<"lib">>, <<"lib", "a">>, <<"lib", "c">>}, of \in {"module", "function", "external", "none"}, words \in {"crate", "in", ""}}
Viewed(kind, v) == [RustdocItem EXCEPT !.kind = kind, !.visibility = v, !.type = "T"]
Withheld(kind) ==
    {{}, {"stability"}} \cup (IF kind \in {"struct", "union", "enum", "variant"} THEN {{"stripped"}} ELSE {})
    \cup (IF kind \in {"function", "associated_type"} THEN {{"default_unstable"}} ELSE {})
WithParts(kind, p, f) == [RustdocItem EXCEPT !.kind = kind, !.parts = <<p>>, !.flags = f]
Malformed ==
    {WithParts(kind, Viewed("field", v), {}) : kind \in {"struct", "union"}, v \in Restrictions}
    \cup {WithParts("impl", Viewed("function", SeenBy(tag)), f) :
            tag \in {"public", "default"}, f \in {{}, {"synthetic"}, {"foreign"}, {"blanket"}, {"negative"}}}
    \cup UNION {{WithParts(kind, [Viewed(part, SeenBy("default")) EXCEPT !.flags = g], f) : f \in Withheld(kind), g \in Withheld(part)} :
            kind \in {"struct", "union", "enum", "trait"}, part \in {"field", "variant", "function", "associated_type"}}
    \cup {WithParts("enum", WithParts("variant", Viewed(part, SeenBy("default")), f), {}) : part \in {"field", "function"}, f \in {{}, {"stripped"}, {"braces"}}}
    \cup UNION {{[RustdocItem EXCEPT !.kind = kind, !.flags = f] : f \in Withheld(kind) \cup {{"unsafe"}}} :
            kind \in {"function", "static", "proc_macro", "extern_type", "primitive"}}
    \cup {[RustdocItem EXCEPT !.kind = "function", !.attributes = <<Attribute("automatically_derived", <<>>, <<>>, <<>>)>>]}
    \cup {[RustdocItem EXCEPT !.kind = "module", !.source = s, !.attributes = a] :
            s \in {<<>>, <<PublicSource("module")>>, <<[PublicSource("module") EXCEPT !.name = "y"]>>, <<[PublicSource("module") EXCEPT !.visibility = <<>>]>>},
            a \in {<<>>, <<Attribute("other", <<>>, <<Word("path")>>, <<>>)>>}}
SurfaceInit ==
    \/ \E m \in Places, spelled, private \in BOOLEAN : \E x \in Structures(m) : surface = SurfaceOf(x, m, spelled, private)
    \/ \E m \in Places : \E x \in InherentBlocks(m) : surface = SurfaceOf(x, m, TRUE, TRUE)
    \/ \E x \in Functions \cup Enumerations \cup Containers("trait", SomeMarks) \cup TraitBlocks \cup OtherSources :
          surface = SurfaceOf(x, <<"k">>, FALSE, FALSE)
    \/ \E d \in Malformed, m \in Places : surface = Surface(d, m)

-----------------------------------------------------------------------------
\* A behaviour is that of one process, of one extraction, whose processes keep the
\* promise of the others, or of one item.
everything == <<vars, extraction, surface>>
NoCall == NoLayout
Settled == step = "over" /\ call = NoCall /\ Unbegun /\ counted = <<>>
ProcessInit == Init /\ Settled /\ surface = NoSurface
ProcessNext == call = NoCall /\ surface = NoSurface /\ Next /\ UNCHANGED <<extraction, surface>>
CompilerInit == pc = "done" /\ tree = FALSE /\ Prepared /\ ExtractionInit /\ surface = NoSurface
CompilerNext ==
    /\ call # NoCall /\ UNCHANGED surface
    /\ \/ ExtractionNext /\ UNCHANGED vars
       \/ step # "over" /\ (Cancel \/ Deadline) /\ UNCHANGED extraction
       \/ step = "over" /\ UNCHANGED <<vars, extraction>>
LoweringInit == pc = "done" /\ tree = FALSE /\ Prepared /\ Settled /\ SurfaceInit
LoweringNext ==
    /\ call = NoCall /\ pc = "done" /\ UNCHANGED <<vars, extraction>>
    /\ LowerStep \/ (surface.stage # "item" /\ UNCHANGED surface)

MCSpec ==
    /\ ProcessInit \/ CompilerInit \/ LoweringInit
    /\ [][ProcessNext \/ CompilerNext \/ LoweringNext]_everything
    /\ WF_vars(Main) /\ \A s \in Stream : WF_vars(Reader(s))
    /\ WF_vars(call = NoCall /\ Deadline)
    /\ WF_vars(CleanupDeadline) /\ WF_vars(Die)
=============================================================================

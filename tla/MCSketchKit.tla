----------------------------- MODULE MCSketchKit -----------------------------
(* Small instances of the sketch kit for TLC. *)
EXTENDS SketchCheck, SketchRefresh, SketchDiff, ResourceBudgets, ScalarEditor

Signature(label, file, sketch) ==
    [label |-> label, file |-> file, sketch |-> sketch, type |-> "function"]
Sketch(id, file, label, type, occurrence, code) ==
    [id |-> id, file |-> file, signature |-> label, type |-> type,
     occurrence |-> occurrence, code |-> code]
Document(root, files, signatures, sketches) ==
    [root |-> root, files |-> files, signatures |-> signatures, sketches |-> sketches]

Ample == [signatures |-> 3, sketches |-> 2, snippetBytes |-> 6, snippetLines |-> 3,
          sourceBytes |-> 8, sourceLines |-> 4, comparisons |-> 40, occurrences |-> 6,
          diagnostics |-> 2, bytes |-> 6, spans |-> 1]

Occurrence == {"at_least_one", "exactly_one"}
A == <<"a">>
One(code) ==
    Document(TRUE, <<1>>, <<Signature("f", 1, 1)>>, <<Sketch(1, 1, "f", "function", "exactly_one", code)>>)

\* Two documents whose entries pair up or fail to, in every way.
Signatures == {<<Signature(l, f, k)>> : l \in {"f", "g"}, f \in {1, 2}, k \in 0..2}
              \cup {<<Signature("f", 1, k), Signature(l, 1, 2)>> : l \in {"f", "g"}, k \in 0..2}
Sketches == {<<>>} \cup {<<Sketch(k, f, l, t, "exactly_one", A)>> :
                 k \in {1, 2}, f \in {1, 2}, l \in {"f", "g"}, t \in {"function", "struct"}}
Second == {Document(TRUE, <<1>>, g, k) :
              g \in {<<>>, <<Signature("f", 1, 1)>>, <<Signature("f", 1, 2)>>},
              k \in {<<>>} \cup {<<Sketch(i, 1, "f", "function", "exactly_one", A)>> : i \in {1, 2}}}
Pairings ==
    /\ sources = (1 :> A)
    /\ limits = Ample
    /\ \/ \E g \in Signatures, k \in Sketches, d \in Second :
             documents = <<Document(TRUE, <<1>>, g, k), d>>
       \/ \E root \in BOOLEAN, files \in {<<1>>, <<2, 1>>, <<1, 1>>, <<2>>},
             code \in {A, <<"LF">>, <<"CR", "LF">>, <<>>, <<"a", "LF", "a", "LF", "a", "LF", "a">>} :
             documents = <<[One(code) EXCEPT !.root = root, !.files = files], One(A)>>

Two(f1, f2, o1, o2, c1, c2) ==
    << Document(TRUE, <<1, 2>>, <<Signature("f", f1, 1), Signature("g", f2, 2)>>,
          <<Sketch(2, f2, "g", "function", o2, c2), Sketch(1, f1, "f", "function", o1, c1)>>) >>

Snippets == {A, <<"a", "LF", "a">>, <<"a", "CR", "LF", "b", "LF">>, <<"LF", "LF">>, <<"a", "CR">>}
Texts == {<<>>, <<"CR", "LF">>, <<"b">>, <<"a", "CR">>, <<"a", "CR", "LF">>,
          <<"b", "LF", "LF">>, <<"b", "LF", "b", "LF", "a">>,
          <<"a", "LF", "a", "CR", "LF", "a", "LF">>, <<"a", "LF", "b", "LF", "a", "LF", "b">>}

\* Every snippet against every text, alone or after another one.
Matchings ==
    /\ limits = Ample
    /\ \E c1, c2 \in Snippets, o1, o2 \in Occurrence, f1, f2 \in {1, 2}, t \in Texts :
          /\ documents = Two(f1, f2, o1, o2, c1, c2)
          /\ sources \in {(1 :> t), (1 :> t) @@ (2 :> <<"a", "LF", "a">>)}

\* One budget is tight.
Tight ==
    LET only(k) == {[Ample EXCEPT ![k] = n] : n \in 0..6}
    IN  /\ limits \in UNION {only(k) : k \in {"signatures", "sketches", "snippetBytes",
              "snippetLines", "sourceBytes", "sourceLines", "comparisons",
              "occurrences", "diagnostics", "bytes"}}
        /\ \E c1 \in {A, <<"a", "LF", "a">>}, c2 \in {A, <<"a", "CR", "LF", "b", "LF">>},
              f1, f2 \in {1, 2}, o \in Occurrence :
              documents = Two(f1, f2, "exactly_one", o, c1, c2)
        /\ \E t \in {<<"b">>, <<"a", "LF", "a", "LF", "a">>, <<"b", "LF", "b", "LF", "a">>,
                 <<"b", "LF", "a", "LF", "a">>} :
              sources = (1 :> t)

Checks ==
    /\ request = "check" /\ (Pairings \/ Matchings \/ Tight)
    /\ fileOf = <<>> /\ written = {} /\ seeds = <<>>

\* Three sketches in three documents of two files, refreshed by up to two seeds,
\* one of which may be wrong in its place, file, type or code.
Seed(id, locator, code) ==
    [id |-> id, locator |-> locator, file |-> 1, type |-> "function", code |-> code]
Holding(k) ==
    Document(TRUE, <<1, 2>>, <<Signature("f", 1, k)>>,
        <<Sketch(k, 1, "f", "function", "at_least_one", A)>>)
B == <<"b">>
Refreshes ==
    /\ sources = <<>>
    /\ request \in {"FullRefresh", "PartialRefresh"}
    /\ limits \in {Ample, [Ample EXCEPT !.sketches = 1], [Ample EXCEPT !.sketches = 3]}
    /\ documents \in {<<Holding(2), Holding(1)>>, <<Holding(2), Holding(1), Holding(3)>>}
    /\ fileOf = [d \in DOMAIN documents |-> IF d = 1 THEN 1 ELSE 2]
    /\ written \in {{}, {<<1, 1>>}, {<<2, 1>>}}
    /\ \E c1, c2 \in {A, B, <<"LF">>, <<"a", "LF", "a", "LF", "a", "LF", "a">>}, l \in {1, 2},
          wrong \in {"none", "file", "type"} :
          LET first == CASE wrong = "none" -> Seed(1, 2, c1)
                         [] wrong = "file" -> [Seed(1, 2, c1) EXCEPT !.file = 2]
                         [] OTHER -> [Seed(1, 2, c1) EXCEPT !.type = "struct"]
          IN  seeds \in {<<>>, <<first>>, <<Seed(2, l, c2)>>, <<first, Seed(2, l, c2)>>,
                         <<first, first>>, <<first, Seed(4, 1, c2)>>,
                         <<Seed(3, 3, c2), Seed(2, 1, c1), first>>}

NoDiff == current = <<>> /\ previous = <<>> /\ merged = TRUE

\* Catalogs of up to two contracts, which differ in every field.
Catalogs ==
    LET c(k) == {Sketch(k, f, l, t, o, code) @@ [locator |-> f] :
                    f \in {1, 2}, l \in {"f", "g"}, t \in {"function", "struct"},
                    o \in Occurrence, code \in {A, <<"a", "LF">>, <<"CR">>}}
        plain(k) == Sketch(k, 1, "f", "function", "exactly_one", A) @@ [locator |-> 2]
    IN  {<<>>} \cup {<<d>> : d \in c(1) \cup c(2)} \cup {<<plain(1), d>> : d \in c(2) \cup c(3)}
        \cup {<<plain(1), plain(2), plain(3)>>}
Diffs ==
    /\ current \in Catalogs /\ previous \in Catalogs /\ merged = FALSE
    /\ request = "diff" /\ documents = <<>> /\ sources = <<>> /\ limits = Ample
    /\ fileOf = <<>> /\ written = {} /\ seeds = <<>>

\* The budgets of both kits. A limit of n is met, and passed by one.
Around(r, low, high) == {[x \in {r} |-> n] : n \in low..high}
Lists(S, n) == UNION {[1..k -> S] : k \in 0..n}
Wide(tight, rest) == tight @@ rest

InputCatalogs ==
    /\ meter = "catalogs" /\ charges \in Lists(Lists(1..2, 2), 2)
    /\ ceilings \in {Wide(t, [entries |-> 4, file |-> 2, total |-> 8]) :
            t \in Around("entries", 0, 3) \cup Around("file", 0, 2) \cup Around("total", 0, 5)}
ItemCounts ==
    /\ meter = "items"
    /\ charges \in Lists([of : {"items", "signatures", "sources"}, amount : 0..2], 3)
    /\ ceilings \in {[items |-> n, signatures |-> m, sources |-> 1] : n, m \in 1..3}

E(kind, bytes, node) == [kind |-> kind, bytes |-> bytes, node |-> node, through |-> 0]
Begin == E("begin", 0, 0)
Finish == E("finish", 0, 0)
Text == E("scalar", 1, 0)
Opening == E("open", 0, 0)
Closing == E("close", 0, 0)
\* A scalar and its alias; two empty containers; an alias of an anchor that holds
\* an alias; one whose node holds nothing else; a null document; two documents.
Shared == <<Begin, Opening, E("scalar", 2, 0), E("alias", 0, 3), Closing, Finish>>
Empties == <<Begin, Opening, Opening, Closing, E("alias", 0, 3), E("alias", 0, 3), Closing, Finish>>
Layered == <<Begin, Opening, Text, E("open", 1, 0), E("alias", 0, 3), Text, Closing,
             E("alias", 0, 4), E("alias", 0, 4), Closing, Finish>>
Nested == <<Begin, Opening, Opening, Closing, Opening, E("alias", 0, 3), Closing, E("alias", 0, 5), Closing, Finish>>
Streams == {[events |-> e, broken |-> 0] :
                e \in {Shared, Empties, Layered, <<Begin, E("null", 0, 0), Finish>>, <<>>,
                       <<Begin, Text, Finish, Begin, Opening, Text, Closing, Finish>>}}
           \cup {[events |-> Shared, broken |-> 4], [events |-> Nested, broken |-> 0]}
YamlStreams ==
    /\ meter = "yaml" /\ charges \in {<<s>> : s \in Streams} \cup (Streams \X Streams)
    /\ ceilings \in {Wide(t, [documents |-> 4, depth |-> 4, nodes |-> 30, aliases |-> 12, bytes |-> 30]) :
            t \in Around("documents", 0, 3) \cup Around("depth", 0, 3) \cup Around("nodes", 0, 20)
                  \cup Around("aliases", 0, 9) \cup Around("bytes", 0, 12)}

Diagnostics2 == [text : {<<>>, <<"plain">>, <<"escaped", "plain">>, <<"control">>}, excerpt : {0, 2}]
Arrays ==
    /\ meter \in {"array", "evidence"}
    /\ charges \in Lists({t \in Diagnostics2 : kit = "signature" => t.excerpt = 0}, 2)
    /\ ceilings \in {[count |-> c, bytes |-> n] : c \in 0..2, n \in 0..24}
    /\ meter = "evidence" => kit = "signature"
Outputs == meter = "output" /\ charges = <<>> /\ ceilings \in [generated : 0..2, scratch : {2}] \cup [generated : {1}, scratch : 0..3]

NoBudgets == kit = "sketch" /\ meter = "none" /\ ceilings = <<>> /\ charges = <<>>
Budgets ==
    /\ kit \in {"signature", "sketch"}
    /\ InputCatalogs \/ ItemCounts \/ YamlStreams \/ Arrays \/ Outputs
    /\ meter = "items" => kit = "signature"

\* The edit of one file: one code of every presentation, replaced by every value, with
\* what follows it; or two codes in any places, beside the signature kit's entries.
Node(kind) == [kind |-> kind, anchored |-> FALSE]
Direct == <<Node("VALUE"), Node("MAPPING_ENTRY"), Node("SEQUENCE_ENTRY"), Node("DOCUMENT"), Node("VALUE")>>
Code(scalar, value) ==
    [path |-> Direct, node |-> "scalar", column |-> 4, flow |-> FALSE, scalar |-> scalar, document |-> "LF",
     value |-> value, from |-> 2, to |-> 4, comments |-> {}, breaks |-> <<"LF">>, more |-> TRUE]
OldLine == <<<<"a">>>>
NewLines == {<<<<"b">>>>, <<<<"b">>, <<>>>>, <<<<"b">>, <<>>, <<>>>>, <<<<"b">>, <<"a">>>>,
             <<<<"b">>, <<>>, <<"a">>, <<>>>>, <<<<"IND">>>>, <<<<"b", "COMMA">>>>, <<<<"CTL">>>>,
             <<<<"b", "CR">>, <<>>>>, <<<<"CR">>, <<"b">>>>, <<<<>>, <<"b">>>>, <<<<>>, <<>>>>}
SpacedLines == {<<<<"SP", "b">>>>, <<<<"SP", "b">>, <<"a">>>>}
OneInline ==
    \E style \in Inline, tag, flow, spare \in BOOLEAN, value \in NewLines \cup SpacedLines,
       end \in {<<"none", <<>>>>, <<"LF", <<>>>>, <<"LF", <<"LF">>>>, <<"CRLF", <<"CRLF">>>>, <<"CR", <<"CR">>>>} :
       places = << [Code([InlineScalar(style, OldLine) EXCEPT !.tag = tag], value) EXCEPT
                      !.flow = flow, !.column = IF spare THEN 9 ELSE 4,
                      !.document = end[1], !.breaks = end[2], !.more = end[1] # "none"] >>
OneBlock ==
    \E style \in Block, value \in NewLines \cup SpacedLines, column \in {4, 8},
       marks \in {<<>>, <<"-">>, <<"+">>, <<"2", "-">>, <<"+", "4">>, <<"1">>},
       suffix \in {"none", "space", "comment"},
       end \in {<<"LF", <<>>>>, <<"LF", <<"LF">>>>, <<"LF", <<"LF", "LF">>>>, <<"CRLF", <<"CRLF">>>>,
                <<"CR", <<"CR">>>>, <<"CRLF", <<"LF">>>>} :
       /\ style = "folded" => value \notin SpacedLines
       /\ suffix # "none" => end \in {<<"LF", <<>>>>, <<"LF", <<"LF">>>>}
       /\ column = 8 => marks \in {<<>>, <<"1">>}
       /\ LET old == BlockScalar(style, [marks |-> marks, suffix |-> suffix, ending |-> end[1]], <<>>)
              code == [Code([old EXCEPT !.tag = (suffix = "space")], value) EXCEPT
                         !.column = column, !.breaks = end[2]]
          IN  \/ places = <<code>>
              \/ /\ end = <<"LF", <<>>>>
                 /\ \E c \in {0, column - 1, column} :
                       places = << [code EXCEPT !.comments = {[at |-> 3, column |-> c]}] >>
OneCode ==
    /\ sections = <<>> /\ fileSize = 6
    /\ \/ (OneInline \/ OneBlock) /\ codec \in {"right", "wrong"}
       \/ places = <<Code(InlineScalar("plain", OldLine), <<<<"b">>>>)>> /\ codec = "fails"

Span(a, b) == {[from |-> a, to |-> b]}
Apart == [extraction |-> {}, signatures |-> {}, nested |-> {}]
SeveralCodes ==
    /\ fileSize = 5 /\ codec = "right"
    /\ LET plain == Code(InlineScalar("plain", OldLine), <<<<"b">>>>)
           put(a, b) == [plain EXCEPT !.from = a, !.to = b]
       IN  \/ /\ sections \in {<<>>, <<[Apart EXCEPT !.extraction = Span(0, 2)]>>,
                    <<[Apart EXCEPT !.signatures = Span(3, 5)]>>,
                    <<[Apart EXCEPT !.signatures = Span(1, 5), !.nested = Span(2, 4)]>>,
                    <<[Apart EXCEPT !.signatures = Span(2, 4), !.nested = Span(1, 4)]>>,
                    <<[Apart EXCEPT !.extraction = Span(5, 8)]>>,
                    <<Apart, [Apart EXCEPT !.signatures = Span(4, 5)]>>}
             /\ \E a \in 0..4, b \in 0..6, c \in {0, 2, 3}, d \in {2, 4, 5} : places = <<put(a, b), put(c, d)>>
          \/ /\ sections = <<>>
             /\ \E i \in 1..5, k \in Wrappers \cup {"MAPPING"}, n \in {"scalar", "alias", "container"} :
                   places \in {<<put(1, 2), [put(2, 3) EXCEPT !.node = n]>>,
                               <<[plain EXCEPT !.path[i] = [kind |-> k, anchored |-> TRUE]]>>, <<>>}
NoScalars == places = <<>> /\ sections = <<>> /\ fileSize = 0 /\ codec = "right"
Scalars == OneCode \/ SeveralCodes

Unread ==
    /\ at = [document |-> 1, part |-> "document", index |-> 1] /\ labels = {}
    /\ indexed = 0 /\ links = {} /\ declared = {} /\ contracts = <<>>
Init ==
    /\ \/ (Checks \/ Refreshes) /\ NoDiff /\ ResolutionInit /\ NoBudgets /\ NoScalars
       \/ Diffs /\ Unread /\ outcome = "diff" /\ NoBudgets /\ NoScalars
       \/ /\ (Budgets /\ NoScalars) \/ (Scalars /\ NoBudgets)
          /\ NoDiff /\ Unread /\ request = "none" /\ documents = <<>> /\ sources = <<>> /\ limits = Ample
          /\ fileOf = <<>> /\ written = {} /\ seeds = <<>> /\ outcome = "none"
    /\ CheckInit /\ RefreshInit /\ DiffInit /\ BudgetsInit /\ EditInit

Next ==
    \/ ResolutionNext /\ UNCHANGED <<matching, refreshing, diff, budgets, scalarEdit>>
    \/ CheckNext /\ UNCHANGED <<refreshing, diff, budgets, scalarEdit>>
    \/ RefreshNext /\ UNCHANGED <<matching, diff, budgets, scalarEdit>>
    \/ DiffNext /\ UNCHANGED <<resolution, matching, refreshing, outcome, budgets, scalarEdit>>
    \/ BudgetsNext /\ UNCHANGED <<resolution, matching, refreshing, diff, outcome, scalarEdit>>
    \/ /\ outcome = "none" /\ meter = "none" /\ EditNext
       /\ UNCHANGED <<resolution, matching, refreshing, diff, outcome, budgets>>

vars == <<resolution, matching, refreshing, diff, outcome, budgets, scalarEdit>>
Spec == Init /\ [][Next]_vars

\* What generation returns is the catalog it was given with the seeded codes replaced,
\* whatever the editor did, and the editor itself changes a file in no other byte and
\* keeps the presentation of each code if the new one allows it
\* (SketchContractFile::refresh, SketchYamlEditor::apply).
GenerationIsExact == RefreshIsExact /\ EditIsLossless
=============================================================================

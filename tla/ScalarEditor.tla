---------------------------- MODULE ScalarEditor ----------------------------
(***************************************************************************)
(* The lossless edit of one contract file (conkit-sketch/contract/edit.rs  *)
(* and edit/scalar.rs): the codes to change are found in the concrete      *)
(* syntax, their ranges are verified, and each is replaced by a scalar     *)
(* that keeps its presentation if the new value allows it.                 *)
(*                                                                         *)
(* A value is its lines, so <<a, <<>>>> ends with a line break.  The       *)
(* characters: "a" is ordinary, "IND" an indicator that a plain scalar     *)
(* cannot hold, "COMMA" one that it cannot hold in a flow collection,      *)
(* "CTL" a control character.  The YAML libraries are external: a scalar   *)
(* is what they make of its text.                                          *)
(***************************************************************************)
EXTENDS Integers, Sequences, SequencesExt, FiniteSetsExt

VARIABLES
    places,     \* the codes to change, as the syntax tree shows them
    sections,   \* the entries of the file that belong to the signature kit
    fileSize,
    codec,      \* what the semantic serializer does: right, wrong, fails
    edit        \* the progress of the edit

scalarEdit == <<places, sections, fileSize, codec, edit>>

EditInit == edit = [stage |-> "finding", found |-> 0, order |-> <<>>, pieces |-> <<>>,
                    scalars |-> <<>>]

Inline == {"plain", "single", "double"}
Block == {"literal", "folded"}
Digit == ("1" :> 1) @@ ("2" :> 2) @@ ("4" :> 4)
Name(n) == CHOOSE d \in DOMAIN Digit : Digit[d] = n

\* A scalar as text: an inline one shows its value, a block has a header and lines.
NoHeader == [marks |-> <<>>, suffix |-> "none", ending |-> "none"]
InlineScalar(style, value) ==
    [style |-> style, tag |-> FALSE, value |-> value, header |-> NoHeader, lines |-> <<>>]
BlockScalar(style, header, lines) ==
    [style |-> style, tag |-> FALSE, value |-> <<>>, header |-> header, lines |-> lines]

\* inspect_presentation: the indicators of a block header come in either order.
FirstMark(marks, S) == LET where == {i \in DOMAIN marks : marks[i] \in S} IN IF where = {} THEN 0 ELSE Min(where)
Indentation(s) ==
    LET where == FirstMark(s.header.marks, DOMAIN Digit) IN IF where = 0 THEN 0 ELSE Digit[s.header.marks[where]]
Chomping(s) ==
    LET where == FirstMark(s.header.marks, {"+", "-"}) IN IF where = 0 THEN "clip" ELSE s.header.marks[where]
ChompingFirst(s) ==
    LET c == FirstMark(s.header.marks, {"+", "-"})
        i == FirstMark(s.header.marks, DOMAIN Digit) IN c # 0 /\ i # 0 /\ c < i

\* SketchBlockChomping::for_value counts the breaks at the end.
BlankLine(value, j) == value[j] = <<>> \/ (value[j] = <<"CR">> /\ j < Len(value))
TrailingBreaks(value) == Len(value) - Max({1} \cup {j \in DOMAIN value : ~BlankLine(value, j)})
ChompingFor(value) ==
    CASE TrailingBreaks(value) = 0 -> "-" [] TrailingBreaks(value) = 1 -> "clip" [] OTHER -> "+"

\* The document's line ending alone.
DocumentEnding(place) == IF place.document = "none" THEN "LF" ELSE place.document
\* SketchLineEnding::for_target: the scalar's first break, then the document's, then LF.
LineEnding(place) ==
    IF place.scalar.header.ending # "none" THEN place.scalar.header.ending ELSE DocumentEnding(place)
\* convert leaves isolated carriage returns alone.
Convert(ending, to) == IF ending \in {"LF", "CRLF"} THEN to ELSE ending
ConvertedLines(lines, to) == [i \in DOMAIN lines |-> [lines[i] EXCEPT !.ending = Convert(@, to)]]
Converted(s, to) == [s EXCEPT !.header.ending = Convert(@, to), !.lines = ConvertedLines(@, to)]

-----------------------------------------------------------------------------
\* External: what a YAML reader makes of a scalar whose mapping stands at a column
\* and which the given breaks follow; the empty sequence if it cannot be read as one.
Unreadable == <<>>
HoldsAny(text, S) == \E i \in DOMAIN text : text[i] \in S
PlainSafe(text, flow) ==
    /\ text # <<>> /\ text[1] # "SP" /\ Last(text) # "SP"
    /\ ~HoldsAny(text, {"IND", "CTL", "CR"} \cup (IF flow THEN {"COMMA"} ELSE {}))
InlineHolds(style, value, flow) ==
    CASE style = "double" -> TRUE
      [] style = "single" -> Len(value) = 1 /\ ~HoldsAny(value[1], {"CTL", "CR"})
      [] OTHER -> Len(value) = 1 /\ PlainSafe(value[1], flow)

\* Two lines of a folded scalar are one with a space; blank lines between are breaks.
Unfold(lines) ==
    FoldLeft(LAMBDA acc, line :
        IF line = <<>> THEN [acc EXCEPT !.blank = @ + 1]
        ELSE IF acc.out = <<>>
          THEN [out |-> [i \in 1..acc.blank |-> <<>>] \o <<line>>, blank |-> 0]
        ELSE IF acc.blank = 0
          THEN [acc EXCEPT !.out = Front(@) \o << Last(@) \o <<"SP">> \o line >>]
        ELSE [out |-> acc.out \o [i \in 1..(acc.blank - 1) |-> <<>>] \o <<line>>, blank |-> 0],
        [out |-> <<>>, blank |-> 0], lines).out
Spaces(n) == [i \in 1..n |-> "SP"]
Led(text) == Min({i \in DOMAIN text : text[i] # "SP"}) - 1
\* The text of a block ends with its last line that is not blank; the chomping
\* decides how many of the breaks from there on it keeps.
Filled(s) == {i \in DOMAIN s.lines : s.lines[i].text # <<>>}
Whole(s) == IF Filled(s) = {} THEN 0 ELSE Max(Filled(s))
KeptBreaks(s, breaks) ==
    LET whole == Whole(s)
        ended == Cardinality({i \in DOMAIN s.lines : i >= whole /\ s.lines[i].ending # "none"})
                 + Len(breaks) - (IF whole = 0 /\ s.header.ending = "none" /\ breaks # <<>> THEN 1 ELSE 0)
    IN  CASE Chomping(s) = "-" -> 0
          [] Chomping(s) = "+" -> ended
          [] OTHER -> IF whole = 0 \/ ended = 0 THEN 0 ELSE 1
BlockText(s, column, kept) ==
    LET full == Filled(s)
        margin(i) == s.lines[i].indent + Led(s.lines[i].text)
        base == IF Indentation(s) # 0 THEN column + Indentation(s)
                ELSE IF full # {} THEN margin(Min(full)) ELSE column + 1
        whole == Whole(s)
        text(i) == IF i \notin full THEN <<>>
                   ELSE Spaces(margin(i) - base) \o SubSeq(s.lines[i].text, Led(s.lines[i].text) + 1, Len(s.lines[i].text))
        body == [i \in 1..whole |-> text(i)]
        lines == IF s.style = "folded" THEN Unfold(body) ELSE body
    IN  IF \/ base <= column
           \/ \E i \in full : margin(i) < base \/ HoldsAny(s.lines[i].text, {"CTL", "CR"})
          THEN Unreadable
        ELSE IF whole = 0 THEN [i \in 1..(kept + 1) |-> <<>>]
        ELSE lines \o [i \in 1..kept |-> <<>>]
BlockValue(s, column, breaks) == BlockText(s, column, KeptBreaks(s, breaks))
Reads(s, column, flow, breaks) ==
    IF s.style \in Block THEN IF flow THEN Unreadable ELSE BlockValue(s, column, breaks)
    ELSE IF InlineHolds(s.style, s.value, flow) THEN s.value ELSE Unreadable

\* External: the semantic serializer writes a mapping at column 6 and a block two
\* further, with LF; lines that start with a space make it state the indentation.
\* It knows nothing of the flow collection the scalar will stand in.
SourceColumn == 6
FoldedLines(lines) ==
    LET later(i) == lines[i] # <<>> /\ \E j \in 1..(i - 1) : lines[j] # <<>>
    IN  FlattenSeq([i \in DOMAIN lines |-> IF later(i) THEN <<<<>>, lines[i]>> ELSE <<lines[i]>>])
WithoutLastBreak(value) ==
    IF Len(value) > 1 /\ Last(value) = <<>>
      THEN LET f == Front(value) IN
           IF Last(f) # <<>> /\ Last(Last(f)) = "CR" THEN Front(f) \o <<Front(Last(f))>> ELSE f
    ELSE value
AsBlock(style, value) ==
    LET lines == IF style = "folded" THEN FoldedLines(WithoutLastBreak(value))
                 ELSE IF Len(value) > 1 /\ Last(value) = <<>> THEN Front(value) ELSE value
        full == {i \in DOMAIN lines : lines[i] # <<>>}
        spaced == full # {} /\ lines[Min(full)][1] = "SP"
        chomp == ChompingFor(value)
    IN  BlockScalar(style,
          [marks |-> (IF spaced THEN <<"2">> ELSE <<>>) \o (IF chomp = "clip" \/ style = "folded" THEN <<>> ELSE <<chomp>>),
           suffix |-> "none", ending |-> "LF"],
          [i \in DOMAIN lines |-> [indent |-> IF i \in full THEN SourceColumn + 2 ELSE 0,
                                   text |-> lines[i], ending |-> "LF"]])
Written(style, value, flow) ==
    IF style \in Block THEN AsBlock(style, value)
    ELSE IF style # "plain" THEN InlineScalar(style, value)
    ELSE IF Len(value) > 1 /\ ~flow THEN AsBlock("literal", value)
    ELSE InlineScalar(IF Len(value) = 1 /\ PlainSafe(value[1], FALSE) THEN "plain" ELSE "double", value)
\* serialize_codec; a wrong codec loses a line or writes another value.
Encoding(style, place) ==
    IF codec = "wrong" THEN Written(style, <<<<"a">>>> \o Tail(place.value), place.flow)
    ELSE Written(style, place.value, place.flow)

-----------------------------------------------------------------------------
\* render_presented_scalar: the generated scalar in the header, the indentation and
\* the line endings of the original, if both are blocks of one style.
Indented(lines, delta) ==
    [i \in DOMAIN lines |-> [lines[i] EXCEPT !.indent = IF @ = 0 THEN 0 ELSE @ + delta]]
Dedented(s) == \E i \in DOMAIN s.lines : s.lines[i].text # <<>> /\ s.lines[i].indent <= 0
Presented(place, made) ==
    IF made.style \in Inline THEN made
    ELSE LET matching == place.scalar.style = made.style
             preferred == IF matching THEN place.scalar ELSE made
             indentation == IF Indentation(preferred) # 0 THEN Indentation(preferred) ELSE Indentation(made)
             base == IF Indentation(made) = 0 THEN 2 ELSE Indentation(made)
             desired == IF indentation = 0 THEN base ELSE indentation
             ending == IF matching THEN preferred.header.ending ELSE LineEnding(place)
             chomp == IF ChompingFor(place.value) = "clip" THEN <<>> ELSE <<ChompingFor(place.value)>>
             indent == IF indentation = 0 THEN <<>> ELSE <<Name(indentation)>>
         IN  [made EXCEPT
                !.header = [marks |-> IF ChompingFirst(preferred) THEN chomp \o indent ELSE indent \o chomp,
                            suffix |-> preferred.header.suffix, ending |-> ending],
                !.lines = LET moved == Indented(@, desired - base) IN
                          [i \in DOMAIN moved |-> [moved[i] EXCEPT !.ending = ending]]]

\* editable_range: a comment left of the mapping ends a block.
EditableEnd(place) ==
    LET left == {c \in place.comments : c.column + 1 <= place.column} IN
    IF place.scalar.style \in Block /\ left # {}
      THEN Min({place.to, Min({c.at : c \in left})}) ELSE place.to
\* The line breaks that follow the code in the file.
After(place) == IF EditableEnd(place) < place.to THEN <<>> ELSE place.breaks

\* render_rebased_block_scalar, and the line break that the text after the scalar
\* already has.
Rebased(place, s) == [s EXCEPT !.lines = Indented(@, place.column - SourceColumn)]
EndsWithBreak(s) ==
    s.style \in Block /\ (IF s.lines = <<>> THEN s.header.ending ELSE Last(s.lines).ending) # "none"
Trimmed(place, s) ==
    IF ~EndsWithBreak(s) \/ After(place) = <<>> THEN s
    ELSE IF s.lines = <<>> THEN [s EXCEPT !.header.ending = "none"]
    ELSE [s EXCEPT !.lines[Len(s.lines)].ending = "none"]
Candidate(place, s) ==
    Trimmed(place, Rebased(place, [Converted(s, LineEnding(place)) EXCEPT !.tag = place.scalar.tag]))

\* final_candidate_is_exact reads the scalar in a wrapper of its own, with the one
\* line break that follows; flow_scalar_is_closed stands for the flow collection.
Closed(s) == s.style \in {"single", "double"} \/ (s.style = "plain" /\ ~HoldsAny(s.value[1], {"COMMA"}))
Certified(place, s) ==
    LET column == IF place.flow THEN 4 ELSE place.column
        boundary == SubSeq(After(place), 1, Min({1, Len(After(place))}))
        value == Reads(s, column, FALSE, boundary)
    IN  ~Dedented(s) /\ (place.flow => Closed(s)) /\ value = place.value

Preferred(place) == Candidate(place, Presented(place, Encoding(place.scalar.style, place)))
Fallback(place) == Candidate(place, Encoding("double", place))
SingleQuotedControl(place) ==
    place.scalar.style = "single" /\ (Len(place.value) > 1 \/ HoldsAny(place.value[1], {"CTL", "CR"}))

-----------------------------------------------------------------------------
RefuseEdit(reason) == edit' = [edit EXCEPT !.stage = reason]
NextPlace == places[edit.found + 1]

\* SketchYamlEditor::targets: each code is found before any is replaced.  An anchor on
\* the way to it, or an alias in its place, shares it with other values.
Wrappers == {"VALUE", "SEQUENCE_ENTRY", "TAGGED_NODE", "DOCUMENT"}
PathHasAnchor(path) ==
    LET top == {i \in DOMAIN path : path[i].kind = "DOCUMENT"} IN
    \E i \in DOMAIN path : /\ (\A j \in top : i <= j)
                           /\ path[i].kind \in Wrappers /\ path[i].anchored
FindCode ==
    /\ edit.stage = "finding" /\ edit.found < Len(places)
    /\ IF PathHasAnchor(NextPlace.path) THEN RefuseEdit("anchored")
       ELSE IF NextPlace.node = "alias" THEN RefuseEdit("aliased")
       ELSE IF NextPlace.node # "scalar" THEN RefuseEdit("unsupported")
       ELSE edit' = [edit EXCEPT !.found = @ + 1]
    /\ UNCHANGED <<places, sections, fileSize, codec>>

\* VerifiedEditSet::new: the ranges in the order of the file, apart from each other
\* and from the entries extraction and signatures, except for the sequence of
\* sketches that the syntax tree may show inside the latter.
Precedes(i, j) == places[i].from < places[j].from \/ (places[i].from = places[j].from /\ i < j)
SortedPlaces ==
    CHOOSE order \in [DOMAIN places -> DOMAIN places] :
        \A i, j \in DOMAIN places : i < j => Precedes(order[i], order[j])
Ranges(order) == [i \in DOMAIN order |-> [from |-> places[order[i]].from, to |-> EditableEnd(places[order[i]])]]
Valid(ranges) ==
    \A i \in DOMAIN ranges :
        /\ ranges[i].from >= (IF i = 1 THEN 0 ELSE ranges[i - 1].to)
        /\ ranges[i].from < ranges[i].to /\ ranges[i].to <= fileSize
Outside(nested, entry) == \E n \in nested : n.from < entry.from \/ n.to > entry.to
Parts(section) ==
    LET around(e, n) == (IF e.from < n.from THEN {[from |-> e.from, to |-> n.from]} ELSE {})
                        \cup (IF n.to < e.to THEN {[from |-> n.to, to |-> e.to]} ELSE {})
    IN  section.extraction
        \cup (IF section.nested = {} THEN section.signatures
              ELSE UNION {around(e, n) : e \in section.signatures, n \in section.nested})
Touches(ranges, part) ==
    LET later == {i \in DOMAIN ranges : ranges[i].to > part.from} IN
    later # {} /\ ranges[Min(later)].from < part.to
Protected(ranges, section) ==
    /\ \A e \in section.signatures : ~Outside(section.nested, e)
    /\ \A part \in Parts(section) :
          part.from < part.to /\ part.to <= fileSize /\ ~Touches(ranges, part)
Verify ==
    /\ edit.stage = "finding" /\ edit.found = Len(places)
    /\ LET order == SortedPlaces
           ranges == Ranges(order)
       IN  IF places = <<>> \/ ~Valid(ranges) \/ \E i \in DOMAIN sections : ~Protected(ranges, sections[i])
             THEN RefuseEdit("unsupported")
           ELSE edit' = [edit EXCEPT !.stage = "rendering", !.order = order]
    /\ UNCHANGED <<places, sections, fileSize, codec>>

\* VerifiedEditSet::render: what lies before the next code, then its replacement.
Cursor == IF edit.scalars = <<>> THEN 0 ELSE EditableEnd(places[edit.order[Len(edit.scalars)]])
Kept(from, to) == [kept |-> TRUE, from |-> from, to |-> to]
Replaced(from, to) == [kept |-> FALSE, from |-> from, to |-> to]
Replace(place, s) ==
    edit' = [edit EXCEPT
        !.pieces = @ \o <<Kept(Cursor, place.from), Replaced(place.from, EditableEnd(place))>>,
        !.scalars = Append(@, s)]

\* render_scalar: the preferred scalar if it proves exact, else the double-quoted one;
\* a header comment has no place there.
RenderNext ==
    /\ edit.stage = "rendering" /\ Len(edit.scalars) < Len(edit.order)
    /\ LET place == places[edit.order[Len(edit.scalars) + 1]]
           preferred == Preferred(place)
           fallback == Fallback(place)
       IN  IF codec = "fails" THEN RefuseEdit("unsupported")
           ELSE IF ~SingleQuotedControl(place) /\ Certified(place, preferred) THEN Replace(place, preferred)
           ELSE IF ~SingleQuotedControl(place) /\ place.scalar.header.suffix = "comment" THEN RefuseEdit("comment")
           ELSE IF Certified(place, fallback) THEN Replace(place, fallback)
           ELSE RefuseEdit("unsupported")
    /\ UNCHANGED <<places, sections, fileSize, codec>>

\* A cancellation or a spent budget is no reason to fall back.
InterruptEdit ==
    /\ edit.stage = "rendering" /\ Len(edit.scalars) < Len(edit.order)
    /\ RefuseEdit("interrupted")
    /\ UNCHANGED <<places, sections, fileSize, codec>>

\* The rest of the file follows; then the whole text is read again.
Glued(place, s) ==
    /\ place.scalar.style \in Block /\ ~EndsWithBreak(s)
    /\ After(place) = <<>> /\ (place.more \/ EditableEnd(place) < place.to)
AtPlace(place, s) ==
    IF Glued(place, s) THEN Unreadable ELSE Reads(s, place.column, place.flow, After(place))
Reparse ==
    /\ edit.stage = "rendering" /\ Len(edit.scalars) = Len(edit.order)
    /\ edit' = [edit EXCEPT
          !.pieces = Append(@, Kept(Cursor, fileSize)),
          !.stage = IF \A k \in DOMAIN edit.order :
                         AtPlace(places[edit.order[k]], edit.scalars[k]) = places[edit.order[k]].value
                      THEN "returned" ELSE "mismatch"]
    /\ UNCHANGED <<places, sections, fileSize, codec>>

EditNext == FindCode \/ Verify \/ RenderNext \/ InterruptEdit \/ Reparse

-----------------------------------------------------------------------------
\* What a reader of the documents expects of the presentation of a replaced code.
OwnStyleHolds(place) ==
    IF place.scalar.style \in Inline THEN InlineHolds(place.scalar.style, place.value, place.flow)
    ELSE /\ \E i \in DOMAIN place.value : place.value[i] # <<>>
         /\ \A i \in DOMAIN place.value : ~HoldsAny(place.value[i], {"CTL", "CR"})
KeepsHeader(s, o) ==
    /\ s.header.suffix = o.header.suffix
    /\ Indentation(o) # 0 => Indentation(s) = Indentation(o)
    /\ (ChompingFirst(o) /\ Chomping(s) # "clip") => ChompingFirst(s)
OneEnding(place, s) ==
    /\ {s.header.ending} \cup {s.lines[i].ending : i \in DOMAIN s.lines} \subseteq {LineEnding(place), "none"}
    /\ EndsWithBreak(s) => After(place) = <<>>
\* The blank lines after a code belong to it if it keeps its breaks.
Ambiguous(place, s) == Glued(place, s) \/ (Chomping(s) = "+" /\ Len(After(place)) > 1)

Bytes(range) == {b \in 0..fileSize : range.from <= b /\ b < range.to}
SignatureBytes(section) ==
    (UNION {Bytes(e) : e \in section.extraction})
    \cup ((UNION {Bytes(e) : e \in section.signatures}) \ (UNION {Bytes(n) : n \in section.nested}))
ReplacedBytes == UNION {Bytes(edit.pieces[i]) : i \in {j \in DOMAIN edit.pieces : ~edit.pieces[j].kept}}

\* The codes can be replaced apart from each other and from the other kit's entries.
Editable ==
    LET codes == [i \in DOMAIN places |-> [from |-> places[i].from, to |-> EditableEnd(places[i])]] IN
    /\ places # <<>>
    /\ \A i \in DOMAIN places :
          /\ places[i].node = "scalar" /\ ~PathHasAnchor(places[i].path)
          /\ Bytes(codes[i]) # {} /\ codes[i].to <= fileSize
          /\ \A j \in DOMAIN places : i # j => Bytes(codes[i]) \cap Bytes(codes[j]) = {}
          /\ \A k \in DOMAIN sections : Bytes(codes[i]) \cap SignatureBytes(sections[k]) = {}
    /\ \A k \in DOMAIN sections :
          /\ \A e \in sections[k].extraction \cup sections[k].signatures : e.to <= fileSize
          /\ \A e \in sections[k].signatures : ~Outside(sections[k].nested, e)

\* The syntax tree: a comment of a code is a token of it alone, an entry has a key
\* and so some text, and a section has at most one sequence of sketches inside.
Ending == {"none", "LF", "CRLF", "CR"}
Header == [marks : Seq(STRING), suffix : {"none", "space", "comment"}, ending : Ending]
Line == [indent : Int, text : Seq(STRING), ending : Ending]
Scalar == [style : Inline \cup Block, tag : BOOLEAN, value : Seq(Seq(STRING)), header : Header,
           lines : Seq(Line)]
CodeNode == [path : Seq([kind : STRING, anchored : BOOLEAN]), node : STRING, column : Nat,
             flow : BOOLEAN, scalar : Scalar, document : Ending, value : Seq(Seq(STRING)),
             from : Nat, to : Nat, comments : SUBSET [at : Nat, column : Nat],
             breaks : Seq(STRING), more : BOOLEAN]
Extent == [from : Nat, to : Nat]
Section == [extraction : SUBSET Extent, signatures : SUBSET Extent, nested : SUBSET Extent]
IsPlace(place) ==
    /\ place \in CodeNode /\ place.value # <<>>
    /\ place.scalar.style \in Inline => place.scalar.header = NoHeader
    /\ \A c \in place.comments : place.from <= c.at /\ c.at < place.to
IsSection(section) ==
    /\ section \in Section
    /\ \A e \in section.extraction \cup section.signatures : e.from < e.to
    /\ \A n, m \in section.nested : n = m /\ n.from <= n.to
EditTyped ==
    /\ places \in Seq(CodeNode) /\ \A i \in DOMAIN places : IsPlace(places[i])
    /\ \A i, j \in DOMAIN places : i # j =>
          \A c \in places[i].comments : ~(places[j].from <= c.at /\ c.at < places[j].to)
    /\ sections \in Seq(Section) /\ \A k \in DOMAIN sections : IsSection(sections[k])
    /\ fileSize \in Nat /\ codec \in {"right", "wrong", "fails"}

\* An edited file is the file it was, byte for byte, outside the codes replaced: no
\* byte of the signature kit's entries and no comment left of a mapping is among them,
\* and nothing is written before every code is found free of anchors and aliases.
BytesAreKept ==
    /\ edit.scalars # <<>> => \A i \in DOMAIN places :
          /\ places[i].node = "scalar"
          /\ \A k \in DOMAIN places[i].path :
                places[i].path[k].anchored /\ places[i].path[k].kind \in Wrappers =>
                    \E j \in 1..(k - 1) : places[i].path[j].kind = "DOCUMENT"
    /\ \A i \in DOMAIN edit.pieces :
          /\ edit.pieces[i].from = IF i = 1 THEN 0 ELSE edit.pieces[i - 1].to
          /\ edit.pieces[i].from <= edit.pieces[i].to
    /\ \A i \in DOMAIN sections : ReplacedBytes \cap SignatureBytes(sections[i]) = {}
    /\ \A i \in DOMAIN places : \A c \in places[i].comments :
          (places[i].scalar.style \in Block /\ c.column < places[i].column) => c.at \notin ReplacedBytes
    /\ edit.stage \in {"returned", "mismatch"} =>
          /\ Last(edit.pieces).to = fileSize
          /\ Cardinality({i \in DOMAIN edit.pieces : ~edit.pieces[i].kept}) = Len(places)
          /\ Len(edit.scalars) = Len(places)

\* A replacement that the wrapper proved exact is exact where it stands; it keeps the
\* tag and the header comment and has the line ending of its place, once at its end.
KeepsPlace(place, s) ==
    /\ s.tag = place.scalar.tag
    /\ place.scalar.header.suffix = "comment" => s.header.suffix = "comment"
    /\ AtPlace(place, s) = place.value \/ Ambiguous(place, s)
    /\ OneEnding(place, s)

\* With a serializer that is right, codes that can be replaced are not refused, but for
\* a header comment without a block to stand on, or because what follows the code would
\* be read with it.
EditIsExact ==
    /\ \A k \in DOMAIN edit.scalars : KeepsPlace(places[edit.order[k]], edit.scalars[k])
    /\ BytesAreKept
    /\ codec = "right" =>
          /\ edit.stage = "unsupported" => edit.order = <<>> /\ ~Editable
          /\ edit.stage = "mismatch" =>
                \E k \in DOMAIN edit.order : Ambiguous(places[edit.order[k]], edit.scalars[k])

\* It then keeps the style and the header, if they can hold the value.
StyleIsKept ==
    codec = "right" =>
        /\ \A k \in DOMAIN edit.scalars :
              LET place == places[edit.order[k]]
                  s == edit.scalars[k]
              IN  OwnStyleHolds(place) =>
                    /\ s.style = place.scalar.style
                    /\ s.style \in Block => KeepsHeader(s, place.scalar)
        /\ edit.stage = "comment" => ~OwnStyleHolds(places[edit.order[Len(edit.scalars) + 1]])

\* One edit is lossless ("One scalar editor owns style inspection, preferred encoding,
\* deterministic safe fallback, tags, line endings, indentation").
EditIsLossless == EditTyped /\ EditIsExact /\ StyleIsKept
=============================================================================

---------------------------- MODULE RustdocArtifact ----------------------------
(***************************************************************************)
(* The signature kit's acceptance of a compiler artifact:                  *)
(* conkit-signature/languages/rust/rustdoc.rs, artifact.rs and             *)
(* provenance.rs.  Nothing the extractor claims is believed: the envelope  *)
(* must agree with the rustdoc document in it, and every byte range with   *)
(* the span that rustdoc has recorded for the item.                        *)
(*                                                                         *)
(* Spans of source text in both directions: from rustdoc's inclusive line  *)
(* and column pairs to byte ranges (conkit/compiler/source.rs) and back    *)
(* (conkit-signature/languages/rust/rustdoc/provenance.rs).  Each side     *)
(* makes one pass over a file and keeps only the endpoints it was asked    *)
(* for.  A text is a sequence of characters, a character its number of     *)
(* bytes; a line feed, of one byte, is 0.  A text with a byte that is no   *)
(* UTF-8 contains Broken.                                                  *)
(***************************************************************************)
EXTENDS Naturals, Sequences, SequencesExt, FiniteSets

LineFeed == 0
Broken == 9
Width(character) == IF character \in {LineFeed, Broken} THEN 1 ELSE character
Utf8(text) == \A i \in DOMAIN text : text[i] # Broken

\* A coordinate is <<line, column>>, both from 1, in characters.
Start == <<1, 1>>
After(at, character) ==
    IF character = LineFeed THEN <<at[1] + 1, 1>> ELSE <<at[1], at[2] + 1>>
Before(a, b) == a[1] < b[1] \/ (a[1] = b[1] /\ a[2] < b[2])
NoCoordinate == <<0, 0>>
\* A span: file (the path as rustdoc spells it, absolute if it begins with "/"),
\* begin and end.
NoSpan == [file |-> <<>>]

-----------------------------------------------------------------------------
(* Coordinates to bytes *)

\* SourceEndpointResolver::resolve: the sorted requests are met with the sorted
\* characters; a request that was passed over stays unanswered.
Resolved(text, requested) ==
    LET wanted == SetToSortSeq(requested, Before)
        Passed(scan) == Cardinality({r \in requested : Before(r, scan.at)})
        Step(scan, character) ==
            LET next == IF Passed(scan) > scan.next THEN Passed(scan) ELSE scan.next
                hit == next < Len(wanted) /\ wanted[next + 1] = scan.at
                end == scan.byte + Width(character)
            IN [at |-> After(scan.at, character), byte |-> end,
                next |-> IF hit THEN next + 1 ELSE next,
                found |-> IF hit
                            THEN Append(scan.found, [at |-> scan.at, start |-> scan.byte, end |-> end])
                            ELSE scan.found]
        last == FoldLeft(Step, [at |-> Start, byte |-> 0, next |-> 0, found |-> <<>>], text)
    IN last.found

\* ResolvedSourceEndpoints::byte_range: the bytes of an inclusive span, none if an
\* endpoint is no character of the file or the end precedes the beginning.
ByteRange(endpoints, span) ==
    LET Of(at) == {e \in ToSet(endpoints) : e.at = at}
    IN {range \in {<<b.start, e.end>> : b \in Of(span.begin), e \in Of(span.end)} : range[1] < range[2]}

-----------------------------------------------------------------------------
(* Bytes to coordinates *)

Length(text) == FoldLeft(LAMBDA n, character : n + Width(character), 0, text)
Boundaries(text) == {Length(SubSeq(text, 1, i)) : i \in 0..Len(text)}

\* CompilerSourceFileIndex::new: of each requested offset on a character boundary,
\* the coordinate there and the one before it.
FileIndex(text, requested) ==
    LET wanted == SetToSortSeq(requested \cap Boundaries(text), LAMBDA a, b : a < b)
        Step(scan, character) ==
            LET hit == scan.next < Len(wanted) /\ wanted[scan.next + 1] = scan.byte
            IN [at |-> After(scan.at, character), byte |-> scan.byte + Width(character),
                next |-> IF hit THEN scan.next + 1 ELSE scan.next, preceding |-> scan.at,
                found |-> IF hit
                            THEN Append(scan.found, [offset |-> scan.byte, at |-> scan.at,
                                                     preceding |-> scan.preceding])
                            ELSE scan.found]
        last == FoldLeft(Step, [at |-> Start, byte |-> 0, next |-> 0,
                                preceding |-> NoCoordinate, found |-> <<>>], text)
    IN IF last.next < Len(wanted) /\ wanted[last.next + 1] = last.byte
         THEN Append(last.found, [offset |-> last.byte, at |-> NoCoordinate,
                                  preceding |-> last.preceding])
         ELSE last.found

\* span_coordinates: where a non-empty byte range begins and inclusively ends.
SpanCoordinates(index, start, end) ==
    LET Of(offset) == {e \in ToSet(index) : e.offset = offset}
    IN {pair \in {<<b.at, e.preceding>> : b \in Of(start), e \in Of(end)} :
          start < end /\ NoCoordinate \notin ToSet(pair)}

-----------------------------------------------------------------------------
(* The artifact *)

\* An artifact: crates ([id, root, kind, item]), context (format, triple),
\* document, mappings.  A document: format, triple, private, root, items, paths,
\* size.  most: the limits bytes, sources, nodes, file.
SupportedFormat == 60
First(set) == CHOOSE x \in set : TRUE

\* extract up to the document, with validate_metadata.
EnvelopeError(artifact, allowed, most) ==
    CASE artifact.document.size > most.bytes \/ Cardinality(allowed) > most.sources -> "limit"
      [] artifact.context.format # SupportedFormat -> "format"
      [] Len(artifact.crates) # 1 -> "metadata"
      [] artifact.crates[1].root \notin allowed -> "root"
      [] OTHER -> "none"

\* validate_document.
DocumentError(artifact, most) ==
    LET document == artifact.document
        crate == artifact.crates[1]
        nodes == Len(document.items) + document.paths + Len(artifact.mappings)
    IN CASE document.format # artifact.context.format -> "format"
         [] document.triple # artifact.context.triple -> "target"
         [] document.private # (crate.kind = "binary") -> "private"
         [] document.root # crate.item -> "root item"
         [] \A item \in ToSet(document.items) : item.id # document.root -> "absent root"
         [] nodes > most.nodes -> "limit"
         [] OTHER -> "none"

\* The spelled path of a span ends with the logical path, component by component.
EndsWith(path, suffix) == IsSuffix(suffix, path)

\* CompilerSourceIndex::file: a file is read once, for all endpoints of the artifact.
RequestedOffsets(artifact, file) ==
    UNION {{m.bytes[1], m.bytes[2]} : m \in {m \in ToSet(artifact.mappings) : m.exact /\ m.file = file}}

\* validate_item_span for an exact range.
RangeError(artifact, mapping, span, texts, most) ==
    CASE ~EndsWith(span.file, mapping.file) -> "file"
      [] mapping.file \notin DOMAIN texts -> "absent"
      [] Length(texts[mapping.file]) > most.file -> "limit"
      [] ~Utf8(texts[mapping.file]) -> "utf8"
      [] SpanCoordinates(FileIndex(texts[mapping.file], RequestedOffsets(artifact, mapping.file)),
                         mapping.bytes[1], mapping.bytes[2]) # {<<span.begin, span.end>>} -> "range"
      [] OTHER -> "none"

\* One mapping of validate_source_map.
MappingError(artifact, n, allowed, texts, most) ==
    LET mapping == artifact.mappings[n]
        items == {i \in ToSet(artifact.document.items) : i.id = mapping.item}
        span == First(items).span
        range == IF items # {} /\ mapping.exact /\ span # NoSpan
                   THEN RangeError(artifact, mapping, span, texts, most) ELSE "none"
    IN CASE items = {} -> "absent"
         [] ~First(items).local -> "external"
         [] mapping.file \notin allowed -> "unlisted"
         [] mapping.exact # (span # NoSpan) -> "span"
         [] range # "none" -> range
         [] ~mapping.exact /\ mapping.file # artifact.crates[1].root -> "generated"
         [] \E m \in 1..(n - 1) : artifact.mappings[m].item = mapping.item -> "duplicate"
         [] OTHER -> "none"

\* parse_sources: the crate root has to be a source that can be read.
RootError(root, texts, most) ==
    CASE root \notin DOMAIN texts -> "missing"
      [] Length(texts[root]) > most.file -> "limit"
      [] ~Utf8(texts[root]) -> "source"
      [] OTHER -> "none"

\* RustCompilerArtifact::extract up to the inventory: what the first check that
\* fails reports.  allowed is the contract's file list, texts the source catalog.
ArtifactError(artifact, allowed, texts, most) ==
    LET envelope == EnvelopeError(artifact, allowed, most)
        document == DocumentError(artifact, most)
        errors == SelectSeq([n \in DOMAIN artifact.mappings |->
                                MappingError(artifact, n, allowed, texts, most)],
                            LAMBDA e : e # "none")
    IN CASE envelope # "none" -> envelope
         [] envelope = "none" /\ document # "none" -> document
         [] envelope = "none" /\ document = "none" /\ errors # <<>> -> errors[1]
         [] OTHER -> RootError(artifact.crates[1].root, texts, most)
=============================================================================

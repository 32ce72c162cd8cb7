--------------------------- MODULE SketchResolution ---------------------------
(***************************************************************************)
(* From parsed contract documents to resolved sketches                     *)
(* (conkit-sketch/contract/resolve.rs).  The documents are read in catalog *)
(* order, the position of a document in the sequence is its locator.       *)
(* Signature entries leave links, sketch entries declarations; then each   *)
(* declaration, in the order of its id, takes the one link that names it.  *)
(* Paths, labels and types are valid tokens: their syntax is not modelled. *)
(*                                                                         *)
(* Before them, the line arithmetic of the kit: normalization of a text    *)
(* (conkit-sketch/normalize.rs, policy ExactLinesV1) and the comparison of *)
(* an expected snippet with a source at one start (matcher.rs).  A byte is *)
(* "LF", "CR" or any other string, a text a sequence of bytes, a           *)
(* normalized text its sequence of lines.  Source starts count from 0.     *)
(***************************************************************************)
EXTENDS Naturals, Sequences, FiniteSets, SequencesExt

\* The scan of from_bytes from byte i on: CRLF counts as LF, one final
\* terminator ends the text, every other LF ends a line.
NormalLines(text) ==
    LET crlf(i) == text[i] = "CR" /\ i < Len(text) /\ text[i + 1] = "LF"
        lines[i \in 1..(Len(text) + 1)] ==
            IF i > Len(text) THEN << <<>> >>
            ELSE LET after == IF crlf(i) THEN i + 2 ELSE i + 1
                     byte == IF crlf(i) THEN "LF" ELSE text[i]
                 IN  IF byte # "LF"
                       THEN << <<byte>> \o Head(lines[after]) >> \o Tail(lines[after])
                     ELSE IF after > Len(text) THEN << <<>> >>
                     ELSE << <<>> >> \o lines[after]
    IN  lines[1]

IsEmptyText(lines) == lines = << <<>> >>
LineCount(lines) == IF IsEmptyText(lines) THEN 0 ELSE Len(lines)
ByteCount(lines) == FoldLeft(LAMBDA n, line : n + Len(line), Len(lines) - 1, lines)

\* The lines are only counted once a byte is kept.
OverBudget(lines, byteLimit, lineLimit) ==
    ByteCount(lines) > byteLimit \/ LineCount(lines) > lineLimit

-----------------------------------------------------------------------------
Fits(expected, source, start) ==
    /\ LineCount(expected) # 0
    /\ start + LineCount(expected) <= LineCount(source)

Agrees(expected, source, start, i) ==
    start + i <= Len(source) /\ expected[i] = source[start + i]

Differences(expected, source, start) ==
    {i \in DOMAIN expected : ~Agrees(expected, source, start, i)}

MatchesAt(expected, source, start) ==
    Fits(expected, source, start) /\ Differences(expected, source, start) = {}

CompareAll(expected, source, start) ==
    IF ~Fits(expected, source, start) THEN 0 ELSE LineCount(expected)

\* Line comparisons that deciding MatchesAt records: up to the first difference.
Comparisons(expected, source, start) ==
    IF ~Fits(expected, source, start) THEN 0
    ELSE Min(Differences(expected, source, start) \cup {LineCount(expected)})

Score(expected, source, start) ==
    Cardinality({i \in DOMAIN expected : Agrees(expected, source, start, i)})

-----------------------------------------------------------------------------
(* Resolution *)

NoSketch == 0       \* a signature entry without a sketch; ids are 1, 2, ...

VARIABLES
    request,        \* check, FullRefresh or PartialRefresh
    documents,      \* sequence of [root, files, signatures, sketches]
    limits,         \* SketchLimits
    at,             \* [document, part, index]: the entry to read next
    labels,         \* signature labels of the open document
    indexed,        \* signature entries read so far
    links,          \* signature entries that name a sketch, not yet taken; entries
                    \* of one document differ in their labels
    declared,       \* sketch declarations, not yet linked
    contracts,      \* resolved sketches, in the order of their ids
    outcome         \* resolving, accepted, or how the check ended

resolution == <<request, documents, limits, at, labels, indexed, links, declared, contracts>>

Open == documents[at.document]
\* An entry with the place of its document.
Located(entry, document) ==
    [field \in DOMAIN entry \cup {"locator"} |-> IF field = "locator" THEN document ELSE entry[field]]
Step(part, index) == at' = [at EXCEPT !.part = part, !.index = index]
Stop(result) ==
    outcome' = result /\ UNCHANGED <<at, labels, links, declared, contracts>>

ResolutionInit ==
    /\ at = [document |-> 1, part |-> "document", index |-> 1]
    /\ labels = {} /\ indexed = 0
    /\ links = {} /\ declared = {} /\ contracts = <<>>
    /\ outcome = "resolving"

Reading(part) ==
    outcome = "resolving" /\ at.document <= Len(documents) /\ at.part = part

-----------------------------------------------------------------------------
OpenDocument ==
    /\ Reading("document")
    /\ IF Open.root /\ IsInjective(Open.files)
         THEN /\ Step("signature", 1) /\ labels' = {}
              /\ UNCHANGED <<links, declared, contracts, outcome>>
         ELSE Stop("rejected")
    /\ UNCHANGED <<request, documents, limits, indexed>>

ReadSignature ==
    /\ Reading("signature") /\ at.index <= Len(Open.signatures)
    /\ indexed' = indexed + 1
    /\ LET s == Open.signatures[at.index]
       IN  IF indexed' > limits.signatures THEN Stop("signatures")
           ELSE IF s.file \notin Range(Open.files) \/ s.label \in labels THEN Stop("rejected")
           ELSE /\ labels' = labels \cup {s.label}
                /\ links' = IF s.sketch = NoSketch THEN links
                            ELSE links \cup {Located(s, at.document)}
                /\ Step("signature", at.index + 1)
                /\ UNCHANGED <<declared, contracts, outcome>>
    /\ UNCHANGED <<request, documents, limits>>

EndSignatures ==
    /\ Reading("signature") /\ at.index > Len(Open.signatures)
    /\ Step("sketch", 1)
    /\ UNCHANGED <<request, documents, limits, labels, indexed, links, declared, contracts, outcome>>

SnippetOverBudget(code) ==
    \/ Len(code) > limits.snippetBytes
    \/ OverBudget(NormalLines(code), limits.snippetBytes, limits.snippetLines)

ReadSketch ==
    /\ Reading("sketch") /\ at.index <= Len(Open.sketches)
    /\ LET s == Open.sketches[at.index]
       IN  IF s.file \notin Range(Open.files) THEN Stop("rejected")
           ELSE IF SnippetOverBudget(s.code) THEN Stop("snippet")
           ELSE IF IsEmptyText(NormalLines(s.code)) THEN Stop("rejected")
           ELSE IF \E d \in declared : d.id = s.id THEN Stop("rejected")
           ELSE IF Cardinality(declared) + 1 > limits.sketches THEN Stop("sketches")
           ELSE /\ declared' = declared \cup {Located(s, at.document)}
                /\ Step("sketch", at.index + 1)
                /\ UNCHANGED <<labels, links, contracts, outcome>>
    /\ UNCHANGED <<request, documents, limits, indexed>>

EndDocument ==
    /\ Reading("sketch") /\ at.index > Len(Open.sketches)
    /\ at' = [document |-> at.document + 1, part |-> "document", index |-> 1]
    /\ UNCHANGED <<request, documents, limits, labels, indexed, links, declared, contracts, outcome>>

-----------------------------------------------------------------------------
Linking == outcome = "resolving" /\ at.document > Len(documents)

AgreeAnywhere(sketch, link) ==
    /\ link.file = sketch.file
    /\ link.label = sketch.signature
    /\ link.type = sketch.type

Agree(sketch, link) ==
    /\ link.locator = sketch.locator
    /\ link.file = sketch.file
    /\ link.label = sketch.signature
    /\ link.type = sketch.type

LinkSketch ==
    /\ Linking /\ declared # {}
    /\ LET id == Min({d.id : d \in declared})
           sketch == CHOOSE d \in declared : d.id = id
           own == {l \in links : l.sketch = id}
       IN  IF ~\E link \in own : own = {link} /\ Agree(sketch, link) THEN Stop("rejected")
           ELSE /\ contracts' = Append(contracts, sketch)
                /\ declared' = declared \ {sketch}
                /\ links' = links \ own
                /\ UNCHANGED <<at, labels, outcome>>
    /\ UNCHANGED <<request, documents, limits, indexed>>

\* A link nobody declared a sketch for is an error.
FinishResolution ==
    /\ Linking /\ declared = {}
    /\ outcome' = IF links = {} THEN "accepted" ELSE "rejected"
    /\ UNCHANGED resolution

\* Every loop of the kit passes a cancellation checkpoint.
Cancel ==
    /\ outcome \in {"resolving", "accepted", "matching", "admitting", "editing"}
    /\ outcome' = "cancelled"
    /\ UNCHANGED resolution

ResolutionNext ==
    \/ OpenDocument \/ ReadSignature \/ EndSignatures \/ ReadSketch \/ EndDocument
    \/ LinkSketch \/ FinishResolution \/ Cancel

-----------------------------------------------------------------------------
Entries(part) ==
    UNION {{<<d, i>> : i \in DOMAIN documents[d][part]} : d \in DOMAIN documents}
Entry(part, e) == documents[e[1]][part][e[2]]

\* e and f name one another's counterpart: a signature entry and a sketch entry
\* of one document that agree.
Counterparts(e, f) ==
    LET s == Entry("signatures", e) k == Entry("sketches", f)
    IN  /\ e[1] = f[1] /\ s.sketch = k.id /\ s.label = k.signature
        /\ s.file = k.file /\ s.type = k.type

WellPaired ==
    LET naming == {e \in Entries("signatures") : Entry("signatures", e).sketch # NoSketch}
        sketches == Entries("sketches")
    IN  /\ \A d \in DOMAIN documents :
              /\ documents[d].root
              /\ IsInjective(documents[d].files)
              /\ IsInjective([i \in DOMAIN documents[d].signatures |->
                                 documents[d].signatures[i].label])
        /\ \A part \in {"signatures", "sketches"} : \A e \in Entries(part) :
              Entry(part, e).file \in Range(documents[e[1]].files)
        /\ \A f \in sketches : ~IsEmptyText(NormalLines(Entry("sketches", f).code))
        \* one to one, over the whole catalog
        /\ \A f \in sketches : \E e \in naming :
              /\ Counterparts(e, f)
              /\ \A g \in naming :
                    Entry("signatures", g).sketch = Entry("sketches", f).id => g = e
              /\ \A h \in sketches :
                    Entry("sketches", h).id = Entry("sketches", f).id => h = f
        /\ \A e \in naming : \E f \in sketches : Counterparts(e, f)

WithinLimits ==
    /\ Cardinality(Entries("signatures")) <= limits.signatures
    /\ Cardinality(Entries("sketches")) <= limits.sketches
    /\ \A f \in Entries("sketches") : ~SnippetOverBudget(Entry("sketches", f).code)

\* A catalog is accepted exactly if its sketches and the signature entries that
\* name one pair up one to one inside their documents and agree on file, label
\* and type; it is refused for a limit only if it exceeds one.  Then the
\* contracts are all its sketches, in the order of their ids, which get()
\* searches by bisection (SketchContractDocuments::contracts, reported one error
\* at a time, document by document and then id by id).
ResolutionIsPairing ==
    /\ outcome = "rejected" => ~WellPaired
    /\ outcome \in {"signatures", "sketches", "snippet"} => ~WithinLimits
    /\ outcome = "accepted" =>
          /\ WellPaired /\ WithinLimits
          /\ \A i, j \in DOMAIN contracts : i < j => contracts[i].id < contracts[j].id
          /\ {c.id : c \in Range(contracts)} =
                {Entry("sketches", f).id : f \in Entries("sketches")}
=============================================================================

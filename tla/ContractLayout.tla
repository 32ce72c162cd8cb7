---------------------------- MODULE ContractLayout ----------------------------
(***************************************************************************)
(* How a command reads the combined contract documents it was given:       *)
(* conkit/contracts/layout.rs, document.rs, document/header.rs and         *)
(* document/yaml.rs.  Physical files are looked at in path order and share *)
(* one YAML budget; each of their documents has a header, which is checked *)
(* and bound to the source root; the sources they list are united, and the *)
(* extractions they declare have to agree.  A disagreement is kept, and    *)
(* reported only to a command that asks for the extraction.                *)
(*                                                                         *)
(* A file: path, direct (a root-level .yml or .yaml), size, utf8, sound    *)
(* (the text is YAML), raw (what its events count up to its end, or to the *)
(* place where it is no YAML), replay (the nodes and scalar bytes that     *)
(* aliases add when the headers are decoded) and documents.                *)
(* A document: null, decodes, version, root, binds, complete (files,       *)
(* signatures and sketches are there), listed, signatures, extraction.     *)
(***************************************************************************)
EXTENDS CargoSelection, FiniteSetsExt

NoExtraction == [kind |-> "none"]

SourcePath == [name : STRING, rust : BOOLEAN]
CrateRoot == [id : STRING, root : SourcePath]
CompilerContext ==
    [supported : BOOLEAN, named : BOOLEAN, expanded : BOOLEAN, features : Seq(Nat), cfg : Seq(Nat)]
Extraction ==
    {NoExtraction} \cup [kind : {"syntax"}, crates : Seq(CrateRoot)]
    \cup [kind : {"compiler"}, crates : Seq(CrateRoot), context : CompilerContext]
Document ==
    [null : BOOLEAN, decodes : BOOLEAN, version : Nat, root : {"relative", "malformed"}, binds : BOOLEAN,
     complete : BOOLEAN, listed : Seq(SourcePath), signatures : Nat, extraction : Extraction]

Resources == {"documents", "depth", "nodes", "aliases", "scalars"}
Replayed == {"nodes", "scalars"}
Unused == [r \in Resources |-> 0]
\* The document that a fresh layout starts with; it is named because no prover knows
\* that a literal is a string.
FreshName == "main.yml"
ContractFile ==
    [path : {FreshName} \cup STRING, direct : BOOLEAN, size : Nat, utf8 : BOOLEAN, sound : BOOLEAN,
     raw : [Resources -> Nat], replay : [Replayed -> Nat], documents : Seq(Document)]

\* ContractYamlResource::observe: depth is the deepest, the others add up.
Observe(used, amount) ==
    [r \in Resources |-> IF r = "depth" THEN Max({used[r], amount[r]}) ELSE used[r] + amount[r]]
Replay(file) == [r \in Resources |-> IF r \in Replayed THEN file.replay[r] ELSE 0]
Within(used, ceiling) == \A r \in Resources : used[r] <= ceiling[r]

\* CrateHeader::into_root of each crate, in order.
CratesAreSound(crates, listed) ==
    /\ crates # <<>>
    /\ \A i \in DOMAIN crates :
          /\ crates[i].id # "" /\ crates[i].root.rust /\ crates[i].root \in ToSet(listed)
          /\ \A j \in DOMAIN crates : i # j => crates[i].id # crates[j].id

Ascending(values) == \A i \in 1..(Len(values) - 1) : values[i] < values[i + 1]
\* CompilerHeader::validate.
ContextIsSound(context) ==
    /\ context.supported /\ context.named /\ context.expanded
    /\ Ascending(context.features) /\ Ascending(context.cfg)

\* ExtractionHeader::into_layout.
ExtractionIsSound(extraction, listed) ==
    /\ CratesAreSound(extraction.crates, listed)
    /\ extraction.kind = "compiler" => ContextIsSound(extraction.context)

\* DocumentHeader::into_plan, after the version.
HeaderIsSound(document) ==
    /\ document.root # "malformed" /\ document.complete
    /\ document.signatures > 0 => document.extraction.kind # "none"
    /\ \A i \in DOMAIN document.listed :
          /\ document.listed[i].rust
          /\ \A j \in DOMAIN document.listed : i # j => document.listed[i] # document.listed[j]
    /\ document.extraction.kind # "none" => ExtractionIsSound(document.extraction, document.listed)

FirstUnsound(documents) ==
    LET bad == {i \in DOMAIN documents : documents[i].version # 2 \/ ~HeaderIsSound(documents[i])}
    IN  IF bad = {} THEN "none"
        ELSE IF documents[Min(bad)].version # 2 THEN "version" ELSE "layout"

\* ContractDocument::parse_plans: the raw stream is charged before its events are
\* looked at, the replay of aliases when the headers have been decoded.
FileError(file, used, ceiling) ==
    LET charged == Observe(used, file.raw) IN
    IF \/ ~file.utf8 \/ ~Within(charged, ceiling) \/ ~file.sound
       \/ file.documents = <<>> \/ \E d \in ToSet(file.documents) : d.null
       \/ ~Within(Observe(charged, Replay(file)), ceiling) \/ \E d \in ToSet(file.documents) : ~d.decodes
      THEN "layout" ELSE FirstUnsound(file.documents)

Unread(ceiling) == [used |-> Unused, ceiling |-> ceiling, read |-> <<>>, error |-> "none"]
ReadText(reading, file) ==
    LET error == FileError(file, reading.used, reading.ceiling) IN
    IF reading.error # "none" \/ ~file.direct THEN reading
    ELSE IF error # "none" THEN [reading EXCEPT !.error = error]
    ELSE [reading EXCEPT !.used = Observe(Observe(@, file.raw), Replay(file)), !.read = Append(@, file)]

\* ContractFormatValidator::validate: one budget for every catalog it is given.
Validate(reading, catalog) == FoldLeft(ReadText, reading, catalog)

-----------------------------------------------------------------------------
(* ContractLayout::load *)

Conflict == [kind |-> "conflict"]

\* The crates of another extraction follow, those already seen excepted.
Joined(crates, incoming) ==
    FoldLeft(LAMBDA joined, c : IF c \in ToSet(joined) THEN joined ELSE Append(joined, c), crates, incoming)

\* LayoutExtraction::merge: the first extraction takes the crates of those that
\* agree with it; the first conflict stays.
Merge(selected, incoming) ==
    IF selected.kind = "none" THEN incoming
    ELSE IF selected.kind = "conflict" \/ incoming.kind = "none" THEN selected
    ELSE IF selected.kind = incoming.kind /\ (selected.kind = "compiler" => selected.context = incoming.context)
           THEN [selected EXCEPT !.crates = Joined(@, incoming.crates)]
    ELSE Conflict

DocumentsOf(files) == FlattenSeq([i \in DOMAIN files |-> files[i].documents])

\* The extraction that the documents declare; a compiler has one crate.
Aggregate(documents) ==
    LET merged == FoldLeft(LAMBDA selected, d : Merge(selected, d.extraction), NoExtraction, documents)
    IN  IF merged.kind = "compiler" /\ Len(merged.crates) # 1 THEN Conflict ELSE merged

\* ContractDocument::validate_root_binding follows each file's headers.
BoundText(reading, file) ==
    LET next == ReadText(reading, file) IN
    IF reading.error = "none" /\ next.error = "none" /\ file.direct
       /\ \E d \in ToSet(file.documents) : ~d.binds
      THEN [next EXCEPT !.error = "layout"] ELSE next

Loaded(catalog, ceiling) ==
    LET reading == FoldLeft(BoundText, Unread(ceiling), catalog)
        documents == DocumentsOf(reading.read)
    IN  [error |-> reading.error, files |-> reading.read,
         sources |-> UNION {ToSet(d.listed) : d \in ToSet(documents)},
         extraction |-> Aggregate(documents)]

IsEmpty(layout) == layout.files = <<>>

-----------------------------------------------------------------------------
(* What loading promises, over the documents alone *)

DirectFiles(catalog) == FoldLeft(LAMBDA direct, f : IF f.direct THEN Append(direct, f) ELSE direct, <<>>, catalog)

\* A catalog is accepted exactly if each of its documents could be read alone and
\* all of them together are within the ceiling, however the documents are spread
\* over the files; the extraction it declares is a conflict exactly if two of its
\* documents disagree, or a compiler is left without one crate; and what agrees is
\* united without repetition.
Total(files, r) ==
    IF r = "depth" THEN Max({0} \cup {f.raw[r] : f \in ToSet(files)})
    ELSE FoldLeft(LAMBDA sum, f : sum + f.raw[r] + Replay(f)[r], 0, files)
LoadIsExact(catalog, ceiling, layout) ==
    LET direct == DirectFiles(catalog)
        documents == DocumentsOf(direct)
        alone(f) == /\ f.utf8 /\ f.sound /\ f.documents # <<>>
                    /\ \A d \in ToSet(f.documents) :
                          ~d.null /\ d.decodes /\ d.version = 2 /\ d.binds /\ HeaderIsSound(d)
        declared == {d.extraction : d \in ToSet(documents)} \ {NoExtraction}
        crates == UNION {ToSet(e.crates) : e \in declared}
        compilers == {e \in declared : e.kind = "compiler"}
        agree == /\ compilers \in {{}, declared}
                 /\ Cardinality({e.context : e \in compilers}) <= 1
                 /\ compilers # {} => Cardinality(crates) = 1
    IN  /\ layout.error = "none" <=>
              (\A f \in ToSet(direct) : alone(f)) /\ \A r \in Resources : Total(direct, r) <= ceiling[r]
        /\ layout.error = "none" =>
              /\ layout.files = direct
              /\ layout.sources = UNION {ToSet(d.listed) : d \in ToSet(documents)}
              /\ layout.extraction.kind = "conflict" <=> ~agree
              /\ layout.extraction.kind = "none" <=> declared = {}
              /\ layout.extraction.kind \in {"syntax", "compiler"} =>
                    /\ ToSet(layout.extraction.crates) = crates
                    /\ Len(layout.extraction.crates) = Cardinality(crates)
                    /\ \A e \in declared : e.kind = layout.extraction.kind
                    /\ \A e \in compilers : e.context = layout.extraction.context
=============================================================================

-------------------------- MODULE CompilerExtraction --------------------------
(***************************************************************************)
(* One compiler extraction: conkit/compiler.rs and conkit/compiler/        *)
(* extractor.rs, probe.rs, project.rs and source.rs.  Cargo is asked for   *)
(* metadata twice, for the compiler's identity and configuration, for the  *)
(* arguments it gives rustdoc (a probe that takes rustdoc's place) and for *)
(* the documented crate; the sources are then compared with the snapshot   *)
(* the command has read, and the spans of the crate's items are translated *)
(* into byte ranges of that snapshot.  While all this happens somebody may *)
(* edit or remove the sources.  A Cargo process is what CargoProcess       *)
(* promises of it: complete output, or the error that ends the extraction. *)
(***************************************************************************)
EXTENDS CargoProcess, CargoSelection, RustdocArtifact

CONSTANTS
    Call,           \* what the command asks for: CargoSelection's record, and the
                    \* catalog entries it has read
    Metadata,       \* the answers of cargo metadata
    Records,        \* what a probe in rustdoc's place may record
    Documents,      \* what rustdoc may write
    Versions,       \* the compiler's identity
    Catalog, Text,  \* the snapshot: its paths in order, and their contents
    SourceRoot, Directory,  \* the canonical source root; the manifest's parent
    Unlisted,       \* files that are there but not in the catalog
    Links,          \* the canonical path of each symbolic link
    Most,           \* limits: packages, targets, bytes, items, mappings, capture, reads
    MaxEdits        \* bound: edits of the sources

\* The command has charged what it read to the same budget.
ASSUME ExtractionBounds ==
    /\ MaxEdits \in Nat /\ {Most[c] : c \in DOMAIN Most} \subseteq Nat
    /\ DOMAIN Most = {"packages", "targets", "bytes", "items", "mappings", "capture", "reads"}
    /\ \A c \in Call : c.reads \in 0..Most.reads
    /\ \A d \in Documents : Len(d.items) \in Nat
    /\ Catalog \in Seq(ToSet(Catalog))

Removed == MaxEdits + 1
Unread == MaxEdits + 2
Paths == {SourceRoot \o Catalog[i] : i \in DOMAIN Catalog}

VARIABLES
    step,           \* what the extraction does next
    call,
    target,         \* the CargoProject selected last
    counted,        \* CompilerUsage's counters, and the entries of the catalog budget
    facts,          \* compiler identity, features and configuration so far
    probes,         \* the processes Cargo starts in rustdoc's place
    capture,        \* the file they leave
    document,       \* what rustdoc wrote
    files,          \* the version of each source on disk: 0 is the snapshot
    documented,     \* the versions rustdoc read
    verified, seen, \* catalog files compared; items looked at
    pending, mapped,\* candidates and mappings
    result, edits

request == <<call, target, facts, probes, capture, document>>
extraction == <<step, request, counted, files, documented, verified, seen, pending, mapped, result, edits>>
disk == <<files, edits>>

Prober == {1, 2}
NoCapture == [size |-> 0]
Torn == [size |-> 1]

Unbegun ==
    /\ target = <<>> /\ facts = <<>> /\ document = <<>>
    /\ probes = [p \in Prober |-> "none"] /\ capture = NoCapture
    /\ files = [p \in Paths |-> 0] /\ documented = [p \in Paths |-> Unread]
    /\ verified = 0 /\ seen = 0 /\ pending = <<>> /\ mapped = <<>>
    /\ result = "none" /\ edits = 0
ExtractionInit ==
    /\ step = "begin" /\ call \in Call /\ Unbegun
    /\ counted = [packages |-> 0, targets |-> 0, bytes |-> 0, items |-> 0, mappings |-> 0,
                  reads |-> call.reads]

\* A checkpoint comes before each step.
At(here) == step = here /\ Stop = "none"
Proceed(next) == step' = next /\ UNCHANGED result
End(error) == step' = "over" /\ result' = error
Ok(condition, next, error) == IF condition THEN Proceed(next) ELSE End(error)
Stopped ==
    /\ step # "over" /\ Stop # "none" /\ End(Stop)
    /\ UNCHANGED <<request, counted, disk, documented, verified, seen, pending, mapped>>

\* Canonicalization follows links and needs the file.
Canonical(path) == IF path \in DOMAIN Links THEN Links[path] ELSE path
Exists(path) == path \in Unlisted \/ (path \in Paths /\ files[path] # Removed)

Begin ==
    /\ step = "begin"
    /\ CASE Decision(call) \in {"refused", "syntax"} -> End(Decision(call))
         [] OTHER -> Ok(CrateCountIsRight(call), "locate", "crates")
    /\ UNCHANGED <<request, counted, disk, documented, verified, seen, pending, mapped>>

\* manifest_path and CompilerWorkspace::new.
Locate ==
    /\ At("locate")
    /\ \/ Proceed(IF call.package = "" THEN "metadata" ELSE "pkgid")
       \/ End("manifest") \/ End("workspace")
    /\ UNCHANGED <<request, counted, disk, documented, verified, seen, pending, mapped>>

\* run: a process fails, or its output is there; what the answer does not decide.
Answer(here, next) ==
    /\ At(here)
    /\ Proceed(next) \/ End("cargo")
    /\ UNCHANGED <<call, target, probes, capture, document, counted, disk, documented, verified,
                   seen, pending, mapped>>
PackageId == Answer("pkgid", "metadata") /\ UNCHANGED facts

\* account_metadata counts both answers against one limit, packages before targets.
Targets(metadata) ==
    FoldLeft(LAMBDA n, package : n + Len(package.targets), 0, metadata.packages)
CountMetadata(metadata) ==
    LET packages == counted.packages + Len(metadata.packages)
    IN [counted EXCEPT !.packages = packages,
                       !.targets = IF packages > Most.packages THEN @ ELSE @ + Targets(metadata)]
MetadataFits(counts) == counts.packages <= Most.packages /\ counts.targets <= Most.targets

\* cargo metadata, first to find the target, then with its features: each answer
\* selects on its own.
ReadMetadata(here, next) ==
    /\ At(here)
    /\ \/ /\ End("cargo") /\ UNCHANGED <<counted, target>>
       \/ \E metadata \in Metadata :
            LET selected == Select(metadata, call.package, call.target)
            IN /\ counted' = CountMetadata(metadata)
               /\ target' = IF MetadataFits(counted') /\ selected # None
                              THEN CHOOSE t \in selected : TRUE ELSE target
               /\ IF MetadataFits(counted') THEN Ok(selected # None, next, "selection")
                                           ELSE End("limit")
    /\ UNCHANGED <<call, facts, probes, capture, document, disk, documented, verified, seen,
                   pending, mapped>>

\* crate_identity: the target's root, inside the source root, and as expected.
RootPath == Canonical(target.file)
Inside(path) == IsPrefix(SourceRoot, path) /\ path # SourceRoot
Logical(path) == SubSeq(path, Len(SourceRoot) + 1, Len(path))
Crate ==
    IF Inferring(call) THEN [id |-> target.target, root |-> Logical(RootPath), kind |-> target.kind]
                       ELSE ExpectedCrates(call)[1]
Identify ==
    /\ At("identify")
    /\ CASE ~Exists(RootPath) -> End("target")
         [] Exists(RootPath) /\ ~Inside(RootPath) -> End("outside")
         [] OTHER -> Ok(Crate.root = Logical(RootPath) /\ Crate.kind = target.kind,
                        "version", "mismatch")
    /\ UNCHANGED <<request, counted, disk, documented, verified, seen, pending, mapped>>

Version ==
    /\ Answer("version", "probe")
    /\ IF step' = "probe"
         THEN \E version \in Versions : facts' = [version |-> version, features |-> target.features]
         ELSE UNCHANGED facts

-----------------------------------------------------------------------------
(* The probe *)

\* RustdocProbe::parent needs the target's root again.
StartProbe ==
    /\ At("probe") /\ Ok(Exists(RootPath), "probing", "target")
    /\ UNCHANGED <<request, counted, disk, documented, verified, seen, pending, mapped>>

\* from_environment: a process that Cargo starts in rustdoc's place gives up if a
\* capture is there already.
EnterProbe(p) ==
    /\ step = "probing" /\ probes[p] = "none"
    /\ probes' = [probes EXCEPT ![p] = IF capture = NoCapture THEN "entered" ELSE "failed"]
    /\ UNCHANGED <<step, call, target, facts, capture, document, counted, disk, documented,
                   verified, seen, pending, mapped, result>>

\* capture: create_new lets one process through; a write that fails leaves a torn file.
WriteCapture(p, left) ==
    /\ step = "probing" /\ probes[p] = "entered"
    /\ IF capture = NoCapture
         THEN /\ capture' = left
              /\ probes' = [probes EXCEPT ![p] = IF left = Torn THEN "failed" ELSE "recorded"]
         ELSE probes' = [probes EXCEPT ![p] = "failed"] /\ UNCHANGED capture
    /\ UNCHANGED <<step, call, target, facts, document, counted, disk, documented, verified, seen,
                   pending, mapped, result>>

\* Cargo ends when its processes have; its success means that no probe has run.
EndProbe ==
    /\ At("probing") /\ \A p \in Prober : probes[p] # "entered"
    /\ \/ Proceed("capture")
       \/ End("cargo")
       \/ (\A p \in Prober : probes[p] = "none") /\ End("success")
    /\ probes' = [p \in Prober |-> "none"]
    /\ UNCHANGED <<call, target, facts, capture, document, counted, disk, documented, verified,
                   seen, pending, mapped>>

\* read_artifact takes at most one byte more than fits; a file over its own limit is
\* refused, anything else counts towards the artifact bytes of the extraction.
Observed(size, most) == Min({size, most + 1, (Most.bytes - counted.bytes) + 1})
CountBytes(size, most) ==
    IF Observed(size, most) > most THEN counted
                                   ELSE [counted EXCEPT !.bytes = @ + Observed(size, most)]
BytesFit(size, most) ==
    Observed(size, most) <= most /\ CountBytes(size, most).bytes <= Most.bytes

\* read_record: a whole record of this session that accepts the invocation.
Whole(record) == record \notin {NoCapture, Torn}
ReadCapture ==
    /\ At("capture")
    /\ counted' = IF capture = NoCapture THEN counted ELSE CountBytes(capture.size, Most.capture)
    /\ IF Whole(capture) /\ BytesFit(capture.size, Most.capture) /\ capture.accepted
         THEN /\ Proceed("rustdoc")
              /\ facts' = [version |-> facts.version, features |-> facts.features, cfg |-> capture.cfg]
         ELSE End("probe") /\ UNCHANGED facts
    /\ UNCHANGED <<call, target, probes, capture, document, disk, documented, verified, seen,
                   pending, mapped>>

-----------------------------------------------------------------------------
(* rustdoc *)

\* rustdoc reads the sources one by one, ...
RustdocReads(p) ==
    /\ step = "rustdoc" /\ documented[p] = Unread
    /\ documented' = [documented EXCEPT ![p] = files[p]]
    /\ UNCHANGED <<step, request, counted, disk, verified, seen, pending, mapped, result>>

\* ... and writes its JSON, or fails.
EndRustdoc ==
    /\ At("rustdoc") /\ \A p \in Paths : documented[p] # Unread
    /\ \/ document' \in Documents /\ Proceed("json")
       \/ End("cargo") /\ UNCHANGED document
    /\ UNCHANGED <<call, target, facts, probes, capture, counted, disk, documented, verified,
                   seen, pending, mapped>>

\* read_rustdoc_json, decode_rustdoc, the items' budget and the requested triple.
ReadJson ==
    /\ At("json")
    /\ LET taken == CountBytes(document.size, Most.bytes)
           found == document.copies = 1
           fits == found /\ BytesFit(document.size, Most.bytes)
           decoded == fits /\ document.valid /\ document.private = (target.kind = "binary")
       IN /\ counted' = [(IF found THEN taken ELSE counted) EXCEPT
                            !.items = IF decoded THEN Len(document.items) ELSE 0]
          /\ CASE ~found -> End("artifacts")
               [] found /\ ~fits -> End("limit")
               [] fits /\ ~decoded -> End("json")
               [] decoded /\ counted'.items > Most.items -> End("limit")
               [] OTHER -> Ok(call.triple \in {"", document.triple}, "configuration", "triple")
    /\ UNCHANGED <<request, disk, documented, verified, seen, pending, mapped>>

\* CompilerConfiguration::merge: rustc's values for the document's triple, rustdoc's
\* own, and doc.
Configuration ==
    /\ Answer("configuration", "verify")
    /\ IF step' = "verify"
         THEN facts' = [facts EXCEPT !.cfg = @ \cup {"doc", document.triple}]
         ELSE UNCHANGED facts

\* verify_source_snapshot and first_changed_snapshot_with_budget, one file of the
\* catalog after the other.
Verify ==
    /\ At("verify")
    /\ IF verified = Len(Catalog)
         THEN Proceed("collect") /\ UNCHANGED <<counted, verified>>
         ELSE LET file == SourceRoot \o Catalog[verified + 1]
              IN /\ counted' = [counted EXCEPT !.reads = @ + 1]
                 /\ verified' = verified + 1
                 /\ CASE counted'.reads > Most.reads -> End("reads")
                      [] files[file] = Removed -> End("unavailable")
                      [] OTHER -> Ok(files[file] = 0, "verify", "changed")
    /\ UNCHANGED <<request, disk, documented, seen, pending, mapped>>

-----------------------------------------------------------------------------
(* Translation of the spans *)

Spelled(span) == IF span.file[1] = "/" THEN Tail(span.file) ELSE Directory \o span.file

\* mapped_source: the catalog file a span lies in, if it can be found.
Sources(span) ==
    LET file == Canonical(Spelled(span))
    IN IF Exists(file) /\ Inside(file) THEN {Logical(file)} \cap ToSet(Catalog) ELSE {}
Candidates(item) ==
    CASE ~item.local -> {}
      [] item.span = NoSpan -> {[item |-> item.id, exact |-> FALSE]}
      [] OTHER -> {[item |-> item.id, exact |-> TRUE, file |-> f, span |-> item.span] :
                     f \in Sources(item.span)}

BareCeiling == Most.mappings - counted.mappings
\* into_mappings, first pass: one candidate more than the budget allows is enough.
Ceiling == (Most.mappings - counted.mappings) + 1
Collect ==
    /\ At("collect")
    /\ IF seen = Len(document.items) \/ Len(pending) >= Ceiling
         THEN Proceed("translate") /\ UNCHANGED <<seen, pending>>
         ELSE /\ seen' = seen + 1 /\ Proceed("collect")
              /\ pending' = pending \o SetToSeq(Candidates(document.items[seen + 1]))
    /\ UNCHANGED <<request, counted, disk, documented, verified, mapped>>

\* The endpoints every candidate in a file asks for, answered together.
Endpoints(file) ==
    Resolved(Text[file], UNION {{pending[i].span.begin, pending[i].span.end} :
                                  i \in {i \in DOMAIN pending : pending[i].exact /\ pending[i].file = file}})
Flaw(i) ==
    LET candidate == pending[i] IN
    CASE candidate.exact /\ ~Utf8(Text[candidate.file]) -> "utf8"
      [] candidate.exact /\ ByteRange(Endpoints(candidate.file), candidate.span) = {} -> "span"
      [] counted.mappings + i > Most.mappings -> "limit"
      [] OTHER -> "none"
Provenance(candidate) ==
    IF candidate.exact
      THEN [item |-> candidate.item, exact |-> TRUE, file |-> candidate.file,
            bytes |-> CHOOSE r \in ByteRange(Endpoints(candidate.file), candidate.span) : TRUE]
      ELSE [item |-> candidate.item, exact |-> FALSE, file |-> Crate.root]

\* Second pass: the first candidate that cannot be mapped ends the extraction.
Translate ==
    /\ At("translate")
    /\ LET flawed == {i \in DOMAIN pending : Flaw(i) # "none"}
       IN IF flawed = {}
            THEN /\ Proceed("handover")
                 /\ mapped' = [i \in DOMAIN pending |-> Provenance(pending[i])]
                 /\ counted' = [counted EXCEPT !.mappings = @ + Len(pending)]
            ELSE End(Flaw(Min(flawed))) /\ UNCHANGED <<mapped, counted>>
    /\ UNCHANGED <<request, disk, documented, verified, seen, pending>>

Artifact ==
    [crates |-> <<Crate @@ [package |-> target.package, target |-> target.target, item |-> document.root]>>,
     context |-> facts @@ [triple |-> document.triple, format |-> document.format,
                           package |-> target.package, target |-> target.target],
     document |-> document, mappings |-> mapped]

\* extract returns; existing contracts must have been made in the same context.
HandOver ==
    /\ At("handover")
    /\ End(IF Decision(call) = "validate" => ContextAgrees(call.layout, Artifact)
              THEN "extracted" ELSE "context")
    /\ UNCHANGED <<request, counted, disk, documented, verified, seen, pending, mapped>>

-----------------------------------------------------------------------------
\* Somebody saves a source, or removes it; what was there never comes back.
Edit(p) ==
    /\ step # "over" /\ edits < MaxEdits /\ files[p] # Removed
    /\ edits' = edits + 1
    /\ files' \in {[files EXCEPT ![p] = edits'], [files EXCEPT ![p] = Removed]}
    /\ UNCHANGED <<step, request, counted, documented, verified, seen, pending, mapped, result>>

Extract ==
    \/ Begin \/ Locate \/ PackageId
    \/ ReadMetadata("metadata", "resolve") \/ ReadMetadata("resolve", "identify")
    \/ Identify \/ Version \/ StartProbe \/ EndProbe \/ ReadCapture
    \/ EndRustdoc \/ ReadJson \/ Configuration \/ Verify \/ Collect \/ Translate \/ HandOver
    \/ Stopped
Around ==
    \/ \E p \in Prober : EnterProbe(p) \/ (\E left \in Records \cup {Torn} : WriteCapture(p, left))
    \/ \E p \in Paths : RustdocReads(p) \/ Edit(p)
ExtractionNext == Extract \/ Around

-----------------------------------------------------------------------------
(* Properties *)

Snapshot(path) == Text[Logical(path)]
\* Where a span lies in a text, character by character.
Span(text, span) ==
    LET Is(i, at) == FoldLeft(After, Start, SubSeq(text, 1, i - 1)) = at
    IN {<<Length(SubSeq(text, 1, i - 1)), Length(SubSeq(text, 1, j))>> :
          i \in {i \in DOMAIN text : Is(i, span.begin)}, j \in {j \in DOMAIN text : Is(j, span.end)}}
LocalItems == {i \in ToSet(document.items) : i.local}
Mapped(item) == {m \in ToSet(mapped) : m.item = item.id}
\* The catalog file an item's span lies in, had nothing been removed.
Home(item) ==
    LET file == Canonical(Spelled(item.span))
    IN IF item.span # NoSpan /\ file \in Paths THEN {file} ELSE {}

\* rustdoc has read every source of the catalog as the snapshot has it, although it
\* reads them one by one and long before they are compared (verify_source_snapshot).
SnapshotIsDocumented == result = "extracted" => \A p \in Paths : documented[p] = 0

\* rustdoc's arguments were recorded by a probe that stands for the selected target
\* (RustdocProbe::read_record).
ProbeIsAccepted ==
    result = "extracted" => capture \in Records /\ capture.accepted /\ capture.cfg \subseteq facts.cfg

\* The crate is the one the contracts declare, in their context (crate_identity,
\* validate_compiler_artifact).
CrateIsDeclared ==
    result = "extracted" =>
        /\ ~Inferring(call) => LET crate == ExpectedCrates(call)[1]
                               IN crate.root = Logical(RootPath) /\ crate.kind = target.kind
        /\ call.layout.kind = "compiler" => call.layout.context = Artifact.context

\* Every local item of a catalog file has its exact bytes in the snapshot, unless the
\* file was removed after the comparison (into_mappings).
SpansAreExact ==
    result = "extracted" =>
        \A item \in LocalItems :
              IF item.span = NoSpan
                THEN Mapped(item) = {[item |-> item.id, exact |-> FALSE, file |-> Crate.root]}
                ELSE /\ \A m \in Mapped(item), p \in Home(item) :
                          m.exact /\ m.file = Logical(p) /\ {m.bytes} = Span(Snapshot(p), item.span)
                     /\ (\E p \in Home(item) : files[p] # Removed) => Mapped(item) # {}

\* No budget of the extraction is exceeded by it (CompilerUsage).
BudgetsAreKept == result = "extracted" => \A counter \in DOMAIN counted : counted[counter] <= Most[counter]

\* An artifact that is handed over describes the snapshot.
ExtractionIsExact ==
    SnapshotIsDocumented /\ ProbeIsAccepted /\ CrateIsDeclared /\ SpansAreExact /\ BudgetsAreKept
=============================================================================

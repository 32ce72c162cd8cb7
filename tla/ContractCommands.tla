--------------------------- MODULE ContractCommands ---------------------------
(***************************************************************************)
(* The commands as their users see them, one after the other over one      *)
(* contracts root, one source tree, one archive and one report:            *)
(* conkit/command/check.rs, generate.rs, archive.rs and diff.rs, with the  *)
(* readers of conkit/catalog/source.rs and store.rs, the archive format of *)
(* conkit/archive.rs and archive/source.rs, and conkit/report.rs.  A       *)
(* command reads everything it needs on one ledger before it asks a kit,   *)
(* and touches the disk last.  What a kit answers, and whether Cargo, a    *)
(* write or a print succeeds, is anybody's guess: other modules model      *)
(* them.  A cancellation may be requested at any time.                     *)
(***************************************************************************)
EXTENDS ContractLayout

CONSTANTS
    Artifacts,      \* what a compiler may produce: crates, context
    Conventional,   \* lib.rs and main.rs of the source root
    Packings,       \* sizes an archive may have: expanded, compressed
    Wire            \* limits of an archive: entries, file, expanded, compressed

\* An artifact is refused unless it is for one crate (conkit-signature's artifact.rs).
ASSUME ArtifactsAssumption ==
    \A a \in Artifacts : a \in [crates : Seq(CrateRoot), context : CompilerContext] /\ Len(a.crates) = 1
ASSUME PackingsAssumption ==
    Packings \subseteq [expanded : Nat, compressed : Nat]
    /\ Wire \in [entries : Nat, file : Nat, expanded : Nat, compressed : Nat]

VARIABLES
    root,           \* the contracts root: present, files (in path order), manifest (its size)
    tree,           \* the source tree: the size of each file
    stored,         \* the archive
    report,         \* the report
    limits, ceiling,\* the ledger's limits; those of the YAML budget
    queue, command, \* commands to come; the one that runs
    phase, result,
    requested,      \* a cancellation
    ledger,
    catalog, previous,  \* the contracts read, and those of the archive
    layout, sources,    \* the loaded layout; the sources read
    input, crates,      \* the extraction given to the kits; crates of a fresh layout
    produced,           \* the documents generated, or the archive encoded
    kits, verdicts,     \* the kits to ask; what those asked have said
    asked, before, fresh\* history: the kits' requests; the disk; what was established

disk == <<root, stored, report>>
world == <<tree, limits, ceiling, queue, command, before, fresh>>
contracts == <<catalog, previous, layout>>
extracted == <<sources, input, crates>>
answers == <<kits, verdicts, asked>>
progress == <<phase, result, requested, ledger>>
commandVars == <<disk, world, progress, contracts, extracted, produced, answers>>

NoArchive == [kind |-> "none"]
NoInput == [kind |-> "none"]
SyntaxInput == [kind |-> "syntax"]

Move(next) == phase' = next /\ UNCHANGED result
Stop(error) == phase' = "over" /\ result' = error
Pass(condition, next, error) == IF condition THEN Move(next) ELSE Stop(error)
\* A checkpoint comes before every step that may still be given up.
Runs(at) == phase = at /\ ~requested /\ UNCHANGED <<requested, world>>

-----------------------------------------------------------------------------
(* What lies on the disk, and what is asked for *)

ContractsRoot == [present : BOOLEAN, files : Seq(ContractFile), manifest : Nat]
IsTree(files) ==
    IsFiniteSet(DOMAIN files) /\ DOMAIN files \subseteq SourcePath /\ \A p \in DOMAIN files : files[p] \in Nat
IsArchive(a) ==
    a \in {NoArchive} \cup [kind : {"foreign", "archive"}, files : Seq(ContractFile), sound : BOOLEAN,
                           clean : BOOLEAN, packing : [expanded : Nat, compressed : Nat]]
\* Only generate is told crate roots.
IsCommand(c) ==
    \/ c.verb = "edit" /\ c.files \in Seq(ContractFile) /\ IsTree(c.tree)
    \/ /\ c \in [verb : {"check", "generate", "archive", "diff"}, subject : {"all", "signatures", "sketches"},
                  extractor : {"syntax", "compiler"}, explicit : Seq(CrateRoot), disjoint : BOOLEAN]
       /\ c.verb # "generate" => c.explicit = <<>>
CommandTypeOK ==
    /\ root \in ContractsRoot /\ before[1] \in ContractsRoot /\ IsArchive(stored) /\ IsArchive(before[2])
    /\ IsTree(tree)
    /\ limits \in [entries : Nat, total : Nat, file : Nat] /\ ceiling \in [Resources -> Nat]
    /\ queue \in Seq(ToSet(queue)) /\ \A c \in ToSet(queue) : IsCommand(c)
    /\ command.verb = "none" \/ IsCommand(command)
    /\ catalog \in Seq(ContractFile) /\ previous \in Seq(ContractFile)
    /\ sources \subseteq DOMAIN tree \cup layout.sources /\ IsFiniteSet(sources) /\ crates \in Seq(CrateRoot)
    /\ ledger.entries \in Nat /\ ledger.total \in Nat

-----------------------------------------------------------------------------
(* The ledger *)

NothingRead == [entries |-> 0, total |-> 0, stopped |-> "none"]
Unavailable == -1

\* begin_entry, preflight_file and finish_file of one file.
Charge(charged, size) ==
    IF charged.stopped # "none" THEN charged
    ELSE IF charged.entries = limits.entries THEN [charged EXCEPT !.stopped = "limit"]
    ELSE IF size = Unavailable THEN [charged EXCEPT !.entries = @ + 1, !.stopped = "sources"]
    ELSE IF size > limits.file \/ charged.total + size > limits.total
           THEN [charged EXCEPT !.entries = @ + 1, !.stopped = "limit"]
    ELSE [charged EXCEPT !.entries = @ + 1, !.total = @ + size]
ChargeAll(charged, sizes) == FoldLeft(Charge, charged, sizes)
\* What a command says that a ledger has stopped.
Refusal(charged) == IF charged.stopped = "sources" THEN "sources" ELSE "limit"
Spend(sizes, next) ==
    /\ ledger' = ChargeAll(ledger, sizes)
    /\ Pass(ledger'.stopped = "none", next, Refusal(ledger'))
SizesOf(files) == [i \in DOMAIN files |-> files[i].size]
SourceSizes(paths) ==
    LET order == SetToSeq(paths)
    IN  [i \in DOMAIN order |-> IF order[i] \in DOMAIN tree THEN tree[order[i]] ELSE Unavailable]
ManifestSizes == IF root.manifest = 0 THEN <<>> ELSE <<root.manifest>>

-----------------------------------------------------------------------------
CommandInit ==
    /\ phase = "over" /\ result = "none" /\ requested = FALSE
    /\ report = [by |-> "nobody"] /\ before = disk /\ fresh = NoInput
    /\ command = [verb |-> "none"]
    /\ ledger = NothingRead /\ catalog = <<>> /\ previous = <<>> /\ layout = Loaded(<<>>, ceiling)
    /\ sources = {} /\ input = NoInput /\ crates = <<>> /\ produced = <<>>
    /\ kits = <<>> /\ verdicts = <<>> /\ asked = {}
Forget ==
    /\ requested' = FALSE /\ before' = disk'
    /\ ledger' = NothingRead /\ catalog' = <<>> /\ previous' = <<>> /\ layout' = Loaded(<<>>, ceiling)
    /\ sources' = {} /\ input' = NoInput /\ crates' = <<>> /\ produced' = <<>>
    /\ kits' = <<>> /\ verdicts' = <<>> /\ asked' = {}

\* Between two commands the contracts and the sources may be edited.
Edit ==
    /\ phase = "over" /\ queue # <<>> /\ Head(queue).verb = "edit"
    /\ root' = [root EXCEPT !.files = Head(queue).files] /\ tree' = Head(queue).tree
    /\ command' = Head(queue) /\ queue' = Tail(queue)
    /\ result' = "none"
    /\ UNCHANGED <<stored, report, limits, ceiling, fresh, phase>> /\ Forget

\* Paths that overlap are refused before anything is read.
Begin ==
    /\ phase = "over" /\ queue # <<>> /\ Head(queue).verb # "edit"
    /\ command' = Head(queue) /\ queue' = Tail(queue)
    /\ IF command'.disjoint THEN phase' = "contracts" /\ result' = "none" ELSE Stop("overlap")
    /\ UNCHANGED <<disk, tree, limits, ceiling, fresh>> /\ Forget

\* read_with_budget; generate looks for an interrupted update first, and takes a root
\* that is not there for an empty one.
ReadContracts ==
    /\ Runs("contracts")
    /\ IF ~root.present /\ command.verb # "generate" THEN Stop("io") /\ UNCHANGED <<catalog, ledger>>
       ELSE /\ catalog' = root.files
            /\ Spend((IF command.verb = "generate" THEN ManifestSizes ELSE <<>>) \o SizesOf(root.files),
                     IF command.verb \in {"check", "generate"} THEN "layout" ELSE "validate")
    /\ UNCHANGED <<disk, previous, layout, extracted, produced, answers>>

-----------------------------------------------------------------------------
(* Check and generate: layout, sources, extraction *)

Call ==
    [extractor |-> command.extractor, use |-> IF command.verb = "check" THEN "check" ELSE "generation",
     fresh |-> IsEmpty(layout), layout |-> layout.extraction, explicit |-> command.explicit]
Establishing == command.verb = "generate" /\ IsEmpty(layout)
SketchesOnly == command.subject = "sketches"

CheckedLater(loaded) ==
    IF loaded.error # "none" THEN "layout"
    ELSE IF command.verb = "check" /\ IsEmpty(loaded) THEN "empty"
    ELSE IF ~SketchesOnly /\ loaded.extraction = Conflict THEN "conflict"
    ELSE IF command.verb = "generate" /\ SketchesOnly /\ IsEmpty(loaded) THEN "empty"
    ELSE "none"
\* What stops a command once its layout is loaded.  A check of sketches does not ask
\* for the extraction; their generation does, and cannot make a compiler artifact.
Unusable(loaded) ==
    IF loaded.error # "none" THEN "layout"
    ELSE IF command.verb = "check" /\ IsEmpty(loaded) THEN "empty"
    ELSE IF (command.verb = "generate" \/ ~SketchesOnly) /\ loaded.extraction = Conflict THEN "conflict"
    ELSE IF command.verb = "generate" /\ SketchesOnly /\ loaded.extraction.kind = "compiler" THEN "refused"
    ELSE IF command.verb = "generate" /\ SketchesOnly /\ IsEmpty(loaded) THEN "empty"
    ELSE "none"

LoadLayout ==
    /\ Runs("layout")
    /\ layout' = Loaded(catalog, ceiling)
    /\ LET error == Unusable(layout') IN
       IF error # "none" THEN Stop(error)
       ELSE Pass(command.verb = "generate" /\ ~SketchesOnly => RootsAllowed(Call'), "sources", "refused")
    /\ UNCHANGED <<disk, ledger, catalog, previous, extracted, produced, answers>>

\* read_selected_with_budget of what the documents list, or read_rust_sources_with_budget
\* for a fresh layout.
ReadSources ==
    /\ Runs("sources")
    /\ sources' = IF IsEmpty(layout) THEN {p \in DOMAIN tree : p.rust} ELSE layout.sources
    /\ Spend(SourceSizes(sources'), IF SketchesOnly THEN "ask" ELSE "extraction")
    /\ input' = IF SketchesOnly THEN SyntaxInput ELSE input
    /\ kits' = IF command.subject = "signatures" THEN <<"signature">>
               ELSE IF command.subject = "all" THEN <<"signature", "sketch">>
               ELSE IF command.verb = "generate" THEN <<"resolve", "sketch">>
               ELSE <<"sketch">>
    /\ UNCHANGED <<disk, contracts, crates, produced, verdicts, asked>>

\* ExtractionDecision::acquire without the compiler.
AcquireSyntax ==
    /\ Runs("extraction")
    /\ \/ /\ Decision(Call) = "refused" /\ Stop("refused") /\ UNCHANGED <<input, crates>>
       \/ /\ Decision(Call) = "syntax"
          /\ input' = SyntaxInput /\ crates' = IF Establishing THEN command.explicit ELSE <<>>
          /\ Move(IF Establishing THEN "target" ELSE "ask")
    /\ UNCHANGED <<disk, ledger, contracts, sources, produced, answers>>

\* The artifact is for the crate that was expected; the sources are read once more.
Produced(artifact) ==
    /\ artifact.crates[1].root \in sources
    /\ ~Inferring(Call) => artifact.crates = ExpectedCrates(Call)
AcquireArtifact ==
    /\ Runs("extraction") /\ Decision(Call) \in {"validate", "establish"}
    /\ \/ ~CrateCountIsRight(Call) /\ Stop("crates") /\ UNCHANGED <<ledger, input, crates>>
       \/ CrateCountIsRight(Call) /\ Stop("compiler") /\ UNCHANGED <<ledger, input, crates>>
       \/ /\ CrateCountIsRight(Call)
          /\ \E artifact \in Artifacts :
               /\ Produced(artifact)
               /\ input' = [kind |-> "compiler", artifact |-> artifact]
               /\ crates' = IF Establishing THEN artifact.crates ELSE <<>>
               /\ IF Establishing THEN Spend(SourceSizes(sources), "target")
                  ELSE IF ContextAgrees(layout.extraction, artifact) THEN Spend(SourceSizes(sources), "ask")
                  ELSE /\ ledger' = ChargeAll(ledger, SourceSizes(sources))
                       /\ Stop(IF ledger'.stopped = "none" THEN "context" ELSE Refusal(ledger'))
    /\ UNCHANGED <<disk, contracts, sources, produced, answers>>

\* ContractLayout::validate_or_infer_crates.
Inferred == {p \in sources : p \in Conventional}
SelectCrates ==
    /\ Runs("target")
    /\ IF crates # <<>>
         THEN /\ Pass(\A i \in DOMAIN crates : crates[i].root.rust /\ crates[i].root \in sources, "ask", "crate_root")
              /\ UNCHANGED crates
         ELSE /\ crates' = IF Cardinality(Inferred) = 1
                             THEN LET p == CHOOSE p \in Inferred : TRUE IN <<[id |-> p.name, root |-> p]>>
                             ELSE <<>>
              /\ Pass(Cardinality(Inferred) = 1, "ask", "crate_root")
    /\ UNCHANGED <<disk, ledger, contracts, sources, input, produced, answers>>

-----------------------------------------------------------------------------
(* Archive and diff: one YAML budget, one wire format *)

ValidateContracts ==
    /\ Runs("validate")
    /\ Pass(Validate(Unread(ceiling), catalog).error = "none",
            IF command.verb = "archive" THEN "encode" ELSE "decode", "layout")
    /\ UNCHANGED <<disk, ledger, contracts, extracted, produced, answers>>

\* ArchivePayload::validate_limits and the two bounded outputs.
FitsWire(files, packing) ==
    /\ Len(files) <= Wire.entries /\ \A f \in ToSet(files) : f.size <= Wire.file
    /\ packing.expanded <= Wire.expanded /\ packing.compressed <= Wire.compressed

Encode ==
    /\ Runs("encode")
    /\ \E packing \in Packings :
         /\ produced' = <<[kind |-> "archive", files |-> catalog, packing |-> packing,
                           sound |-> TRUE, clean |-> TRUE]>>
         /\ Pass(FitsWire(catalog, packing), "commit", "wire")
    /\ UNCHANGED <<disk, ledger, contracts, extracted, answers>>

\* ArchivePayload::decode_gzip: an archive is sound if it is gzip with nothing after
\* it, JSON and of the version.
Decodes(archived) == archived.sound /\ FitsWire(archived.files, archived.packing)

\* ArchiveSource::decode_contracts: the compressed file and then its entries are
\* charged on the ledger that has read the contracts.  The archive
\* is clean if its paths are portable and distinct.
Decode ==
    /\ Runs("decode")
    /\ IF stored = NoArchive THEN Stop("io") /\ UNCHANGED <<ledger, previous>>
       ELSE IF stored.packing.compressed > Wire.compressed THEN Stop("archive") /\ UNCHANGED <<ledger, previous>>
       ELSE LET opened == Charge(ledger, stored.packing.compressed)
                entries == ChargeAll(opened, SizesOf(stored.files)) IN
            \/ opened.stopped # "none" /\ ledger' = opened /\ Stop("limit") /\ UNCHANGED previous
            \/ /\ opened.stopped = "none" /\ ~Decodes(stored)
               /\ ledger' = opened /\ Stop("archive") /\ UNCHANGED previous
            \/ /\ opened.stopped = "none" /\ Decodes(stored)
               /\ ledger' = entries
               /\ \/ entries.stopped # "none" /\ Stop("limit") /\ UNCHANGED previous
                  \/ ~stored.clean /\ Stop("archive") /\ UNCHANGED previous
                  \/ entries.stopped = "none" /\ stored.clean /\ previous' = stored.files /\ Move("revalidate")
    /\ UNCHANGED <<disk, catalog, layout, extracted, produced, answers>>

ValidatePrevious ==
    /\ Runs("revalidate")
    /\ Pass(Validate(Validate(Unread(ceiling), catalog), previous).error = "none", "ask", "layout")
    /\ kits' = <<"signature", "sketch">>
    /\ UNCHANGED <<disk, ledger, contracts, extracted, produced, verdicts, asked>>

-----------------------------------------------------------------------------
(* The kits, and the disk *)

\* ContractLayout::new_signature_generation, as the signature kit writes it.
FreshDocument ==
    [null |-> FALSE, decodes |-> TRUE, version |-> 2, root |-> "relative", binds |-> TRUE, complete |-> TRUE,
     listed |-> SetToSeq(sources), signatures |-> 1,
     extraction |-> IF input.kind = "compiler"
                      THEN [kind |-> "compiler", crates |-> crates, context |-> input.artifact.context]
                      ELSE [kind |-> "syntax", crates |-> crates]]
FreshFile ==
    [path |-> FreshName, direct |-> TRUE, size |-> 1, utf8 |-> TRUE, sound |-> TRUE,
     raw |-> [r \in Resources |-> IF r = "aliases" THEN 0 ELSE 1], replay |-> [r \in Replayed |-> 0],
     documents |-> <<FreshDocument>>]

\* The documents that a kit is given.
Handed ==
    IF command.verb = "diff" THEN <<catalog, previous>>
    ELSE IF Establishing THEN <<FreshFile>> ELSE layout.files
Ask ==
    /\ Runs("ask")
    /\ asked' = asked \cup {[kit |-> Head(kits), documents |-> Handed, sources |-> sources, input |-> input]}
    /\ kits' = Tail(kits)
    /\ \/ Stop("kit") /\ UNCHANGED <<verdicts, produced>>
       \/ /\ Establishing => HeaderIsSound(FreshDocument)
          /\ \E verdict \in IF command.verb = "check" THEN BOOLEAN ELSE {TRUE} :
               verdicts' = Append(verdicts, verdict)
          /\ produced' = IF command.verb = "generate" THEN Handed ELSE produced
          /\ Move(IF Len(kits) > 1 THEN "ask" ELSE IF command.verb = "diff" THEN "print" ELSE "commit")
    /\ UNCHANGED <<disk, ledger, contracts, extracted>>

Passed == \A i \in DOMAIN verdicts : verdicts[i]

\* The report is replaced whatever the verdict.
CommitReport ==
    /\ Runs("commit") /\ command.verb = "check"
    /\ \/ Stop("report") /\ UNCHANGED report
       \/ report' = [by |-> command, passed |-> Passed] /\ Pass(Passed, "print", "failed")
    /\ UNCHANGED <<root, stored, ledger, contracts, extracted, produced, answers>>

\* write_generated_with_budget: the manifest, the contracts and every output that is
\* there are read again; whatever else can go wrong leaves the contracts as they were.
Replaced(file) == CHOOSE f \in ToSet(produced) : f.path = file.path
Merged ==
    IF Establishing THEN Append(root.files, produced[1])
    ELSE [i \in DOMAIN root.files |-> IF root.files[i].direct THEN Replaced(root.files[i]) ELSE root.files[i]]
Outputs == IF Establishing THEN <<0>> ELSE SizesOf(layout.files)
CommitGenerated ==
    /\ phase = "commit" /\ command.verb = "generate" /\ ~requested
    /\ ledger' = ChargeAll(ledger, ManifestSizes \o SizesOf(root.files) \o Outputs)
    /\ \/ Stop(IF ledger'.stopped = "none" THEN "publication" ELSE Refusal(ledger')) /\ UNCHANGED <<root, fresh>>
       \/ /\ ledger'.stopped = "none" /\ Move("print")
          /\ root' = [present |-> TRUE, files |-> Merged, manifest |-> 1]
          /\ fresh' = IF Establishing THEN [kind |-> "fresh", by |-> command, root |-> root'] ELSE fresh
    /\ UNCHANGED <<stored, report, tree, limits, ceiling, queue, command, before, requested, contracts,
                   extracted, produced, answers>>

\* ArchiveDestination::publish makes a new archive.
CommitArchive ==
    /\ Runs("commit") /\ command.verb = "archive"
    /\ \/ Stop("publication") /\ UNCHANGED stored
       \/ stored' = produced[1] /\ Move("print")
    /\ UNCHANGED <<root, report, ledger, contracts, extracted, produced, answers>>

\* A summary is printed when the command has done its work; only a diff can still
\* be canceled.
PrintSummary ==
    /\ phase = "print" /\ (command.verb = "diff" => ~requested)
    /\ Stop("passed") \/ Stop("print")
    /\ UNCHANGED <<disk, world, requested, ledger, contracts, extracted, produced, answers>>

RequestStop ==
    /\ phase # "over" /\ ~requested /\ requested' = TRUE
    /\ UNCHANGED <<disk, world, phase, result, ledger, contracts, extracted, produced, answers>>
GiveUp ==
    /\ requested /\ phase # "over" /\ (phase = "print" => command.verb = "diff")
    /\ Stop("canceled")
    /\ UNCHANGED <<disk, world, requested, ledger, contracts, extracted, produced, answers>>

CommandNext ==
    \/ Edit \/ Begin \/ ReadContracts \/ LoadLayout \/ ReadSources \/ AcquireSyntax \/ AcquireArtifact
    \/ SelectCrates \/ ValidateContracts \/ Encode \/ Decode \/ ValidatePrevious \/ Ask
    \/ CommitReport \/ CommitGenerated \/ CommitArchive \/ PrintSummary \/ RequestStop \/ GiveUp

-----------------------------------------------------------------------------
\* A kit is asked about exactly the documents that lay in the contracts root when the
\* command began (or the one it is about to establish) and the sources these list, and
\* only if what they declare of the extraction is what the kit is given: no conflict
\* between two documents, or between a document and the command line, gets this far.
\* Only a check of sketches, which extracts nothing, is spared the comparison.
DocumentsAsked(a) == IF command.verb = "diff" THEN DocumentsOf(a.documents[1] \o a.documents[2])
                     ELSE DocumentsOf(a.documents)
Agrees(extraction, given) ==
    \/ extraction.kind = "none"
    \/ extraction.kind = "syntax" /\ given.kind = "syntax"
    \/ /\ extraction.kind = "compiler" /\ given.kind = "compiler"
       /\ extraction.context = given.artifact.context /\ extraction.crates = given.artifact.crates
KitsAreToldTheTruth ==
    \A a \in asked :
        LET listed == UNION {ToSet(d.listed) : d \in ToSet(DocumentsAsked(a))} IN
        /\ command.verb = "diff" => a.documents = <<before[1].files, before[2].files>>
        /\ command.verb # "diff" =>
              /\ a.documents = DirectFiles(before[1].files) \/ Establishing
              /\ a.sources = listed /\ listed \subseteq DOMAIN tree
              /\ \/ command.verb = "check" /\ a.kit = "sketch"
                 \/ \A d \in ToSet(DocumentsAsked(a)) : Agrees(d.extraction, a.input)

\* One ledger pays for everything a command reads, however often: a command that goes
\* as far as printing has spent exactly that and is within the limits, and one that is
\* stopped by a limit would have exceeded it.
ReadingList ==
    LET contractSizes == SizesOf(before[1].files)
        manifest == IF before[1].manifest = 0 THEN <<>> ELSE <<before[1].manifest>>
        extraction == IF input.kind = "compiler" THEN SourceSizes(sources) ELSE <<>>
    IN  IF command.verb = "check" THEN contractSizes \o SourceSizes(sources) \o extraction
        ELSE IF command.verb = "generate"
               THEN manifest \o contractSizes \o SourceSizes(sources) \o extraction
                    \o manifest \o contractSizes \o Outputs
        ELSE IF command.verb = "archive" THEN contractSizes
        ELSE contractSizes \o (IF stored = NoArchive THEN <<>>
                               ELSE <<stored.packing.compressed>> \o SizesOf(stored.files))
\* A file that is not there is counted as an entry without bytes.
Sum(sizes) == FoldLeft(LAMBDA sum, size : IF size = Unavailable THEN sum ELSE sum + size, 0, sizes)
Affordable(sizes) ==
    Len(sizes) <= limits.entries /\ Sum(sizes) <= limits.total /\ \A size \in ToSet(sizes) : size <= limits.file
LedgerIsExact ==
    /\ (phase = "print" \/ result \in {"passed", "failed"}) =>
          Affordable(ReadingList) /\ ledger.total = Sum(ReadingList) /\ ledger.entries = Len(ReadingList)
    /\ result = "limit" => ~Affordable(ReadingList)

\* Nothing on the disk changes before a command has all its answers, and a command that
\* does not say that it passed or failed has changed nothing, unless only its summary
\* was lost; a report tells the verdicts of the very check that left it.
DiskIsTouchedLast ==
    /\ phase \in {"over", "print"} \/ disk = before
    /\ phase = "over" /\ result \notin {"passed", "failed", "print"} => disk = before
    /\ command.verb = "check" => root = before[1] /\ stored = before[2]
    /\ command.verb = "check" /\ result \in {"passed", "failed"} =>
          report = [by |-> command, passed |-> result = "passed"]
    /\ command.verb = "check" /\ result = "passed" => FALSE \notin ToSet(verdicts) /\ verdicts # <<>>

SourcesStand == \A d \in ToSet(DocumentsOf(DirectFiles(root.files))) : ToSet(d.listed) \subseteq DOMAIN tree
Refusals == {"empty", "conflict", "refused", "crates", "sources"}
\* What generate establishes, a check with the same extractor accepts as it is; and what
\* archive has written, diff decodes, unless both sides exceed a budget together.
LaterCommandsAgree ==
    /\ /\ command.verb = "check" /\ fresh.kind = "fresh" /\ before[1] = fresh.root
       /\ command.extractor = fresh.by.extractor /\ SourcesStand
       => result \notin Refusals
    /\ command.verb = "diff" /\ stored.kind = "archive" =>
          /\ result # "archive"
          /\ stored.files = root.files /\ result = "layout" =>
                \E r \in Resources : 2 * Total(DirectFiles(root.files), r) > ceiling[r]

\* A command says what is true of the disk and of the others: its layout is what its
\* documents declare together; the kits are asked about what lay in the contracts root
\* and nothing that contradicts it; every byte read is paid for once, on one ledger; the
\* disk is touched last and only by a command that says so; and the commands after it
\* accept what it left.
CommandIsExact ==
    /\ CommandTypeOK
    /\ layout.error # "none" \/ layout.files # <<>> => LoadIsExact(catalog, ceiling, layout)
    /\ KitsAreToldTheTruth /\ LedgerIsExact /\ DiskIsTouchedLast /\ LaterCommandsAgree
=============================================================================

-------------------------- MODULE SignatureOperation --------------------------
(***************************************************************************)
(* An operation of the signature kit: it reads the contract documents,     *)
(* projects the source that a document names and answers from both         *)
(* (parser/mod.rs, parser/backend/syntax.rs).  The bounds on signatures    *)
(* and items are shared by the documents and the source.                   *)
(*                                                                         *)
(* One document with an extraction is projected here; operations on        *)
(* several are given their projections from the start.                     *)
(***************************************************************************)
EXTENDS InventoryCollection, DocumentRefresh

operation == <<request, sources, reading, stage, comparing, refreshing>>
source == <<graph, resolution, collection>>

OperationInit == GraphInit /\ CollectionInit

\* The document whose source is wanted, if the operation has come to one.
Wanted ==
    CASE stage = "reading" /\ request.command = "create" /\ LayoutError(request.layout) = "none" ->
             {request.layout}
      [] stage = "extracted" -> ToSet(Extracted(read[1]))
      [] stage = "refreshing" -> ToSet(SubSeq(read[1], Len(proposals) + 1, Len(read[1])))
      [] stage = "seeding" -> {d \in ToSet(read[1]) : Linked(d) # <<>>}
      [] OTHER -> {}
Awaited == {d \in Wanted : d.mode # "none" /\ d.at \notin DOMAIN sources}

ModuleOf(item) == [crate |-> item.crate, path |-> item.path]

Unshared == [bounds EXCEPT !.items = request.bounds.items, !.signatures = request.bounds.signatures]

\* What the documents leave of the bounds of an operation.
Remaining ==
    [bounds EXCEPT !.items = request.bounds.items - counted.items,
                   !.signatures = request.bounds.signatures - counted.signatures]

\* RustSketchDocumentPlan::new_syntax, to_rust_extraction and the shared usage:
\* seeds need the modules of linked signatures, anything else the complete graph.
TakeUp ==
    /\ phase = "waiting" /\ \E document \in Awaited :
          extraction' = [files |-> document.files, complete |-> request.command # "resolve",
                         crates |-> SelectSeq(extraction.crates, LAMBDA c : c.id \in document.crates),
                         required |-> IF request.command = "resolve"
                                        THEN {ModuleOf(Primary(s).item) : s \in ToSet(Linked(document))}
                                        ELSE {}]
    /\ bounds' = Remaining
    /\ phase' = "extraction"
    /\ UNCHANGED <<catalog, walk, resolution, collection, operation>>

IdentityOf(id) ==
    Identified([crate |-> id.module.crate, path |-> id.module.path, kind |-> id.kind,
                name |-> id.name], id.occurrence)

\* RustParsedProjection as the inventories, labels and seeds see it.
Projected ==
    [id \in {IdentityOf(i) : i \in DOMAIN projection} |->
        LET value == projection[CHOOSE i \in DOMAIN projection : IdentityOf(i) = id]
        IN  [file |-> value.origin.file, exact |-> TRUE,
             shape |-> <<value.descriptor, value.members>>]]

\* The projection, or the error that ended it; conditional modules are warnings.
Deliver ==
    /\ phase \notin {"waiting", "built", "collecting", "delivered"} \cup Unfinished
    /\ \E document \in Awaited :
          IF phase = "projected"
            THEN /\ sources' = sources @@ (document.at :> Projected)
                 /\ request' = [request EXCEPT !.warnings = Cardinality(conditional)]
                 /\ phase' = "delivered" /\ UNCHANGED stage
            ELSE stage' = phase /\ UNCHANGED <<sources, request, phase>>
    /\ UNCHANGED <<extraction, catalog, bounds, walk, resolution, collection, reading, comparing,
                   refreshing>>

ProjectSource ==
    \/ GraphNext /\ UNCHANGED <<resolution, collection>>
    \/ CollectionStep \/ CancelCollection
AnswerRequest ==
    \/ (ReadingStep \/ CancelReading) /\ UNCHANGED <<sources, comparing, refreshing>>
    \/ (ComparisonStep \/ CancelComparison) /\ UNCHANGED refreshing
    \/ RefreshStep \/ CancelRefresh

OperationNext ==
    \/ ProjectSource /\ UNCHANGED operation
    \/ phase \in {"waiting", "delivered"} /\ AnswerRequest /\ UNCHANGED source
    \/ TakeUp \/ Deliver

-----------------------------------------------------------------------------
\* What the modules declare, in the identities of the contract language.
DeclaredHere ==
    LET owners == Owners
        declared == {p \in SourceItems : Declares(ItemAt(p))}
        item(p) == [crate |-> p[1].crate, path |-> p[1].path, kind |-> ItemAt(p).kind, name |-> ItemAt(p).name]
        owned(p) == [crate |-> owners[p].id.crate, path |-> owners[p].id.path, kind |-> "impl",
                     name |-> owners[p].name]
    IN  [plain |-> {item(p) : p \in declared},
         impls |-> {<<owned(p), ItemAt(p).descriptor>> : p \in Impls}]

StatedHere ==
    LET stated == UNION {UNION {ToSet(s.entries) : s \in ToSet(d.signatures)} : d \in ToSet(read[1])}
    IN  [plain |-> {e.id.item : e \in {e \in stated : e.id.item.kind # "impl"}},
         impls |-> {<<e.id.item, e.shape[1]>> : e \in {e \in stated : e.id.item.kind = "impl"}}]

DeclaredIn(item, file) ==
    \E p \in SourceItems :
        /\ OriginOf(p).file = file
        /\ item = [crate |-> p[1].crate, path |-> p[1].path, kind |-> ItemAt(p).kind, name |-> ItemAt(p).name]

\* An operation is exact end to end.  A check is exact about what was projected,
\* and when it passes without being told to, the contract states every
\* declaration of the source tree and every implementation by owner and
\* descriptor, however they are spread over files, and no other.  A seed is from
\* the file that declares its item.  What the documents and the source declare
\* together is within the bounds.
\* (SignatureParser::parse_check_inventories, SyntaxBackend)
OperationIsExact ==
    /\ ComparisonIsExact
    /\ phase = "delivered" =>
          /\ counted.signatures + signatures <= request.bounds.signatures
          /\ counted.items + items <= request.bounds.items
          /\ stage = "checked" /\ request.mode # "warning" /\ result.passed =>
                StatedHere = DeclaredHere
          /\ stage \in {"seeded", "generated"} =>
                \A seed \in ToSet(seeds) : DeclaredIn(seed.id.item, seed.file)
=============================================================================

--------------------------- MODULE DocumentRefresh ---------------------------
(***************************************************************************)
(* Writing contract documents: a new document is rendered from the source, *)
(* an existing one is refreshed in place, and linked sketches are given    *)
(* their source text (yaml/render/proposal.rs, output.rs, lossless.rs and  *)
(* yaml/sketch.rs).                                                        *)
(*                                                                         *)
(* The text of a document is a sequence of cells, one per signature: what  *)
(* the cell says, and the entry of the original text it is a verbatim copy *)
(* of, or 0.  Only block style is modelled.  A label is the sequence of    *)
(* its words; Words tells those of a name once it is sanitized, so names   *)
(* that differ may be labelled alike.  The YAML editor is external: it     *)
(* may lose an entry.                                                      *)
(***************************************************************************)
EXTENDS SignatureInventory, TLC

CONSTANT Words      \* the words of a sanitized name

VARIABLES
    proposals,      \* documents that have been refreshed: [was, now]
    seeds,          \* sketches with their source text
    written         \* documents as they are returned: [at, cells, sketches, intact]

refreshing == <<proposals, seeds, written>>

RefreshInit == InventoryInit /\ proposals = <<>> /\ seeds = <<>> /\ written = <<>>

-----------------------------------------------------------------------------
(* Groups and labels. *)

Groups(projection) ==
    SetToSortSeq({id \in DOMAIN projection : id.item.kind # "impl"}, IdBefore)
Implementations(projection, id) ==
    SetToSortSeq({i \in DOMAIN projection : i.item.kind = "impl" /\
                      id = Identified([i.item EXCEPT !.kind = "type"], 1)}, IdBefore)

Base(item) == Append(Words[item.name], item.kind)
Qualified(item) ==
    Words[item.crate] \o FlattenSeq([k \in DOMAIN item.path |-> Words[item.path[k]]]) \o Base(item)

\* RustYamlLabelPlanner::allocate
Allocate(used, item) ==
    LET numbered(n) == Append(Qualified(item), ToString(n))
        free == {n \in 2..(Cardinality(used) + 2) : numbered(n) \notin used}
    IN
    CASE Base(item) \notin used -> Base(item)
      [] Base(item) \in used /\ Qualified(item) \notin used -> Qualified(item)
      [] OTHER -> numbered(CHOOSE n \in free : \A m \in free : n <= m)

PlanAfresh(ids, retained) ==
    LET plan(planned, id) ==
            planned @@ (id :> Allocate({planned[i] : i \in DOMAIN planned}, id.item))
    IN  FoldLeft(plan, <<>>, ids)

\* RustYamlLabelPlanner::plan: known identities keep their labels.
PlanLabels(ids, retained) ==
    LET kept == {retained[id] : id \in DOMAIN retained}
        plan(planned, id) ==
            IF id \in DOMAIN retained THEN planned @@ (id :> retained[id])
            ELSE planned @@ (id :> Allocate(kept \cup {planned[i] : i \in DOMAIN planned}, id.item))
    IN  FoldLeft(plan, <<>>, ids)

ById(document) ==
    [id \in {Primary(s) : s \in ToSet(document.signatures)} |->
        CHOOSE s \in ToSet(document.signatures) : Primary(s) = id]

\* RustYamlGeneratedDocument::generated_signature
GeneratedSignature(projection, id, label, sketch) ==
    LET ids == <<id>> \o Implementations(projection, id)
    IN  [label |-> label, crate |-> id.item.crate, file |-> projection[id].file, sketch |-> sketch,
         entries |-> [k \in DOMAIN ids |-> [id |-> ids[k], shape |-> projection[ids[k]].shape]]]

\* refreshed_existing, once nothing refuses it
Refreshed(document, projection) ==
    LET ids == Groups(projection)
        known == ById(document)
        labels == PlanLabels(ids, [id \in DOMAIN known |-> known[id].label])
        stale == {known[id].sketch : id \in DOMAIN known \ ToSet(ids)}
        sketch(id) == IF id \in DOMAIN known THEN known[id].sketch ELSE ""
    IN  [document EXCEPT
            !.signatures = [k \in DOMAIN ids |->
                GeneratedSignature(projection, ids[k], labels[ids[k]], sketch(ids[k]))],
            !.sketches = SelectSeq(@, LAMBDA s : s.id \notin stale)]

Orphaned(document, projection) ==
    \E s \in ToSet(document.signatures) : s.sketch # "" /\ Primary(s) \notin DOMAIN projection

\* RustSketchSeeds::append_document
Linked(document) == SelectSeq(document.signatures, LAMBDA s : s.sketch # "")
SeedError(document, projection) ==
    LET error(s) ==
            CASE Primary(s) \notin DOMAIN projection -> "absent"
              [] projection[Primary(s)].file # s.file -> "moved"
              [] ~projection[Primary(s)].exact -> "not_exact"
              [] OTHER -> "none"
    IN  FirstOf([k \in DOMAIN Linked(document) |-> error(Linked(document)[k])])
Seeds(document) ==
    [k \in DOMAIN Linked(document) |->
        [at |-> document.at, sketch |-> Linked(document)[k].sketch, file |-> Linked(document)[k].file,
         id |-> Primary(Linked(document)[k])]]

-----------------------------------------------------------------------------
(* Text. *)

\* RustYamlRenderedSignature::from_group
Rendered(signature) ==
    LET id == Primary(signature)
        blocks == Tail(signature.entries)
    IN  [label |-> signature.label, crate |-> signature.crate, path |-> id.item.path,
         kind |-> id.item.kind, name |-> id.item.name, file |-> signature.file,
         sketch |-> signature.sketch, members |-> Head(signature.entries).shape[2],
         blocks |-> [k \in DOMAIN blocks |-> [descriptor |-> blocks[k].shape[1],
                                              members |-> blocks[k].shape[2]]]]

Fresh(signature) == [says |-> Rendered(signature), copy |-> 0]
FreshCells(document) == [k \in DOMAIN document.signatures |-> Fresh(document.signatures[k])]
Original(document) ==
    [k \in DOMAIN document.raw.signatures |-> [says |-> document.raw.signatures[k], copy |-> k]]

\* RustYamlDocument::render_eq: the order of signatures and sketches is not compared.
RenderEq(d, e) ==
    /\ d.root = e.root /\ d.files = e.files /\ d.mode = e.mode /\ d.crates = e.crates
    /\ ById(d) = ById(e) /\ ToSet(d.sketches) = ToSet(e.sketches)

\* collect_signature_edits and collect_signature_removal_edits
EditedCells(was, now) ==
    LET before == ById(was)
        after == ById(now)
        id(k) == Primary(was.signatures[k])
        retained == SetToSortSeq({k \in DOMAIN was.signatures : id(k) \in DOMAIN after}, <)
        kept(k) == IF before[id(k)] = after[id(k)] THEN Original(was)[k] ELSE Fresh(after[id(k)])
        added == SelectSeq(now.signatures, LAMBDA s : Primary(s) \notin DOMAIN before)
    IN
    CASE was.signatures = now.signatures -> Original(was)
      [] was.signatures # now.signatures /\ retained = <<>> -> FreshCells(now)
      [] OTHER -> [i \in DOMAIN retained |-> kept(retained[i])]
                      \o [i \in DOMAIN added |-> Fresh(added[i])]

\* The editor returns the text it is asked for, or loses one of its entries.
Text(proposal, cells, sketches, intact) ==
    [at |-> proposal.was.at, cells |-> cells, sketches |-> sketches, intact |-> intact]
Verbatim(proposal) == Text(proposal, Original(proposal.was), proposal.was.sketches, TRUE)
Intact(proposal) ==
    Text(proposal, EditedCells(proposal.was, proposal.now), proposal.now.sketches, TRUE)
Returned(proposal) ==
    LET intact == Intact(proposal)
    IN  {intact} \cup {[intact EXCEPT !.cells = RemoveAt(@, k), !.intact = FALSE] :
                          k \in DOMAIN intact.cells}

\* What a returned text says.
Says(document, text) ==
    [document.raw EXCEPT !.signatures = [k \in DOMAIN text.cells |-> text.cells[k].says],
                         !.sketches = text.sketches]

\* The reparse of RustYamlLosslessEditor::apply, on the documents of a file.
ReparseError(file, texts) ==
    LET error == FirstOf([k \in DOMAIN file |-> DocumentError(Says(file[k].was, texts[k]))])
    IN
    CASE error # "none" -> "edit_refused"
      [] \E k \in DOMAIN file :
            ~RenderEq(Document(file[k].was.at, Says(file[k].was, texts[k])), file[k].now)
                -> "semantic_mismatch"
      [] OTHER -> "none"

-----------------------------------------------------------------------------
Keep == UNCHANGED <<request, sources, reading, comparing>>

\* RustGenerationPlan::from_new_document and validate_compiler_mode
LayoutError(layout) ==
    CASE ~request.direct -> "not_direct"
      [] layout.root = "" -> "root"
      [] layout.files = {} -> "no_file"
      [] request.backend = "compiler" /\ Cardinality(layout.crates) # 1 -> "several_crates"
      [] request.backend = "compiler" /\ ~request.artifact -> "other_artifact"
      [] OTHER -> "none"

\* RustYamlRenderer::render, of a new document: the text is not read again.
CreateDocument ==
    /\ stage = "reading" /\ request.command = "create"
    /\ LayoutError(request.layout) = "none" => request.layout.at \in DOMAIN sources
    /\ LET layout == request.layout
           projection == sources[layout.at]
           ids == Groups(projection)
           labels == PlanLabels(ids, <<>>)
           new == [layout EXCEPT !.signatures = [k \in DOMAIN ids |->
                      GeneratedSignature(projection, ids[k], labels[ids[k]], "")]]
           proposal == [was |-> layout, now |-> new]
       IN  IF LayoutError(layout) # "none"
             THEN stage' = LayoutError(layout) /\ UNCHANGED <<proposals, written>>
             ELSE /\ proposals' = <<proposal>>
                  /\ written' = <<Text(proposal, FreshCells(new), <<>>, TRUE)>>
                  /\ stage' = "generated"
    /\ UNCHANGED seeds /\ Keep

BeginRefresh ==
    /\ stage = "read" /\ request.command = "generate" /\ Admit("refreshing")
    /\ UNCHANGED refreshing

\* refreshed_existing on the next document, and its seeds.
RefreshDocument ==
    /\ stage = "refreshing" /\ Len(proposals) < Len(read[1])
    /\ LET document == read[1][Len(proposals) + 1] IN
       document.mode # "none" => document.at \in DOMAIN sources
    /\ LET document == read[1][Len(proposals) + 1]
           projection == sources[document.at]
           now == Refreshed(document, projection)
           all == request.scope = "all"
           refuse(error) == stage' = error /\ UNCHANGED refreshing
       IN
       CASE document.mode = "none" -> refuse("no_extraction")
         [] document.mode # "none" /\ ~all /\ Orphaned(document, projection) -> refuse("orphan")
         [] document.mode # "none" /\ all /\ SeedError(now, projection) # "none" ->
                refuse(SeedError(now, projection))
         [] OTHER -> /\ proposals' = Append(proposals, [was |-> document, now |-> now])
                     /\ seeds' = IF all THEN seeds \o Seeds(now) ELSE seeds
                     /\ UNCHANGED <<written, stage>>
    /\ Keep

\* RustYamlOutput::render on the next file.
WriteFile ==
    /\ stage = "refreshing" /\ Len(proposals) = Len(read[1]) /\ Len(written) < Len(proposals)
    /\ LET name == proposals[Len(written) + 1].was.at[1]
           file == SelectSeq(proposals, LAMBDA p : p.was.at[1] = name)
           changed == {k \in DOMAIN file : ~RenderEq(file[k].was, file[k].now)}
       IN
       IF changed = {}
         THEN written' = written \o [k \in DOMAIN file |-> Verbatim(file[k])] /\ UNCHANGED stage
         ELSE \E k \in changed : \E text \in Returned(file[k]) :
                LET intact == [j \in DOMAIN file |-> IF j \in changed THEN Intact(file[j])
                                                                    ELSE Verbatim(file[j])]
                    texts == [intact EXCEPT ![k] = text]
                IN  IF ReparseError(file, texts) # "none"
                      THEN stage' = ReparseError(file, texts) /\ UNCHANGED written
                      ELSE written' = written \o texts /\ UNCHANGED stage
    /\ UNCHANGED <<proposals, seeds>> /\ Keep

\* RustYamlRenderer::finish
FinishRefresh ==
    /\ stage = "refreshing" /\ Len(written) = Len(read[1]) /\ Len(proposals) = Len(read[1])
    /\ stage' = "generated" /\ UNCHANGED refreshing /\ Keep

BeginSeeds ==
    /\ stage = "read" /\ request.command = "resolve" /\ Admit("seeding")
    /\ UNCHANGED refreshing

\* resolve_sketches on the next document that has links.
ResolveSeeds ==
    /\ stage = "seeding"
    /\ LET left == SelectSeq(read[1], LAMBDA d : Linked(d) # <<>> /\ \A s \in ToSet(seeds) : s.at # d.at)
           error == SeedError(left[1], sources[left[1].at])
       IN  IF left = <<>> THEN stage' = "seeded" /\ UNCHANGED seeds
           ELSE /\ left[1].at \in DOMAIN sources
                /\ IF error # "none" THEN stage' = error /\ UNCHANGED seeds
                                     ELSE seeds' = seeds \o Seeds(left[1]) /\ UNCHANGED stage
    /\ UNCHANGED <<proposals, written>> /\ Keep

CancelRefresh ==
    /\ stage \in {"refreshing", "seeding"} /\ stage' = "canceled"
    /\ UNCHANGED refreshing /\ Keep

RefreshStep ==
    CreateDocument \/ BeginRefresh \/ RefreshDocument \/ WriteFile \/ FinishRefresh
        \/ BeginSeeds \/ ResolveSeeds
-----------------------------------------------------------------------------
Reread(k) == Document(written[k].at, Says(proposals[k].was, written[k]))
Moved(was, now) ==
    \E s \in ToSet(was.signatures), t \in ToSet(now.signatures) :
        s.sketch # "" /\ Primary(s) = Primary(t) /\ s.file # t.file

\* What generation returns can be read again and passes a check against the same
\* source; signatures that survive keep their labels and links, sketches survive
\* with their signatures, and generating once more changes nothing.  Every link
\* has one seed, from the file it names.  With sketches preserved, nothing loses
\* its sketch.  (RustYamlRenderer, RustYamlLabelPlanner, RustSketchSeeds)
RefreshedContractHolds ==
    /\ stage = "generated" =>
        LET again == [k \in DOMAIN written |-> Reread(k)]
            findings == Compare(FromSources(again), FromDocuments(again))
        IN  /\ findings = <<>>
            /\ \A k \in DOMAIN again :
                  LET was == proposals[k].was
                      source == sources[was.at]
                      before == ById(was)
                      after == ById(again[k])
                      alive(sketch) == \E s \in ToSet(was.signatures) :
                                          s.sketch = sketch.id /\ Primary(s) \in DOMAIN source
                  IN  /\ DocumentError(Says(was, written[k])) = "none"
                      /\ \A id \in DOMAIN before \cap DOMAIN after :
                            /\ after[id].label = before[id].label
                            /\ after[id].sketch = before[id].sketch
                      /\ again[k].sketches = SelectSeq(was.sketches, alive)
                      /\ request.scope = "signatures" => again[k].sketches = was.sketches
                      /\ RenderEq(again[k], Refreshed(again[k], source))
                      /\ request.scope = "all" =>
                            {s \in ToSet(seeds) : s.at = was.at}
                                = {[at |-> was.at, sketch |-> s.sketch, file |-> s.file, id |-> Primary(s)] :
                                      s \in ToSet(Linked(again[k]))}
            /\ request.scope = "all" =>
                  Len(seeds) = Cardinality(DOMAIN SketchIds(again))
    /\ stage = "seeded" =>
          /\ Len(seeds) = Cardinality(DOMAIN SketchIds(read[1]))
          /\ \A s \in ToSet(seeds) : sources[s.at][s.id].file = s.file

\* An edited file keeps, verbatim and in their order, all entries whose signature
\* did not change, and a document that says what it should is not touched.  An
\* editor that lost something is always caught; one that did not is refused only
\* when a signature with a sketch moved to another file.
\* (RustYamlLosslessEditor::apply)
EditIsLossless ==
    /\ stage = "refreshing" => \A p \in ToSet(proposals) :
          LET raw == Says(p.was, Intact(p))
          IN  IF Moved(p.was, p.now) THEN DocumentError(raw) # "none"
              ELSE DocumentError(raw) = "none" /\ RenderEq(Document(p.was.at, raw), p.now)
    /\ \A k \in DOMAIN written :
          LET was == proposals[k].was
              cells == written[k].cells
              same == {i \in DOMAIN was.signatures :
                         was.signatures[i] \in ToSet(proposals[k].now.signatures)}
              copies == SelectSeq([i \in DOMAIN cells |-> cells[i].copy], LAMBDA c : c # 0)
          IN  /\ written[k].intact
              /\ copies = SetToSortSeq(same, <)
              /\ \A i \in DOMAIN cells : cells[i].copy # 0
                    => cells[i].says = was.raw.signatures[cells[i].copy]

\* A refresh keeps what it has no reason to change, and what it writes holds.
RefreshIsLossless == RefreshedContractHolds /\ EditIsLossless
=============================================================================

-------------------------- MODULE SignatureInventory --------------------------
(***************************************************************************)
(* Comparing signatures: the inventory of the source is checked against    *)
(* that of the contracts, or the inventories of two contract catalogs are  *)
(* diffed (inventory.rs, with the conversions of yaml/document.rs and      *)
(* parser/mod.rs and the response of api.rs).                              *)
(*                                                                         *)
(* A digest is modelled by what is digested: digests agree when that does. *)
(* The order of digests, which is that of a hash, is chosen by the step    *)
(* that sorts them.  A label is never spelled like an identity.            *)
(***************************************************************************)
EXTENDS ContractDocuments

VARIABLES
    sources,        \* document -> its projection: identity -> [file, shape, exact]
    inventories,    \* those of the source and of the contracts, or those diffed
    result          \* what the operation reports

comparing == <<inventories, result>>

InventoryInit == ContractsInit /\ inventories = <<>> /\ result = <<>>

Extracted(documents) == SelectSeq(documents, LAMBDA d : d.mode # "none")

\* validate_syntax_mode, compiler_document and validate_compiler_context
BackendError(documents) ==
    LET extracted == Extracted(documents)
        other == {k \in DOMAIN extracted : extracted[k].mode # request.backend}
        first == CHOOSE k \in other : \A j \in other : k <= j
    IN
    CASE request.backend = "syntax" /\ other # {} -> "other_mode"
      [] request.backend = "syntax" -> "none"
      [] other # {} /\ first <= 2 -> "other_mode"
      [] Len(extracted) > 1 -> "several_documents"
      [] extracted = <<>> -> "no_extraction_document"
      [] ~request.artifact -> "other_artifact"
      [] OTHER -> "none"

-----------------------------------------------------------------------------
(* Inventories.  An entry is known by its document and identity; it belongs *)
(* to a group, which is a label of a contract or an identity of the source. *)

NoId == Identified([crate |-> "", path |-> <<>>, kind |-> "", name |-> ""], 0)
Labelled(at, label) == [at |-> at, label |-> label, id |-> NoId]
Structural(at, id) == [at |-> at, label |-> <<>>, id |-> id]
Key(at, id) == [at |-> at, id |-> id]
NoContext == [extraction |-> <<>>, metadata |-> <<>>]

EmptyInventory == [entries |-> <<>>, groups |-> <<>>, error |-> "none"]

\* SignatureInventory::insert
Insert(inventory, key, entry) ==
    LET known == key \in DOMAIN inventory.entries
        old == inventory.entries[key]
        group == entry.group
        joined == IF group \in DOMAIN inventory.groups
                    THEN [inventory.groups[group] EXCEPT !.keys = @ \cup {key}]
                    ELSE [keys |-> {key}, context |-> NoContext]
    IN
    CASE inventory.error # "none" \/ (known /\ old = entry) -> inventory
      [] known /\ old # entry ->
            [inventory EXCEPT !.error = IF old.group # group THEN "duplicate_group"
                                                             ELSE "duplicate_mismatch"]
      [] OTHER ->
            [inventory EXCEPT
                !.entries = [k \in DOMAIN @ \cup {key} |-> IF k = key THEN entry ELSE @[k]],
                !.groups = [g \in DOMAIN @ \cup {group} |-> IF g = group THEN joined ELSE @[g]]]

\* set_group_context, of a group that has entries
SetContext(inventory, group, context) ==
    IF inventory.error # "none" THEN inventory
    ELSE IF inventory.groups[group].context \notin {NoContext, context}
      THEN [inventory EXCEPT !.error = "duplicate_mismatch"]
      ELSE [inventory EXCEPT !.groups[group].context = context]

Fold(S, op(_, _), start) == FoldFunction(op, start, [x \in S |-> x])

Merge(inventory, incoming) ==
    LET contexts == {g \in DOMAIN incoming.groups : incoming.groups[g].context # NoContext}
        insert(key, one) == Insert(one, key, incoming.entries[key])
        set(group, one) == SetContext(one, group, incoming.groups[group].context)
    IN
    CASE inventory.error # "none" -> inventory
      [] incoming.error # "none" -> incoming
      [] OTHER -> Fold(contexts, set, Fold(DOMAIN incoming.entries, insert, inventory))

MergeAll(all) == FoldLeft(Merge, EmptyInventory, all)

\* RustParsedProjection::into_inventory: implementations join the group of their owner.
SourceGroup(at, id) ==
    Structural(at, IF id.item.kind = "impl"
                     THEN Identified([id.item EXCEPT !.kind = "type"], 1) ELSE id)
FromProjection(at, projection) ==
    Fold(DOMAIN projection,
         LAMBDA id, one : Insert(one, Key(at, id), [group |-> SourceGroup(at, id),
                                                    shape |-> projection[id].shape]),
         EmptyInventory)

\* RustYamlDocumentContext::signature_context
Context(document, signature) ==
    [extraction |-> <<document.files, document.mode, document.crates, signature.crate>>,
     metadata |-> <<document.root, signature.sketch, Primary(signature).item.kind>>]

FromDocument(document) ==
    FoldLeft(LAMBDA one, signature :
                 LET group == Labelled(document.at, signature.label)
                     insert(some, entry) ==
                         Insert(some, Key(document.at, entry.id), [group |-> group, shape |-> entry.shape])
                 IN  SetContext(FoldLeft(insert, one, signature.entries), group,
                                Context(document, signature)),
             EmptyInventory, document.signatures)

FromDocuments(documents) == MergeAll([k \in DOMAIN documents |-> FromDocument(documents[k])])
FromSources(documents) ==
    LET extracted == Extracted(documents)
    IN  MergeAll([k \in DOMAIN extracted |-> FromProjection(extracted[k].at, sources[extracted[k].at])])

\* What a source shape digest and a contract digest are made of.
ShapeOf(inventory, group) ==
    {<<key.id, inventory.entries[key].shape>> : key \in inventory.groups[group].keys}
DigestOf(inventory, group) ==
    [shape |-> ShapeOf(inventory, group),
     extraction |-> inventory.groups[group].context.extraction,
     metadata |-> inventory.groups[group].context.metadata]

-----------------------------------------------------------------------------
(* compare_against: the source is compared with what the contracts expect. *)

Unmet(source, expected, group) ==
    {key \in expected.groups[group].keys :
        \/ key \notin DOMAIN source.entries
        \/ source.entries[key].shape # expected.entries[key].shape}

FirstKey(keys) == CHOOSE k \in keys : \A j \in keys : ~IdBefore(j.id, k.id)

\* The group of the contracts that an entry they lack would belong to.
PeerGroup(source, expected, key) ==
    LET group == source.entries[key].group
        peer == Key(group.at, group.id)
    IN  IF peer \in DOMAIN expected.entries THEN expected.entries[peer].group ELSE group

Finding(source, expected, group) ==
    LET unmet == IF group \in DOMAIN expected.groups THEN Unmet(source, expected, group) ELSE {}
    IN
    CASE unmet = {} -> [kind |-> "extra"]
      [] FirstKey(unmet) \notin DOMAIN source.entries -> [kind |-> "missing"]
      [] OTHER -> [kind |-> "mismatched", expected |-> ShapeOf(expected, group),
                   actual |-> ShapeOf(source, source.entries[FirstKey(unmet)].group)]

Compare(source, expected) ==
    LET unmet == {g \in DOMAIN expected.groups : Unmet(source, expected, g) # {}}
        extra == {PeerGroup(source, expected, key) :
                     key \in DOMAIN source.entries \ DOMAIN expected.entries}
    IN  [group \in unmet \cup extra |-> Finding(source, expected, group)]

\* CheckMode::passed
Passes(findings, warnings) ==
    CASE request.mode = "default" -> findings = <<>>
      [] request.mode = "strict" -> findings = <<>> /\ warnings = 0
      [] OTHER -> TRUE

-----------------------------------------------------------------------------
(* diff_against: the groups of each label, of all documents together. *)

Orders(S) == {SetToSeq(S), Reverse(SetToSeq(S))}
Rank(order, x) == CHOOSE k \in DOMAIN order : order[k] = x
Sorts(order, d, e) ==
    \/ Rank(order.shapes, d.shape) < Rank(order.shapes, e.shape)
    \/ d.shape = e.shape /\ Rank(order.contracts, d) < Rank(order.contracts, e)

DigestsAt(inventory, label, order) ==
    LET groups == {g \in DOMAIN inventory.groups : g.label = label}
        digests == [k \in 1..Cardinality(groups) |-> DigestOf(inventory, SetToSeq(groups)[k])]
    IN  SortSeq(digests, LAMBDA d, e : Sorts(order, d, e))

Digests(inventory) == {DigestOf(inventory, g) : g \in DOMAIN inventory.groups}
LabelsOf(inventory) == {g.label : g \in DOMAIN inventory.groups}
Times(sequence, x, upto) == Cardinality({k \in 1..upto : sequence[k] = x})

NotShared(own, other) == SelectSeq(own, LAMBDA d : d \notin ToSet(other))

\* What the merge of two sorted sequences leaves over of the first.
LeftOver(own, other) ==
    LET over == {k \in DOMAIN own : Times(own, own[k], k) > Times(other, own[k], Len(other))}
        at == SetToSortSeq(over, <)
    IN  [i \in DOMAIN at |-> own[at[i]]]

ChangedCategories(d, e) ==
    (IF d.shape # e.shape THEN {"source_semantics"} ELSE {})
        \cup (IF d.extraction # e.extraction THEN {"extraction_context"} ELSE {})
        \cup (IF d.metadata # e.metadata THEN {"document_metadata"} ELSE {})

WithShape(inventory, shape) ==
    {g \in DOMAIN inventory.groups : ShapeOf(inventory, g) = shape}

\* label_peers_absent_from: groups whose label the other inventory lacks for the shape.
LabelPeers(inventory, other) ==
    {g \in DOMAIN inventory.groups :
        g.label \notin {h.label : h \in WithShape(other, ShapeOf(inventory, g))}}

PeerFor(digest, peers, order) ==
    IF digest \in peers THEN digest
    ELSE CHOOSE d \in peers : d.shape = digest.shape /\
             \A e \in peers : e.shape = digest.shape
                 => Rank(order.contracts, d) <= Rank(order.contracts, e)

UnmatchedCategories(digest, own, other, order) ==
    LET peers == {DigestOf(other, g) : g \in LabelPeers(other, own)}
        alike == Cardinality(WithShape(own, digest.shape)) = Cardinality(WithShape(other, digest.shape))
    IN  IF alike /\ \E d \in peers : d.shape = digest.shape
          THEN ChangedCategories(digest, PeerFor(digest, peers, order)) \cup {"labels"}
          ELSE {"source_semantics"}

DiffEntry(kind, label, categories, digests) ==
    [kind |-> kind, label |-> label, categories |-> categories, digests |-> digests]

DiffAt(current, previous, label, order) ==
    LET now == DigestsAt(current, label, order)
        before == DigestsAt(previous, label, order)
        added == LeftOver(now, before)
        removed == LeftOver(before, now)
        shared == IF Len(added) < Len(removed) THEN Len(added) ELSE Len(removed)
        rest(list) == SubSeq(list, shared + 1, Len(list))
        only(kind, list, own, other) ==
            [k \in DOMAIN list |-> DiffEntry(kind, label,
                 UnmatchedCategories(list[k], own, other, order), <<>>)]
    IN  [k \in 1..shared |-> DiffEntry("changed", label, ChangedCategories(added[k], removed[k]),
                                       <<added[k], removed[k]>>)]
        \o only("added", rest(added), current, previous)
        \o only("removed", rest(removed), previous, current)

Diff(current, previous, order) ==
    LET labels == SetToSeq(LabelsOf(current) \cup LabelsOf(previous))
    IN  FlattenSeq([k \in DOMAIN labels |-> DiffAt(current, previous, labels[k], order)])

-----------------------------------------------------------------------------
Held(one, outcome) ==
    /\ stage' = IF one.error # "none" THEN one.error ELSE outcome
    /\ UNCHANGED <<request, sources, reading, result>>

Admit(outcome) ==
    /\ stage' = IF BackendError(read[1]) # "none" THEN BackendError(read[1]) ELSE outcome
    /\ UNCHANGED <<request, sources, reading, comparing>>

\* RustExtractionBackend::check up to the projections
BeginCheck == stage = "read" /\ request.command = "check" /\ Admit("extracted")

\* ParsedSignatureCheck::from_documents and from_compiler_documents
TakeInventories ==
    /\ stage = "extracted"
    /\ \A d \in ToSet(Extracted(read[1])) : d.at \in DOMAIN sources
    /\ LET source == FromSources(read[1])
           contract == FromDocuments(read[1])
       IN  /\ Held(IF source.error # "none" THEN source ELSE contract, "inventoried")
           /\ inventories' = <<source, contract>>

\* compare_against and from_inventory_comparison
FinishCheck ==
    /\ stage = "inventoried"
    /\ LET findings == Compare(inventories[1], inventories[2])
           count == Cardinality(DOMAIN findings) + request.warnings
       IN  IF count > request.bounds.diagnostics
             THEN stage' = "diagnostic_count" /\ UNCHANGED result
             ELSE /\ stage' = "checked"
                  /\ result' = [findings |-> findings, passed |-> Passes(findings, request.warnings)]
    /\ UNCHANGED <<request, sources, reading, inventories>>

\* SignatureParser::parse_contract_diff_inventories
TakeCatalogs ==
    /\ stage = "read" /\ request.command = "diff"
    /\ LET current == FromDocuments(read[1])
           previous == FromDocuments(read[2])
       IN  /\ Held(IF current.error # "none" THEN current ELSE previous, "catalogued")
           /\ inventories' = <<current, previous>>

FinishDiff ==
    /\ stage = "catalogued"
    /\ LET digests == Digests(inventories[1]) \cup Digests(inventories[2]) IN
       \E shapes \in Orders({d.shape : d \in digests}), contracts \in Orders(digests) :
          LET order == [shapes |-> shapes, contracts |-> contracts]
              entries == Diff(inventories[1], inventories[2], order)
          IN  IF Len(entries) > request.bounds.diagnostics
                THEN stage' = "diagnostic_count" /\ UNCHANGED result
                ELSE stage' = "diffed" /\ result' = entries
    /\ UNCHANGED <<request, sources, reading, inventories>>

CancelComparison ==
    /\ stage \in {"read", "extracted", "inventoried", "catalogued"} /\ stage' = "canceled"
    /\ UNCHANGED <<request, sources, reading, comparing>>

ComparisonStep ==
    BeginCheck \/ TakeInventories \/ FinishCheck \/ TakeCatalogs \/ FinishDiff
-----------------------------------------------------------------------------
(* What the answers should be, read off documents and sources at once. *)

Stated ==
    UNION {{[at |-> d.at, id |-> e.id, shape |-> e.shape] :
               e \in UNION {ToSet(s.entries) : s \in ToSet(d.signatures)}} : d \in ToSet(read[1])}
Actual ==
    UNION {{[at |-> d.at, id |-> id, shape |-> sources[d.at][id].shape] :
               id \in DOMAIN sources[d.at]} : d \in ToSet(Extracted(read[1]))}

OwnerOf(id) == SourceGroup("", id).id
Concerns(group, key) ==
    /\ group.at = key.at
    /\ IF group.id # NoId THEN OwnerOf(key.id) = group.id
       ELSE \E d \in ToSet(read[1]) : \E s \in ToSet(d.signatures) :
              d.at = group.at /\ s.label = group.label /\ Primary(s) = OwnerOf(key.id)

\* A check finds something exactly if an identity is only in the source, only in
\* a contract or differs; every difference is found at its signature, every
\* finding is about a difference, and the digests that it shows differ.  Documents
\* that were admitted always make an inventory.  Only the warning mode passes a
\* difference, only the strict one fails a warning.
\* (SignatureInventory::compare_against, CheckMode::passed)
ComparisonIsExact ==
    /\ stage \notin {"duplicate_group", "duplicate_mismatch"}
    /\ stage = "checked" =>
        LET differing == (Stated \ Actual) \cup (Actual \ Stated)
            found == result.findings
        IN  /\ \A key \in differing : \E g \in DOMAIN found : Concerns(g, key)
            /\ \A g \in DOMAIN found :
                  /\ \E key \in differing : Concerns(g, key)
                  /\ found[g].kind = "mismatched" => found[g].expected # found[g].actual
            /\ result.passed = \/ request.mode = "warning"
                               \/ differing = {} /\ (request.mode = "strict" => request.warnings = 0)

\* <<label, what it stands for>> of every signature of a catalog
Meant(catalog) ==
    FlattenSeq([k \in DOMAIN catalog |->
        [i \in DOMAIN catalog[k].signatures |->
            LET s == catalog[k].signatures[i]
            IN  <<s.label, {<<e.id, e.shape>> : e \in ToSet(s.entries)}, Context(catalog[k], s)>>]])
Surplus(some, other) ==
    LET values == ToSet(some) \cup ToSet(other)
    IN  [v \in values |-> IF Times(some, v, Len(some)) > Times(other, v, Len(other))
                            THEN Times(some, v, Len(some)) - Times(other, v, Len(other)) ELSE 0]
SurplusAt(surplus, label) ==
    MapThenSumSet(LAMBDA v : surplus[v], {v \in DOMAIN surplus : v[1] = label})
Kinds(entries, kind, label) == SelectSeq(entries, LAMBDA e : e.kind = kind /\ e.label = label)
Mirrored(entries) ==
    LET other(kind) == CASE kind = "added" -> "removed" [] kind = "removed" -> "added" [] OTHER -> kind
    IN  [k \in DOMAIN entries |-> [entries[k] EXCEPT !.kind = other(@), !.digests = Reverse(@)]]

\* For every label, a diff accounts for exactly the signatures that the catalogs
\* do not share, however often a label occurs in them and however digests sort:
\* as many as can be are paired as changed, the others are added or removed.  A
\* change always has a category.  Diffed the other way round, the catalogs
\* give the mirrored answer; and where labels are unique, what is merely
\* renamed is never called a change of the source.
\* (SignatureInventory::diff_against, unmatched_categories)
InventoryDiffIsExact ==
    stage = "diffed" =>
        LET now == Meant(read[1])
            before == Meant(read[2])
            labels == {v[1] : v \in ToSet(now) \cup ToSet(before)}
            gained == Surplus(now, before)
            lost == Surplus(before, now)
            count(kind, label) == Len(Kinds(result, kind, label))
            labelled(meant) == IsInjective([k \in DOMAIN meant |-> meant[k][1]])
            shapes(meant) == [k \in DOMAIN meant |-> meant[k][2]]
            renamed == labelled(now) /\ labelled(before)
                       /\ \A v \in ToSet(shapes(now)) \cup ToSet(shapes(before)) :
                             Times(shapes(now), v, Len(now)) = Times(shapes(before), v, Len(before))
        IN  /\ \A label \in labels :
                  /\ count("changed", label) + count("added", label) = SurplusAt(gained, label)
                  /\ count("changed", label) + count("removed", label) = SurplusAt(lost, label)
                  /\ count("added", label) = 0 \/ count("removed", label) = 0
            /\ \A e \in ToSet(result) :
                  /\ e.categories # {}
                  /\ e.kind = "changed" => e.digests[1] # e.digests[2]
            /\ \E order \in [shapes : Orders({d.shape : d \in Digests(inventories[1]) \cup Digests(inventories[2])}),
                              contracts : Orders(Digests(inventories[1]) \cup Digests(inventories[2]))] :
                  /\ Diff(inventories[1], inventories[2], order) = result
                  /\ ToSet(Mirrored(Diff(inventories[2], inventories[1], order))) = ToSet(result)
            /\ renamed => \A e \in ToSet(result) :
                  e.kind # "changed" => "source_semantics" \notin e.categories
=============================================================================

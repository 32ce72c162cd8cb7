-------------------------- MODULE ContractDocuments --------------------------
(***************************************************************************)
(* Reading the contract documents of the signature kit: every root YAML    *)
(* file is a stream of documents, each is decoded, given its identities    *)
(* and validated, and is counted against the bounds that a whole operation *)
(* shares (yaml/document.rs, yaml/input/contract.rs and declaration.rs).   *)
(*                                                                         *)
(* YAML text is left out: a document is what it says.  Of a declaration    *)
(* only its kind, name and shape are kept, of an implementation block its  *)
(* descriptor and members.  A diff reads two catalogs one after another,   *)
(* any other operation reads one.                                          *)
(***************************************************************************)
EXTENDS Integers, Sequences, SequencesExt, Folds, FiniteSets

CONSTANT Items      \* [crate, path, kind, name], in the order of identities

VARIABLES
    request,        \* the operation: command, backend, scope, mode, bounds, ...
    pending,        \* catalogs still to be read: sequences of contract files
    read,           \* catalogs read: sequences of documents
    counted,        \* signatures and items recorded by the operation
    stage           \* what is under way, or how it ended

reading == <<pending, read, counted>>

Repeats == {"macro", "impl"}       \* is_structurally_repeatable
Owns == {"type"}                   \* declarations that implementations belong to

Identified(item, occurrence) == [item |-> item, occurrence |-> occurrence]
ItemRank(item) == CHOOSE k \in DOMAIN Items : Items[k] = item
IdBefore(i, j) ==
    \/ ItemRank(i.item) < ItemRank(j.item)
    \/ i.item = j.item /\ i.occurrence < j.occurrence
ImplItem(owner) == [owner EXCEPT !.kind = "impl"]

-----------------------------------------------------------------------------
\* signature_crate_id
CrateOf(document, raw) ==
    CASE raw.crate \in document.crates -> raw.crate
      [] raw.crate = "" /\ Cardinality(document.crates) = 1 ->
             CHOOSE c \in document.crates : TRUE
      [] OTHER -> ""

ItemOf(document, raw) ==
    [crate |-> CrateOf(document, raw), path |-> raw.path, kind |-> raw.kind, name |-> raw.name]

\* RustItemIdAllocator: how often the item was declared up to the k-th signature.
Occurrence(document, k) ==
    Cardinality({j \in 1..k : ItemOf(document, document.signatures[j])
                                  = ItemOf(document, document.signatures[k])})

DecodeError(document, k) ==
    LET raw == document.signatures[k]
        descriptors == [i \in DOMAIN raw.blocks |-> raw.blocks[i].descriptor]
    IN
    CASE CrateOf(document, raw) = "" -> "crate"
      [] raw.kind \notin Repeats /\ Occurrence(document, k) > 1 -> "duplicate_identity"
      [] raw.blocks # <<>> /\ raw.kind \notin Owns -> "no_owner"
      [] ~IsInjective(descriptors) -> "descriptors"
      [] OTHER -> "none"

\* Blocks are numbered in the order of their descriptors.
Place(blocks, i) == Cardinality({j \in DOMAIN blocks : blocks[j].descriptor <= blocks[i].descriptor})
Blocks(owner, blocks) ==
    LET kth(k) == blocks[CHOOSE i \in DOMAIN blocks : Place(blocks, i) = k]
    IN  [k \in DOMAIN blocks |->
            [id |-> Identified(ImplItem(owner), k), shape |-> <<kth(k).descriptor, kth(k).members>>]]

\* entries: the declaration, then its implementations.
Decoded(document, k) ==
    LET raw == document.signatures[k]
        item == ItemOf(document, raw)
    IN  [label |-> raw.label, crate |-> item.crate, file |-> raw.file, sketch |-> raw.sketch,
         entries |-> <<[id |-> Identified(item, Occurrence(document, k)),
                        shape |-> <<0, raw.members>>]>>
                     \o Blocks(item, raw.blocks)]

Primary(signature) == Head(signature.entries).id

\* RustYamlDocumentValidator, on one signature and on one sketch.
SignatureError(document, k) ==
    LET signature == document.signatures[k]
        linked == {s \in ToSet(document.sketches) : s.id = signature.sketch}
    IN
    CASE \E j \in 1..(k - 1) : document.signatures[j].label = signature.label -> "label"
      [] signature.file \notin document.files -> "unlisted_file"
      [] signature.sketch # "" /\ linked = {} -> "missing_sketch"
      [] \E s \in linked : \/ s.file # signature.file
                           \/ s.signature # signature.label
                           \/ s.kind # signature.kind -> "sketch_disagrees"
      [] OTHER -> "none"

ListedOnly(document, sketch) ==
    IF sketch.file \notin document.files THEN "unlisted_file" ELSE "none"

SketchError(document, sketch) ==
    CASE sketch.file \notin document.files -> "unlisted_file"
      [] ~ \E s \in ToSet(document.signatures) : s.sketch = sketch.id -> "orphan_sketch"
      [] OTHER -> "none"

FirstOf(errors) ==
    IF \E k \in DOMAIN errors : errors[k] # "none"
      THEN errors[CHOOSE k \in DOMAIN errors :
                     errors[k] # "none" /\ \A j \in 1..(k - 1) : errors[j] = "none"]
      ELSE "none"

\* into_document: everything is decoded before anything is validated.
DocumentError(document) ==
    LET signatures == document.signatures
        sketches == document.sketches
        decoding == [k \in DOMAIN signatures |-> DecodeError(document, k)]
        linking == [k \in DOMAIN signatures |-> SignatureError(document, k)]
        orphans == [k \in DOMAIN sketches |-> SketchError(document, sketches[k])]
    IN
    CASE document.version # 2 -> "version"
      [] signatures # <<>> /\ document.mode = "none" -> "no_extraction"
      [] OTHER -> FirstOf(decoding \o
                     <<IF document.root = "" THEN "root"
                       ELSE IF ~IsInjective([k \in DOMAIN sketches |-> sketches[k].id])
                         THEN "sketch_id" ELSE "none">>
                     \o linking \o orphans)

Document(at, raw) ==
    [at |-> at, raw |-> raw,
     root |-> raw.root, files |-> raw.files, mode |-> raw.mode, crates |-> raw.crates,
     signatures |-> [k \in DOMAIN raw.signatures |-> Decoded(raw, k)],
     sketches |-> raw.sketches]

\* Where the members of a sequence of sets are: a member of two sets is in two places.
Places(sets) == UNION {{k} \X sets[k] : k \in DOMAIN sets}

SignaturesOf(documents) == Places([d \in DOMAIN documents |-> DOMAIN documents[d].signatures])

\* item_count: an entry is an item, and so is each of its members.
ItemsOf(documents) ==
    LET of(s) == Places([i \in DOMAIN s.entries |-> 0..Len(s.entries[i].shape[2])])
    IN  Places([d \in DOMAIN documents |->
            Places([k \in DOMAIN documents[d].signatures |-> of(documents[d].signatures[k])])])

\* The usage of the operation after more documents.
Counting(documents) ==
    [signatures |-> counted.signatures + Cardinality(SignaturesOf(documents)),
     items |-> counted.items + Cardinality(ItemsOf(documents))]
WithinBounds(usage) ==
    usage.signatures <= request.bounds.signatures /\ usage.items <= request.bounds.items

\* Documents are counted one after another, the signatures of each before its items.
FirstExceeded(documents) ==
    IF \E k \in DOMAIN documents :
          /\ Counting(SubSeq(documents, 1, k)).signatures > request.bounds.signatures
          /\ Counting(SubSeq(documents, 1, k - 1)).items <= request.bounds.items
      THEN "signature_count" ELSE "item_count"

\* The sketches of a catalog and their ids.
SketchIds(documents) ==
    [p \in Places([d \in DOMAIN documents |-> DOMAIN documents[d].sketches]) |->
        documents[p[1]].sketches[p[2]].id]

\* What the YAML layer makes of a file: only a nested block declares an implementation
\* (RustYamlDocumentDecoder::entries_with_implementations), and no sketch is without an id.
IsSequence(s) == s \in Seq(ToSet(s))
IsStated(document) ==
    /\ IsSequence(document.signatures) /\ IsSequence(document.sketches)
    /\ \A s \in ToSet(document.signatures) :
          /\ s.kind # "impl" /\ IsSequence(s.members) /\ IsSequence(s.blocks)
          /\ \A b \in ToSet(s.blocks) : b.descriptor \in Int /\ IsSequence(b.members)
    /\ \A s \in ToSet(document.sketches) : s.id # ""
IsCatalog(files) ==
    /\ IsSequence(files)
    /\ \A f \in ToSet(files) :
          f.root \in BOOLEAN /\ IsSequence(f.documents) /\ \A d \in ToSet(f.documents) : IsStated(d)
IsRequest ==
    /\ IsSequence(pending) /\ \A files \in ToSet(pending) : IsCatalog(files)
    /\ request.bounds.signatures \in Nat /\ request.bounds.items \in Nat

-----------------------------------------------------------------------------
ContractsInit == read = <<<<>>>> /\ counted = [signatures |-> 0, items |-> 0] /\ stage = "reading"

Reading == stage = "reading" /\ pending # <<>>
Stop(error) == stage' = error /\ UNCHANGED reading
Skip(read1) == read' = read1 /\ pending' = [pending EXCEPT ![1] = Tail(@)]

\* RustContractDocuments::parse on the next file of the catalog.
ReadFile ==
    /\ Reading /\ Head(pending) # <<>>
    /\ LET file == Head(Head(pending))
           documents == [k \in DOMAIN file.documents |-> Document(<<file.name, k>>, file.documents[k])]
           error == FirstOf([k \in DOMAIN file.documents |-> DocumentError(file.documents[k])])
       IN
       CASE ~file.root -> Skip(read) /\ UNCHANGED <<counted, stage>>
         [] file.root /\ file.documents = <<>> -> Stop("no_document")
         [] file.root /\ error # "none" -> Stop(error)
         [] file.root /\ ~WithinBounds(Counting(documents)) -> Stop(FirstExceeded(documents))
         [] OTHER ->
                /\ Skip(Append(Front(read), Last(read) \o documents))
                /\ counted' = Counting(documents)
                /\ UNCHANGED stage
    /\ UNCHANGED request

\* validate_unique_sketch_ids, then the other catalog of a diff.
EndCatalog ==
    /\ Reading /\ Head(pending) = <<>>
    /\ IF ~IsInjective(SketchIds(Last(read))) THEN Stop("duplicate_sketch")
       ELSE /\ pending' = Tail(pending)
            /\ IF Tail(pending) = <<>> THEN stage' = "read" /\ UNCHANGED read
                                       ELSE read' = Append(read, <<>>) /\ UNCHANGED stage
            /\ UNCHANGED counted
    /\ UNCHANGED request

CancelReading ==
    /\ stage = "reading" /\ Stop("canceled") /\ UNCHANGED request

ReadingStep == ReadFile \/ EndCatalog
ReadingSpec == IsRequest /\ ContractsInit /\ [][ReadingStep \/ CancelReading]_<<request, reading, stage>>
-----------------------------------------------------------------------------
IdsOf(document) ==
    [p \in Places([k \in DOMAIN document.signatures |-> DOMAIN document.signatures[k].entries]) |->
        document.signatures[p[1]].entries[p[2]].id]

\* A signature and a sketch agree about each other.
Agree(s, sketch) ==
    /\ s.sketch = sketch.id /\ s.label = sketch.signature
    /\ s.file = sketch.file /\ Primary(s).item.kind = sketch.kind
\* Links of a document pair its sketches with signatures, one to one.
LinksPair(document) ==
    LET signatures == document.signatures
        sketches == document.sketches
    IN  /\ \A k \in DOMAIN signatures : signatures[k].sketch # "" =>
              Cardinality({i \in DOMAIN sketches : Agree(signatures[k], sketches[i])}) = 1
        /\ \A i \in DOMAIN sketches :
              Cardinality({k \in DOMAIN signatures : Agree(signatures[k], sketches[i])}) = 1

OwnersAreHere(document) ==
    \A k \in DOMAIN document.signatures :
        LET entries == document.signatures[k].entries IN
        \A i \in 2..Len(entries) :
            entries[i].id.item = ImplItem(Primary(document.signatures[k]).item)

Consistent(document) ==
    /\ IsInjective(IdsOf(document))
    /\ IsInjective([k \in DOMAIN document.signatures |-> document.signatures[k].label])
    /\ \A s \in ToSet(document.signatures) : s.file \in document.files /\ s.crate \in document.crates
    /\ LinksPair(document) /\ OwnersAreHere(document)

\* However many documents and files an operation reads, in a document that it
\* admits every identity and label occurs once, implementations follow their
\* owner, files are listed and links pair sketches with signatures one to one;
\* sketches are unique in a catalog; and what was counted, over all catalogs
\* together, is what was read and within the bounds.
\* (RustContractDocuments::parse, RustYamlDocumentValidator)
AdmittedIsConsistent ==
    /\ \A c \in DOMAIN read : \A d \in ToSet(read[c]) : Consistent(d)
    /\ pending = <<>> => \A c \in DOMAIN read : IsInjective(SketchIds(read[c]))
    /\ counted.signatures = Cardinality(Places([c \in DOMAIN read |-> SignaturesOf(read[c])]))
    /\ counted.items = Cardinality(Places([c \in DOMAIN read |-> ItemsOf(read[c])]))
    /\ WithinBounds(counted)
=============================================================================

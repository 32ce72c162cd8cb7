------------------------- MODULE InventoryCollection -------------------------
(***************************************************************************)
(* From a module graph to the projection that the inventory is made of:    *)
(* RustInventoryCollector reads the modules in their order, registers      *)
(* types and imports, then resolves the owner of every implementation      *)
(* block, merges the blocks of one owner and descriptor, and numbers what  *)
(* may occur more than once (parser/inventory_collector.rs, mod.rs,        *)
(* signature_id.rs).                                                       *)
(*                                                                         *)
(* Of a declaration only its kind and name are kept, of an implementation  *)
(* block its descriptor (trait, generics and attributes) and its members,  *)
(* both numbered in the order of their canonical bytes.                    *)
(***************************************************************************)
EXTENDS SourceGraph

CONSTANT Files      \* the source files, in the order of their paths

VARIABLES
    collected,      \* modules that have been read
    entries,        \* declarations, in the order they were read
    sites,          \* implementation blocks whose owner is not resolved
    blocks,         \* <<owner, descriptor>> -> its members and earliest origin
    signatures,     \* signatures recorded against the bound
    projection      \* identities, each with what it is made of

collection == <<collected, entries, sites, blocks, signatures, projection>>

CollectionInit ==
    /\ SymbolInit
    /\ collected = {} /\ entries = <<>> /\ sites = <<>> /\ blocks = <<>>
    /\ signatures = 0 /\ projection = <<>>

Give(outcome) == phase' = outcome
KeepGraph == UNCHANGED <<extraction, catalog, bounds, walk>>

BeginCollection ==
    /\ phase = "built" /\ Give("collecting") /\ KeepGraph
    /\ UNCHANGED <<resolution, collection>>

\* RustSourceCatalog::syntax_items
SyntaxItems(module) ==
    FoldLeft(LAMBDA body, k : body[k].body, catalog[module.file].items, module.index)

Declares(item) ==
    item.kind \in {"fn", "mod", "macro", "type"} \/ (item.kind = "import" /\ item.public)

Positions(body, P(_)) == {k \in DOMAIN body : P(body[k])}
InOrder(S) == SetToSortSeq(S, <)

Entry(id, item, k) ==
    [module |-> id, kind |-> item.kind, name |-> item.name,
     file |-> modules[id].file, at |-> Append(modules[id].index, k)]

Site(id, item, k) == [from |-> id, item |-> item, origin |-> Entry(id, item, k)]

\* collect_declarations on the next module.
CollectModule ==
    /\ phase = "collecting" /\ collected # DOMAIN modules
    /\ LET id == CHOOSE m \in DOMAIN modules \ collected :
                    \A n \in DOMAIN modules \ collected : ~Before(n, m)
           body == SyntaxItems(modules[id])
           declared == InOrder(Positions(body, Declares))
           impls == InOrder(Positions(body, LAMBDA i : i.kind = "impl"))
           typed(name) == Positions(body, LAMBDA i : i.kind = "type" /\ i.name = name)
           bound(name) == InOrder(Positions(body, LAMBDA i :
                              i.kind = "import" /\ i.name = name))
           typeNames == {body[k].name : k \in Positions(body, LAMBDA i : i.kind = "type")}
           boundNames == {body[k].name : k \in Positions(body, LAMBDA i :
                              i.kind = "import" /\ i.name # "_")}
       IN
       /\ signatures' = signatures + Len(declared)
       /\ IF signatures' > bounds.signatures
            THEN Give("signature_count") /\ UNCHANGED <<entries, sites, types, imports>>
            ELSE /\ entries' = entries \o [i \in DOMAIN declared |->
                                   Entry(id, body[declared[i]], declared[i])]
                 /\ sites' = sites \o [i \in DOMAIN impls |-> Site(id, body[impls[i]], impls[i])]
                 /\ types' = [key \in DOMAIN types \cup ({id} \X typeNames) |->
                        IF key[1] = id THEN Cardinality(typed(key[2])) ELSE types[key]]
                 /\ imports' = [key \in DOMAIN imports \cup ({id} \X boundNames) |->
                        IF key[1] = id
                          THEN [i \in DOMAIN bound(key[2]) |-> body[bound(key[2])[i]].target]
                          ELSE imports[key]]
                 /\ UNCHANGED phase
       /\ collected' = collected \cup {id}
    /\ KeepGraph /\ UNCHANGED <<frames, inUse, answer, blocks, projection>>

-----------------------------------------------------------------------------
Owning == phase = "collecting" /\ collected = DOMAIN modules /\ frames = <<>>

\* resolve_implementation_owner up to the path: specialized owners are refused.
BeginOwner ==
    /\ Owning /\ sites # <<>> /\ answer = NoAnswer
    /\ LET item == Head(sites).item
       IN  IF ~item.plain THEN Answer(Failure("unsupported"))
                          ELSE Open(NoKey, Start(Head(sites).from, item.target))
    /\ UNCHANGED <<types, imports, graph, collection>>

FileRank(path) == CHOOSE k \in DOMAIN Files : Files[k] = path
Precedes(o, p) ==
    \/ FileRank(o.file) < FileRank(p.file)
    \/ o.file = p.file /\ \E k \in DOMAIN o.at :
          /\ k <= Len(p.at) /\ SubSeq(o.at, 1, k - 1) = SubSeq(p.at, 1, k - 1)
          /\ o.at[k] < p.at[k]

\* The block joins those of its owner and descriptor, the earliest leads.
MergeBlock ==
    /\ Owning /\ sites # <<>> /\ answer # NoAnswer
    /\ LET site == Head(sites)
           key == <<answer, site.item.descriptor>>
           block == [origin |-> site.origin, members |-> site.item.members]
           joined(old) ==
               IF Precedes(block.origin, old.origin)
                 THEN [origin |-> block.origin, members |-> block.members \o old.members]
                 ELSE [old EXCEPT !.members = @ \o block.members]
       IN
       IF answer.kind \in Refusals
         THEN Give(answer.kind) /\ UNCHANGED <<sites, blocks, answer>>
         ELSE /\ blocks' = [k \in DOMAIN blocks \cup {key} |->
                     CASE k # key -> blocks[k]
                       [] key \in DOMAIN blocks -> joined(blocks[key])
                       [] OTHER -> block]
              /\ sites' = Tail(sites) /\ answer' = NoAnswer
              /\ UNCHANGED phase
    /\ KeepGraph
    /\ UNCHANGED <<types, imports, frames, inUse, collected, entries, signatures, projection>>

-----------------------------------------------------------------------------
Identity(module, kind, name, occurrence) ==
    [module |-> module, kind |-> kind, name |-> name, occurrence |-> occurrence]

Alike(e, f) == e.module = f.module /\ e.kind = f.kind /\ e.name = f.name

\* is_structurally_repeatable, of the kinds modelled
Repeatable == {"macro", "impl"}

\* RustItemIdAllocator::allocate on the k-th declaration.
DeclaredOccurrence(k) == Cardinality({i \in 1..k : Alike(entries[i], entries[k])})

\* Blocks are numbered in the order of their owners and descriptors.
BlockOccurrence(key) ==
    Cardinality({k \in DOMAIN blocks : k[1] = key[1] /\ k[2] <= key[2]})

BlockIdentity(key) == Identity(key[1].id, "impl", key[1].name, BlockOccurrence(key))
EntryIdentity(k) == Identity(entries[k].module, entries[k].kind, entries[k].name, DeclaredOccurrence(k))

SortedMembers(members) == SortSeq(members, <)

\* The rest of collect_implementations, and finish.
Project ==
    /\ Owning /\ sites = <<>> /\ answer = NoAnswer
    /\ LET declared == DOMAIN entries
           again == {k \in declared : DeclaredOccurrence(k) > 1 /\ entries[k].kind \notin Repeatable}
           owner(key) == \E k \in declared :
               EntryIdentity(k) = Identity(key[1].id, "type", key[1].name, 1)
           of(id) == IF id.kind = "impl"
                       THEN LET key == CHOOSE key \in DOMAIN blocks : BlockIdentity(key) = id
                            IN  [origin |-> blocks[key].origin, descriptor |-> key[2],
                                 members |-> SortedMembers(blocks[key].members)]
                       ELSE [origin |-> entries[CHOOSE k \in declared : EntryIdentity(k) = id],
                             descriptor |-> 0, members |-> <<>>]
       IN
       /\ signatures' = signatures + Cardinality(DOMAIN blocks)
       /\ CASE signatures' > bounds.signatures ->
                   Give("signature_count") /\ UNCHANGED projection
            [] again # {} -> Give("duplicate_item") /\ UNCHANGED projection
            [] ~ \A key \in DOMAIN blocks : owner(key) ->
                   Give("no_owner_context") /\ UNCHANGED projection
            [] OTHER ->
                   /\ projection' = [id \in {EntryIdentity(k) : k \in declared} \cup
                                             {BlockIdentity(key) : key \in DOMAIN blocks} |->
                                         of(id)]
                   /\ Give("projected")
    /\ KeepGraph /\ UNCHANGED <<resolution, collected, entries, sites, blocks>>

CancelCollection ==
    /\ phase \in {"built", "collecting"} /\ Give("canceled") /\ KeepGraph
    /\ UNCHANGED <<resolution, collection>>

CollectionStep ==
    \/ BeginCollection \/ CollectModule \/ BeginOwner \/ MergeBlock \/ Project
    \/ SymbolStep /\ UNCHANGED collection

-----------------------------------------------------------------------------
(* What the projection should be, read off the modules at once. *)

SourceItems == UNION {{<<id, k>> : k \in DOMAIN SyntaxItems(modules[id])} : id \in DOMAIN modules}
ItemAt(place) == SyntaxItems(modules[place[1]])[place[2]]
Impls == {p \in SourceItems : ItemAt(p).kind = "impl"}

TargetsUsed ==
    UNION {ToSet(imports[k]) : k \in DOMAIN imports} \cup
    {ItemAt(p).target : p \in Impls}
Owners ==
    LET meanings == Meanings(UNION {ToSet(t.segments) : t \in TargetsUsed})
    IN  [p \in Impls |-> IF ItemAt(p).plain THEN Meaning(p[1], ItemAt(p).target, meanings)
                                            ELSE Failure("unsupported")]

OriginOf(p) == Entry(p[1], ItemAt(p), p[2])
MemberCount(places, member) ==
    LET count(p) == Cardinality({i \in DOMAIN ItemAt(p).members : ItemAt(p).members[i] = member})
    IN  MapThenFoldSet(+, 0, count, LAMBDA S : CHOOSE p \in S : TRUE, places)

\* One implementation of a projection against all blocks of its owner.
ImplementationIsWhole(id, value, owners) ==
    LET mine == {p \in Impls : owners[p] = Type(id.module, id.name)}
        same == {p \in mine : ItemAt(p).descriptor = value.descriptor}
        lower == {ItemAt(p).descriptor : p \in mine} \cap 0..(value.descriptor - 1)
    IN  /\ same # {} /\ id.occurrence = Cardinality(lower) + 1
        /\ value.origin \in {OriginOf(p) : p \in same}
        /\ \A p \in same : ~Precedes(OriginOf(p), value.origin)
        /\ \A i, j \in DOMAIN value.members : i < j => value.members[i] <= value.members[j]
        /\ \A n \in ToSet(value.members) \cup UNION {ToSet(ItemAt(p).members) : p \in same} :
              Cardinality({i \in DOMAIN value.members : value.members[i] = n})
                  = MemberCount(same, n)

\* However implementation blocks are split and spread over modules and files, the
\* projection holds one entry per owner and descriptor, with every member, led by
\* the earliest block; every declaration is there once, and what may repeat is
\* numbered in source order.  An owner that does not resolve ends the collection,
\* and an owner that does always has its declaration.
\* (RustInventoryCollector::collect, RustSymbolTable::resolve_implementation_owner)
ProjectionIsCanonical ==
    /\ phase # "no_owner_context"
    /\ phase \in Refusals =>
        LET owners == Owners IN \E p \in Impls : owners[p] = Failure(phase)
    /\ phase = "projected" =>
        LET owners == Owners
            declared == {p \in SourceItems : Declares(ItemAt(p))}
            impls == {id \in DOMAIN projection : id.kind = "impl"}
            plain == DOMAIN projection \ impls
        IN  /\ \A p \in Impls : owners[p].kind = "type"
            /\ \A id \in impls : ImplementationIsWhole(id, projection[id], owners)
            /\ Cardinality(impls) = Cardinality({<<owners[p], ItemAt(p).descriptor>> : p \in Impls})
            /\ {projection[id].origin : id \in plain} = {OriginOf(p) : p \in declared}
            /\ \A id \in plain : \E p \in declared :
                  /\ projection[id].origin = OriginOf(p)
                  /\ id = Identity(p[1], ItemAt(p).kind, ItemAt(p).name,
                         Cardinality({k \in 1..p[2] : /\ Declares(ItemAt(<<p[1], k>>))
                             /\ ItemAt(<<p[1], k>>).kind = ItemAt(p).kind
                             /\ ItemAt(<<p[1], k>>).name = ItemAt(p).name}))
=============================================================================

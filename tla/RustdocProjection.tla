-------------------------- MODULE RustdocProjection --------------------------
(***************************************************************************)
(* From a rustdoc document to the entries of the compiler's projection     *)
(* (conkit-signature/languages/rust/rustdoc/modules.rs, declarations.rs,   *)
(* index.rs): the walk of the public modules, the exports of each of them  *)
(* through its re-exports, and the implementations of what was declared.   *)
(*                                                                         *)
(* Items are numbered as rustdoc numbers them.  Of a declaration only its  *)
(* kind, name and members are kept, of an implementation its descriptor;   *)
(* what a type, a bound or an attribute says is not modelled.              *)
(***************************************************************************)
EXTENDS Integers, Sequences, FiniteSets, SequencesExt, FiniteSetsExt, Relation, TLC

VARIABLES
    rustdoc,    \* the document: index, paths, mapped, exact, most
    lowering    \* the walk and what it has yielded

\* rustdoc.index: id -> [kind, name, public, local, items, ...]; paths: id -> canonical
\* path; mapped, exact: items with a source, and with a byte range in it.
CrateRoot == 1
NoItem == 0
Indexed(id) == rustdoc.index[id]
Known(id) == id \in DOMAIN rustdoc.index
IsModule(id) == Known(id) /\ Indexed(id).kind = "module"
Nominal == {"struct", "alias"}
Unsupported == {"macro", "field"}

LoweringInit ==
    lowering = [work |-> <<[open |-> TRUE, module |-> CrateRoot, path |-> <<>>, rest |-> <<>>]>>,
                active |-> {}, visited |-> {}, declarations |-> <<>>, converted |-> {},
                impls |-> {}, groups |-> <<>>, lowered |-> <<>>, items |-> 0, outcome |-> "lowering"]

Halt(state, outcome) == [state EXCEPT !.outcome = outcome]
Lowering(state) == state.outcome = "lowering"

-----------------------------------------------------------------------------
(* Entries.                                                                *)

\* push_entry: the budget, then RustItemIdAllocator::allocate.
PushEntry(state, entry) ==
    LET alike == {k \in DOMAIN state.lowered : state.lowered[k].id = entry.id}
        charged == [state EXCEPT !.items = @ + 1 + Len(entry.members)]
    IN  IF charged.items > rustdoc.most.items THEN Halt(state, "item_count")
        ELSE IF alike # {} /\ entry.id.kind # "impl" THEN Halt(charged, "duplicate")
        ELSE [charged EXCEPT !.lowered =
                 Append(@, [entry EXCEPT !.occurrence = Cardinality(alike) + 1])]

\* parsed_declaration and push_declaration: there must be a source.
PushDeclaration(state, id, kind, name, path, members, target) ==
    IF id \notin rustdoc.mapped
      THEN Halt(state, "provenance")
      ELSE PushEntry(state, [id |-> [module |-> path, kind |-> kind, name |-> name],
                             members |-> members, target |-> target, occurrence |-> 0])

\* convert_associated_item, on each of the members.
MemberFault(id) ==
    IF ~Known(id) THEN "absent"
    ELSE IF Indexed(id).kind # "fn" THEN "unsupported"
    ELSE IF id \notin rustdoc.mapped THEN "provenance" ELSE "none"
MemberError(members) ==
    LET faults == SelectSeq([k \in DOMAIN members |-> MemberFault(members[k])],
                            LAMBDA fault : fault # "none")
    IN  IF faults = <<>> THEN "none" ELSE faults[1]

\* convert_top_level: an item is converted where it is met first.
ConvertTopLevel(state, id, path) ==
    LET item == Indexed(id)
        members == IF item.kind = "trait" THEN MemberError(item.members) ELSE "none"
        taken == [state EXCEPT !.converted = @ \cup {id}]
        pushed == PushDeclaration(taken, id, item.kind, item.name, path, item.members, <<>>)
    IN  IF id \in state.converted THEN state
        ELSE IF item.kind = "module" /\ item.crate THEN Halt(taken, "crate_root")
        ELSE IF \/ item.kind \in Unsupported
                \/ item.kind = "module" /\ id \in rustdoc.mapped \ rustdoc.exact
               THEN Halt(taken, "unsupported")
        ELSE IF members # "none" THEN Halt(taken, members)
        ELSE IF Lowering(pushed) THEN [pushed EXCEPT !.impls = @ \cup item.impls]
        ELSE pushed

-----------------------------------------------------------------------------
(* The effective exports of a module.                                      *)

\* An export: its canonical path, whether the module names it itself, and the use
\* item of the module that brings it in.
Export(path, explicit, use) == [path |-> path, explicit |-> explicit, use |-> use]

\* A glob that comes after the module's own item takes its name.
LastWins(exports, name, incoming) ==
    IF exports.error = "none" THEN [exports EXCEPT !.names = (name :> incoming) @@ @] ELSE exports

\* merge_module_export: a name that two globs bring in must mean one thing.
MergeExport(exports, name, incoming) ==
    LET existing == exports.names[name]
    IN  IF exports.error # "none" THEN exports
        ELSE IF name \notin DOMAIN exports.names
          THEN [exports EXCEPT !.names = @ @@ (name :> incoming)]
        ELSE IF incoming.explicit /\ ~existing.explicit
          THEN [exports EXCEPT !.names[name] = incoming]
        ELSE IF existing.path = incoming.path \/ (existing.explicit /\ ~incoming.explicit)
          THEN exports
        ELSE [exports EXCEPT !.error = "collision"]

\* explicit_use_export.
UsedPath(use) == IF use.target = NoItem THEN use.source ELSE rustdoc.paths[use.target]
UseError(use) ==
    IF use.target \notin {NoItem} \cup DOMAIN rustdoc.paths THEN "no_summary"
    ELSE IF UsedPath(use) = <<>> THEN "empty_path" ELSE "none"

NoExports == [names |-> <<>>, error |-> "none"]
Refused(error) == [names |-> <<>>, error |-> error]

\* One child in module_exports; nested is what the module exports that a glob names.
ExportChild(exports, id, nested) ==
    LET item == Indexed(id)
    IN  IF exports.error # "none" THEN exports
        ELSE IF ~Known(id) THEN Refused("absent")
        ELSE IF ~item.public THEN exports
        ELSE IF item.kind # "use" THEN
            IF id \notin DOMAIN rustdoc.paths THEN Refused("no_summary")
            ELSE MergeExport(exports, item.name, Export(rustdoc.paths[id], TRUE, NoItem))
        ELSE IF ~item.glob THEN
            IF UseError(item) # "none" THEN Refused(UseError(item))
            ELSE MergeExport(exports, item.name, Export(UsedPath(item), TRUE, id))
        ELSE IF item.target = NoItem THEN Refused("unsupported")
        ELSE IF nested.error # "none" THEN nested
        ELSE FoldSet(LAMBDA name, e : MergeExport(e, name,
                         Export(nested.names[name].path, FALSE, id)),
                     exports, DOMAIN nested.names)

\* module_exports: exportsOf[m, walked] are the exports of m while those of the modules
\* in walked are being collected, which therefore contribute nothing more.
ModuleExports(module) ==
    LET targets == {module} \cup {Indexed(id).target : id \in DOMAIN rustdoc.index}
        exportsOf[m \in targets, walked \in SUBSET targets] ==
            IF m \in walked THEN NoExports
            ELSE IF ~Known(m) THEN Refused("unavailable")
            ELSE IF ~IsModule(m) THEN Refused("not_a_module")
            ELSE FoldLeft(LAMBDA e, id :
                     ExportChild(e, id, exportsOf[Indexed(id).target, walked \cup {m}]),
                     NoExports, Indexed(m).items)
    IN  exportsOf[module, {}]

-----------------------------------------------------------------------------
(* The walk.                                                               *)

TopWork == lowering.work[1]
Under == Tail(lowering.work)

\* RustdocModuleWork::Open
OpenModule ==
    /\ lowering.work # <<>> /\ TopWork.open
    /\ lowering' =
         IF TopWork.module \in lowering.active THEN Halt(lowering, "cycle")
         ELSE IF TopWork.module \in lowering.visited THEN Halt(lowering, "parents")
         ELSE [lowering EXCEPT
                  !.active = @ \cup {TopWork.module}, !.visited = @ \cup {TopWork.module},
                  !.work = <<[TopWork EXCEPT !.open = FALSE, !.rest = Indexed(TopWork.module).items]>> \o Under]

\* RustdocModuleWork::Children with a child left.
NextChild ==
    /\ lowering.work # <<>> /\ ~TopWork.open /\ TopWork.rest # <<>>
    /\ LET id == Head(TopWork.rest)
           item == Indexed(id)
           passed == [lowering EXCEPT !.work = <<[TopWork EXCEPT !.rest = Tail(@)]>> \o Under]
       IN lowering' =
            IF ~Known(id) THEN Halt(passed, "absent")
            ELSE IF item.kind # "module" THEN
                IF item.public /\ item.kind # "use"
                  THEN ConvertTopLevel(passed, id, TopWork.path) ELSE passed
            ELSE IF item.stripped \/ ~item.public THEN passed
            ELSE [passed EXCEPT
                    !.declarations = Append(@, <<id, TopWork.path>>),
                    !.work = <<[open |-> TRUE, module |-> id, rest |-> <<>>,
                                path |-> Append(TopWork.path, item.name)]>> \o @]

\* convert_module_exports: one entry for each name that a use item brings in.
Reexports(state, exports, path) ==
    FoldLeft(LAMBDA s, name :
                 LET export == exports[name]
                     marked == [s EXCEPT !.converted = @ \cup {export.use}]
                 IN  IF Lowering(s) /\ export.use # NoItem
                       THEN PushDeclaration(marked, export.use, "use", name, path, <<>>, export.path)
                       ELSE s,
             state, SetToSeq(DOMAIN exports))

\* The children of a module are over.
LeaveModule ==
    /\ lowering.work # <<>> /\ ~TopWork.open /\ TopWork.rest = <<>>
    /\ LET exports == ModuleExports(TopWork.module)
           left == [lowering EXCEPT !.active = @ \ {TopWork.module}, !.work = Under]
       IN  lowering' = IF exports.error # "none" THEN Halt(lowering, exports.error)
                       ELSE Reexports(left, exports.names, TopWork.path)

\* Modules are declared after everything they hold.
DeclareModule ==
    /\ lowering.work = <<>> /\ lowering.declarations # <<>>
    /\ LET declared == Head(lowering.declarations)
       IN  lowering' = ConvertTopLevel([lowering EXCEPT !.declarations = Tail(@)],
                                       declared[1], declared[2])

-----------------------------------------------------------------------------
(* Implementations.                                                        *)

\* owner_id with module_id_for_summary.
OwnerError(id) ==
    IF ~Known(id) THEN "absent"
    ELSE IF ~Indexed(id).local THEN "unsupported"
    ELSE IF \/ Indexed(id).kind \notin Nominal
            \/ id \notin DOMAIN rustdoc.paths \/ Len(rustdoc.paths[id]) < 2 THEN "owner"
    ELSE "none"
OwnerId(id) ==
    LET path == rustdoc.paths[id]
    IN  [module |-> SubSeq(path, 2, Len(path) - 1), kind |-> Indexed(id).kind, name |-> Last(path)]

\* The members kept: all those of a trait, else the public ones.
Kept(impl) == IF impl.trait THEN impl.members
              ELSE SelectSeq(impl.members, LAMBDA m : Indexed(m).public)

\* convert_implementation: why it is refused, or passed over.
ImplementationError(id) ==
    LET impl == Indexed(id)
    IN  IF ~Known(id) THEN "absent"
        ELSE IF impl.kind # "impl" THEN "not_an_impl"
        ELSE IF impl.synthetic \/ ~impl.local THEN "skipped"
        ELSE IF ~impl.trait /\ \E m \in ToSet(impl.members) : ~Known(m) THEN "absent"
        ELSE IF ~impl.trait /\ Kept(impl) = <<>> THEN "skipped"
        ELSE IF impl.blanket THEN "unsupported"
        ELSE IF OwnerError(impl.owner) # "none" THEN OwnerError(impl.owner)
        ELSE IF MemberError(Kept(impl)) # "none" THEN MemberError(Kept(impl))
        ELSE IF id \in rustdoc.mapped THEN "none" ELSE "provenance"

\* convert_implementations, the least identifier first; blocks of one owner and
\* descriptor are merged.
ConvertImplementation ==
    /\ lowering.work = <<>> /\ lowering.declarations = <<>> /\ lowering.impls # {}
    /\ LET id == Min(lowering.impls)
           impl == Indexed(id)
           error == ImplementationError(id)
           key == <<OwnerId(impl.owner), impl.descriptor>>
           groups == lowering.groups
           taken == [lowering EXCEPT !.impls = @ \ {id}, !.converted = @ \cup {id}]
       IN lowering' =
            IF id \in lowering.converted \/ error = "skipped" THEN taken
            ELSE IF error # "none" THEN Halt(taken, error)
            ELSE [taken EXCEPT !.groups =
                     IF key \in DOMAIN groups THEN [groups EXCEPT ![key] = @ \o Kept(impl)]
                     ELSE groups @@ (key :> Kept(impl))]

\* The merged blocks become entries, those of an owner in the order of their
\* descriptors; of the order of the owners only the file of an exhausted budget depends.
PushImplementation ==
    /\ lowering.work = <<>> /\ lowering.declarations = <<>> /\ lowering.impls = {}
    /\ \E key \in DOMAIN lowering.groups :
          /\ \A k \in DOMAIN lowering.groups : k[1] = key[1] => key[2] <= k[2]
          /\ lowering' = PushEntry([lowering EXCEPT !.groups =
                                        [k \in DOMAIN @ \ {key} |-> @[k]]],
                 [id |-> [module |-> key[1].module, kind |-> "impl", name |-> key[1].name],
                  members |-> SortSeq(lowering.groups[key], <), target |-> <<>>, occurrence |-> 0])

FinishLowering ==
    /\ lowering.work = <<>> /\ lowering.declarations = <<>> /\ lowering.impls = {}
    /\ lowering.groups = <<>>
    /\ lowering' = Halt(lowering, IF Len(lowering.lowered) > rustdoc.most.signatures
                                    THEN "signature_count" ELSE "lowered")

\* CancellationProbe::checkpoint
CancelLowering == lowering' = Halt(lowering, "canceled")

LoweringStep ==
    /\ Lowering(lowering) /\ UNCHANGED rustdoc
    /\ \/ OpenModule \/ NextChild \/ LeaveModule \/ DeclareModule
       \/ ConvertImplementation \/ PushImplementation \/ FinishLowering \/ CancelLowering

-----------------------------------------------------------------------------
(* The same over the document alone.                                       *)

Grown(start, Successors(_)) ==
    LET within[n \in 0..Cardinality(DOMAIN rustdoc.index)] ==
            IF n = 0 THEN {start}
            ELSE LET nearer == within[n - 1] IN nearer \cup UNION {Successors(x) : x \in nearer}
    IN  within[Cardinality(DOMAIN rustdoc.index)]

Children(m) == IF IsModule(m) THEN {id \in ToSet(Indexed(m).items) : Known(id) /\ Indexed(id).public} ELSE {}
Opened(m) == {id \in Children(m) : Indexed(id).kind = "module" /\ ~Indexed(id).stripped}
\* The public modules, each with its path, and the items they declare.
PublicPlaces == Grown(<<CrateRoot, <<>>>>, LAMBDA p : {<<id, Append(p[2], Indexed(id).name)>> : id \in Opened(p[1])})
PublicModules == {p[1] : p \in PublicPlaces}
DeclaredBy(m) == {id \in Children(m) : Indexed(id).kind \notin {"use", "module"}} \cup Opened(m)
AllDeclared == UNION {DeclaredBy(m) : m \in PublicModules}

\* What a module names itself, and what it means by a name: its own item, else
\* whatever the modules that it names by a glob mean by it.
GlobsOf(m) == {id \in Children(m) : Indexed(id).kind = "use" /\ Indexed(id).glob}
Globbed(m) == {Indexed(id).target : id \in GlobsOf(m)}
NamedIn(m, name) == {id \in Children(m) \ GlobsOf(m) : Indexed(id).name = name}
PathOfItem(id) == IF Indexed(id).kind = "use" THEN UsedPath(Indexed(id)) ELSE rustdoc.paths[id]
Means(m, name) ==
    LET sees == Grown(m, LAMBDA k : IF NamedIn(k, name) = {} THEN Globbed(k) ELSE {})
    IN  UNION {{PathOfItem(id) : id \in NamedIn(k, name)} : k \in sees}
Exporting == UNION {Grown(m, Globbed) : m \in PublicModules}
NamesOf == {Indexed(id).name : id \in DOMAIN rustdoc.index}

\* The implementations of what is declared that are the crate's own and say something.
RelevantImpls ==
    {id \in UNION {Indexed(t).impls : t \in {t \in AllDeclared : Indexed(t).kind \in {"struct", "trait"}}} :
        /\ Known(id) /\ Indexed(id).local /\ ~Indexed(id).synthetic
        /\ Indexed(id).trait \/ \E m \in ToSet(Indexed(id).members) : Known(m) /\ Indexed(m).public}
MembersNeeded == UNION {ToSet(Kept(Indexed(id))) : id \in RelevantImpls}
                 \cup UNION {ToSet(Indexed(t).members) : t \in {t \in AllDeclared : Indexed(t).kind = "trait"}}

DeclaredEntries ==
    UNION {{[id |-> [module |-> p[2], kind |-> Indexed(id).kind, name |-> Indexed(id).name],
             members |-> ToSet(Indexed(id).members), target |-> <<>>, occurrence |-> 1]
                 : id \in DeclaredBy(p[1])} : p \in PublicPlaces}
ReexportEntries ==
    UNION {{[id |-> [module |-> p[2], kind |-> "use", name |-> name], members |-> {},
             target |-> CHOOSE path \in Means(p[1], name) : TRUE, occurrence |-> 1]
                 : name \in {n \in NamesOf : /\ Means(p[1], n) # {}
                                             /\ \A id \in NamedIn(p[1], n) : Indexed(id).kind = "use"}}
           : p \in PublicPlaces}
ImplEntries ==
    {LET owner == OwnerId(Indexed(id).owner)
         alike == {i \in RelevantImpls : OwnerId(Indexed(i).owner) = owner}
         same == {i \in alike : Indexed(i).descriptor = Indexed(id).descriptor}
     IN  [id |-> [module |-> owner.module, kind |-> "impl", name |-> owner.name],
          members |-> UNION {ToSet(Kept(Indexed(i))) : i \in same}, target |-> <<>>,
          occurrence |-> Cardinality({d \in {Indexed(i).descriptor : i \in alike} : d <= Indexed(id).descriptor})]
        : id \in RelevantImpls}

\* Why a document is refused.
Contained(id) ==
    {<<m, k>> \in PublicModules \X (1..Cardinality(DOMAIN rustdoc.index)) :
        k \in DOMAIN Indexed(m).items /\ Indexed(m).items[k] = id /\ id \in Opened(m)}
Misplaced == {id \in DOMAIN rustdoc.index :
                 Cardinality(Contained(id)) > (IF id = CrateRoot THEN 0 ELSE 1)}
Present(set) == set \cap DOMAIN rustdoc.index
OwnersNeeded == {Indexed(id).owner : id \in {i \in RelevantImpls : ~Indexed(i).blanket}}
Using == UNION {{id \in Children(m) : Indexed(id).kind = "use"} : m \in Exporting}

Reason(outcome) ==
    CASE outcome \in {"cycle", "parents"} -> Misplaced # {}
      [] outcome = "absent" ->
            \/ \E m \in PublicModules \cup Exporting : IsModule(m) /\ \E id \in ToSet(Indexed(m).items) : ~Known(id)
            \/ \E t \in AllDeclared : \E i \in Indexed(t).impls :
                  \/ ~Known(i)
                  \/ Known(i) /\ Indexed(i).local /\ ~Indexed(i).synthetic /\ \E m \in ToSet(Indexed(i).members) : ~Known(m)
            \/ \E id \in MembersNeeded \cup OwnersNeeded : ~Known(id)
      [] outcome = "unavailable" -> \E m \in Exporting : ~Known(m) /\ m # NoItem
      [] outcome = "not_a_module" -> \E m \in Exporting : Known(m) /\ ~IsModule(m)
      [] outcome = "no_summary" ->
            \E m \in Exporting : \E id \in Children(m) :
                \/ Indexed(id).kind # "use" /\ id \notin DOMAIN rustdoc.paths
                \/ Indexed(id).kind = "use" /\ ~Indexed(id).glob
                      /\ Indexed(id).target \notin {NoItem} \cup DOMAIN rustdoc.paths
      [] outcome = "empty_path" ->
            \E id \in Using : ~Indexed(id).glob /\ Indexed(id).target = NoItem /\ Indexed(id).source = <<>>
      [] outcome = "collision" -> \E m \in Exporting, n \in NamesOf : Cardinality(Means(m, n)) > 1
      [] outcome = "unsupported" ->
            \/ NoItem \in Exporting
            \/ \E id \in AllDeclared : Indexed(id).kind \in Unsupported
            \/ \E id \in AllDeclared : Indexed(id).kind = "module" /\ id \in rustdoc.mapped \ rustdoc.exact
            \/ \E id \in RelevantImpls : Indexed(id).blanket
            \/ \E id \in Present(OwnersNeeded) : ~Indexed(id).local
            \/ \E id \in Present(MembersNeeded) : Indexed(id).kind # "fn"
      [] outcome = "crate_root" -> \E id \in AllDeclared : Indexed(id).kind = "module" /\ Indexed(id).crate
      [] outcome = "provenance" ->
            \/ ~(AllDeclared \cup RelevantImpls \cup Present(MembersNeeded)) \subseteq rustdoc.mapped
            \/ \E m \in PublicModules : \E id \in Children(m) : Indexed(id).kind = "use" /\ id \notin rustdoc.mapped
      [] outcome = "not_an_impl" ->
            \E t \in AllDeclared : \E i \in Indexed(t).impls : Known(i) /\ Indexed(i).kind # "impl"
      [] outcome = "owner" -> \E id \in OwnersNeeded : OwnerError(id) = "owner"
      [] outcome = "duplicate" ->
            \E p \in PublicPlaces : \E i, j \in DeclaredBy(p[1]) :
                i # j /\ Indexed(i).kind = Indexed(j).kind /\ Indexed(i).name = Indexed(j).name
      [] OTHER -> TRUE
ExpectedEntries == DeclaredEntries \cup ReexportEntries \cup ImplEntries
Flaws == {"cycle", "parents", "absent", "unavailable", "not_a_module", "no_summary", "empty_path",
              "unsupported", "crate_root", "provenance", "not_an_impl", "owner", "duplicate"}

\* What is lowered is what the crate's public modules declare, what they mean by each
\* name they re-export, whichever modules the globs lead through and whether or not they
\* run in circles, and the crate's own implementations of what is declared, once each;
\* and it is refused only for a reason in the document, never for its order.
\* (RustdocModuleCollector, RustdocDeclarationLowerer)
ProjectionIsReachable ==
    LET yielded == ToSet([k \in DOMAIN lowering.lowered |->
                              [lowering.lowered[k] EXCEPT !.members = ToSet(@)]])
        total == LET size[k \in 0..Len(lowering.lowered)] ==
                         IF k = 0 THEN 0 ELSE size[k - 1] + 1 + Len(lowering.lowered[k].members)
                 IN  size[Len(lowering.lowered)]
    IN
    /\ lowering.outcome \notin {"none", "lowering", "canceled"} => Reason(lowering.outcome)
    /\ lowering.outcome \in {"lowered", "signature_count"} =>
          /\ yielded = ExpectedEntries /\ Cardinality(yielded) = Len(lowering.lowered)
          /\ \A outcome \in Flaws : ~Reason(outcome)
          /\ \A m \in PublicModules, n \in NamesOf : Cardinality(Means(m, n)) <= 1
          /\ total <= rustdoc.most.items
          /\ (lowering.outcome = "lowered") = (Cardinality(ExpectedEntries) <= rustdoc.most.signatures)
=============================================================================

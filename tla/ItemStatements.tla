--------------------------- MODULE ItemStatements ---------------------------
(* The statement of a declaration in a contract document: how the kit writes *)
(* it and how it reads one, its own or a hand-written one.  A statement is a  *)
(* function from the keys it gives; where a value may take several forms it   *)
(* is a node, and reading tries the forms in the code's order.                *)
EXTENDS RustTypes

Node(form, value) == [form |-> form, value |-> value]
Leaf(text) == Node("text", text)
ListOf(nodes) == Node("list", nodes)
\* A mapping by its keys, and one whose entries keep their order.
Mapping(keys) == Node("mapping", keys)
OrderedEntries(given) == Node("entries", given)

\* A key that is given only where there is something to say.
GivenKey(key, present, value) == IF present THEN key :> value ELSE <<>>

CallableKinds == {"function", "method", "foreign_function"}
Qualifiers == {"const", "async", "unsafe"}
TypeKey(kind) ==
    CASE kind \in CallableKinds -> "return_type"
      [] kind = "type_alias" -> "target_type"
      [] kind = "associated_type" -> "default_type"
      [] OTHER -> "type"
ValueKey(kind) == IF kind = "constant" THEN "value" ELSE "default_value"
BoundsKey(kind) == IF kind = "associated_type" THEN "bounds" ELSE "supertraits"

-----------------------------------------------------------------------------
(* Writing a declaration.                                                    *)

WithAttributes(attributes) ==
    GivenKey("attributes", attributes # <<>>, Node("attributes", RenderAttributes(attributes)))

RenderGeneric(g) ==
    IF g.attributes = <<>> THEN Leaf(g.text)
    ELSE Mapping("declaration" :> Leaf(g.text) @@ WithAttributes(g.attributes))
RenderPattern(p) == GivenKey("pattern", p.pattern # Absent, Leaf(p.pattern))
RenderParameter(p) == Mapping("type" :> Leaf(p.type) @@ RenderPattern(p) @@ WithAttributes(p.attributes))
RenderVariadic(v) ==
    IF v.pattern = Absent /\ v.attributes = <<>> THEN Node("flag", TRUE)
    ELSE Mapping(RenderPattern(v) @@ WithAttributes(v.attributes))

RenderStructField(f) ==
    IF f.visibility = Private /\ f.attributes = <<>> THEN Leaf(f.type)
    ELSE Mapping("type" :> Leaf(f.type) @@ "visibility" :> Node("visibility", f.visibility) @@ WithAttributes(f.attributes))
RenderStructFields(fields) ==
    IF \A i \in DOMAIN fields : fields[i].name # Absent
    THEN OrderedEntries([i \in DOMAIN fields |-> [name |-> fields[i].name, node |-> RenderStructField(fields[i])]])
    ELSE ListOf([i \in DOMAIN fields |-> RenderStructField(fields[i])])

RenderVariantField(f) ==
    IF f.attributes = <<>> THEN Leaf(f.type) ELSE Mapping("type" :> Leaf(f.type) @@ WithAttributes(f.attributes))
AllUnnamed(fields) == \A i \in DOMAIN fields : fields[i].name = Absent
\* The fields of a variant are a list; a named one is a mapping of one entry.
RenderVariantFields(fields) ==
    ListOf([i \in DOMAIN fields |-> IF AllUnnamed(fields) THEN RenderVariantField(fields[i])
                                    ELSE Mapping(fields[i].name :> RenderVariantField(fields[i]))])
\* As RenderVariant, and unnamed fields with attributes are written under the name alone.
TupleWhenUnnamed(v) ==
    LET bare == v.discriminant = Absent /\ v.attributes = <<>>
    IN  IF bare /\ v.fields = <<>> THEN Leaf(v.name)
        ELSE IF bare /\ AllUnnamed(v.fields)
             THEN Mapping(v.name :> RenderVariantFields(v.fields))
        ELSE Mapping(v.name :> Mapping(GivenKey("fields", v.fields # <<>>, RenderVariantFields(v.fields))
                                       @@ GivenKey("discriminant", v.discriminant # Absent, Leaf(v.discriminant))
                                       @@ WithAttributes(v.attributes)))

RenderVariant(v) ==
    LET bare == v.discriminant = Absent /\ v.attributes = <<>>
    IN  IF bare /\ v.fields = <<>> THEN Leaf(v.name)
        ELSE IF bare /\ AllUnnamed(v.fields) /\ \A i \in DOMAIN v.fields : v.fields[i].attributes = <<>>
             THEN Mapping(v.name :> RenderVariantFields(v.fields))
        ELSE Mapping(v.name :> Mapping(GivenKey("fields", v.fields # <<>>, RenderVariantFields(v.fields))
                                       @@ GivenKey("discriminant", v.discriminant # Absent, Leaf(v.discriminant))
                                       @@ WithAttributes(v.attributes)))

\* The words of a receiver.
Mut(r) == IF r.mutable THEN <<"mut">> ELSE <<>>
RenderReceiver(r) ==
    CASE r.by = "value" -> Mut(r) \o <<"self">>
      [] r.by = "reference" /\ r.text = Absent -> IF r.mutable THEN <<"mut">> ELSE <<"ref">>
      [] r.by = "reference" /\ r.text # Absent -> <<"&", r.text>> \o Mut(r) \o <<"self">>
      [] OTHER -> Mut(r) \o <<"self", ":", r.text>>

\* The parts of a declaration or a member that are not at their defaults.
RenderParts(d) ==
    LET words == IF d.kind \in CallableKinds THEN d.flags \cap Qualifiers ELSE {}
    IN  GivenKey("qualifiers", words # {}, words)
        @@ GivenKey("abi", d.abi # NoAbi, IF d.abi = Unnamed THEN Extern ELSE d.abi)
        @@ GivenKey("variadic", d.variadic # <<>>, IF d.variadic # <<>> THEN RenderVariadic(d.variadic[1]) ELSE Leaf(""))
        @@ GivenKey("generics", d.generics # <<>>, [i \in DOMAIN d.generics |-> RenderGeneric(d.generics[i])])
        @@ GivenKey("where", d.where # <<>>, d.where)
        @@ GivenKey("parameters", d.parameters # <<>>, [i \in DOMAIN d.parameters |-> RenderParameter(d.parameters[i])])
        @@ GivenKey(TypeKey(d.kind), d.type # Absent, d.type)
        @@ GivenKey(ValueKey(d.kind), d.value # Absent, d.value)
        @@ GivenKey(BoundsKey(d.kind), d.bounds # <<>>, d.bounds)
        @@ GivenKey("fields", d.fields # <<>>, RenderStructFields(d.fields))
        @@ GivenKey("variants", d.variants # <<>>, [i \in DOMAIN d.variants |-> RenderVariant(d.variants[i])])
        @@ GivenKey("alias", d.alias # Absent, d.alias)
        @@ GivenKey("tokens", d.tokens # Absent, d.tokens)
        @@ GivenKey("receiver", d.receiver # <<>>, IF d.receiver # <<>> THEN RenderReceiver(d.receiver[1]) ELSE <<>>)
        @@ GivenKey("receiver_attributes", d.receiver_attributes # <<>>, Node("attributes", RenderAttributes(d.receiver_attributes)))
        @@ GivenKey("attributes", d.attributes # <<>>, Node("attributes", RenderAttributes(d.attributes)))
        @@ [f \in (d.flags \ words) \ {"negative"} |-> TRUE]

DefaultVisibility(container) == IF container = "trait" THEN Public ELSE Private
\* A body is what a trait's method may have and an implementation's always has.
RenderMember(d, container) ==
    LET shown == IF container = "impl" THEN [d EXCEPT !.flags = @ \ {"default_body"}] ELSE d
    IN  "signature_type" :> d.kind
        @@ GivenKey("name", d.kind # "foreign_macro", d.name)
        @@ GivenKey("visibility", d.visibility # DefaultVisibility(container), d.visibility)
        @@ RenderParts(shown)
RenderItems(d) ==
    GivenKey("items", d.items # <<>>, [i \in DOMAIN d.items |-> RenderMember(d.items[i], Container(d.kind))])

\* An exclamation mark before a negative trait, and the qualifiers in a list.
RenderImplementation(b) ==
    GivenKey("trait", Traited(b), IF "negative" \in b.flags THEN <<"!">> \o b.path ELSE b.path)
    @@ GivenKey("impl_qualifiers", b.flags \cap {"unsafe", "default"} # {}, b.flags \cap {"unsafe", "default"})
    @@ RenderParts([b EXCEPT !.flags = {}])
    @@ RenderItems(b)

\* The statement of a declaration of a module under a label.
RenderSignature(d, module, label) ==
    "signature_type" :> d.kind
    @@ "file" :> "lib.rs"
    @@ GivenKey("name", label # d.name, d.name)
    @@ GivenKey("module_path", Len(module) > 1, Tail(module))
    @@ GivenKey("visibility", d.kind # "foreign_module", d.visibility)
    @@ GivenKey("path", d.path # <<>>, d.path)
    @@ RenderParts(d) @@ RenderItems(d)
    @@ GivenKey("implementations", d.implementations # {},
              [i \in 1..Cardinality(d.implementations) |-> RenderImplementation(SetToSeq(d.implementations)[i])])

-----------------------------------------------------------------------------
(* The keys a statement may give and those it must, by its type.             *)

CommonKeys == {"signature_type", "crate_id", "file", "module_path", "name", "visibility", "attributes", "sketch"}
OwnKeys(type) ==
    CASE type = "constant" -> {"type", "value"}
      [] type = "function" -> {"qualifiers", "abi", "variadic", "generics", "where", "parameters", "return_type"}
      [] type \in {"struct", "union"} -> {"generics", "where", "fields", "implementations"}
      [] type = "enum" -> {"generics", "where", "variants", "implementations"}
      [] type = "extern_crate" -> {"alias"}
      [] type = "foreign_module" -> {"items", "abi", "unsafe"}
      [] type = "trait" -> {"generics", "where", "items", "supertraits", "unsafe", "auto"}
      [] type = "trait_alias" -> {"generics", "where", "supertraits"}
      [] type = "static" -> {"type", "mutable"}
      [] type = "macro" -> {"tokens"}
      [] type = "module" -> {"path", "inline"}
      [] type = "type_alias" -> {"generics", "where", "target_type", "implementations"}
      [] type = "reexport" -> {"path", "alias"}
      [] type = "method" ->
           {"receiver", "receiver_attributes", "default_body", "specialization_default", "qualifiers",
            "abi", "variadic", "generics", "where", "parameters", "return_type"}
      [] type = "associated_constant" -> {"type", "default_value", "specialization_default"}
      [] type = "associated_type" -> {"generics", "where", "bounds", "default_type", "specialization_default"}
      [] type = "foreign_function" -> {"qualifiers", "variadic", "generics", "where", "parameters", "return_type"}
      [] type = "foreign_static" -> {"mutable", "type"}
      [] type = "foreign_macro" -> {"tokens"}
      [] OTHER -> {}
NeededKeys(type) ==
    CASE type = "constant" -> {"type", "value"}
      [] type \in {"static", "associated_constant", "foreign_static"} -> {"type"}
      [] type \in {"macro", "foreign_macro"} -> {"tokens"}
      [] type = "type_alias" -> {"target_type"}
      [] type = "reexport" -> {"path"}
      [] OTHER -> {}
ShapeHolds(s) ==
    /\ DOMAIN s \subseteq CommonKeys \cup OwnKeys(s.signature_type)
    /\ NeededKeys(s.signature_type) \cup {"file"} \subseteq DOMAIN s
MemberTypes(container) ==
    IF container = "foreign" THEN {"foreign_function", "foreign_static", "foreign_type", "foreign_macro"}
    ELSE {"method", "associated_constant", "associated_type"}
MemberShapeHolds(s, container) ==
    LET type == s.signature_type
        own == IF type = "foreign_macro" THEN {} ELSE {"name"}
    IN  /\ type \in MemberTypes(container)
        /\ DOMAIN s \subseteq {"signature_type", "attributes"} \cup OwnKeys(type) \cup own
                              \cup (IF own # {} THEN {"visibility"} ELSE {})
        /\ NeededKeys(type) \cup own \subseteq DOMAIN s
        /\ container = "trait" => "specialization_default" \notin DOMAIN s \/ ~s.specialization_default
        /\ container = "impl" =>
               /\ "default_body" \notin DOMAIN s
               /\ type = "associated_constant" => "default_value" \in DOMAIN s
               /\ type = "associated_type" => "default_type" \in DOMAIN s

-----------------------------------------------------------------------------
(* Reading the values of keys.                                               *)

\* The value of a key, or what stands for it when the key is not given.
ValueOf(s, key, default) == IF key \in DOMAIN s THEN s[key] ELSE default

AttributesOf(keys) == ReadAttributes(ValueOf(keys, "attributes", Node("attributes", <<>>)).value)
AttributesRead(keys) == ("attributes" \in DOMAIN keys => keys.attributes.form = "attributes") /\ AttributesOf(keys).ok

\* A visibility is one of three words or a strict ancestor of the module.
VisibilityReads(visibility, module) ==
    \/ visibility \in {Public, InCrate, Private}
    \/ /\ visibility # <<>> /\ visibility[1] = "module"
       /\ Len(visibility) > 1 /\ IsStrictPrefix(Tail(visibility), module)

\* The mapping form of an entry whose keys are a text under one, a visibility and attributes.
Detailed(node, key, keys) ==
    /\ node.form = "mapping" /\ key \in DOMAIN node.value /\ DOMAIN node.value \subseteq keys
    /\ node.value[key].form = "text"
    /\ "visibility" \in DOMAIN node.value => node.value.visibility.form = "visibility"
    /\ "attributes" \in DOMAIN node.value => node.value.attributes.form = "attributes"
\* A text, or its details.
ReadsAs(node, key, keys) ==
    node.form = "text" \/ (Detailed(node, key, keys) /\ AttributesRead(node.value))
TextOf(node, key) == IF node.form = "text" THEN node.value ELSE node.value[key].value
AttributesIn(node) == IF node.form = "text" THEN <<>> ELSE AttributesOf(node.value).values
VisibilityIn(node) ==
    IF node.form # "text" /\ "visibility" \in DOMAIN node.value THEN node.value.visibility.value ELSE Private

GenericReads(node) == ReadsAs(node, "declaration", {"declaration", "attributes"})
ReadGeneric(node) == Generic(TextOf(node, "declaration"), AttributesIn(node))

PatternReads(keys) == "pattern" \in DOMAIN keys => keys.pattern.form = "text" /\ keys.pattern.value # ""
PatternOf(keys) == ValueOf(keys, "pattern", Leaf(Absent)).value
ParameterReads(node) ==
    /\ Detailed(node, "type", {"pattern", "type", "attributes"})
    /\ PatternReads(node.value) /\ AttributesRead(node.value)
ReadParameter(node) ==
    Parameter(PatternOf(node.value), TextOf(node, "type"), AttributesIn(node))
VariadicReads(node) ==
    \/ node.form = "flag"
    \/ /\ node.form = "mapping" /\ DOMAIN node.value \subseteq {"pattern", "attributes"}
       /\ PatternReads(node.value) /\ AttributesRead(node.value)
ReadVariadic(node) ==
    IF node.form = "flag" THEN (IF node.value THEN <<Variadic(Absent, <<>>)>> ELSE <<>>)
    ELSE <<Variadic(PatternOf(node.value), AttributesIn(node))>>

\* An entry of a list of fields: a type, the details of an unnamed field, or one named field.
FieldKeys(of) == IF of = "struct" THEN {"type", "visibility", "attributes"} ELSE {"type", "attributes"}
IsUnnamedEntry(node, of) == node.form = "text" \/ Detailed(node, "type", FieldKeys(of))
OneEntry(node) == node.form = "mapping" /\ Cardinality(DOMAIN node.value) = 1
TheKey(node) == CHOOSE k \in DOMAIN node.value : TRUE
EntryOf(node, of) ==
    IF IsUnnamedEntry(node, of) THEN [name |-> Absent, node |-> node]
    ELSE [name |-> TheKey(node), node |-> node.value[TheKey(node)]]
NodesReadable(node, of) ==
    node.form \in {"list", "entries"} /\
        (node.form = "list" => \A i \in DOMAIN node.value : IsUnnamedEntry(node.value[i], of) \/ OneEntry(node.value[i]))
EntriesOf(node, of) ==
    IF node.form = "entries" THEN node.value ELSE [i \in DOMAIN node.value |-> EntryOf(node.value[i], of)]
FieldsRead(node, of, module) ==
    /\ NodesReadable(node, of)
    /\ \A i \in DOMAIN EntriesOf(node, of) :
           LET entry == EntriesOf(node, of)[i]
           IN  ReadsAs(entry.node, "type", FieldKeys(of)) /\ VisibilityReads(VisibilityIn(entry.node), module)
ReadFields(node, of) ==
    [i \in DOMAIN EntriesOf(node, of) |->
        LET entry == EntriesOf(node, of)[i]
        IN  Field(entry.name, VisibilityIn(entry.node), TextOf(entry.node, "type"), AttributesIn(entry.node))]

\* A variant: its name, one list of types under its name, or its details under its name.
IsTuple(node) == node.form = "list" /\ \A i \in DOMAIN node.value : node.value[i].form = "text"
VariantKeys(node) == IF IsTuple(node.value[TheKey(node)]) THEN "fields" :> node.value[TheKey(node)]
                     ELSE node.value[TheKey(node)].value
VariantReads(node, module) ==
    \/ node.form = "text"
    \/ /\ OneEntry(node)
       /\ node.value[TheKey(node)].form = "mapping" \/ IsTuple(node.value[TheKey(node)])
       /\ LET keys == VariantKeys(node)
          IN  /\ DOMAIN keys \subseteq {"fields", "discriminant", "attributes"}
              /\ "fields" \in DOMAIN keys => FieldsRead(keys.fields, "variant", module)
              /\ AttributesRead(keys)
ReadVariant(node) ==
    IF node.form = "text" THEN Variant(node.value, <<>>, Absent, <<>>)
    ELSE LET keys == VariantKeys(node)
         IN  Variant(TheKey(node), IF "fields" \in DOMAIN keys THEN ReadFields(keys.fields, "variant") ELSE <<>>,
                     ValueOf(keys, "discriminant", Leaf(Absent)).value, AttributesOf(keys).values)

\* ref, mut and ref_mut stand for the two plain references.
Spelled(words) ==
    CASE words = <<"ref">> -> <<"&", "self">>
      [] words \in {<<"mut">>, <<"ref_mut">>} -> <<"&", "mut", "self">>
      [] OTHER -> words
Lifetimes == {"'a"}
ReceiverReads(words) ==
    LET w == Spelled(words)
        plain == SelectSeq(w, LAMBDA t : t \notin Lifetimes)
    IN  /\ w # <<>>
        /\ IF w[1] = "&" THEN plain \in {<<"&", "self">>, <<"&", "mut", "self">>}
           ELSE w[1] \in {"self", "mut"} /\ Contains(w, "self")
ReadReceiver(words) ==
    LET w == Spelled(words)
        lifetime == SelectSeq(w, LAMBDA t : t \in Lifetimes)
    IN  CASE w[1] = "&" -> Receiver("reference", Contains(w, "mut"), IF lifetime = <<>> THEN Absent ELSE lifetime[1])
          [] w[1] # "&" /\ Contains(w, ":") -> Receiver("typed", w[1] = "mut", Last(w))
          [] OTHER -> Receiver("value", w[1] = "mut", Absent)

\* No ABI is Rust's, or an unnamed external one for an external block.
AbiReads(s) == "abi" \in DOMAIN s => CanonicalAbi(s.abi)
ReadAbi(s) ==
    IF "abi" \notin DOMAIN s THEN (IF s.signature_type = "foreign_module" THEN Unnamed ELSE NoAbi)
    ELSE IF s.abi = Extern THEN Unnamed ELSE s.abi

-----------------------------------------------------------------------------
(* Reading a statement.                                                      *)

FlagKeys == {"unsafe", "auto", "mutable", "inline", "default_body", "specialization_default"}
\* The values of the keys a declaration and a member share.
PartsRead(s, module) ==
    /\ AttributesRead(s) /\ AbiReads(s)
    /\ "receiver_attributes" \in DOMAIN s => ReadAttributes(s.receiver_attributes.value).ok
    /\ "visibility" \in DOMAIN s => VisibilityReads(s.visibility, module)
    /\ \A i \in DOMAIN ValueOf(s, "generics", <<>>) : GenericReads(s.generics[i])
    /\ \A i \in DOMAIN ValueOf(s, "parameters", <<>>) : ParameterReads(s.parameters[i])
    /\ "variadic" \in DOMAIN s => VariadicReads(s.variadic)
    /\ "fields" \in DOMAIN s => FieldsRead(s.fields, "struct", module)
    /\ \A i \in DOMAIN ValueOf(s, "variants", <<>>) : VariantReads(s.variants[i], module)
    /\ "receiver" \in DOMAIN s => ReceiverReads(s.receiver)
ReadParts(s) ==
    LET type == s.signature_type
        generics == ValueOf(s, "generics", <<>>)
        parameters == ValueOf(s, "parameters", <<>>)
        variants == ValueOf(s, "variants", <<>>)
    IN  [Blank EXCEPT
            !.kind = type, !.name = ValueOf(s, "name", @),
            !.attributes = AttributesOf(s).values,
            !.abi = ReadAbi(s), !.generics = [i \in DOMAIN generics |-> ReadGeneric(generics[i])], !.where = ValueOf(s, "where", <<>>),
            !.bounds = ValueOf(s, BoundsKey(type), <<>>), !.type = ValueOf(s, TypeKey(type), Absent),
            !.value = ValueOf(s, ValueKey(type), Absent), !.alias = ValueOf(s, "alias", Absent),
            !.tokens = ValueOf(s, "tokens", Absent), !.path = ValueOf(s, "path", <<>>),
            !.receiver = IF "receiver" \in DOMAIN s THEN ReadReceiver(s.receiver) ELSE <<>>,
            !.receiver_attributes = IF "receiver_attributes" \in DOMAIN s
                                    THEN ReadAttributes(s.receiver_attributes.value).values ELSE <<>>,
            !.variadic = IF "variadic" \in DOMAIN s THEN ReadVariadic(s.variadic) ELSE <<>>,
            !.parameters = [i \in DOMAIN parameters |-> ReadParameter(parameters[i])],
            !.fields = IF "fields" \in DOMAIN s THEN ReadFields(s.fields, "struct") ELSE <<>>,
            !.variants = [i \in DOMAIN variants |-> ReadVariant(variants[i])]]

ReadFlags(s, container) ==
    {f \in FlagKeys \cap DOMAIN s : s[f]}
    \cup (IF container = "impl" /\ s.signature_type = "method" THEN {"default_body"} ELSE {})
RECURSIVE ReadStatement(_, _)
\* What a statement in a container makes, its members with it.
ReadStatement(s, container) ==
    [ReadParts(s) EXCEPT
        !.visibility = ValueOf(s, "visibility", IF s.signature_type = "reexport" THEN Public ELSE DefaultVisibility(container)),
        !.flags = ValueOf(s, "qualifiers", {}) \cup ReadFlags(s, container),
        !.items = [i \in DOMAIN ValueOf(s, "items", <<>>) |-> ReadStatement(s.items[i], Container(s.signature_type))]]
MembersRead(s, container, module) ==
    \A i \in DOMAIN ValueOf(s, "items", <<>>) :
        LET member == s.items[i]
        IN  /\ MemberShapeHolds(member, container) /\ PartsRead(member, module)
            /\ container = "trait" => ValueOf(member, "visibility", Public) = Public
            /\ Constructible(ReadStatement(member, container))

ImplementationKeys == {"trait", "impl_qualifiers", "generics", "where", "attributes", "items"}
ImplementationReads(s, module) ==
    /\ DOMAIN s \subseteq ImplementationKeys
    /\ PartsRead("signature_type" :> "impl" @@ s, module)
    /\ "trait" \in DOMAIN s => s.trait \notin {<<>>, <<"!">>}
    /\ MembersRead(s, "impl", module)
ReadImplementation(s, owner) ==
    LET named == ValueOf(s, "trait", <<>>)
        negative == named # <<>> /\ named[1] = "!"
    IN  NormalizeForOwner(
            [ReadStatement("signature_type" :> "impl" @@ s, "none") EXCEPT
                !.path = IF negative THEN Tail(named) ELSE named,
                !.flags = ValueOf(s, "impl_qualifiers", {}) \cup (IF negative THEN {"negative"} ELSE {}),
                !.items = SortItems(@)], owner)

\* The name of a statement: given, or the label; a re-export is named by its path or alias.
NameOf(s, label) ==
    IF "name" \in DOMAIN s THEN s.name
    ELSE IF s.signature_type = "reexport" THEN VisibleName(s.path, ValueOf(s, "alias", Absent))
    ELSE label
\* The declaration a statement makes, before its blocks.
BareDeclaration(s, label) == [ReadStatement(s, "none") EXCEPT !.name = NameOf(s, label)]
BlocksOf(s, label) ==
    [i \in DOMAIN ValueOf(s, "implementations", <<>>) |-> ReadImplementation(s.implementations[i], BareDeclaration(s, label))]
CheckedNames == {"function", "struct", "enum", "trait", "union", "static", "type_alias"}
StatedModule(s) == <<"k">> \o ValueOf(s, "module_path", <<>>)
SignatureReads(s, label) ==
    LET type == s.signature_type
    IN  /\ ShapeHolds(s)
        /\ PartsRead(s, StatedModule(s)) /\ MembersRead(s, Container(type), StatedModule(s))
        /\ type \in CheckedNames => Identifier(NameOf(s, label))
        /\ type = "foreign_module" => "visibility" \notin DOMAIN s
        /\ type = "reexport" => ValueOf(s, "visibility", Public) # Private
        /\ Constructible(BareDeclaration(s, label))
        /\ LET stated == ValueOf(s, "implementations", <<>>)
           IN  \A i \in DOMAIN stated : ImplementationReads(stated[i], StatedModule(s))
        /\ IsInjective([i \in DOMAIN ValueOf(s, "implementations", <<>>) |-> Descriptor(BlocksOf(s, label)[i])])
ReadSignature(s, label) == [BareDeclaration(s, label) EXCEPT !.implementations = Range(BlocksOf(s, label))]

-----------------------------------------------------------------------------
(* The life of an item of the source in a contract: converted, written into  *)
(* a statement, read back.  A hand-written statement starts by being read and *)
(* then goes round as the kit's own does.                                     *)

Idle == [stage |-> "idle"]
FromSource(source) == [stage |-> "source", source |-> source, label |-> source.item.name]
FromHand(statement, label) == [stage |-> "given", statement |-> statement, label |-> label]

\* An item is converted in its module, as a declaration, an import or a failure.
Converted(source, d) ==
    [stage |-> IF PrivateImport(d) THEN "import" ELSE "declared", source |-> source,
     label |-> source.item.name, declaration |-> d, module |-> source.module]
ConvertStep ==
    /\ item.stage = "source"
    /\ item' = IF SourceConverts(item.source) THEN Converted(item.source, ConvertSource(item.source))
               ELSE [item EXCEPT !.stage = "refused"]

\* A declaration is written under a label of its document.
WriteStep ==
    /\ item.stage = "declared"
    /\ item' = [item EXCEPT !.stage = "written"]
               @@ [written |-> RenderSignature(item.declaration, item.module, item.label)]

\* A statement is accepted as a whole or refused.
ReadGiven ==
    /\ item.stage = "given"
    /\ IF ~SignatureReads(item.statement, item.label) THEN item' = [item EXCEPT !.stage = "refused"]
       ELSE item' = [item EXCEPT !.stage = "declared"]
                    @@ [declaration |-> ReadSignature(item.statement, item.label),
                        module |-> StatedModule(item.statement)]
ReadWritten ==
    /\ item.stage = "written"
    /\ IF ~SignatureReads(item.written, item.label) THEN item' = [item EXCEPT !.stage = "lost"]
       ELSE item' = [item EXCEPT !.stage = "read"] @@ [reading |-> ReadSignature(item.written, item.label)]

ItemNext == ConvertStep \/ WriteStep \/ ReadGiven \/ ReadWritten

-----------------------------------------------------------------------------

\* A variant's field whose statement "type: T" is that of a field without a name.
LooksUnnamed(f) == f.name = "type" /\ f.attributes = <<>>
\* A declaration without the names of such fields.
NamesLost(d) ==
    [d EXCEPT !.variants = [i \in DOMAIN @ |-> [@[i] EXCEPT !.fields =
        [j \in DOMAIN @ |-> IF LooksUnnamed(@[j]) THEN [@[j] EXCEPT !.name = Absent] ELSE @[j]]]]]
\* A member of a type's own block elsewhere may be visible in a module the type's module is not in.
OutOfPlace(d, module) ==
    \E b \in d.implementations : \E member \in Range(b.items) :
        ~VisibilityReads(member.visibility, module)

\* What of a declaration, of the source or of a hand-written statement, the statement the kit
\* writes of it loses: refused is exactly one with a member out of place, and of any other
\* exactly the names of the fields that look unnamed are missing when it is read again.
LossesAreThese ==
    /\ item.stage \in {"lost", "read"} =>
           (item.stage = "lost" <=> OutOfPlace(item.declaration, item.module))
    /\ item.stage = "read" => item.reading = NamesLost(item.declaration)

\* Every key of an accepted hand-written statement says something the declaration holds,
\* or only what the kit takes when the key is not given.
SaysNothing(s, key) ==
    \/ key \in {"crate_id", "sketch"}
    \/ key = "name" /\ s.name = item.label
    \/ key = "abi" /\ s.signature_type = "foreign_module" /\ s.abi = Extern
    \/ key \in FlagKeys /\ ~s[key]
    \/ key = "qualifiers" /\ s.qualifiers = {}
    \/ key = "variadic" /\ s.variadic.form = "flag" /\ ~s.variadic.value
    \/ key \in {"attributes", "fields"} /\ s[key].value = <<>>
    \/ key \in {"generics", "where", "parameters", "bounds", "supertraits", "variants", "items", "implementations"}
       /\ s[key] = <<>>
NoKeyIsIgnored ==
    item.stage = "written" /\ "statement" \in DOMAIN item =>
        \A key \in DOMAIN item.statement : key \in DOMAIN item.written \/ SaysNothing(item.statement, key)

\* Attributes written into the text of a type are read again as the same attributes.
AttributeTextIsReadBack ==
    item.stage = "declared" =>
        LET attributes == item.declaration.attributes
        IN  AttributesFromSyntax([i \in DOMAIN attributes |-> ToSyntax(attributes[i])])
                = [ok |-> TRUE, values |-> attributes]

\* A declaration of the source is visible exactly where Rust makes the item visible: in the
\* subtree of the module its visibility names, and everywhere when it is public.
ScopeIsKept ==
    item.stage = "declared" /\ "source" \in DOMAIN item =>
        LET s == item.source
            d == item.declaration
        IN  d.kind \notin {"macro", "foreign_module"} =>
            /\ DeclaredScope(d.visibility, s.module) = SourceScope(s.item.visibility, s.module)
            /\ \A i \in DOMAIN d.fields :
                   DeclaredScope(d.fields[i].visibility, s.module) = SourceScope(s.item.fields[i].visibility, s.module)

\* "The combined dialect must be lossless for every field represented by the Rust parser domain
\* model. Generated documents should parse back to the same inventory digest for all Rust item
\* kinds that `conkit-signature` supports." (conkit-signature/ARCHITECTURE.md:239-242): the
\* statement the kit writes of a declaration, and the text it writes of a type, are read and
\* make the same declaration and the same type.
DialectIsLossless ==
    /\ item.stage \notin {"lost", "lost_type"}
    /\ item.stage = "read" => item.reading = item.declaration
    /\ item.stage = "retyped" => Compares(item.again) = Compares(item.value)

\* What an item says, and what becomes of it: the statement written of it loses exactly what
\* the dialect cannot say and nothing else; what a statement written by hand says, what an
\* attribute inside a type says and where an item is visible is kept.
\* (RustItemConverter, RustYamlRenderedSignature, RustYamlRawSignature, RustAttributes)
StatementsAreExact ==
    LossesAreThese /\ NoKeyIsIgnored /\ AttributeTextIsReadBack /\ ScopeIsKept /\ TypesAreExact
=============================================================================

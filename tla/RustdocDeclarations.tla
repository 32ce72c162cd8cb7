------------------------- MODULE RustdocDeclarations -------------------------
(* A declaration of the compiler backend: the item of a rustdoc document it  *)
(* starts from and what it is lowered to, beside what the syntax backend     *)
(* makes of the source item rustdoc has documented                           *)
(* (conkit-signature/languages/rust/rustdoc/declarations.rs).  The texts of  *)
(* types, generics and bounds are opaque; the parts of an item hang below it *)
(* instead of being looked up.                                               *)
EXTENDS ItemDeclarations

VARIABLE surface    \* one item of a rustdoc document under way

\* Who may see an item: a word, or a module as the document's paths summarize it.
SeenBy(tag) == [tag |-> tag, parent |-> <<>>, of |-> "none", path |-> ""]
SeenIn(parent, of, path) == [tag |-> "restricted", parent |-> parent, of |-> of, path |-> path]

\* An item, of which a kind uses what it has; an attribute keeps its words in rustdoc's
\* order, which for repr is its kind, alignment, packing and integer.
RustdocItem ==
    [kind |-> "", name |-> "x", visibility |-> SeenBy("public"), attributes |-> <<>>,
     deprecation |-> <<>>, flags |-> {}, abi |-> [name |-> NoAbi, unwind |-> FALSE],
     generics |-> <<>>, where |-> <<>>, bounds |-> <<>>, type |-> Absent, value |-> Absent,
     rename |-> Absent, target |-> <<>>, inputs |-> <<>>, parts |-> <<>>, source |-> <<>>]
\* An input of a function: a receiver gives its lifetime, any other its type.
RustdocInput(name, form, mutable, text) == [name |-> name, form |-> form, mutable |-> mutable, text |-> text]

-----------------------------------------------------------------------------
(* The parts every item has.                                                 *)

\* A hint of repr by its place, and the attribute when there is one to state.
ReprPart(words, i) ==
    IF words[i] = Absent THEN <<>>
    ELSE <<CASE i = 2 -> Listed("align", <<Word(words[i])>>)
             [] i = 3 -> Listed("packed", <<Word(words[i])>>)
             [] OTHER -> Word(words[i])>>
ReprParts(words) == FlattenSeq([i \in 1..4 |-> ReprPart(words, i)])
AttributeSource(a) ==
    CASE a.kind = "automatically_derived" -> <<>>
      [] a.kind = "repr" -> IF ReprParts(a.words) = <<>> THEN <<>> ELSE <<Listed("repr", ReprParts(a.words))>>
      [] a.kind = "target_feature" -> <<Listed(a.kind, [i \in DOMAIN a.words |-> Valued("enable", a.words[i])])>>
      [] a.kind = "other" -> a.trees
      [] a.kind \in {"must_use", "export_name", "link_section"} /\ a.words # <<Absent>> -> <<Valued(a.kind, a.words[1])>>
      [] OTHER -> <<Word(a.kind)>>
\* The attributes in order, then the deprecation; stability is refused.
AttributeSources(d) ==
    FlattenSeq([i \in DOMAIN d.attributes |-> AttributeSource(d.attributes[i])])
    \o (IF d.deprecation = <<>> THEN <<>> ELSE <<ToSyntax(Attribute("deprecated", d.deprecation, <<>>, <<>>))>>)
\* A module's path is not among its attributes, but must be a string.
IsPathTree(d, t) == d.kind = "module" /\ t.word = "path"
StatedSources(d) == SelectSeq(AttributeSources(d), LAMBDA t : ~IsPathTree(d, t))
AttributesLower(d) ==
    /\ "stability" \notin d.flags
    /\ \A t \in Range(AttributeSources(d)) : IsPathTree(d, t) => IsLiteral(t)
    /\ AttributesFromSyntax(StatedSources(d)).ok
LowerAttributes(d) == AttributesFromSyntax(StatedSources(d)).values

\* A restriction names a local module that holds the item's; the summary's crate is the item's.
ParentModule(v, module) == <<module[1]>> \o Tail(v.parent)
VisibilityLowers(v, module) ==
    v.tag = "restricted" =>
        /\ v.of = "module" /\ v.parent # <<>> /\ v.path # ""
        /\ v.path = "crate" => Len(v.parent) = 1
        /\ IsPrefix(ParentModule(v, module), module)
LowerVisibility(v, module) ==
    CASE v.tag = "public" -> Public
      [] v.tag = "crate" -> InCrate
      [] v.tag = "default" -> Private
      [] v.tag = "restricted" /\ ParentModule(v, module) = module ->
            IF Len(module) = 1 /\ v.path = "crate" THEN InCrate ELSE Private
      [] v.tag = "restricted" /\ ParentModule(v, module) # module /\ Len(v.parent) = 1 -> InCrate
      [] OTHER -> <<"module">> \o ParentModule(v, module)

\* An item with the parts that most kinds have.
BaseType(d, kind) == [Blank EXCEPT !.kind = kind, !.name = d.name, !.visibility = Public, !.attributes = LowerAttributes(d)]
WithGenerics(x, d) ==
    [x EXCEPT !.generics = [i \in DOMAIN d.generics |-> Generic(d.generics[i], <<>>)],
              !.where = d.where, !.bounds = d.bounds, !.type = d.type]

-----------------------------------------------------------------------------
(* Functions and members.                                                    *)

FunctionAbi(abi) == IF abi.name = NoAbi THEN NoAbi ELSE IF abi.unwind THEN abi.name \o "-unwind" ELSE abi.name

\* The first input is the receiver when it is spelled as one.
HasReceiver(d) == d.inputs # <<>> /\ Last(d.inputs[1].name) = "self"
ReceiverOf(d) ==
    LET first == d.inputs[1]
        changes == first.name[1] = "mut"
    IN  CASE ~HasReceiver(d) -> <<>>
          [] HasReceiver(d) /\ first.form = "Self" -> Receiver("value", changes, Absent)
          [] HasReceiver(d) /\ first.form = "&Self" -> Receiver("reference", first.mutable, first.text)
          [] OTHER -> Receiver("typed", changes, first.text)
\* Inputs lose their names, and a receiver is none of the parameters.
LowerFunction(d, inputs) ==
    [WithGenerics(BaseType(d, "function"), d) EXCEPT
        !.flags = d.flags \cap {"const", "async", "unsafe"}, !.abi = FunctionAbi(d.abi),
        !.parameters = [i \in DOMAIN inputs |-> Parameter(Absent, inputs[i].text, <<>>)],
        !.variadic = IF "variadic" \in d.flags THEN <<Variadic(Absent, <<>>)>> ELSE <<>>]

MemberVisibility(d, module, traited) == IF traited THEN Public ELSE LowerVisibility(d.visibility, module)
LowerMember(d, module, traited) ==
    LET member ==
            CASE d.kind = "function" ->
                   [LowerFunction(d, IF HasReceiver(d) THEN Tail(d.inputs) ELSE d.inputs) EXCEPT
                       !.kind = "method", !.receiver = ReceiverOf(d), !.flags = @ \cup (d.flags \cap {"default_body"})]
              [] d.kind = "associated_constant" -> [BaseType(d, d.kind) EXCEPT !.type = d.type, !.value = d.value]
              [] OTHER -> WithGenerics(BaseType(d, d.kind), d)
    IN  [member EXCEPT !.visibility = MemberVisibility(d, module, traited)]
MemberLowers(d, module, traited) ==
    /\ d.kind \in {"function", "associated_constant", "associated_type"}
    /\ "default_unstable" \notin d.flags /\ AttributesLower(d)
    /\ traited \/ VisibilityLowers(d.visibility, module)

-----------------------------------------------------------------------------
(* Declarations.                                                             *)

\* Fields, all of them: one that rustdoc has stripped refuses the item.
FieldsLower(d, module) ==
    /\ "stripped" \notin d.flags
    /\ \A f \in Range(d.parts) :
           f.kind = "field" /\ AttributesLower(f) /\ VisibilityLowers(f.visibility, module)
LowerFields(d, module) ==
    [i \in DOMAIN d.parts |->
        LET f == d.parts[i]
        IN  Field(f.name, LowerVisibility(f.visibility, module), f.type, LowerAttributes(f))]

\* The fields of a variant have no visibility, and a name only in braces.
VariantLowers(v) ==
    /\ v.kind = "variant" /\ "stripped" \notin v.flags /\ AttributesLower(v)
    /\ \A f \in Range(v.parts) : f.kind = "field" /\ AttributesLower(f)
LowerVariant(v) ==
    Variant(v.name, [i \in DOMAIN v.parts |->
                LET f == v.parts[i]
                IN  Field(IF "braces" \in v.flags THEN f.name ELSE Absent, Private, f.type, LowerAttributes(f))],
            v.value, LowerAttributes(v))

\* The members an implementation keeps: a trait's all, else the public ones.
Traits(d) == d.target # <<>>
KeptParts(d) == SelectSeq(d.parts, LAMBDA p : Traits(d) \/ p.visibility.tag = "public")
LowerImplementation(d, module) ==
    [WithGenerics(BaseType(d, "impl"), d) EXCEPT
        !.visibility = Private, !.path = d.target, !.flags = d.flags \cap {"unsafe", "negative"},
        !.items = [i \in DOMAIN KeptParts(d) |-> LowerMember(KeptParts(d)[i], module, Traits(d))]]
ImplementationLowers(d, module) ==
    /\ "blanket" \notin d.flags /\ AttributesLower(d)
    /\ "negative" \in d.flags => Traits(d)
    /\ \A p \in Range(KeptParts(d)) : MemberLowers(p, module, Traits(d))
\* What the compiler made, another crate's, and a block of which nothing is public.
PassedOver(d) ==
    d.kind = "impl" /\ (d.flags \cap {"synthetic", "foreign"} # {} \/ (~Traits(d) /\ KeptParts(d) = <<>>))

\* A module has its shape from its source, which must be public and have its name.
ModuleLowers(d) ==
    /\ d.source # <<>> /\ d.source[1].name = d.name /\ d.source[1].visibility = <<"pub">>
    /\ "unsafe" \notin d.source[1].flags /\ PathConverts(d.source[1])

\* reexport_declaration: the effective name, and an alias when the path does not end with it.
LowerReexport(d) ==
    [BaseType(d, "reexport") EXCEPT !.path = d.target, !.alias = IF Last(d.target) = d.name THEN Absent ELSE d.name]

Representable == {"function", "type_alias", "trait_alias", "constant", "static", "extern_crate", "struct",
                  "enum", "union", "trait", "module", "export", "impl"}
LowerItem(d, module) ==
    CASE d.kind = "function" -> LowerFunction(d, d.inputs)
      [] d.kind \in {"type_alias", "trait_alias"} -> WithGenerics(BaseType(d, d.kind), d)
      [] d.kind = "constant" -> [BaseType(d, d.kind) EXCEPT !.type = d.type, !.value = d.value]
      [] d.kind = "static" -> [BaseType(d, d.kind) EXCEPT !.type = d.type, !.flags = d.flags \cap {"mutable"}]
      [] d.kind = "extern_crate" ->
            [BaseType(d, d.kind) EXCEPT !.name = IF d.rename = Absent THEN d.name ELSE d.rename, !.alias = d.rename]
      [] d.kind \in {"struct", "union"} -> [WithGenerics(BaseType(d, d.kind), d) EXCEPT !.fields = LowerFields(d, module)]
      [] d.kind = "enum" ->
            [WithGenerics(BaseType(d, d.kind), d) EXCEPT !.variants = [i \in DOMAIN d.parts |-> LowerVariant(d.parts[i])]]
      [] d.kind = "trait" ->
            [WithGenerics(BaseType(d, d.kind), d) EXCEPT
                !.flags = d.flags \cap {"unsafe", "auto"},
                !.items = [i \in DOMAIN d.parts |-> LowerMember(d.parts[i], module, TRUE)]]
      [] d.kind = "module" ->
            [BaseType(d, d.kind) EXCEPT !.path = PathOverride(d.source[1]), !.flags = d.source[1].flags \cap {"inline"}]
      [] d.kind = "export" -> LowerReexport(d)
      [] OTHER -> LowerImplementation(d, module)
ItemLowers(d, module) ==
    /\ d.kind \in Representable /\ AttributesLower(d)
    /\ d.kind = "function" => "default_unstable" \notin d.flags
    /\ d.kind = "static" => "unsafe" \notin d.flags
    /\ d.kind \in {"struct", "union"} => FieldsLower(d, module)
    /\ d.kind = "enum" => "stripped" \notin d.flags /\ \A v \in Range(d.parts) : VariantLowers(v)
    /\ d.kind = "trait" => \A p \in Range(d.parts) : MemberLowers(p, module, TRUE)
    /\ d.kind = "impl" => ImplementationLowers(d, module)
    /\ d.kind = "module" => ModuleLowers(d)
    /\ Constructible(LowerItem(d, module))
    /\ \A x \in Range(LowerItem(d, module).items) : Constructible(x)

NoSurface == [stage |-> "none"]
Surface(d, module) == [stage |-> "item", item |-> d, module |-> module]
LowerStep ==
    /\ surface.stage = "item"
    /\ surface' =
         IF PassedOver(surface.item) THEN [surface EXCEPT !.stage = "passed"]
         ELSE IF ItemLowers(surface.item, surface.module)
           THEN [surface EXCEPT !.stage = "lowered"] @@ [declaration |-> LowerItem(surface.item, surface.module)]
         ELSE [surface EXCEPT !.stage = "unrepresentable"]

-----------------------------------------------------------------------------
(* What rustdoc documents of a source item.                                  *)

HintsAmong(t, words) == SelectSeq(t.args, LAMBDA h : h.word \in words)
OneHint(hints) == IF hints = <<>> THEN Absent ELSE IF hints[1].args = <<>> THEN hints[1].word ELSE hints[1].args[1].word
DocumentedAttribute(t) ==
    CASE t.word \in {"derive", "cfg", "deprecated"} -> <<>>
      [] t.word = "repr" ->
           <<Attribute("repr", <<OneHint(HintsAmong(t, {"C", "transparent", "simd"})), OneHint(HintsAmong(t, {"align"})),
                                 OneHint(HintsAmong(t, {"packed"})), OneHint(HintsAmong(t, {"u8", "i8"}))>>, <<>>, <<>>)>>
      [] t.word = "target_feature" -> <<Attribute(t.word, [i \in DOMAIN t.args |-> t.args[i].text], <<>>, <<>>)>>
      [] t.word \in {"must_use", "export_name", "link_section"} ->
           <<Attribute(t.word, <<IF t.style = "path" THEN Absent ELSE t.text>>, <<>>, <<>>)>>
      [] t.word \in {"non_exhaustive", "no_mangle", "macro_export"} -> <<Attribute(t.word, <<>>, <<>>, <<>>)>>
      [] OTHER -> <<Attribute("other", <<>>, <<t>>, <<>>)>>
DocumentedAttributes(trees) == FlattenSeq([i \in DOMAIN trees |-> DocumentedAttribute(trees[i])])
DocumentedDeprecation(trees) ==
    LET at == SelectInSeq(trees, LAMBDA t : t.word = "deprecated")
    IN  IF at = 0 THEN <<>> ELSE Fields(trees[at], Keys("deprecated"))

\* A scope has two spellings at the crate root, and an item without a visibility has none.
DocumentedVisibility(visibility, module, spelled) ==
    LET scope == SourceScope(visibility, module)
    IN  IF scope = <<>> THEN SeenBy("public")
        ELSE IF ~spelled /\ Len(scope) = 1 THEN SeenBy("crate")
        ELSE IF ~spelled /\ visibility = <<>> THEN SeenBy("default")
        ELSE SeenIn(scope, "module", IF Len(scope) = 1 THEN "crate" ELSE "in")

\* The fields of a tuple are named by their positions.
Positions == <<"0", "1">>
DocumentedField(f, i, module, spelled) ==
    [RustdocItem EXCEPT !.kind = "field", !.name = IF f.name = Absent THEN Positions[i] ELSE f.name, !.type = f.type,
        !.visibility = DocumentedVisibility(f.visibility, module, spelled),
        !.attributes = DocumentedAttributes(f.attributes), !.deprecation = DocumentedDeprecation(f.attributes)]
DocumentedFields(fields, module, spelled) ==
    [i \in DOMAIN fields |-> DocumentedField(fields[i], i, module, spelled)]
DocumentedVariant(v, module) ==
    [RustdocItem EXCEPT !.kind = "variant", !.name = v.name, !.value = v.discriminant,
        !.parts = DocumentedFields(v.fields, module, FALSE), !.attributes = DocumentedAttributes(v.attributes),
        !.deprecation = DocumentedDeprecation(v.attributes),
        !.flags = IF \E f \in Range(v.fields) : f.name # Absent THEN {"braces"} ELSE {}]

DocumentedReceiver(r) ==
    RustdocInput(<<"self">>, CASE r.by = "value" -> "Self" [] r.by = "reference" -> "&Self" [] OTHER -> "typed", r.mutable, r.text)
DocumentedInputs(x) ==
    [i \in DOMAIN x.receiver |-> DocumentedReceiver(x.receiver[i])]
    \o [i \in DOMAIN x.parameters |->
          RustdocInput(<<IF x.parameters[i].pattern = Absent THEN "" ELSE x.parameters[i].pattern>>, "typed", FALSE, x.parameters[i].type)]
DocumentedAbi(abi) ==
    [name |-> IF abi \in {Unnamed, "C-unwind"} THEN "C" ELSE abi, unwind |-> abi = "C-unwind"]
DocumentedKind(kind) ==
    CASE kind = "method" -> "function"
      [] kind = "use" -> "export"
      [] kind \in {"foreign_module", "verbatim"} -> "extern_type"
      [] OTHER -> kind

\* private: whether rustdoc was asked for private items too, and does not strip them.
RECURSIVE Documented(_, _, _, _)
Documented(x, module, spelled, private) ==
    [RustdocItem EXCEPT
        !.kind = DocumentedKind(x.kind), !.visibility = DocumentedVisibility(x.visibility, module, spelled),
        !.name = IF x.kind = "use" THEN VisibleName(x.path, x.alias) ELSE x.name,
        !.attributes = DocumentedAttributes(x.attributes), !.deprecation = DocumentedDeprecation(x.attributes),
        !.flags = x.flags \cup (IF x.variadic = <<>> THEN {} ELSE {"variadic"})
                  \cup (IF ~private /\ \E f \in Range(x.fields) : f.visibility # <<"pub">> THEN {"stripped"} ELSE {}),
        !.abi = DocumentedAbi(x.abi), !.generics = [i \in DOMAIN x.generics |-> x.generics[i].text], !.where = x.where,
        !.bounds = x.bounds, !.type = x.type, !.value = x.value, !.rename = x.alias, !.target = x.path,
        !.inputs = DocumentedInputs(x),
        !.parts = DocumentedFields(x.fields, module, spelled) \o [i \in DOMAIN x.variants |-> DocumentedVariant(x.variants[i], module)]
                  \o [i \in DOMAIN x.items |->
                         LET member == Documented(x.items[i], module, spelled, private)
                         IN  IF x.kind = "impl" /\ member.kind = "function" THEN [member EXCEPT !.flags = @ \cup {"default_body"}] ELSE member],
        !.source = IF x.kind = "module" THEN <<x>> ELSE <<>>]
SurfaceOf(x, module, spelled, private) ==
    Surface(Documented(x, module, spelled, private), module) @@ [documents |-> x]

-----------------------------------------------------------------------------

\* What a declaration says whichever backend made it: where it may be seen, and neither
\* what the compiler has resolved (derives and conditions), nor names and attributes that
\* rustdoc does not keep, nor the order of attributes.
RetainedAttributes(attributes) ==
    {[a EXCEPT !.trees = Range(@)] : a \in {b \in Range(attributes) : b.kind \notin {"derive", "cfg"}}}
RetainedFields(fields, module) ==
    [i \in DOMAIN fields |-> [fields[i] EXCEPT !.attributes = RetainedAttributes(@), !.visibility = DeclaredScope(@, module)]]
RetainedReceiver(receiver) ==
    [i \in DOMAIN receiver |-> [receiver[i] EXCEPT !.mutable = @ /\ receiver[i].by = "reference"]]
\* Of a type's own block only the public members are in a compiler's declaration.
Published(x) ==
    IF x.kind = "impl" /\ ~Traited(x) THEN [x EXCEPT !.items = SelectSeq(@, LAMBDA y : y.visibility = Public)] ELSE x
RECURSIVE Retained(_, _)
Retained(x, module) ==
    [x EXCEPT
        !.attributes = RetainedAttributes(@), !.visibility = DeclaredScope(@, module),
        !.abi = IF @ = Unnamed THEN "C" ELSE @,
        !.generics = [i \in DOMAIN @ |-> @[i].text],
        !.parameters = [i \in DOMAIN @ |-> @[i].type], !.variadic = [i \in DOMAIN @ |-> TRUE],
        !.receiver = RetainedReceiver(@), !.receiver_attributes = <<>>,
        !.fields = RetainedFields(@, module),
        !.variants = [i \in DOMAIN @ |-> [@[i] EXCEPT !.attributes = RetainedAttributes(@),
                                                      !.fields = RetainedFields(@, module)]],
        \* Of a crate that is imported under another name, rustdoc's is kept alone.
        !.name = IF x.kind = "extern_crate" /\ x.alias # Absent THEN x.alias ELSE @,
        !.alias = IF x.kind = "reexport" /\ @ = Last(x.path) THEN Absent ELSE @,
        !.items = [i \in DOMAIN @ |-> Retained(@[i], module)]]

\* The two backends declare the same of one source item, which the compiler's refuses only
\* where rustdoc leaves out what the item says.
Incomplete(x) ==
    \/ x.kind \in {"macro", "foreign_module", "verbatim"} \/ "unsafe" \in x.flags
    \/ \E f \in Range(x.fields) : f.name = Absent \/ f.visibility # <<"pub">>
BackendsAgree ==
    "documents" \in DOMAIN surface =>
        LET x == surface.documents
            m == surface.module
        IN  /\ surface.stage = "lowered" =>
                  /\ ItemConverts(x, "none", m)
                  /\ Retained(surface.declaration, m) = Retained(Published(ConvertItem(x, "none", m)), m)
            /\ surface.stage = "unrepresentable" => ~ItemConverts(x, "none", m) \/ Incomplete(x)
            /\ surface.stage = "passed" => KeptParts(surface.item) = <<>>

\* An item is lowered with all of its parts, never with what rustdoc has left of it, and a
\* field is seen where the document says it is, in a module around the item.
DocumentedScope(v, module) ==
    CASE v.tag = "public" -> <<>>
      [] v.tag = "crate" -> <<module[1]>>
      [] v.tag = "default" -> module
      [] OTHER -> ParentModule(v, module)
NothingIsOmitted ==
    surface.stage = "lowered" =>
        LET d == surface.item
            x == surface.declaration
            said == IF d.kind = "impl" THEN KeptParts(d) ELSE d.parts
        IN  /\ \A p \in {d} \cup Range(said) \cup UNION {Range(q.parts) : q \in Range(said)} :
                   p.flags \cap {"stripped", "default_unstable", "stability", "blanket"} = {}
            /\ Len(x.fields) + Len(x.variants) + Len(x.items) = Len(said)
            /\ \A i \in DOMAIN x.fields :
                   LET scope == DocumentedScope(d.parts[i].visibility, surface.module)
                   IN  DeclaredScope(x.fields[i].visibility, surface.module) = scope /\ IsPrefix(scope, surface.module)

\* What the compiler backend declares is what the syntax backend declares of the same source
\* and all that the document says. (RustdocDeclarationLowerer, RustItemConverter)
SurfaceIsExact == BackendsAgree /\ NothingIsOmitted
=============================================================================

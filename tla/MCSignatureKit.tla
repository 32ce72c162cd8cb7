--------------------------- MODULE MCSignatureKit ---------------------------
(* Small instances of the signature kit for TLC. *)
EXTENDS SignatureOperation, RustdocProjection, ItemStatements

(* Items and statements *)

In == {<<"k">>, <<"k", "a">>, <<"k", "a", "b">>}
PublicItem(kind) == [Blank EXCEPT !.kind = kind, !.visibility = <<"pub">>]
Alone(x, module) == [item |-> x, module |-> module, blocks |-> <<>>]
TypedItem(kind) == [PublicItem(kind) EXCEPT !.type = "T"]

\* Attributes, alone and in pairs.
Leaves ==
    {Word("inline"), Word("non_exhaustive"), Word("must_use"), Word("deprecated"), Word("cfg"), Word("derive"),
     Word("no_mangle"), Word("export_name"), Listed("inline", <<>>), Listed("inline", <<Word("always")>>),
     Listed("inline", <<Nothing>>), Listed("derive", <<>>), Listed("derive", <<Word("C"), Word("a")>>),
     Listed("derive", <<Valued("a", "x")>>), Listed("repr", <<Word("C"), Word("Rust")>>), Listed("repr", <<Word("Rust")>>),
     Listed("repr", <<Listed("packed", <<Word("1")>>)>>), Listed("repr", <<Listed("align", <<Word("16")>>), Word("packed")>>),
     Listed("repr", <<Word("a")>>), Listed("repr", <<>>), Valued("repr", "C"),
     Listed("cfg", <<Word("test")>>), Listed("cfg", <<Valued("feature", "x")>>), Listed("cfg", <<Valued("feature", NotText)>>),
     Listed("cfg", <<Listed("not", <<Word("test")>>)>>), Listed("cfg", <<Listed("not", <<Word("test"), Word("unix")>>)>>),
     Listed("cfg", <<Listed("all", <<>>)>>), Listed("cfg", <<Listed("any", <<Word("true"), Word("crate")>>)>>),
     Listed("cfg", <<Word("test"), Word("unix")>>),
     Valued("must_use", "x"), Valued("must_use", NotText), Valued("export_name", "x"), Valued("link_section", ""),
     Valued("link_name", "x"), Valued("deprecated", "x"), Listed("deprecated", <<>>),
     Listed("deprecated", <<Valued("note", "x"), Valued("since", "1")>>), Listed("deprecated", <<Valued("note", "x"), Valued("note", "y")>>),
     Listed("deprecated", <<Valued("since", "")>>), Listed("deprecated", <<Valued("until", "1")>>),
     Valued("doc", "x"), Listed("doc", <<Word("hidden")>>), Listed("allow", <<Word("a")>>), Word("warn"),
     Listed("link", <<Valued("name", "x")>>), Listed("link", <<Valued("kind", "y"), Valued("name", "x")>>),
     Listed("link", <<Valued("name", "")>>), Listed("link", <<Valued("kind", "y")>>), Listed("link", <<>>)}
Wrapped(t) ==
    {Listed("cfg_attr", <<Word("test"), t>>), Listed("cfg_attr", <<Word("test"), t, Word("inline")>>),
     Listed("cfg_attr", <<Word("crate"), t>>), Listed("unsafe", <<t>>),
     Listed("cfg_attr", <<Listed("any", <<>>), Valued("doc", "x"), t, Nothing>>)}
Attributes ==
    {<<t>> : t \in Leaves} \cup {<<w>> : w \in UNION {Wrapped(t) : t \in Leaves}}
    \cup {<<t, u>> : t, u \in {Word("inline"), Listed("derive", <<Word("a")>>), Valued("doc", "x"), Word("cfg"), Listed("unsafe", <<Word("no_mangle")>>)}}
    \cup {<<Listed("cfg_attr", <<Word("test"), Listed("cfg_attr", <<Word("unix"), t>>)>>)>> : t \in Leaves}
Attributed == {Alone([PublicItem("function") EXCEPT !.attributes = a], <<"k">>) : a \in Attributes}

Visibilities ==
    {<<>>, <<"pub">>, <<"crate">>, <<"self">>, <<"super">>, <<"super", "super">>, <<"super", "super", "super">>,
     <<"crate", "a">>, <<"crate", "a", "b">>, <<"crate", "b">>, <<"self", "super">>, <<"crate", "super">>, <<"a">>,
     <<"super", "self">>, <<"super", "b">>, <<"self", "b">>, <<"crate", "self", "a">>, <<"crate", "a", "self">>}
Inl == Word("inline")
AField(name, v, a) == Field(name, v, "T", a)
Visible ==
    {Alone([PublicItem("static") EXCEPT !.type = "T", !.visibility = v], m) : v \in Visibilities, m \in In}
    \cup {Alone([PublicItem("struct") EXCEPT !.fields = <<AField("x", v, a), AField("type", <<>>, b)>>], m) :
            v \in Visibilities, m \in In, a, b \in {<<>>, <<Inl>>}}
    \cup {Alone([PublicItem("union") EXCEPT !.fields = <<AField(Absent, v, a), AField(Absent, <<"pub">>, <<>>)>>], m) :
            v \in Visibilities, m \in In, a \in {<<>>, <<Inl>>}}

VariantField(name, attributes) == Field(name, Private, "T", attributes)
VariantSets ==
    LET fields == {<<>>, <<VariantField(Absent, <<>>)>>, <<VariantField(Absent, <<Inl>>), VariantField(Absent, <<>>)>>,
                   <<VariantField("x", <<>>)>>, <<VariantField("x", <<Inl>>), VariantField("y", <<>>)>>,
                   <<VariantField("type", <<>>)>>, <<VariantField("type", <<Inl>>)>>, <<VariantField("self", <<>>)>>}
        one == {Variant(n, f, d, a) : n \in {"x", "self"}, f \in fields, d \in {Absent, "1"}, a \in {<<>>, <<Inl>>, <<Word("cfg")>>}}
    IN  {<<>>} \cup {<<v>> : v \in one} \cup {<<v, w>> : v, w \in {u \in one : u.name = "x" /\ u.attributes = <<>>}}
Enums == {Alone([PublicItem("enum") EXCEPT !.variants = v], <<"k">>) : v \in VariantSets}

SomeGenerics == {<<>>, <<Generic("G", <<>>)>>}
Receivers ==
    {<<>>} \cup {Receiver(by, mutable, Absent) : by \in {"value", "reference"}, mutable \in BOOLEAN}
    \cup {Receiver("reference", mutable, "'a") : mutable \in BOOLEAN} \cup {Receiver("typed", mutable, "Rc") : mutable \in BOOLEAN}
Callables ==
    {[PublicItem(kind) EXCEPT !.flags = q, !.abi = abi, !.variadic = v, !.parameters = p, !.generics = g, !.where = w, !.type = r] :
        kind \in {"function", "method", "foreign_function"}, q \in {{}, {"const", "unsafe"}, {"async"}, {"safe"}},
        abi \in {NoAbi, Unnamed, "system"},
        v \in {<<>>, <<Variadic(Absent, <<>>)>>, <<Variadic("x", <<>>)>>, <<Variadic(Absent, <<Inl>>)>>},
        p \in {<<>>, <<Parameter("x", "T", <<>>), Parameter(Absent, "T", <<Inl>>)>>},
        g \in {<<>>, <<Generic("G", <<>>), Generic("H", <<Inl>>)>>}, w \in {<<>>, <<"P">>}, r \in {Absent, "T"}}
FunctionItems == {Alone(x, <<"k">>) : x \in {c \in Callables : c.kind = "function"}}

\* A member, and an item with members.
Members ==
    {[x EXCEPT !.name = "a"] : x \in {c \in Callables : c.kind = "method" /\ c.where = <<>> /\ c.abi = NoAbi /\ c.type = "T"}}
    \cup {[PublicItem("method") EXCEPT !.receiver = r, !.receiver_attributes = a, !.flags = f, !.visibility = v] :
            r \in Receivers, a \in {<<>>, <<Inl>>}, f \in {{}, {"default_body"}, {"specialization_default"}}, v \in {<<>>, <<"pub">>, <<"crate">>}}
    \cup {[TypedItem("associated_constant") EXCEPT !.value = v, !.generics = g, !.name = n, !.flags = f] :
            v \in {Absent, "1"}, g \in SomeGenerics, n \in {"b", "_"}, f \in {{}, {"specialization_default"}}}
    \cup {[PublicItem(kind) EXCEPT !.type = t, !.bounds = b, !.generics = g, !.name = n, !.flags = f] :
            kind \in {"associated_type", "associated_macro"}, t \in {Absent, "T"}, b \in {<<>>, <<"B">>},
            g \in SomeGenerics, n \in {"b", "_"}, f \in {{}, {"specialization_default"}}}
Traits ==
    {Alone([PublicItem("trait") EXCEPT !.items = <<m>>, !.flags = f, !.bounds = b], <<"k", "a">>) : m \in Members, f \in {{}, {"auto", "unsafe"}}, b \in {<<>>, <<"B">>}}
    \cup {Alone([PublicItem("trait") EXCEPT !.items = <<m, [m EXCEPT !.name = "y"]>>], <<"k">>) : m \in Members}
    \cup {Alone([PublicItem("trait_alias") EXCEPT !.bounds = b, !.name = n], <<"k">>) : b \in {<<>>, <<"B">>}, n \in {"x", "_"}}
Foreign ==
    {Alone([PublicItem("foreign_module") EXCEPT !.items = <<x>>, !.abi = abi, !.flags = f], <<"k">>) :
        abi \in {NoAbi, Unnamed, "system", "system-", ""}, f \in {{}, {"unsafe"}},
        x \in {c \in Callables : c.kind = "foreign_function" /\ c.where = <<>>}
            \cup {[TypedItem("foreign_static") EXCEPT !.flags = g, !.name = n] : g \in {{}, {"mutable"}}, n \in {"x", "é"}}
            \cup {PublicItem("foreign_type"), [PublicItem("foreign_macro") EXCEPT !.tokens = "t", !.visibility = <<>>]}}

ItemBlock(traits, module, members, flags) ==
    [item |-> [PublicItem("impl") EXCEPT !.path = traits, !.items = members, !.flags = flags], module |-> module, blocks |-> <<>>]
MethodAt(v) == [PublicItem("method") EXCEPT !.visibility = v, !.receiver = Receiver("reference", FALSE, Absent)]
ItemBlocks ==
    {<<ItemBlock(t, m, <<MethodAt(v)>>, f)>> : t \in {<<>>, <<"Tr">>}, m \in In, v \in Visibilities, f \in {{}, {"negative"}, {"unsafe", "default"}}}
    \cup {<<ItemBlock(t, <<"k">>, <<[x EXCEPT !.name = "b"], [x EXCEPT !.name = "a"]>>, {}), ItemBlock(u, m, <<MethodAt(<<>>)>>, f)>> :
            t, u \in {<<>>, <<"Tr">>}, m \in In, f \in {{}, {"unsafe"}}, x \in {MethodAt(<<"pub">>), [TypedItem("associated_constant") EXCEPT !.value = "1"]}}
TypeItems == {[Alone([PublicItem(kind) EXCEPT !.visibility = v, !.type = IF kind = "type_alias" THEN "T" ELSE @], m) EXCEPT !.blocks = b] :
              kind \in {"struct", "type_alias"}, v \in {<<"pub">>, <<"super">>}, m \in {<<"k", "a">>}, b \in ItemBlocks}

OtherItems ==
    {Alone([PublicItem("use") EXCEPT !.path = p, !.alias = a, !.flags = f, !.visibility = v], <<"k", "a">>) :
        p \in {<<"a">>, <<"a", "b">>, <<"a", "self">>, <<"self">>, <<"super">>, <<"a", "crate">>},
        a \in {Absent, "_", "c", "self"}, f \in {{}, {"glob"}, {"group"}}, v \in {<<>>, <<"pub">>, <<"self">>, <<"super">>}}
    \cup {Alone([PublicItem("extern_crate") EXCEPT !.name = n, !.alias = a], <<"k">>) : n \in {"x", "self", "é"}, a \in {Absent, "_", "c", "self"}}
    \cup {Alone([PublicItem("module") EXCEPT !.name = n, !.flags = f, !.attributes = a], <<"k">>) :
            n \in {"x", "é", "self"}, f \in {{}, {"inline"}, {"unsafe"}},
            a \in {<<>>, <<Valued("path", "p")>>, <<Valued("path", ""), Inl>>, <<Valued("path", "p"), Valued("path", "q")>>, <<Word("path")>>}}
    \cup {Alone([PublicItem("macro") EXCEPT !.tokens = t, !.attributes = a], <<"k">>) : t \in {"t", ""}, a \in {<<>>, <<Word("macro_export")>>}}
    \cup {Alone([TypedItem("constant") EXCEPT !.value = "1", !.name = n, !.generics = g], <<"k">>) : n \in {"x", "_"}, g \in {<<>>, <<Generic("G", <<>>)>>}}
    \cup {Alone([TypedItem("static") EXCEPT !.flags = f], <<"k">>) : f \in {{}, {"mutable"}}}
    \cup {Alone(PublicItem("verbatim"), <<"k">>)}

SourceInit ==
    \/ \E s \in Attributed : item = FromSource(s)
    \/ \E s \in Visible : item = FromSource(s)
    \/ \E s \in Enums : item = FromSource(s)
    \/ \E s \in FunctionItems : item = FromSource(s)
    \/ \E s \in Traits : item = FromSource(s)
    \/ \E s \in Foreign : item = FromSource(s)
    \/ \E s \in TypeItems : item = FromSource(s)
    \/ \E s \in OtherItems : item = FromSource(s)

-----------------------------------------------------------------------------
(* Statements by hand, in sequences: one of every type, and keys given to them. *)

StatementOf(type) == "signature_type" :> type @@ "file" :> "lib.rs"
Bases == <<
    StatementOf("constant") @@ "type" :> "T" @@ "value" :> "1", StatementOf("function"), StatementOf("struct"), StatementOf("union"),
    StatementOf("enum"), StatementOf("extern_crate"), StatementOf("foreign_module"), StatementOf("trait"), StatementOf("trait_alias"),
    StatementOf("static") @@ "type" :> "T", StatementOf("macro") @@ "tokens" :> "t", StatementOf("module"),
    StatementOf("type_alias") @@ "target_type" :> "T", StatementOf("reexport") @@ "path" :> <<"a", "b">>>>
AttributeNode(trees) == Node("attributes", RenderAttributes(AttributesFromSyntax(trees).values))
RawAttribute(tag, texts, fields, nested) ==
    Node("attributes", <<[tag |-> tag, texts |-> texts, fields |-> fields, attributes |-> nested]>>)
Inlined == AttributeNode(<<Inl>>)
VisNode(visibility) == Node("visibility", visibility)
Detail(keys) == Mapping("type" :> Leaf("T") @@ keys)
MethodOf(keys) == keys @@ ("signature_type" :> "method" @@ "name" :> "x")
ConstOf(keys) == keys @@ ("signature_type" :> "associated_constant" @@ "name" :> "x" @@ "type" :> "T")
TypeOf(keys) == keys @@ ("signature_type" :> "associated_type" @@ "name" :> "y")
ForeignOf(type, keys) == keys @@ ("signature_type" :> type @@ "name" :> "x")
ItemLists == <<
    <<>>, <<MethodOf(<<>>)>>, <<MethodOf("default_body" :> TRUE)>>, <<MethodOf("default_body" :> FALSE @@ "visibility" :> Public)>>,
    <<MethodOf("specialization_default" :> TRUE)>>, <<MethodOf("specialization_default" :> FALSE @@ "visibility" :> Private)>>,
    <<MethodOf("receiver" :> <<"ref">> @@ "receiver_attributes" :> Inlined)>>, <<MethodOf("receiver" :> <<"ref_mut">>)>>,
    <<MethodOf("receiver" :> <<"&", "'a", "mut", "self">>)>>, <<MethodOf("receiver" :> <<"mut", "self", ":", "Rc">>)>>,
    <<MethodOf("receiver" :> <<"&", "x">>)>>, <<MethodOf("receiver" :> <<>>)>>, <<MethodOf("abi" :> "C")>>,
    <<MethodOf("type" :> "T")>>, <<MethodOf("name" :> "self")>>,
    <<ConstOf(<<>>)>>, <<ConstOf("default_value" :> "1")>>, <<ConstOf("default_value" :> "1" @@ "generics" :> <<>>)>>,
    <<TypeOf(<<>>), ConstOf("default_value" :> "1"), MethodOf("name" :> "a")>>,
    <<TypeOf("default_type" :> "T" @@ "bounds" :> <<"B">>), MethodOf(<<>>), MethodOf("name" :> "a")>>,
    <<TypeOf("supertraits" :> <<"B">>)>>, <<ForeignOf("foreign_function", "qualifiers" :> {"unsafe"})>>,
    <<ForeignOf("foreign_function", "qualifiers" :> {"const"})>>, <<ForeignOf("foreign_function", "abi" :> "system")>>,
    <<ForeignOf("foreign_type", <<>>), ForeignOf("foreign_static", "type" :> "T" @@ "mutable" :> FALSE)>>,
    <<ForeignOf("foreign_static", <<>>)>>, <<ForeignOf("foreign_type", "name" :> "é")>>,
    <<ForeignOf("foreign_macro", "tokens" :> "t")>>, <<"signature_type" :> "foreign_macro" @@ "tokens" :> "t">>,
    <<"signature_type" :> "foreign_macro" @@ "tokens" :> "t" @@ "visibility" :> Public>>, <<StatementOf("function")>>>>
ImplementationLists ==
    <<<<>>, <<<<>>>>, <<<<>>, <<>>>>, <<"trait" :> <<"!", "Tr">> @@ "impl_qualifiers" :> {"unsafe"}>>, <<"trait" :> <<"!">>>>,
      <<"trait" :> <<>>>>, <<"trait" :> <<"Tr">>, <<>>>>, <<"trait" :> <<"Tr">>, "trait" :> <<"!", "Tr">>>>,
      <<"visibility" :> Public>>, <<"attributes" :> Inlined @@ "generics" :> <<Leaf("G")>> @@ "where" :> <<"P">>>>>>
    \o [i \in DOMAIN ItemLists |-> <<"items" :> ItemLists[i]>>]
    \o [i \in DOMAIN ItemLists |-> <<"trait" :> <<"Tr">> @@ "items" :> ItemLists[i]>>]
FieldLists == <<
    ListOf(<<>>), OrderedEntries(<<>>), ListOf(<<Leaf("T"), Detail(<<>>)>>),
    ListOf(<<Detail("visibility" :> VisNode(InCrate))>>), ListOf(<<Mapping("x" :> Leaf("T"))>>),
    ListOf(<<Mapping("type" :> Detail(<<>>))>>), ListOf(<<Mapping("type" :> Leaf("T"))>>),
    ListOf(<<Mapping("x" :> Leaf("T") @@ "y" :> Leaf("T"))>>), ListOf(<<Detail("other" :> Leaf("T"))>>),
    ListOf(<<Mapping("x" :> Detail("visibility" :> VisNode(<<"module", "k">>) @@ "attributes" :> Inlined))>>),
    ListOf(<<Mapping("self" :> Leaf("T"))>>),
    OrderedEntries(<<[name |-> "x", node |-> Leaf("T")], [name |-> "y", node |-> Detail("visibility" :> VisNode(<<"public", "crate">>))]>>)>>
VariantLists ==
    <<<<>>, <<Leaf("x")>>, <<Mapping("x" :> ListOf(<<Leaf("T")>>))>>, <<Mapping("x" :> ListOf(<<Detail(<<>>)>>))>>,
      <<Mapping("x" :> Leaf("T"))>>, <<Mapping("x" :> Mapping("discriminant" :> Leaf("1")))>>,
      <<Mapping("x" :> Mapping("other" :> Leaf("1")))>>, <<Mapping("x" :> Mapping("attributes" :> Inlined)), Leaf("self")>>,
      <<Mapping("x" :> Mapping(<<>>) @@ "y" :> Mapping(<<>>))>>>>
    \o [i \in DOMAIN FieldLists |-> <<Mapping("x" :> Mapping("fields" :> FieldLists[i]))>>]
AttributeLists == <<
    Node("attributes", <<>>), Inlined, AttributeNode(<<Inl, Listed("derive", <<Word("a")>>)>>),
    RawAttribute("repr", <<Listed("packed", <<Word("1")>>), Word("C")>>, <<>>, <<>>), RawAttribute("repr", <<Word("Rust")>>, <<>>, <<>>),
    RawAttribute("repr", <<>>, <<>>, <<>>), RawAttribute("cfg", <<Word("crate")>>, <<>>, <<>>),
    RawAttribute("cfg_attr", <<Word("test")>>, <<>>, <<>>), RawAttribute("export_name", <<>>, <<>>, <<>>),
    RawAttribute("must_use", <<>>, <<>>, <<>>), RawAttribute("link", <<>>, "name" :> "", <<>>),
    RawAttribute("link", <<>>, "name" :> "x" @@ "modifiers" :> "y", <<>>),
    RawAttribute("cfg_attr", <<Word("test")>>, <<>>, RawAttribute("derive", <<>>, <<>>, <<>>).value),
    RawAttribute("unresolved", <<Listed("inline", <<>>)>>, <<>>, <<>>)>>
\* Every key with values of its kind.
Keyed(key, values) == [i \in DOMAIN values |-> key :> values[i]]
Deltas == <<<<>>>>
    \o Keyed("name", <<"y", "self", "_", "é">>) \o Keyed("crate_id", <<"k">>) \o Keyed("sketch", <<"s">>) \o Keyed("other", <<"x">>)
    \o Keyed("module_path", <<<<"a">>, <<"a", "b">>>>)
    \o Keyed("visibility", <<Public, InCrate, Private, <<"module", "k">>, <<"module", "k", "a">>, <<"public", "crate">>, <<>>, <<"module">>>>)
    \o Keyed("attributes", AttributeLists)
    \o Keyed("type", <<"U">>) \o Keyed("value", <<"2">>) \o Keyed("default_value", <<"2">>) \o Keyed("target_type", <<"U">>)
    \o Keyed("return_type", <<"U">>) \o Keyed("default_type", <<"U">>)
    \o Keyed("qualifiers", <<{}, {"const"}, {"async", "unsafe"}>>) \o Keyed("abi", <<Extern, "system", "", "C">>)
    \o Keyed("variadic", <<Node("flag", TRUE), Node("flag", FALSE), Mapping(<<>>), Mapping("pattern" :> Leaf("")),
                           Mapping("pattern" :> Leaf("p")), Leaf("p"), Mapping("attributes" :> Inlined), Detail(<<>>)>>)
    \o Keyed("generics", <<<<>>, <<Leaf("G")>>, <<Mapping("declaration" :> Leaf("G") @@ "attributes" :> Inlined)>>,
                           <<Mapping("attributes" :> Inlined)>>, <<Mapping("declaration" :> Leaf("G"))>>>>)
    \o Keyed("where", <<<<>>, <<"P">>>>) \o Keyed("bounds", <<<<"B">>>>) \o Keyed("supertraits", <<<<"B">>, <<>>>>)
    \o Keyed("parameters", <<<<>>, <<Detail(<<>>)>>, <<Leaf("T")>>, <<Detail("pattern" :> Leaf("p") @@ "attributes" :> Inlined)>>, <<Detail("pattern" :> Leaf(""))>>>>)
    \o Keyed("fields", FieldLists) \o Keyed("variants", VariantLists) \o Keyed("items", ItemLists) \o Keyed("implementations", ImplementationLists)
    \o Keyed("alias", <<"_", "c", "self">>) \o Keyed("tokens", <<"u", "">>) \o Keyed("path", <<<<"p">>, <<"">>, <<"a", "self">>, <<"super">>>>)
    \o Keyed("inline", <<TRUE, FALSE>>) \o Keyed("unsafe", <<TRUE, FALSE>>) \o Keyed("auto", <<TRUE, FALSE>>) \o Keyed("mutable", <<TRUE, FALSE>>)
    \o Keyed("receiver", <<<<"ref">>>>) \o Keyed("impl_qualifiers", <<{"unsafe"}>>) \o Keyed("trait", <<<<"Tr">>>>)
Without(s, key) == [k \in DOMAIN s \ {key} |-> s[k]]

HandInit ==
    \/ \E i \in DOMAIN Bases, j \in DOMAIN Deltas, label \in {"x", "b", "self"} : item = FromHand(Deltas[j] @@ Bases[i], label)
    \/ \E i \in DOMAIN Bases, j, k \in DOMAIN Deltas :
          /\ j < k /\ DOMAIN Deltas[j] \cup DOMAIN Deltas[k] \subseteq CommonKeys \cup OwnKeys(Bases[i].signature_type)
          /\ item = FromHand(Deltas[j] @@ Deltas[k] @@ Bases[i], "b")
    \/ \E i \in DOMAIN Bases, key \in {"file", "type", "value", "tokens", "target_type", "path"} :
          item = FromHand(Without(Bases[i], key), "x")

-----------------------------------------------------------------------------
(* Types as a source spells them and as rustdoc gives them. *)

Of(of, parts) == Term(of, "", parts)
Marked(t, marks) == [t EXCEPT !.marks = marks]
Binding(t, lifetimes) == [t EXCEPT !.lifetimes = lifetimes]
Bounds(n) == [i \in 1..n |-> Term("bound", "B", <<>>)]
SpelledPath(name, parts) == [Term("path", name, parts) EXCEPT !.marks = IF name = "type" THEN {"raw"} ELSE {}]
PathTypes ==
    {SpelledPath(n, <<>>) : n \in {"u8", "String", "Self", "T", "type", "X"}}
    \cup {SpelledPath(n, <<SpelledPath("T", <<>>)>>) : n \in {"X", "u8"}} \cup {Marked(SpelledPath("T", <<>>), {"long"})}
PlainTypes ==
    PathTypes \cup {Term("macro", "m", <<>>), Of("infer", <<>>), Of("never", <<>>), Of("verbatim", <<>>), Of("tuple", <<>>)}
    \cup {Of(of, Bounds(n)) : of \in {"dyn", "impl"}, n \in 1..2}
Pointer(p, returned, more, marks) ==
    Marked(Of("fn", <<[Term("param", "x", <<p>>) EXCEPT !.marks = marks]>>
                    \o (IF IsSum(returned) THEN <<>> ELSE <<Of("returns", <<returned>>)>>) \o more), {"unsafe"})
Holders(t) ==
    {Of("paren", <<t>>), Of("slice", <<t>>), Of("tuple", <<t, SpelledPath("T", <<>>)>>),
     Of("array", <<t, Term("const", "N", <<>>)>>), SpelledPath("X", <<t>>)}
    \cup (IF IsSum(t) THEN {} ELSE {Binding(Of("ref", <<t>>), l) : l \in {<<>>, <<"'a">>}} \cup {Marked(Of("ptr", <<t>>), {"mut"}), Of("group", <<t>>)})
Variadics == {<<>>, <<Term("variadic", "x", <<>>)>>, <<Marked(Term("variadic", "", <<>>), {"cfg"})>>}
Deep == {SpelledPath("T", <<>>), SpelledPath("type", <<>>), Of("dyn", Bounds(2))}
Pointers ==
    {Pointer(t, u, v, m) : t \in PlainTypes, u \in Deep \cup {Of("ref", <<SpelledPath("T", <<>>)>>), Of("verbatim", <<>>)},
                           v \in Variadics, m \in {{}, {"cfg"}, {"malformed"}}}

\* Aliases that swap, repeat, default and capture their parameters, hold each other and come back.
AliasOf(parameters, type) == [parameters |-> parameters, type |-> type]
AliasParameter(sort, name, default) == [sort |-> sort, name |-> name, default |-> default]
TypeParameter(name) == AliasParameter("types", name, <<>>)
LifetimeOf(name) == Term("lifetime", name, <<>>)
ConstantOf(name) == Term("const", name, <<>>)
GenericOf(name) == Term("generic", name, <<>>)
Apply(name, parts) == Term("resolved", name, parts)
Byte == Term("primitive", "u8", <<>>)
RefTo(lifetime, t) == Binding(Of("ref", <<t>>), <<lifetime>>)
Bound(lifetime, parts) == Binding(Of("fn", parts), <<lifetime>>)
KitAliases ==
    "Pair" :> AliasOf(<<TypeParameter("A"), TypeParameter("B")>>, Of("tuple", <<GenericOf("A"), GenericOf("B")>>))
    @@ "W" :> AliasOf(<<TypeParameter("C")>>, Of("slice", <<GenericOf("C")>>))
    @@ "V" :> AliasOf(<<TypeParameter("D")>>, Apply("W", <<GenericOf("D")>>))
    @@ "U" :> AliasOf(<<TypeParameter("D"), AliasParameter("types", "E", <<Apply("W", <<GenericOf("D")>>)>>)>>,
                      Of("tuple", <<GenericOf("E"), GenericOf("D")>>))
    @@ "R" :> AliasOf(<<AliasParameter("lifetimes", "'x", <<>>), TypeParameter("E")>>, RefTo("'x", GenericOf("E")))
    @@ "Q" :> AliasOf(<<AliasParameter("lifetimes", "'y", <<>>), TypeParameter("E")>>,
                      Of("tuple", <<Apply("R", <<LifetimeOf("'y"), Byte>>), GenericOf("E")>>))
    @@ "F" :> AliasOf(<<AliasParameter("lifetimes", "'x", <<>>)>>,
                      Bound("'b", <<Of("param", <<RefTo("'b", RefTo("'x", Byte))>>)>>))
    @@ "N" :> AliasOf(<<AliasParameter("constants", "M", <<ConstantOf("3")>>)>>, Of("array", <<Byte, ConstantOf("M")>>))
    @@ "Dyn" :> AliasOf(<<>>, Of("dyn", Bounds(2)))
    @@ "L" :> AliasOf(<<>>, Apply("L", <<>>))
    @@ "Ping" :> AliasOf(<<>>, Of("slice", <<Apply("Pong", <<>>)>>)) @@ "Pong" :> AliasOf(<<>>, Apply("Ping", <<>>))
Arguments ==
    {Byte, GenericOf("A"), GenericOf("B"), GenericOf("G"), GenericOf("Self"), LifetimeOf("'a"), LifetimeOf("'b"), ConstantOf("K"),
     ConstantOf("M"), Apply("e::x", <<Byte>>), Apply("std::string::String", <<>>), Of("infer", <<>>),
     Term("constraint", "Item", <<Byte>>), RefTo("'b", Byte), Term("primitive", "f16", <<>>)}
Applied ==
    {Apply(n, <<>>) : n \in DOMAIN KitAliases} \cup {Apply(n, <<a>>) : n \in DOMAIN KitAliases \cup {"e::x"}, a \in Arguments}
    \cup {Apply(n, <<a, b>>) : n \in {"Pair", "U", "R", "Q", "W", "e::x"}, a, b \in Arguments}
    \cup {Apply(n, <<Apply(m, <<a>>)>>) : n \in {"W", "V", "U", "e::x"}, m \in {"W", "V", "N", "F"}, a \in {GenericOf("G"), LifetimeOf("'a"), LifetimeOf("'b"), ConstantOf("K")}}
    \cup {Marked(Apply("W", <<Byte>>), {"parenthesized"}), Apply("Pair", <<Byte, Byte, Byte>>)}
WithinScope == {"A", "B", "G"}
RustdocLeaves == {Byte, Term("primitive", "never", <<>>), Of("tuple", <<>>), Of("pattern", <<>>), GenericOf("Self")}
    \cup {Of("dyn", Bounds(n)) : n \in 1..2} \cup {Of("impl", <<Binding(Term("bound", "B", <<LifetimeOf("'b"), LifetimeOf("'a")>>), <<"'b">>)>>)}
Around(t) ==
    {RefTo("'a", t), Of("ptr", <<t>>), Of("slice", <<t>>), Of("tuple", <<t, GenericOf("G")>>), Of("array", <<t, ConstantOf("K")>>),
     Bound("'a", <<Of("param", <<RefTo("'a", t)>>), Of("returns", <<t>>)>>), Marked(Of("fn", <<Of("returns", <<t>>)>>), {"typed"}),
     [Term("qualified", "e::y", <<t>>) EXCEPT !.marks = {"long"}],
     Term("where", "", <<t, Term("bound", "B", <<>>)>>), Marked(Term("where", "", <<t, t>>), {"equality"}),
     Term("parameter", "P", <<t>>), Marked(Term("parameter", "P", <<t>>), {"synthetic"}),
     Of("impl", <<Term("bound", "B", <<t>>), Term("use", "", <<LifetimeOf("'a")>>), Term("bound", "B", <<Of("notation", <<>>)>>)>>),
     Of("dyn", <<Marked(Term("bound", "B", <<t>>), {"typed"})>>)}
FewApplied == {Apply(n, <<a>>) : n \in {"W", "V", "R", "N", "F", "Dyn", "Ping"}, a \in {Byte, GenericOf("G"), LifetimeOf("'a"), ConstantOf("K")}}
    \cup {Apply("Dyn", <<>>), Apply("N", <<>>), Apply("R", <<LifetimeOf("'a"), GenericOf("B")>>), Apply("Pair", <<GenericOf("B"), GenericOf("A")>>)}

TypeInit ==
    \/ \E t \in PlainTypes, scope \in {{}, {"T"}, {"u8", "type"}, {"Self"}} :
          \/ item = SourceType(t, scope)
          \/ \E u \in Holders(t) : item = SourceType(u, scope)
          \/ \E u \in Holders(t) : t \in Deep /\ \E v \in Holders(u) : item = SourceType(v, scope)
    \/ \E t \in Pointers, scope \in {{}, {"T"}} : item = SourceType(t, scope)
    \/ \E t \in Applied : item = RustdocType(t, WithinScope)
    \/ \E t \in RustdocLeaves \cup FewApplied :
          item = RustdocType(t, WithinScope) \/ \E u \in Around(t) : item = RustdocType(u, WithinScope) \/ \E v \in Around(u) : item = RustdocType(v, WithinScope)
-----------------------------------------------------------------------------

(* Contract documents *)

Item(path, kind, name) == [crate |-> "k", path |-> path, kind |-> kind, name |-> name]
KitItems ==
    <<Item(<<>>, "impl", "c"), Item(<<>>, "impl", "t"), Item(<<>>, "macro", "c"), Item(<<>>, "macro", "m"),
      Item(<<>>, "mod", "a"), Item(<<>>, "type", "T"), Item(<<>>, "type", "c"), Item(<<>>, "type", "t"),
      Item(<<"a">>, "impl", "c"), Item(<<"a">>, "macro", "c"), Item(<<"a">>, "type", "c"),
      Item(<<"t">>, "type", "T"), [Item(<<>>, "type", "t") EXCEPT !.crate = "j"]>>
KitWords ==
    [name \in {"a", "c", "j", "k", "m", "t", "T"} |-> IF name = "T" THEN <<"t">> ELSE <<name>>]

Roomy == [signatures |-> 9, items |-> 30, diagnostics |-> 9]
Asked(command) ==
    [command |-> command, backend |-> "syntax", artifact |-> TRUE, scope |-> "signatures",
     mode |-> "default", warnings |-> 0, bounds |-> Roomy, direct |-> TRUE, layout |-> <<>>]

Sig(words, path, kind, name, members) ==
    [label |-> words, crate |-> "", path |-> path, kind |-> kind, name |-> name, file |-> "f",
     sketch |-> "", members |-> [k \in 1..members |-> k], blocks |-> <<>>]
Linking(signature, id) ==
    [signature EXCEPT !.sketch = id]
SketchOf(signature) ==
    [id |-> signature.sketch, file |-> signature.file, signature |-> signature.label, kind |-> signature.kind]
RawDocument(entered) ==
    [version |-> 2, root |-> "r", files |-> {"f", "g"}, mode |-> "syntax", crates |-> {"k"},
     signatures |-> entered,
     sketches |-> LET linked == SelectSeq(entered, LAMBDA s : s.sketch # "")
                  IN  [k \in DOMAIN linked |-> SketchOf(linked[k])]]
File(name, documents) == [name |-> name, root |-> TRUE, documents |-> documents]

T(members) == Sig(<<"x">>, <<>>, "type", "t", members)
Block(descriptor, members) == [descriptor |-> descriptor, members |-> members]
Implemented(signature, shapes) == [signature EXCEPT !.blocks = shapes]
Capital(label) == Sig(label, <<>>, "type", "T", 1)
Inner(label) == Sig(label, <<"t">>, "type", "T", 1)
Macro(label, members) == Sig(label, <<>>, "macro", "m", members)

-----------------------------------------------------------------------------
(* Documents and sources over a type with implementations, repeated macros *)
(* and types whose names are sanitized alike.                              *)

Typed == {<<>>, <<T(1)>>, <<[T(1) EXCEPT !.label = <<"t", "type">>]>>, <<Linking(T(2), "s")>>, <<Implemented(T(1), <<Block(1, <<1>>)>>)>>,
          <<Implemented(T(1), <<Block(2, <<>>), Block(1, <<1>>)>>)>>,
          <<[Linking(Implemented(T(1), <<Block(2, <<>>)>>), "s") EXCEPT !.file = "g"]>>}
Others == {<<>>, <<Macro(<<"m", "macro">>, 1)>>, <<Macro(<<"y">>, 2), Macro(<<"z">>, 1)>>,
           <<Capital(<<"t", "type">>)>>, <<Inner(<<"k", "t", "t", "type">>), Linking(Macro(<<"y">>, 1), "p")>>}
Documents == {d \o o : d \in Typed, o \in Others} \cup {o \o d : d \in Typed, o \in Others}

Shape(n) == [k \in 1..n |-> k]
Seen(file, shape) == [file |-> file, shape |-> shape, exact |-> TRUE]
TypeId == Identified(Item(<<>>, "type", "t"), 1)
ImplId(n) == Identified(Item(<<>>, "impl", "t"), n)
MacroId(n) == Identified(Item(<<>>, "macro", "m"), n)
TypeSources ==
    {<<>>, TypeId :> Seen("f", <<0, Shape(1)>>), TypeId :> Seen("g", <<0, Shape(1)>>),
     TypeId :> [Seen("f", <<0, Shape(2)>>) EXCEPT !.exact = FALSE],
     (TypeId :> Seen("f", <<0, Shape(1)>>)) @@ (ImplId(1) :> Seen("g", <<1, Shape(1)>>)),
     (TypeId :> Seen("f", <<0, Shape(2)>>)) @@ (ImplId(1) :> Seen("f", <<2, <<>>>>)),
     (TypeId :> Seen("g", <<0, Shape(1)>>)) @@ (ImplId(1) :> Seen("g", <<1, Shape(1)>>))
        @@ (ImplId(2) :> Seen("f", <<2, <<>>>>))}
OtherSources ==
    {<<>>, MacroId(1) :> Seen("f", <<0, Shape(1)>>),
     (MacroId(1) :> Seen("f", <<0, Shape(2)>>)) @@ (MacroId(2) :> Seen("g", <<0, Shape(1)>>)),
     (Identified(Item(<<>>, "type", "T"), 1) :> Seen("f", <<0, Shape(1)>>))
        @@ (Identified(Item(<<"t">>, "type", "T"), 1) :> Seen("g", <<0, Shape(1)>>))}
Projections == {t @@ o : t \in TypeSources, o \in OtherSources}

At(name, k) == <<name, k>>
Whole ==
    /\ \E d \in Documents, p \in Projections,
          asked \in {[Asked("check") EXCEPT !.mode = m] : m \in {"default", "warning"}}
              \cup {[Asked("generate") EXCEPT !.scope = s] : s \in {"signatures", "all"}}
              \cup {Asked("resolve")} :
          /\ request = asked /\ pending = <<<<File("c", <<RawDocument(d)>>)>>>>
          /\ sources = (At("c", 1) :> p)

\* New documents, with layouts that are refused.
Layouts ==
    /\ pending = <<>>
    /\ \E p \in Projections, root \in {"r", ""}, files \in {{"f", "g"}, {}}, direct, artifact \in BOOLEAN,
          crates \in {{"k"}, {"k", "j"}}, backend \in {"syntax", "compiler"} :
          LET raw == [RawDocument(<<>>) EXCEPT !.root = root, !.files = files, !.crates = crates,
                                               !.mode = backend]
          IN  /\ request = [Asked("create") EXCEPT !.layout = Document(At("c", 1), raw), !.direct = direct,
                                !.backend = backend, !.artifact = artifact]
              /\ sources = (At("c", 1) :> p)

\* Several documents and files, of either mode.
Several ==
    /\ \E d \in {<<>>, <<T(1)>>, <<Macro(<<"y">>, 1)>>}, e \in {<<>>, <<T(2), Capital(<<"y">>)>>},
          p \in {<<>>, TypeId :> Seen("f", <<0, Shape(1)>>)}, m, n \in {"none", "syntax", "compiler"},
          two \in BOOLEAN, b \in {"syntax", "compiler"}, artifact \in BOOLEAN, warnings \in 0..1,
          asked \in {"check", "generate", "resolve"} :
          LET one == [RawDocument(d) EXCEPT !.mode = m]
              other == [RawDocument(e) EXCEPT !.mode = n]
          IN  /\ request = [Asked(asked) EXCEPT !.backend = b, !.artifact = artifact, !.scope = "all",
                                !.warnings = warnings, !.mode = "strict",
                                !.bounds.diagnostics = IF artifact THEN 9 ELSE 1]
              /\ pending = <<IF two THEN <<File("c", <<one>>), File("d", <<other>>)>>
                                    ELSE <<File("c", <<one, other>>)>>>>
              /\ sources = (At("c", 1) :> p) @@ (At("c", 2) :> p) @@ (At("d", 1) :> p)

\* Documents with something wrong in them.
Flawed ==
    LET good == RawDocument(<<Linking(Implemented(T(2), <<Block(1, <<1>>)>>), "s"), Macro(<<"y">>, 1)>>)
        first(field, value) == [good EXCEPT !.signatures[1] = [@ EXCEPT ![field] = value]]
        second(field, value) == [good EXCEPT !.signatures[2] = [@ EXCEPT ![field] = value]]
        sketch(field, value) == [good EXCEPT !.sketches[1] = [@ EXCEPT ![field] = value]]
        flawed == {good, [good EXCEPT !.version = 1], [good EXCEPT !.root = ""], [good EXCEPT !.mode = "none"],
                   [good EXCEPT !.files = {"g"}], [good EXCEPT !.crates = {"k", "j"}],
                   [good EXCEPT !.sketches = <<>>], [good EXCEPT !.sketches = @ \o @],
                   [good EXCEPT !.sketches = Append(@, [@[1] EXCEPT !.id = "q", !.file = "h"])],
                   [good EXCEPT !.sketches = Append(@, [@[1] EXCEPT !.id = "q"])],
                   first("crate", "j"), first("crate", "k"), first("sketch", ""), first("sketch", "q"),
                   first("file", "g"), first("file", "h"),
                   first("label", <<"y">>), first("blocks", <<Block(1, <<1>>), Block(1, <<>>)>>),
                   first("blocks", <<Block(2, <<1>>), Block(1, <<>>)>>), second("kind", "type"),
                   second("sketch", "s"), second("label", <<"x">>), second("blocks", <<Block(1, <<>>)>>),
                   [good EXCEPT !.signatures = Append(@, Macro(<<"z">>, 1))],
                   [good EXCEPT !.signatures = Append(@, T(1))],
                   [good EXCEPT !.signatures = Append(@, [T(1) EXCEPT !.label = <<"z">>])],
                   sketch("id", "q"), sketch("signature", <<"y">>), sketch("kind", "macro"), sketch("file", "g")}
        plain == RawDocument(<<Capital(<<"x">>)>>)
        bounded(field, n) == [Roomy EXCEPT ![field] = n]
    IN
    /\ sources = <<>>
    /\ \E d \in flawed, e \in {plain, good, RawDocument(<<>>)}, name \in {"c", "d"}, root \in BOOLEAN,
          order \in BOOLEAN,
          budget \in {Roomy} \cup {bounded("signatures", n) : n \in 1..4} \cup {bounded("items", n) : n \in 3..8} :
          /\ request = [Asked("none") EXCEPT !.bounds = budget]
          /\ LET one == [File("c", IF name = "c" THEN <<d, e>> ELSE <<d>>) EXCEPT !.root = root]
                 other == File(name, IF root /\ ~order THEN <<>> ELSE <<e>>)
             IN  pending = IF name = "c" THEN <<<<one>>>>
                           ELSE IF order THEN <<<<one>>, <<other>>>> ELSE <<<<one, other>>>>

\* Pairs of catalogs with one document or two.
Entries == {<<>>} \cup {<<[s EXCEPT !.label = l]>> : s \in {T(1), T(2), Capital(<<>>)}, l \in {<<"x">>, <<"y">>}}
Pairs == {<<[T(n) EXCEPT !.label = l], [Capital(<<>>) EXCEPT !.label = m]>> :
             n \in 1..2, l, m \in {<<"x">>, <<"y">>}} \ {<<[T(n) EXCEPT !.label = l], [Capital(<<>>) EXCEPT !.label = l]>> :
             n \in 1..2, l \in {<<"x">>, <<"y">>}}
Ones == {<<File("c", <<[RawDocument(d) EXCEPT !.root = c[1], !.files = c[2]]>>)>> :
            d \in Entries \cup Pairs, c \in {<<"r", {"f", "g"}>>, <<"q", {"f", "g"}>>, <<"r", {"f"}>>}}
Twos == {<<File("c", <<RawDocument(d), RawDocument(e)>>)>> : d, e \in {x \in Entries : x = <<>> \/ x[1].name # "t" \/ Len(x[1].members) = 1}}
Diffs ==
    /\ sources = <<>>
    /\ request \in {Asked("diff"), [Asked("diff") EXCEPT !.bounds.diagnostics = 1]}
    /\ \/ \E c, d \in Ones : pending = <<c, d>>
       \/ request.bounds = Roomy /\ \E c \in Twos, d \in Twos \cup Ones : pending = <<c, d>>

(* Rustdoc documents *)

Thing(kind, name) ==
    [kind |-> kind, name |-> name, public |-> TRUE, local |-> TRUE, stripped |-> FALSE, crate |-> FALSE,
     items |-> <<>>, members |-> <<>>, impls |-> {}, glob |-> FALSE, target |-> NoItem, source |-> <<>>,
     owner |-> NoItem, trait |-> FALSE, synthetic |-> FALSE, blanket |-> FALSE, descriptor |-> 1]
ModuleThing(name, ids) == [Thing("module", name) EXCEPT !.items = ids]
PrivateModule(name, ids) == [ModuleThing(name, ids) EXCEPT !.public = FALSE, !.stripped = TRUE]
HiddenModule(name, ids) == [ModuleThing(name, ids) EXCEPT !.stripped = TRUE]
GlobUse(id) == [Thing("use", "x") EXCEPT !.glob = TRUE, !.target = id]
NamedUse(name, id, from) == [Thing("use", name) EXCEPT !.target = id, !.source = from]

AmpleDocument == [items |-> 20, signatures |-> 20]
DocumentOf(index, paths) ==
    [index |-> index, paths |-> paths, mapped |-> DOMAIN index, exact |-> DOMAIN index, most |-> AmpleDocument]

\* A module a with an item x and a module b with an item x or y, in a row or nested,
\* public or not; and three uses, of which rustdoc lists the globs last.
External == 20
UseSites ==
    {<<m, GlobUse(t)>> : m \in 1..3, t \in {1, 2, 3, 4, External, NoItem}}
    \cup {<<m, NamedUse("x", t, <<"z">>)>> : m \in 1..3, t \in {4, 5, NoItem}} \cup {<<m, NamedUse("y", 5, <<"z">>)>> : m \in 1..3}
    \cup {<<1, NamedUse("x", External, <<>>)>>, <<1, NamedUse("y", 21, <<>>)>>, <<2, NamedUse("y", NoItem, <<>>)>>,
          <<1, [GlobUse(External) EXCEPT !.public = FALSE]>>}
Exported ==
    \E one \in {<<m, GlobUse(t)>> : m, t \in 1..3} \ {<<m, GlobUse(m)>> : m \in 1..3}, two \in UseSites,
       three \in {<<3, GlobUse(1)>>, <<2, GlobUse(3)>>, <<1, NamedUse("x", 5, <<>>)>>},
       second \in {"x", "y"}, a, b \in {"public", "private", "hidden"}, nested \in BOOLEAN :
       LET uses == <<one, two, three>>
           at(m, glob) == SelectSeq(<<6, 7, 8>>, LAMBDA u : uses[u - 5][1] = m /\ uses[u - 5][2].glob = glob)
           shown(visibility, name, ids) ==
               CASE visibility = "public" -> ModuleThing(name, ids)
                 [] visibility = "private" -> PrivateModule(name, ids)
                 [] OTHER -> HiddenModule(name, ids)
           listed(m, ids) == ids \o at(m, FALSE) \o at(m, TRUE)
           deep == IF nested THEN <<"a", "b">> ELSE <<"b">>
       IN  /\ b = "public" \/ (a = "public" /\ ~nested)
           /\ ~nested \/ second = "x"
           /\ a # "hidden" \/ (b = "public" /\ second = "x")
           /\ a = "public" \/ b = "hidden" \/ three[1] # 2
           /\ nested => three \in {<<3, GlobUse(1)>>, <<1, NamedUse("x", 5, <<>>)>>}
           /\ rustdoc = DocumentOf(
              (1 :> [ModuleThing("k", listed(1, IF nested THEN <<2>> ELSE <<2, 3>>)) EXCEPT !.crate = TRUE]) @@
              (2 :> shown(a, "a", listed(2, IF nested THEN <<4, 3>> ELSE <<4>>))) @@
              (3 :> shown(b, "b", listed(3, <<5>>))) @@
              (4 :> Thing("struct", "x")) @@ (5 :> Thing("fn", second)) @@
              [u \in 6..8 |-> uses[u - 5][2]],
              (1 :> <<"k">>) @@ (2 :> <<"k", "a">>) @@ (3 :> <<"k">> \o deep) @@ (4 :> <<"k", "a", "x">>) @@
              (5 :> <<"k">> \o deep \o <<second>>) @@ (External :> <<"e", "x">>))

\* A struct and a trait with two implementations of any shape.
ImplThing(owner, ids) == [Thing("impl", "") EXCEPT !.owner = owner, !.members = ids]
ImplThings ==
    {ImplThing(4, <<11>>), ImplThing(4, <<11, 12>>), ImplThing(4, <<12>>), ImplThing(4, <<99>>), ImplThing(3, <<11>>),
     ImplThing(99, <<11>>), ImplThing(12, <<11>>), [ImplThing(4, <<13>>) EXCEPT !.descriptor = 2],
     [ImplThing(4, <<13>>) EXCEPT !.trait = TRUE], [ImplThing(4, <<>>) EXCEPT !.trait = TRUE, !.descriptor = 3],
     [ImplThing(4, <<99>>) EXCEPT !.trait = TRUE], [ImplThing(4, <<11>>) EXCEPT !.local = FALSE],
     [ImplThing(4, <<11>>) EXCEPT !.synthetic = TRUE], [ImplThing(4, <<>>) EXCEPT !.blanket = TRUE],
     [ImplThing(4, <<11>>) EXCEPT !.blanket = TRUE], ImplThing(6, <<11>>), ImplThing(4, <<5>>),
     ImplThing(External, <<11>>)}
Implementing ==
    \E p, q \in ImplThings, structs \in {{9}, {9, 10}}, traits \in {{}, {10}, {99}, {11}},
       most \in {AmpleDocument, [AmpleDocument EXCEPT !.items = 5], [AmpleDocument EXCEPT !.signatures = 4]}, bare \in {0, 4, 9, 11} :
       /\ most = AmpleDocument \/ (bare = 0 /\ structs = {9} /\ traits = {10})
       /\ bare = 0 \/ structs = {9, 10}
       /\ rustdoc = [DocumentOf(
          (1 :> [ModuleThing("k", <<2, 4, 3>>) EXCEPT !.crate = TRUE]) @@ (2 :> ModuleThing("a", <<6>>)) @@
          (3 :> [Thing("trait", "t") EXCEPT !.impls = traits, !.members = <<12>>]) @@
          (4 :> [Thing("struct", "x") EXCEPT !.impls = structs]) @@
          (5 :> Thing("field", "f")) @@ (6 :> Thing("alias", "y")) @@
          (9 :> p) @@ (10 :> q) @@
          (11 :> Thing("fn", "f")) @@ (12 :> [Thing("fn", "g") EXCEPT !.public = FALSE]) @@
          (13 :> Thing("fn", "h")) @@ (External :> [Thing("struct", "s") EXCEPT !.local = FALSE]),
          (1 :> <<"k">>) @@ (2 :> <<"k", "a">>) @@ (3 :> <<"k", "t">>) @@ (4 :> <<"k", "x">>) @@
          (6 :> <<"k", "a", "y">>)) EXCEPT !.most = most, !.mapped = @ \ {bare}]

\* Modules that hold each other, twice or not at all, and items without a place.
Tangled ==
    \E inA \in {<<>>, <<1>>, <<2>>, <<3>>, <<99>>, <<6>>}, inB \in {<<>>, <<1>>, <<2>>, <<7>>},
       top \in {<<2>>, <<2, 3>>, <<2, 4, 2>>, <<5, 4, 7, 3>>},
       crates, bare, generated \in {0, 2, 4}, summary \in {0, 4} :
       rustdoc = [DocumentOf(
          (1 :> [ModuleThing("k", top) EXCEPT !.crate = TRUE]) @@
          (2 :> [ModuleThing("a", inA) EXCEPT !.crate = (crates = 2)]) @@ (3 :> ModuleThing("b", inB)) @@
          (4 :> Thing("struct", "x")) @@ (5 :> Thing("struct", "x")) @@
          (6 :> Thing("macro", "m")) @@ (7 :> [Thing("field", "m") EXCEPT !.public = FALSE]),
          [id \in (1..7) \ {summary} |-> <<"k", IF id = 5 THEN "p" ELSE "q">>])
          EXCEPT !.mapped = @ \ {bare}, !.exact = @ \ {bare, generated}]

RustdocInit == (Exported \/ Implementing \/ Tangled) /\ LoweringInit
NoRustdoc == rustdoc = <<>> /\ lowering = [outcome |-> "none"]

(* Source files *)

Identifiers == <<"a", "b", "c", "k", "lib", "mod">>

SourceFiles == <<<<"a", "b.rs">>, <<"a", "mod.rs">>, <<"a.rs">>, <<"b.rs">>, <<"c", "b.rs">>, <<"lib.rs">>>>

Path(segments) == [leading |-> FALSE, segments |-> segments]
OfKind(kind, name) ==
    [kind |-> kind, name |-> name, members |-> <<>>, cfg |-> "none", paths |-> <<>>,
     inline |-> FALSE, body |-> <<>>, public |-> FALSE, target |-> Path(<<>>),
     plain |-> TRUE, descriptor |-> 0]
Fn(members) == [OfKind("macro", "c") EXCEPT !.members = [i \in 1..members |-> i]]
Mod(name) == OfKind("mod", name)
Struct(name) == OfKind("type", name)
Use(name, segments) == [OfKind("import", name) EXCEPT !.target = Path(segments)]
Impl(segments, descriptor, members) ==
    [OfKind("impl", "") EXCEPT !.target = Path(segments), !.descriptor = descriptor,
                               !.members = members]
PathMod(name, path) == [Mod(name) EXCEPT !.paths = <<path>>]
Inline(name, body) == [Mod(name) EXCEPT !.inline = TRUE, !.body = body]

Lib == <<"lib.rs">>
A == <<"a.rs">>
B == <<"b.rs">>
AMod == <<"a", "mod.rs">>
AB == <<"a", "b.rs">>
CB == <<"c", "b.rs">>
Source(body) == [parses |-> TRUE, items |-> body]
Broken == [parses |-> FALSE, items |-> <<>>]

Declarations ==
    {Fn(1), Mod("a"), Mod("b"), [Mod("a") EXCEPT !.cfg = "cfg"],
     [Mod("b") EXCEPT !.cfg = "cfg_attr_path"], PathMod("a", <<"b.rs">>), PathMod("b", <<".", "lib.rs">>),
     PathMod("b", <<"..", "b.rs">>), [PathMod("a", <<"a.rs">>) EXCEPT !.paths = <<<<"a.rs">>, <<"b.rs">>>>],
     Inline("a", <<Mod("b")>>), Inline("b", <<PathMod("a", <<"..", "a.rs">>)>>),
     [Inline("a", <<Mod("b"), Fn(0)>>) EXCEPT !.paths = <<<<"c">>>>]}
Second == {Fn(1), Mod("b"), [Mod("a") EXCEPT !.cfg = "cfg"], PathMod("b", <<".", "lib.rs">>),
           Inline("b", <<PathMod("a", <<"..", "a.rs">>)>>)}
InA == {Source(<<>>), Source(<<Mod("b")>>), Source(<<PathMod("c", <<"lib.rs">>)>>),
        Source(<<PathMod("b", <<"b.rs">>), Fn(0)>>), Broken}
InB == {Source(<<>>), Source(<<PathMod("a", <<"a.rs">>)>>)}
Id(crate, path) == [crate |-> crate, path |-> path]
Ample == [sources |-> 6, items |-> 20, diagnostics |-> 4, signatures |-> 20]
One(root) == <<[id |-> "k", root |-> root]>>

\* One crate whose root declares up to two modules, complete or as a projection.
Walks ==
    /\ bounds = Ample
    /\ \E d \in Declarations, e \in Second, a \in InA, b \in InB,
          files \in {{Lib}, {Lib, A}, {Lib, B}, {Lib, A, B}, {Lib, A, AB}, {Lib, AMod, AB},
                     {Lib, A, B, AMod}, {Lib, B, CB}},
          required \in {{}, {Id("k", <<>>)}, {Id("k", <<"a">>)}, {Id("k", <<"a", "b">>), Id("k", <<"b">>)}} :
          /\ extraction = [files |-> files, crates |-> One(Lib), complete |-> (required = {}), required |-> required]
          /\ catalog = [f \in {Lib, A, B, AB, CB, AMod} |->
                 CASE f = Lib -> Source(<<d, e>>)
                   [] f \in {A, AMod} -> a
                   [] OTHER -> b]

\* A bound is tight, or a listed file is not there.
TightWalks ==
    /\ bounds \in {[Ample EXCEPT ![f] = n] : f \in DOMAIN Ample, n \in 0..3}
    /\ \E d, e \in {Mod("a"), Fn(2), [Mod("b") EXCEPT !.cfg = "cfg_attr"], [Mod("a") EXCEPT !.cfg = "cfg"]},
          a \in {Source(<<Mod("b")>>), Broken}, there \in {{Lib, A, B, AB}, {Lib, A, B}},
          required \in {{}, {Id("k", <<"a">>)}} :
          /\ extraction = [files |-> {Lib, A, B, AB}, crates |-> One(Lib), complete |-> (required = {}), required |-> required]
          /\ catalog = [f \in there |-> CASE f = Lib -> Source(<<d, e>>) [] f = A -> a
                                          [] OTHER -> Source(<<>>)]

\* Several crates over shared files, named in any order.
Crates ==
    /\ bounds = Ample
    /\ catalog = [f \in {Lib, A, B} |-> Source(IF f = Lib THEN <<Mod("a")>> ELSE <<Fn(0)>>)]
    /\ \E r1, r2 \in {Lib, A, B, <<"a">>}, i \in {"k", "a", "c"}, one \in BOOLEAN,
          files \in {{Lib, A}, {Lib, A, B}, {Lib, <<"a">>}},
          required \in {{}, {Id("k", <<"a">>)}, {Id("a", <<>>), Id("k", <<"b">>)}} :
          extraction = [files |-> files, complete |-> (required = {}), required |-> required,
                        crates |-> IF one THEN <<>>
                                   ELSE <<[id |-> "k", root |-> r1], [id |-> i, root |-> r2]>>]


\* A root and two modules, with imports that chain, repeat and run in circles.
Imports ==
    {<<>>, <<Use("b", <<"b">>)>>, <<Use("c", <<"a", "b">>)>>, <<Use("b", <<"c">>), Use("c", <<"b">>)>>,
     <<Use("c", <<"super", "a">>)>>, <<Use("k", <<"crate">>)>>, <<Use("k", <<"self">>), Use("c", <<"k", "k", "b">>)>>,
     <<Use("c", <<"self", "super", "a", "c">>)>>, <<Struct("c"), Use("c", <<"b">>)>>,
     <<Use("c", <<"b">>), Use("c", <<"a">>)>>, <<Struct("b")>>, <<Use("_", <<"b">>), Struct("c")>>}
Few == {<<>>, <<Struct("c")>>, <<Use("c", <<"super", "super", "b">>)>>}
Owned ==
    {Path(s) : s \in {<<"c">>, <<"b">>, <<"a", "c">>, <<"a", "b">>, <<"super", "c">>,
        <<"crate", "a", "c">>, <<"self", "b", "c">>, <<"c", "b">>, <<"crate", "self", "b">>, <<>>}}
    \cup {[leading |-> TRUE, segments |-> <<"c">>]}
Resolutions ==
    /\ bounds = Ample
    /\ extraction = [files |-> {Lib, A}, crates |-> One(Lib), complete |-> TRUE, required |-> {}]
    /\ \E r, a \in Imports, b \in Few, o \in Owned, from \in {"lib", "a"} :
          /\ b = <<>> \/ from = "a" \/ r = <<>>
          /\ LET impl(where) == IF from = where THEN <<[Impl(<<>>, 1, <<1>>) EXCEPT !.target = o]>>
                                             ELSE <<>>
             IN  catalog = (Lib :> Source(<<Mod("a")>> \o r \o impl("lib"))) @@
                           (A :> Source(impl("a") \o a \o <<Inline("b", b)>>))

\* Blocks of two types, split and spread over the files in every way.
Merges ==
    /\ bounds \in {Ample, [Ample EXCEPT !.signatures = 6]}
    /\ extraction = [files |-> {Lib, A}, crates |-> One(Lib), complete |-> TRUE, required |-> {}]
    /\ \E p, q \in {<<"crate", "c">>, <<"crate", "a", "c">>, <<"crate", "a", "b">>},
          d, e \in {1, 2}, m \in {<<>>, <<1>>, <<2, 1>>}, n \in {<<2>>, <<1, 3>>},
          plain \in BOOLEAN, extra \in {<<Fn(1), Fn(0)>>, <<Struct("c")>>, <<Use("k", <<"a">>)>>} :
          LET first == [Impl(p, d, m) EXCEPT !.plain = plain]
              second == Impl(q, e, n)
          IN  catalog \in {(Lib :> Source(<<Struct("c"), Mod("a"), first>> \o extra)) @@
                           (A :> Source(<<Struct("c"), Struct("b"), second, Impl(p, 1, <<3>>)>>)),
                           (Lib :> Source(<<Mod("a"), second, Struct("c"), first>>)) @@
                           (A :> Source(<<Inline("b", <<first>>), Struct("b"), Struct("c")>>))}

-----------------------------------------------------------------------------
(* A contract of one document together with the source it names. *)

Sited(words, path, kind, name, file, shapes) ==
    [Sig(words, path, kind, name, 0) EXCEPT !.file = file, !.blocks = shapes]
StatedBlocks == {<<>>, <<Block(1, <<1, 2>>)>>, <<Block(2, <<>>), Block(1, <<1>>)>>}
InModule == {<<>>, <<Block(2, <<>>)>>}
RootType(shapes) == Sited(<<"x">>, <<>>, "type", "c", Lib, shapes)
ModType(shapes, file) == Sited(<<"y">>, <<"a">>, "type", "c", file, shapes)
ModEntry == Sited(<<"z">>, <<>>, "mod", "a", Lib, <<>>)
TreeDocument(stated) == [RawDocument(stated) EXCEPT !.files = {Lib, A}]
Trees ==
    LET first == {<<Struct("c")>>, <<Struct("c"), Impl(<<"c">>, 1, <<2>>)>>, <<Impl(<<"a", "c">>, 1, <<1>>)>>}
        second == {<<>>, <<Impl(<<"super", "c">>, 1, <<1>>)>>, <<Struct("c"), Impl(<<"c">>, 2, <<>>)>>,
                   <<Struct("c"), Impl(<<"super", "c">>, 1, <<1, 2>>)>>}
    IN  {(Lib :> Source(f \o <<m>>)) @@ (A :> Source(s)) : f \in first, s \in second,
             m \in {Mod("a"), [Mod("a") EXCEPT !.cfg = "cfg"]}}
Commands ==
    {Asked("check"), [Asked("check") EXCEPT !.mode = "strict"], Asked("resolve"), Asked("generate"),
     [Asked("generate") EXCEPT !.scope = "all"], [Asked("check") EXCEPT !.bounds.items = 9],
     [Asked("generate") EXCEPT !.bounds.signatures = 6]}
Both ==
    /\ phase = "waiting" /\ sources = <<>>
    /\ extraction = [files |-> {}, crates |-> One(Lib), complete |-> TRUE, required |-> {}]
    /\ catalog \in Trees
    /\ \E r \in StatedBlocks, m \in InModule, link \in 0..2, n \in 1..3, file \in {A, Lib},
          asked \in Commands :
          /\ n = 3 \/ (asked.bounds = Roomy /\ asked.mode = "default")
          /\ link = 2 => asked.command # "resolve"
          /\ n = 1 => m = <<>> /\ file = A
          /\ LET linked(s, k) == IF link = k THEN Linking(s, "s") ELSE s
                 stated == SubSeq(<<linked(RootType(r), 1), ModEntry, linked(ModType(m, file), 2)>>, 1, n)
             IN  /\ pending = <<<<File("c", <<TreeDocument(stated)>>)>>>>
                 /\ request = asked
                 /\ bounds = [sources |-> 2, items |-> 0, signatures |-> 0,
                              diagnostics |-> asked.bounds.diagnostics]

NewTree ==
    /\ phase = "waiting" /\ sources = <<>> /\ pending = <<>>
    /\ extraction = [files |-> {}, crates |-> One(Lib), complete |-> TRUE, required |-> {}]
    /\ catalog \in Trees
    /\ bounds = [sources |-> 2, items |-> 0, signatures |-> 0, diagnostics |-> 9]
    /\ request = [Asked("create") EXCEPT !.layout = Document(At("c", 1), TreeDocument(<<>>))]

NoSource == extraction = <<>> /\ catalog = <<>> /\ bounds = <<>> /\ phase = "waiting"
NoRequest == request = [Asked("none") EXCEPT !.command = "graph"] /\ pending = <<>> /\ sources = <<>>

Init ==
    /\ OperationInit /\ RefreshInit
    /\ \/ NoSource /\ NoRustdoc /\ item = Idle /\ (Whole \/ Layouts \/ Several \/ Flawed \/ Diffs)
       \/ NoRequest /\ NoRustdoc /\ item = Idle /\ phase = "extraction" /\ (Walks \/ TightWalks \/ Crates \/ Resolutions \/ Merges)
       \/ (Both \/ NewTree) /\ NoRustdoc /\ item = Idle
       \/ NoSource /\ NoRequest /\ RustdocInit /\ item = Idle
       \/ NoSource /\ NoRequest /\ NoRustdoc /\ (SourceInit \/ HandInit \/ TypeInit)
    /\ IsRequest
Next ==
    \/ lowering.outcome = "none" /\ item.stage = "idle" /\ OperationNext /\ UNCHANGED <<rustdoc, lowering, item>>
    \/ LoweringStep /\ UNCHANGED <<source, operation, item>>
    \/ (ItemNext \/ TypeNext) /\ UNCHANGED <<source, operation, rustdoc, lowering>>
vars == <<source, operation, rustdoc, lowering, item>>
Spec == Init /\ [][Next]_vars

\* What both backends project depends on the sources alone, never on the walk.
\* (RustInventoryCollector, RustdocModuleCollector)
ProjectionIsExact == ProjectionIsCanonical /\ ProjectionIsReachable

\* Types alone.
TypesInit == OperationInit /\ RefreshInit /\ NoSource /\ NoRequest /\ NoRustdoc /\ TypeInit
TypesSpec == TypesInit /\ [][Next]_vars

\* Items, statements and types alone.
ItemsInit == OperationInit /\ RefreshInit /\ NoSource /\ NoRequest /\ NoRustdoc /\ (SourceInit \/ HandInit \/ TypeInit)
ItemsSpec == ItemsInit /\ [][Next]_vars
=============================================================================

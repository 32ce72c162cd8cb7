-------------------------- MODULE ItemDeclarations --------------------------
(* An attribute of an item in its three forms: the token tree the source     *)
(* spells, the semantic attribute the signature kit compares, and the value a *)
(* contract document states.  Token trees stand for parsed text; a tree is a *)
(* word, alone, with a list of trees, or with a value.                       *)
EXTENDS Sequences, SequencesExt, FiniteSets, Naturals

Tree(word, style, text, args) == [word |-> word, style |-> style, text |-> text, args |-> args]
Word(word) == Tree(word, "path", "", <<>>)
Listed(word, args) == Tree(word, "list", "", args)
\* A value that is a string literal, and one that is any other expression.
Valued(word, text) == Tree(word, "value", text, <<>>)
NotText == "(expression)"
\* The text after the last comma of a list, when there is none.
Nothing == Word("")
\* A field of an attribute that is not given.
Absent == "(absent)"

Attribute(kind, words, trees, nested) ==
    [kind |-> kind, words |-> words, trees |-> trees, nested |-> nested]

\* What reading an attribute gives: an error, nothing to compare, or an attribute.
Failed == [ok |-> FALSE, values |-> <<>>]
Dropped == [ok |-> TRUE, values |-> <<>>]
Compared(attribute) == [ok |-> TRUE, values |-> <<attribute>>]
Required(condition, outcome) == IF condition THEN outcome ELSE Failed

ReservedWords == {"crate", "fn", "true", "false", "type"}
IsLiteral(t) == t.style = "value" /\ t.text # NotText

-----------------------------------------------------------------------------
(* The source form read. *)

\* A predicate is an option, an option with a string, or all, any and not over predicates.
RECURSIVE Predicate(_)
Predicate(t) ==
    \/ t.style = "path" /\ t.word \notin ReservedWords \ {"true", "false"}
    \/ IsLiteral(t) /\ t.word \notin ReservedWords
    \/ /\ t.style = "list"
       /\ t.word \in {"all", "any"} \/ (t.word = "not" /\ Len(t.args) = 1)
       /\ \A i \in DOMAIN t.args : Predicate(t.args[i])

ReprWords == {"C", "transparent", "simd", "i8", "i16", "i32", "i64", "i128", "isize",
               "u8", "u16", "u32", "u64", "u128", "usize", "packed"}
Numbers == {"1", "2", "16"}
Hint(t) ==
    \/ t.style = "path" /\ t.word \in ReprWords
    \/ /\ t.style = "list" /\ t.word \in {"align", "packed"}
       /\ \E n \in Numbers : t.args = <<Word(n)>>
CanonicalHint(t) == IF t = Listed("packed", <<Word("1")>>) THEN Word("packed") ELSE t

\* The values of named fields, each at most once, in the order of the keys.
FieldsUnique(t, keys) ==
    /\ \A i \in DOMAIN t.args : IsLiteral(t.args[i]) /\ Contains(keys, t.args[i].word)
    /\ \A i, j \in DOMAIN t.args : t.args[i].word = t.args[j].word => i = j
FieldOf(t, key) ==
    LET at == SelectInSeq(t.args, LAMBDA a : a.word = key)
    IN  IF at = 0 THEN Absent ELSE t.args[at].text
Fields(t, keys) == [i \in DOMAIN keys |-> FieldOf(t, keys[i])]

\* The fields of an attribute that has any, in both the semantic and the stated form.
Keys(kind) ==
    CASE kind = "deprecated" -> <<"since", "note">>
      [] kind = "link" -> <<"name", "kind", "modifiers">>
      [] kind \in {"must_use", "export_name", "link_section", "link_name"} -> <<"value">>
      [] OTHER -> <<>>

Lints == {"allow", "warn", "deny", "forbid", "expect"}

\* One string, or none where the attribute allows it.
OptionalString(t) ==
    IF t.style = "path" THEN Compared(Attribute(t.word, <<Absent>>, <<>>, <<>>))
    ELSE Required(IsLiteral(t), Compared(Attribute(t.word, <<t.text>>, <<>>, <<>>)))
RequiredString(t) == Required(t.style # "path", OptionalString(t))

\* An attribute nothing is known about keeps its path and its arguments; an empty list of
\* arguments is refused.
Raw(t) ==
    Required(t.style = "list" => SelectSeq(t.args, LAMBDA a : a # Nothing) # <<>>,
             Compared(Attribute("unresolved", <<>>, <<t>>, <<>>)))

ReprFromSyntax(t) ==
    LET hints == SelectSeq(t.args, LAMBDA h : h # Word("Rust"))
    IN  Required(/\ t.style = "list" /\ t.args # <<>>
                 /\ \A i \in DOMAIN hints : Hint(hints[i]),
                 IF hints = <<>> THEN Dropped
                 ELSE Compared(Attribute("repr", <<>>, [i \in DOMAIN hints |-> CanonicalHint(hints[i])], <<>>)))

LinkFromSyntax(t) ==
    Required(/\ t.style = "list" /\ FieldsUnique(t, Keys("link"))
             /\ FieldOf(t, "name") \notin {Absent, ""},
             Compared(Attribute("link", Fields(t, Keys("link")), <<>>, <<>>)))

\* Attributes in order; one that cannot be read refuses them all.
Joined(each) ==
    [ok |-> \A i \in DOMAIN each : each[i].ok,
     values |-> FlattenSeq([i \in DOMAIN each |-> each[i].values])]
\* cfg_attr: a predicate, a comma and attributes; nothing is left when none of them means anything.
CfgAttrFromSyntax(t, nested) ==
    Required(Predicate(t.args[1]) /\ nested.ok,
             IF nested.values = <<>> THEN Dropped
             ELSE Compared(Attribute("cfg_attr", <<>>, <<t.args[1]>>, nested.values)))
\* unsafe(...) is transparent around three attributes and opaque around every other.
UnsafeFromSyntax(t, inner) ==
    IF ~inner.ok THEN Failed
    ELSE IF inner.values # <<>> /\ inner.values[1].kind \in {"no_mangle", "export_name", "link_section"}
         THEN inner
    ELSE Raw(t)
RECURSIVE FromSyntax(_)
FromSyntax(t) ==
    CASE t.word = "derive" ->
           Required(/\ t.style = "list" /\ t.args # <<>>
                    /\ \A i \in DOMAIN t.args : t.args[i].style = "path",
                    Compared(Attribute("derive", <<>>, t.args, <<>>)))
      [] t.word = "repr" -> ReprFromSyntax(t)
      [] t.word \in {"non_exhaustive", "no_mangle"} ->
           Required(t.style = "path", Compared(Attribute(t.word, <<>>, <<>>, <<>>)))
      [] t.word = "cfg" ->
           Required(t.style = "list" /\ Len(t.args) = 1 /\ \A i \in DOMAIN t.args : Predicate(t.args[i]),
                    Compared(Attribute("cfg", <<>>, t.args, <<>>)))
      [] t.word = "cfg_attr" ->
           LET given == SelectSeq(Tail(t.args), LAMBDA a : a # Nothing)
           IN  IF t.style = "list" /\ Len(t.args) > 1
               THEN CfgAttrFromSyntax(t, Joined([i \in DOMAIN given |-> FromSyntax(given[i])])) ELSE Failed
      [] t.word = "deprecated" ->
           Required(t.style # "value" /\ FieldsUnique(t, Keys("deprecated")),
                    Compared(Attribute("deprecated", Fields(t, Keys("deprecated")), <<>>, <<>>)))
      [] t.word = "must_use" -> OptionalString(t)
      [] t.word \in {"export_name", "link_section", "link_name"} -> RequiredString(t)
      [] t.word = "doc" ->
           IF t = Listed("doc", <<Word("hidden")>>) THEN Compared(Attribute("doc_hidden", <<>>, <<>>, <<>>))
           ELSE Dropped
      [] t.word \in Lints -> Dropped
      [] t.word = "unsafe" ->
           IF t.style = "list" /\ Len(t.args) = 1 THEN UnsafeFromSyntax(t, FromSyntax(t.args[1])) ELSE Failed
      [] t.word = "link" -> LinkFromSyntax(t)
      [] OTHER -> Raw(t)

\* The attributes of one declaration.
AttributesFromSyntax(trees) == Joined([i \in DOMAIN trees |-> FromSyntax(trees[i])])

-----------------------------------------------------------------------------
(* The semantic form written back as source text, inside the text of a type. *)

Given(a) ==
    LET keys == Keys(a.kind)
    IN  SelectSeq([i \in DOMAIN a.words |-> Valued(keys[i], a.words[i])], LAMBDA f : f.text # Absent)
RECURSIVE ToSyntax(_)
ToSyntax(a) ==
    CASE a.kind \in {"derive", "repr", "cfg"} -> Listed(a.kind, a.trees)
      [] a.kind = "cfg_attr" ->
           Listed("cfg_attr", a.trees \o [i \in DOMAIN a.nested |-> ToSyntax(a.nested[i])])
      [] a.kind = "unresolved" -> a.trees[1]
      [] a.kind = "doc_hidden" -> Listed("doc", <<Word("hidden")>>)
      [] a.kind = "link" -> Listed("link", Given(a))
      [] a.kind = "deprecated" -> IF Given(a) = <<>> THEN Word("deprecated") ELSE Listed("deprecated", Given(a))
      [] OTHER -> IF Given(a) = <<>> THEN Word(a.kind) ELSE Valued(a.kind, a.words[1])

-----------------------------------------------------------------------------
(* The stated form: a tag, the texts of a list, the fields that are given.   *)

RECURSIVE RenderAttribute(_), ReadAttribute(_)
RenderAttribute(a) ==
    [tag |-> a.kind, texts |-> a.trees,
     fields |-> [f \in {g.word : g \in Range(Given(a))} |-> FieldOf(Listed(a.kind, Given(a)), f)],
     attributes |-> [i \in DOMAIN a.nested |-> RenderAttribute(a.nested[i])]]

\* Reading checks what the source form guarantees by its syntax, and brings hints to one form.
StatedAttribute(y, nested) ==
    LET keys == Keys(y.tag)
        words == [i \in DOMAIN keys |-> IF keys[i] \in DOMAIN y.fields THEN y.fields[keys[i]] ELSE Absent]
        texts == IF y.tag = "repr" THEN [i \in DOMAIN y.texts |-> CanonicalHint(y.texts[i])] ELSE y.texts
    IN  Required(/\ y.tag \in {"derive", "repr"} => texts # <<>>
                 /\ y.tag = "repr" => \A i \in DOMAIN texts : Hint(texts[i])
                 /\ y.tag \in {"cfg", "cfg_attr"} => Predicate(texts[1])
                 /\ y.tag = "cfg_attr" => y.attributes # <<>> /\ nested.ok
                 /\ y.tag \in {"export_name", "link_section", "link_name"} => words[1] # Absent
                 /\ y.tag = "link" => words[1] \notin {Absent, ""}
                 /\ y.tag = "unresolved" => Raw(texts[1]).ok,
                 Compared(Attribute(y.tag, words, texts, nested.values)))
ReadAttribute(y) == StatedAttribute(y, Joined([i \in DOMAIN y.attributes |-> ReadAttribute(y.attributes[i])]))

RenderAttributes(attributes) == [i \in DOMAIN attributes |-> RenderAttribute(attributes[i])]
ReadAttributes(stated) == Joined([i \in DOMAIN stated |-> ReadAttribute(stated[i])])

-----------------------------------------------------------------------------
(* A source item and the declaration the signature kit keeps of it.  Both    *)
(* are one record, in which a part a kind does not have is at its default;    *)
(* the item still has its attributes as trees and its visibilities as paths. *)

Public == <<"public">>
InCrate == <<"crate">>
Private == <<"private">>

\* A callable without an extern keyword, an extern without a name, and how that is spelled.
NoAbi == "(rust)"
Unnamed == "(unnamed)"
Extern == "extern"

Blank ==
    [kind |-> "", name |-> "x", visibility |-> Private, attributes |-> <<>>, flags |-> {},
     abi |-> NoAbi, generics |-> <<>>, where |-> <<>>, bounds |-> <<>>, type |-> Absent,
     value |-> Absent, path |-> <<>>, alias |-> Absent, tokens |-> Absent, receiver |-> <<>>,
     receiver_attributes |-> <<>>, variadic |-> <<>>, parameters |-> <<>>, fields |-> <<>>,
     variants |-> <<>>, items |-> <<>>, implementations |-> {}]

Generic(text, attributes) == [text |-> text, attributes |-> attributes]
Parameter(pattern, type, attributes) == [pattern |-> pattern, type |-> type, attributes |-> attributes]
Variadic(pattern, attributes) == [pattern |-> pattern, attributes |-> attributes]
Field(name, visibility, type, attributes) ==
    [name |-> name, visibility |-> visibility, type |-> type, attributes |-> attributes]
Variant(name, fields, discriminant, attributes) ==
    [name |-> name, fields |-> fields, discriminant |-> discriminant, attributes |-> attributes]
\* How self is taken: by value or reference, or with a type; the text is the lifetime or the type.
Receiver(by, mutable, text) == <<[by |-> by, mutable |-> mutable, text |-> text]>>

-----------------------------------------------------------------------------
(* What the constructors of a declaration require.                           *)

PathWords == {"crate", "self", "super", "Self", "_", "", "0", "1"}
Identifier(name) == name \notin PathWords
NonAscii == {"é"}
AsciiIdentifier(name) == Identifier(name) /\ name \notin NonAscii

\* The name of an external block's ABI is canonical text.
NonCanonical == {"", "1c", "system-"}
CanonicalAbi(abi) == abi \notin NonCanonical

\* The name a re-export binds, when its path or alias gives one.
VisibleName(path, alias) ==
    LET n == Len(path)
    IN  IF alias # Absent THEN alias
        ELSE IF path[n] = "self" THEN (IF n > 1 THEN path[n - 1] ELSE "")
        ELSE IF path[n] \in {"crate", "super"} THEN ""
        ELSE path[n]

ForeignItem(d) ==
    /\ d.kind # "foreign_macro" => AsciiIdentifier(d.name)
    /\ d.kind = "foreign_function" => d.flags \cap {"const", "async"} = {} /\ d.abi = NoAbi

\* A declaration each constructor accepts.
Constructible(d) ==
    /\ d.kind \in {"constant", "trait_alias", "method", "associated_constant", "associated_type"} => Identifier(d.name)
    /\ d.kind = "extern_crate" =>
           /\ IF d.name = "self" THEN d.alias # Absent ELSE AsciiIdentifier(d.name)
           /\ d.alias \in {Absent, "_"} \/ Identifier(d.alias)
    /\ d.kind = "foreign_module" =>
           /\ d.abi # NoAbi /\ CanonicalAbi(d.abi)
           /\ \A i \in DOMAIN d.items : ForeignItem(d.items[i])
    /\ d.kind = "module" =>
           /\ d.path # <<"">>
           /\ Identifier(d.name)
           /\ "inline" \in d.flags \/ d.path # <<>> \/ AsciiIdentifier(d.name)
    /\ d.kind = "reexport" =>
           /\ d.path # <<>>
           /\ d.alias \in {Absent, "_"} \/ Identifier(d.alias)
           /\ VisibleName(d.path, d.alias) \in {d.name} \ {""}
           /\ d.name = "_" \/ Identifier(d.name)
    /\ d.kind = "macro" => d.visibility = Private /\ d.tokens # ""
    /\ \A i \in DOMAIN d.fields : d.fields[i].name = Absent \/ Identifier(d.fields[i].name)
    /\ \A i \in DOMAIN d.variants :
           /\ Identifier(d.variants[i].name)
           /\ LET fields == d.variants[i].fields
              IN  \A k \in DOMAIN fields : fields[k].name = Absent \/ Identifier(fields[k].name)

\* The items of a block in the order of their encodings: by their kind, then by their name.
MemberOrder == <<"associated_constant", "method", "associated_type">>
NameOrder == <<"a", "b", "x", "y">>
MemberRank(d) == 10 * IndexFirstSubSeq(<<d.kind>>, MemberOrder) + IndexFirstSubSeq(<<d.name>>, NameOrder)
SortItems(items) == SortSeq(items, LAMBDA p, q : MemberRank(p) < MemberRank(q))

Traited(block) == block.path # <<>>
\* The members of a trait's block take the visibility of the type they are for.
NormalizeForOwner(block, owner) ==
    IF Traited(block)
    THEN [block EXCEPT !.items = [i \in DOMAIN @ |-> [@[i] EXCEPT !.visibility = owner.visibility]]]
    ELSE block

-----------------------------------------------------------------------------
(* The conversion of a source item, in a module given by its crate and path. *)

\* The module a restricted visibility names, once a leading crate, self or super is applied.
LeadingSupers(words) == Cardinality({i \in DOMAIN words : \A j \in 1..i : words[j] = "super"})
RequestedModule(words, module) ==
    LET from == IF words[1] = "super" THEN words ELSE Tail(words)
        base == IF words[1] = "crate" THEN <<module[1]>> ELSE module
        named == SubSeq(from, LeadingSupers(from) + 1, Len(from))
        rest == IF named # <<>> /\ Last(named) = "self" THEN Front(named) ELSE named
    IN  [ok |-> /\ words[1] \in {"crate", "self", "super"}
                /\ LeadingSupers(from) < Len(base)
                /\ \A i \in DOMAIN rest : rest[i] \notin {"crate", "self", "super"},
         module |-> SubSeq(base, 1, Len(base) - LeadingSupers(from)) \o rest]

Restricted(visibility) == visibility \notin {<<>>, <<"pub">>}
VisibilityConverts(visibility, module) ==
    Restricted(visibility) =>
        LET target == RequestedModule(visibility, module)
        IN  target.ok /\ IsPrefix(target.module, module)
ConvertVisibility(visibility, module) ==
    LET target == RequestedModule(visibility, module).module
    IN  CASE visibility = <<>> -> Private
          [] visibility = <<"pub">> -> Public
          [] visibility = <<"crate">> -> InCrate
          [] target = module -> Private
          [] target = <<module[1]>> -> InCrate
          [] OTHER -> <<"module">> \o target

\* The module, with everything in it, where a source's visibility and a declaration's is seen.
RECURSIVE Walked(_, _)
Walked(module, words) ==
    IF words = <<>> THEN module
    ELSE Walked(CASE words[1] = "crate" -> <<module[1]>>
                  [] words[1] = "self" -> module
                  [] words[1] = "super" -> Front(module)
                  [] OTHER -> Append(module, words[1]), Tail(words))
SourceScope(words, module) ==
    CASE words = <<>> -> module
      [] words = <<"pub">> -> <<>>
      [] OTHER -> Walked(module, words)
DeclaredScope(visibility, module) ==
    CASE visibility = Private -> module
      [] visibility = Public -> <<>>
      [] visibility = InCrate -> <<module[1]>>
      [] OTHER -> Tail(visibility)

AttributesConvert(trees) == AttributesFromSyntax(trees).ok
ConvertAttributes(trees) == AttributesFromSyntax(trees).values
\* Every part of a list with its attributes read.
AllConvert(parts) == \A i \in DOMAIN parts : AttributesConvert(parts[i].attributes)
ConvertAll(parts) == [i \in DOMAIN parts |-> [parts[i] EXCEPT !.attributes = ConvertAttributes(@)]]

FieldsConvert(fields, module) ==
    AllConvert(fields) /\ \A i \in DOMAIN fields : VisibilityConverts(fields[i].visibility, module)
ConvertFields(fields, module) ==
    [i \in DOMAIN fields |-> [ConvertAll(fields)[i] EXCEPT !.visibility = ConvertVisibility(@, module)]]

VariantsConvert(variants) == AllConvert(variants) /\ \A i \in DOMAIN variants : AllConvert(variants[i].fields)
ConvertVariants(variants) ==
    [i \in DOMAIN variants |-> [ConvertAll(variants)[i] EXCEPT !.fields = ConvertAll(@)]]

\* A module's path attributes are read by themselves: at most one, and a string.
PathTrees(x) == SelectSeq(x.attributes, LAMBDA t : x.kind = "module" /\ t.word = "path")
OtherTrees(x) == SelectSeq(x.attributes, LAMBDA t : x.kind # "module" \/ t.word # "path")
PathConverts(x) == Len(PathTrees(x)) <= 1 /\ \A i \in DOMAIN PathTrees(x) : IsLiteral(PathTrees(x)[i])
PathOverride(x) == [i \in DOMAIN PathTrees(x) |-> PathTrees(x)[i].text]

\* Syntax no declaration stands for.
Supported(x) ==
    /\ x.kind # "verbatim"
    /\ x.kind \in {"constant", "associated_constant", "foreign_type"} => x.generics = <<>> /\ x.where = <<>>
    /\ x.kind \in {"function", "foreign_function"} => x.receiver = <<>>
    /\ x.kind = "foreign_function" => x.abi = NoAbi
    /\ x.kind = "module" => "unsafe" \notin x.flags /\ PathConverts(x)
    /\ x.kind = "use" => x.flags \cap {"glob", "group"} = {} /\ VisibleName(x.path, x.alias) # ""
    /\ x.kind = "impl" /\ "negative" \in x.flags => Traited(x)

\* The parts of an item other than its members.
PartsConvert(x, module) ==
    /\ Supported(x)
    /\ x.kind \in {"macro", "impl"} \/ VisibilityConverts(x.visibility, module)
    /\ AttributesConvert(OtherTrees(x)) /\ AttributesConvert(x.receiver_attributes)
    /\ AllConvert(x.generics) /\ AllConvert(x.parameters) /\ AllConvert(x.variadic)
    /\ FieldsConvert(x.fields, module) /\ VariantsConvert(x.variants)
ConvertParts(x, module) ==
    [x EXCEPT !.kind = IF @ = "use" THEN "reexport" ELSE @,
              !.name = IF x.kind = "use" THEN VisibleName(x.path, x.alias) ELSE @,
              !.visibility = IF x.kind \in {"macro", "foreign_module", "impl"} THEN Private
                             ELSE ConvertVisibility(@, module),
              !.attributes = ConvertAttributes(OtherTrees(x)),
              !.path = IF x.kind = "module" THEN PathOverride(x) ELSE @,
              \* safe is how an external block spells the default.
              !.flags = @ \ {"safe"},
              !.receiver_attributes = ConvertAttributes(@), !.generics = ConvertAll(@),
              !.parameters = ConvertAll(@), !.variadic = ConvertAll(@),
              !.fields = ConvertFields(@, module), !.variants = ConvertVariants(@)]

Container(kind) == CASE kind = "foreign_module" -> "foreign" [] kind \in {"trait", "impl"} -> kind [] OTHER -> "none"
\* A member of a trait is public, one of an implementation has a body and what it is set to.
AsMember(d, container) ==
    CASE container = "trait" -> [d EXCEPT !.visibility = Public, !.flags = @ \ {"specialization_default"}]
      [] container = "impl" /\ d.kind = "method" -> [d EXCEPT !.flags = @ \cup {"default_body"}]
      [] container = "impl" /\ d.kind = "associated_type" -> [d EXCEPT !.bounds = <<>>]
      [] OTHER -> d
\* An associated macro is left out, with a diagnostic, once its attributes are read.
KeptItems(items) == SelectSeq(items, LAMBDA x : x.kind # "associated_macro")
RECURSIVE ConvertItem(_, _, _), ItemConverts(_, _, _)
ConvertItem(x, container, module) ==
    LET kept == KeptItems(x.items)
    IN  AsMember([ConvertParts(x, module) EXCEPT
            !.items = [i \in DOMAIN kept |-> ConvertItem(kept[i], Container(x.kind), module)]], container)
ItemConverts(x, container, module) ==
    /\ PartsConvert(x, module) /\ \A i \in DOMAIN x.items : ItemConverts(x.items[i], Container(x.kind), module)
    /\ x.kind = "associated_macro" \/ Constructible(ConvertItem(x, container, module))

\* Blocks of one descriptor are one, their items in order; their modules no longer matter.
Descriptor(block) == [block EXCEPT !.items = <<>>]
Merged(blocks) ==
    {[d EXCEPT !.items = SortItems(FlattenSeq([i \in DOMAIN blocks |->
                                IF Descriptor(blocks[i]) = d THEN blocks[i].items ELSE <<>>]))]
        : d \in {Descriptor(b) : b \in Range(blocks)}}

\* A source: an item, the module it is in, and the blocks for it, each in a module of its own.
SourceConverts(s) ==
    /\ ItemConverts(s.item, "none", s.module)
    /\ \A i \in DOMAIN s.blocks : ItemConverts(s.blocks[i].item, "none", s.blocks[i].module)
WithBlocks(owner, blocks) ==
    [owner EXCEPT !.implementations =
        Merged([i \in DOMAIN blocks |->
            NormalizeForOwner(ConvertItem(blocks[i].item, "none", blocks[i].module), owner)])]
ConvertSource(s) == WithBlocks(ConvertItem(s.item, "none", s.module), s.blocks)
\* A private use brings a name into scope and declares nothing.
PrivateImport(d) == d.kind = "reexport" /\ d.visibility = Private
=============================================================================

------------------------------ MODULE RustTypes ------------------------------
(* The types of the signature kit: the type a source spells, the type the kit *)
(* compares, the text it writes of it, and the type rustdoc gives for an item.*)
(* All four are terms; a text stands for the term it parses to.               *)
EXTENDS ItemDeclarations, TLC

CONSTANT Aliases    \* the type aliases of a rustdoc document, by name

\* A term: what it is, its name or text, its parts, the lifetimes it binds or has, and marks.
Term(of, name, parts) == [of |-> of, name |-> name, parts |-> parts, lifetimes |-> <<>>, marks |-> {}]
NoType == Term("refused", "", <<>>)
\* Kept as they are spelled.
Spellings == {"path", "dyn", "impl", "macro", "infer", "never", "const", "lifetime", "bound",
              "constraint", "use", "where", "parameter", "refused"}

RECURSIVE HasPart(_, _)
HasPart(t, of) == t.of = of \/ \E i \in DOMAIN t.parts : HasPart(t.parts[i], of)
Whole_(t) == ~HasPart(t, "refused")

-----------------------------------------------------------------------------
(* Source and text.                                                          *)

BuiltinTypes == {"bool", "char", "str", "String", "u8", "f32"}
RawWords == {"type"}
SourceIdent(name) == [Term("path", name, <<>>) EXCEPT !.marks = IF name \in RawWords THEN {"raw"} ELSE {}]

\* A path of one segment without arguments, which a generic parameter may hide.
PlainPath(t) == t.parts = <<>> /\ t.marks \subseteq {"raw"}
ConvertPath(t, scope) ==
    CASE ~PlainPath(t) -> t
      [] t.name \in scope -> Term("generic", t.name, <<>>)
      [] t.name \in BuiltinTypes \ scope -> Term("builtin", t.name, <<>>)
      [] t.name = "Self" /\ t.name \notin scope -> Term("self", t.name, <<>>)
      [] OTHER -> t

RECURSIVE TypeConverts(_)
TypeConverts(t) ==
    /\ t.of # "verbatim" /\ "malformed" \notin t.marks
    /\ t.of \notin Spellings => \A i \in DOMAIN t.parts : TypeConverts(t.parts[i])
RECURSIVE ConvertType(_, _)
ConvertType(t, scope) ==
    CASE t.of = "path" -> ConvertPath(t, scope)
      [] t.of = "group" -> ConvertType(t.parts[1], scope)
      [] t.of = "tuple" /\ t.parts = <<>> -> Term("unit", "", <<>>)
      [] t.of \in Spellings \ {"path"} -> t
      [] OTHER -> [t EXCEPT !.parts = [i \in DOMAIN @ |-> ConvertType(@[i], scope)],
                            !.name = IF t.of = "param" THEN "" ELSE @]

RECURSIVE RenderType(_)
RenderType(t) ==
    CASE t.of = "generic" -> SourceIdent(t.name)
      [] t.of \in {"builtin", "self"} -> Term("path", t.name, <<>>)
      [] t.of = "unit" -> Term("tuple", "", <<>>)
      [] t.of \in Spellings -> t
      [] OTHER -> [t EXCEPT !.parts = [i \in DOMAIN @ |-> RenderType(@[i])]]

\* Nothing but one bound may follow a pointer or an arrow without parentheses, and a keyword
\* is no name.
IsSum(t) == t.of \in {"dyn", "impl"} /\ Len(t.parts) > 1
RECURSIVE Parses(_)
Parses(t) ==
    /\ t.of \in {"ref", "ptr", "returns"} => ~IsSum(t.parts[1])
    /\ t.of = "path" /\ t.name \in RawWords => "raw" \in t.marks
    /\ \A i \in DOMAIN t.parts : Parses(t.parts[i])

TextReads(text) == Parses(text) /\ TypeConverts(text)
ReadType(text, scope) == ConvertType(text, scope)

\* What equality of two types looks at.
RECURSIVE Compares(_)
Compares(t) ==
    IF t.of = "macro" THEN t
    ELSE [t EXCEPT !.name = IF t.of = "variadic" THEN "" ELSE @, !.marks = @ \ {"raw"},
                   !.parts = [i \in DOMAIN @ |-> Compares(@[i])]]

\* A type the kit cannot see through: it has a macro or an attribute, or a spelling it
\* cannot read.
RECURSIVE NeedsWarning(_)
NeedsWarning(t) ==
    \/ t.of = "macro"
    \/ t.of \in {"param", "variadic"} /\ "cfg" \in t.marks
    \/ t.of \in {"path", "dyn", "impl"} /\ ~Parses(t)
    \/ \E i \in DOMAIN t.parts : NeedsWarning(t.parts[i])

-----------------------------------------------------------------------------
(* The bindings of the aliases and binders a rustdoc type is in, innermost    *)
(* last.                                                                      *)

Layer == [alias |-> "", types |-> <<>>, lifetimes |-> <<>>, constants |-> <<>>]
BindingsOf(context, sort, name) ==
    SelectSeq([i \in DOMAIN context |-> context[i][sort]], LAMBDA bound : name \in DOMAIN bound)
NameIn(context, sort, name) ==
    LET bound == BindingsOf(context, sort, name)
    IN  IF bound = <<>> THEN name ELSE Last(bound)[name]
LifetimeIn(context, name) == NameIn(context, "lifetimes", name)
ConstantIn(context, name) == NameIn(context, "constants", name)

EnterAlias(context, alias) == Append(context, [Layer EXCEPT !.alias = alias])
InAlias(context, alias) == \E i \in DOMAIN context : context[i].alias = alias
EnterBinder(context, names) == Append(context, [Layer EXCEPT !.lifetimes = [l \in Range(names) |-> l]])
Bind(context, sort, name, value) ==
    [context EXCEPT ![Len(context)] = [@ EXCEPT ![sort] = (name :> value) @@ @]]

-----------------------------------------------------------------------------
(* Rustdoc's types.                                                          *)

Checked(text) == IF Parses(text) THEN text ELSE NoType
OrNone(t) == IF Whole_(t) THEN <<t>> ELSE <<>>

RECURSIVE Lower(_, _), Written(_, _), Taken(_, _, _), BindAll(_, _, _)
LowerParts(t, context) == [t EXCEPT !.parts = [i \in DOMAIN @ |-> Lower(@[i], context)]]
WrittenParts(t, context) == [t EXCEPT !.parts = [i \in DOMAIN @ |-> Written(@[i], context)]]

LowerGeneric(t, context) ==
    LET bound == BindingsOf(context, "types", t.name)
    IN  IF t.name = "Self" THEN Term("self", "Self", <<>>)
        ELSE IF bound = <<>> THEN Term("generic", t.name, <<>>) ELSE Last(bound)[t.name]

LowerPrimitive(t) ==
    IF t.name \in {"!", "never"} THEN Term("never", "!", <<>>)
    ELSE IF t.name \in BuiltinTypes \ {"String"} THEN Term("builtin", t.name, <<>>) ELSE NoType

\* A path by its canonical name.
StringPaths == {"alloc::string::String", "std::string::String"}
PathText(t, context) == [WrittenParts(Term("path", t.name, t.parts), context) EXCEPT !.marks = {"long"} \cup t.marks]
LowerPath(t, context) ==
    IF t.name \in StringPaths /\ t.parts = <<>> THEN Term("builtin", "String", <<>>)
    ELSE Checked(PathText(t, context))

\* The value an alias's parameter takes, if it has one: an argument of its kind, or its default.
Taken(p, arguments, context) ==
    LET given == arguments # <<>>
        a == IF given THEN arguments[1] ELSE NoType
    IN  CASE p.sort = "lifetimes" /\ a.of = "lifetime" -> <<LifetimeIn(context, a.name)>>
          [] p.sort = "constants" /\ a.of = "const" -> <<ConstantIn(context, a.name)>>
          [] p.sort = "types" /\ given /\ a.of \notin {"lifetime", "const", "constraint"} -> OrNone(Lower(a, context))
          [] p.sort = "types" /\ ~given /\ p.default # <<>> -> OrNone(Lower(p.default[1], context))
          [] p.sort = "constants" /\ ~given /\ p.default # <<>> -> <<ConstantIn(context, p.default[1].name)>>
          [] OTHER -> <<>>
BindAll(parameters, arguments, context) ==
    IF parameters = <<>> THEN context
    ELSE LET taken == Taken(parameters[1], arguments, context)
             rest == IF arguments = <<>> THEN <<>> ELSE Tail(arguments)
         IN  IF taken = <<>> THEN <<>>
             ELSE BindAll(Tail(parameters), rest, Bind(context, parameters[1].sort, parameters[1].name, taken[1]))
\* An alias stands for its target; its layer is there while its arguments are lowered.
LowerAlias(t, context) ==
    LET alias == Aliases[t.name]
        bound == BindAll(alias.parameters, t.parts, EnterAlias(context, t.name))
    IN  IF InAlias(context, t.name) \/ "parenthesized" \in t.marks \/ Len(t.parts) > Len(alias.parameters)
           \/ bound = <<>>
        THEN NoType ELSE Lower(alias.type, bound)

\* A pointer to a function may bind lifetimes without bounds, and nothing else.
LowerPointer(t, context) ==
    IF t.marks \cap {"const", "async", "bounded", "typed"} # {} THEN NoType
    ELSE LowerParts(t, EnterBinder(context, t.lifetimes))

\* The text of an argument, of a bound, and of a generic parameter or a where predicate.
Written(t, context) ==
    CASE t.of = "lifetime" -> [t EXCEPT !.name = LifetimeIn(context, @)]
      [] t.of = "const" -> [t EXCEPT !.name = ConstantIn(context, @)]
      [] t.of = "constraint" -> WrittenParts(t, context)
      [] t.of = "use" -> WrittenParts(t, context)
      [] t.of \in {"bound", "where"} ->
             IF "typed" \in t.marks \/ (t.of = "where" /\ (Len(t.parts) < 2 \/ "equality" \in t.marks)) THEN NoType
             ELSE Checked(WrittenParts(t, EnterBinder(context, t.lifetimes)))
      [] t.of = "parameter" -> IF "synthetic" \in t.marks THEN NoType ELSE WrittenParts(t, context)
      [] t.of = "returns" -> [t EXCEPT !.parts = <<Written(@[1], context)>>]
      [] t.of = "notation" -> NoType
      [] OTHER -> RenderType(Lower(t, context))

Lower(t, context) ==
    CASE t.of = "primitive" -> LowerPrimitive(t)
      [] t.of = "generic" -> LowerGeneric(t, context)
      [] t.of = "resolved" -> IF t.name \in DOMAIN Aliases THEN LowerAlias(t, context) ELSE LowerPath(t, context)
      [] t.of = "tuple" -> IF t.parts = <<>> THEN Term("unit", "", <<>>) ELSE LowerParts(t, context)
      [] t.of = "array" -> [t EXCEPT !.parts = <<Lower(@[1], context), Written(@[2], context)>>]
      [] t.of = "ref" -> [LowerParts(t, context) EXCEPT !.lifetimes = [i \in DOMAIN @ |-> LifetimeIn(context, @[i])]]
      [] t.of = "fn" -> LowerPointer(t, context)
      [] t.of \in {"slice", "ptr", "returns", "variadic"} -> LowerParts(t, context)
      [] t.of = "param" -> [LowerParts(t, context) EXCEPT !.name = ""]
      [] t.of \in {"dyn", "impl"} -> WrittenParts(t, context)
      [] t.of = "qualified" -> Checked([WrittenParts(t, context) EXCEPT !.of = "path", !.marks = @ \cup {"qself"}])
      [] t.of \in {"parameter", "where"} -> Written(t, context)
      [] t.of = "infer" -> t
      [] OTHER -> NoType

-----------------------------------------------------------------------------
(* A type under way.                                                         *)

VARIABLE item       \* one item or type under way, or Idle

SourceType(term, scope) == [stage |-> "type", of |-> "source", term |-> term, scope |-> scope]
RustdocType(term, scope) == [stage |-> "type", of |-> "rustdoc", term |-> term, scope |-> scope]

ValueOfType(t) == IF t.of = "source" THEN ConvertType(t.term, t.scope) ELSE Lower(t.term, <<>>)
TypeAccepted(t) == IF t.of = "source" THEN TypeConverts(t.term) ELSE Whole_(Lower(t.term, <<>>))
TypeStep ==
    /\ item.stage = "type"
    /\ item' = IF TypeAccepted(item) THEN [item EXCEPT !.stage = "typed"] @@ [value |-> ValueOfType(item)]
               ELSE [item EXCEPT !.stage = "refused_type"]
TextStep ==
    /\ item.stage = "typed"
    /\ item' = [item EXCEPT !.stage = "text"] @@ [text |-> RenderType(item.value)]
ReadTextStep ==
    /\ item.stage = "text"
    /\ item' = IF TextReads(item.text) THEN [item EXCEPT !.stage = "retyped"] @@ [again |-> ReadType(item.text, item.scope)]
               ELSE [item EXCEPT !.stage = "lost_type"]
TypeNext == TypeStep \/ TextStep \/ ReadTextStep

-----------------------------------------------------------------------------
(* What an alias stands for, by substitution of closed arguments: a bound     *)
(* lifetime is named by the depth of its binder, so none is ever captured.    *)

Level(depth) == "'" \o ToString(depth)
NoEnv == [types |-> <<>>, lifetimes |-> <<>>, constants |-> <<>>]
InEnv(names, name) == IF name \in DOMAIN names THEN names[name] ELSE name
With(env, sort, name, value) == [env EXCEPT ![sort] = (name :> value) @@ @]
Binds(t) == t.of \in {"fn", "bound", "where"} /\ t.lifetimes # <<>>

RECURSIVE Expand(_, _, _), Closed(_, _, _, _)
\* The environment of an alias's target: its arguments, and defaults that see those before.
Closed(parameters, arguments, outer, inner) ==
    IF parameters = <<>> THEN inner
    ELSE LET p == parameters[1]
             given == arguments # <<>>
             value == IF given THEN arguments[1] ELSE p.default[1]
             env == IF given THEN outer ELSE inner
             closed == CASE p.sort = "types" -> [term |-> value, env |-> env]
                         [] p.sort = "lifetimes" -> InEnv(env.lifetimes, value.name)
                         [] OTHER -> InEnv(env.constants, value.name)
         IN  Closed(Tail(parameters), IF given THEN Tail(arguments) ELSE <<>>, outer, With(inner, p.sort, p.name, closed))
Expand(t, env, depth) ==
    CASE t.of = "generic" /\ t.name \in DOMAIN env.types ->
             Expand(env.types[t.name].term, env.types[t.name].env, depth)
      [] t.of = "resolved" /\ t.name \in DOMAIN Aliases ->
             Expand(Aliases[t.name].type, Closed(Aliases[t.name].parameters, t.parts, env, NoEnv), depth)
      [] OTHER ->
             LET under == IF Binds(t) THEN depth + 1 ELSE depth
                 inner == IF Binds(t) THEN With(env, "lifetimes", t.lifetimes[1], Level(depth)) ELSE env
             IN  [t EXCEPT !.parts = [i \in DOMAIN @ |-> Expand(@[i], inner, under)],
                           !.lifetimes = [i \in DOMAIN @ |-> InEnv(inner.lifetimes, @[i])],
                           !.name = IF t.of = "lifetime" THEN InEnv(env.lifetimes, @)
                                    ELSE IF t.of = "const" THEN InEnv(env.constants, @) ELSE @]
\* A type by its binders' depths.
Alpha(t) == Expand(t, NoEnv, 0)

Fits(p, a) ==
    CASE p.sort = "lifetimes" -> a.of = "lifetime"
      [] p.sort = "constants" -> a.of = "const"
      [] OTHER -> a.of \notin {"lifetime", "const", "constraint"}
\* Every application of an alias has arguments of its parameters' kinds and leads back to no alias.
RECURSIVE WellApplied(_, _)
WellApplied(t, above) ==
    /\ \A i \in DOMAIN t.parts : WellApplied(t.parts[i], above)
    /\ t.of = "resolved" /\ t.name \in DOMAIN Aliases =>
           LET parameters == Aliases[t.name].parameters
           IN  /\ "parenthesized" \notin t.marks /\ t.name \notin above /\ Len(t.parts) <= Len(parameters)
               /\ \A i \in DOMAIN parameters :
                      IF i <= Len(t.parts) THEN Fits(parameters[i], t.parts[i])
                      ELSE parameters[i].default # <<>> /\ WellApplied(parameters[i].default[1], above \cup {t.name})
               /\ WellApplied(Aliases[t.name].type, above \cup {t.name})

\* The names in a type and in the aliases it leads to.
RECURSIVE TermNames(_, _)
TermNames(t, seen) ==
    ({t.name} \cup Range(t.lifetimes) \cup UNION {TermNames(t.parts[i], seen) : i \in DOMAIN t.parts}
     \cup (IF t.of = "resolved" /\ t.name \in DOMAIN Aliases \ seen
           THEN TermNames(Aliases[t.name].type, seen \cup {t.name}) ELSE {})) \ {""}
\* The names of an application's arguments are none of those in the alias it is applied to.
RECURSIVE Apart(_, _)
Apart(t, seen) ==
    /\ \A i \in DOMAIN t.parts : Apart(t.parts[i], seen)
    /\ t.of = "resolved" /\ t.name \in DOMAIN Aliases \ seen =>
           LET alias == Aliases[t.name]
               within == {t.name} \cup TermNames(alias.type, {}) \cup {alias.parameters[i].name : i \in DOMAIN alias.parameters}
           IN  /\ \A i \in DOMAIN t.parts : TermNames(t.parts[i], {}) \cap within \subseteq DOMAIN Aliases \ {t.name}
               /\ Apart(alias.type, seen \cup {t.name})

SubstitutionHolds(t) ==
    item.stage \in {"typed", "refused_type"} /\ item.of = "rustdoc" =>
        LET whole == WellApplied(t, {}) /\ Whole_(Lower(Expand(t, NoEnv, 0), <<>>))
        IN  /\ item.stage = "typed" <=> whole
            /\ whole => Alpha(item.value) = Alpha(Lower(Expand(t, NoEnv, 0), <<>>))

\* A type alias of a rustdoc document stands for its target with the arguments in the place
\* of the parameters, and is refused only when the arguments do not fit or it leads back to
\* itself. (RustdocConverter::convert_alias_type, RustdocTypeContext)
AliasIsSubstitution == item.stage \in {"typed", "refused_type"} => SubstitutionHolds(item.term)

\* Two bounds directly behind a pointer or an arrow, which only rustdoc's types have.
RECURSIVE BareSum(_)
BareSum(t) ==
    \/ t.of \in {"ref", "ptr", "returns"} /\ IsSum(t.parts[1])
    \/ \E i \in DOMAIN t.parts : BareSum(t.parts[i])
RECURSIVE Opaque(_)
Opaque(t) == t.of = "macro" \/ "cfg" \in t.marks \/ \E i \in DOMAIN t.parts : Opaque(t.parts[i])

\* The text of a type reads back as a type equal to it, or is refused, which is the lot of a
\* bare sum and of nothing else; what the kit cannot see through is found in the type it
\* made; an alias applied to names of its own is replaced by its target.
TypesAreExact ==
    /\ item.stage \in {"retyped", "lost_type"} => (item.stage = "lost_type" <=> BareSum(item.value))
    /\ item.stage = "retyped" => Compares(item.again) = Compares(item.value)
    /\ item.stage = "typed" /\ item.of = "source" => (NeedsWarning(item.value) <=> Opaque(item.term))
    /\ item.stage \in {"typed", "refused_type"} /\ Apart(item.term, {}) => SubstitutionHolds(item.term)
=============================================================================

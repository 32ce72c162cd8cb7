---------------------------- MODULE CargoSelection ----------------------------
(***************************************************************************)
(* What a command may extract, and from which Cargo target: the agreement  *)
(* of the requested extractor with the contracts                           *)
(* (conkit/contracts/extraction.rs, layout.rs) and the choice of one       *)
(* package and one target in Cargo's metadata (conkit/compiler/project.rs).*)
(***************************************************************************)
EXTENDS Naturals, Sequences, SequencesExt

\* A call: extractor, use ("check" or "generation"), fresh, layout, explicit
\* (crate roots), package, target, triple.  A layout is nothing, "syntax", or the
\* crates and the context that compiler contracts declare.
NoLayout == [kind |-> "none"]
Automatic == "automatic"
Library == "library"

\* SignatureExtractionCoordinator::validate_generation_roots: crate roots are for a
\* fresh layout.
RootsAllowed(call) == call.use = "generation" /\ ~call.fresh => call.explicit = <<>>

\* SignatureExtractionCoordinator::reconcile: no extractor falls back to the other.
Reconcile(call) ==
    LET existing == call.layout.kind IN
    IF call.extractor = "syntax" THEN IF existing = "compiler" THEN "refused" ELSE "syntax"
    ELSE IF existing = "compiler" THEN "validate"
    ELSE IF existing # "syntax" /\ call.use = "generation" /\ call.fresh THEN "establish" ELSE "refused"
Decision(call) == IF RootsAllowed(call) THEN Reconcile(call) ELSE "refused"

\* ExtractionDecision::acquire and validate_expected_crates: the one crate that the
\* target must agree with, unless a fresh layout takes what Cargo selects.
ExpectedCrates(call) ==
    IF Decision(call) = "validate" THEN call.layout.crates ELSE call.explicit
Inferring(call) == Decision(call) = "establish" /\ call.explicit = <<>>
CrateCountIsRight(call) == Inferring(call) \/ Len(ExpectedCrates(call)) = 1

\* LayoutExtraction::validate_compiler_artifact.
ContextAgrees(layout, artifact) ==
    /\ layout.kind = "compiler" /\ Len(artifact.crates) = 1
    /\ layout.context = artifact.context

-----------------------------------------------------------------------------
\* Metadata: packages (a sequence of [id, name, features, targets]), root (an id
\* or ""), defaults (a sequence of ids, empty if Cargo does not tell).  A target:
\* name, kinds, file.
None == {}

\* CargoProject::select_package: the package asked for, the root package, or the
\* only default member; the result is a set with at most one element.
SelectPackage(metadata, id) ==
    LET Of(wanted) == {p \in ToSet(metadata.packages) : p.id = wanted}
    IN CASE id # "" -> Of(id)
         [] metadata.root # "" -> Of(metadata.root)
         [] Len(metadata.defaults) = 1 -> Of(metadata.defaults[1])
         [] OTHER -> None

Libraries(package) == SelectSeq(package.targets, LAMBDA t : "lib" \in t.kinds)
Binaries(package) == SelectSeq(package.targets, LAMBDA t : "bin" \in t.kinds)
OneTarget(candidates) == IF Len(candidates) = 1 THEN {candidates[1]} ELSE None

\* CargoProject::select_target: a library unless a binary was named; automatically
\* the only library, or the only binary of a package without one.
SelectTarget(package, wanted) ==
    CASE wanted = Library -> OneTarget(Libraries(package))
      [] wanted = Automatic ->
           OneTarget(IF Libraries(package) = <<>> THEN Binaries(package) ELSE Libraries(package))
      [] OTHER -> {t \in ToSet(Binaries(package)) : t.name = wanted}

\* CargoProject::select.
Select(metadata, id, wanted) ==
    UNION {{[package |-> p.name, target |-> t.name, file |-> t.file, features |-> p.features,
             kind |-> IF "lib" \in t.kinds THEN "library" ELSE "binary"] :
              t \in SelectTarget(p, wanted)} : p \in SelectPackage(metadata, id)}
=============================================================================

----------------------------- MODULE SketchProofs -----------------------------
(***************************************************************************)
(* For any documents, limits and cancellations: sketches and signatures    *)
(* are resolved exactly if they pair up; for any seeds and any conduct of  *)
(* the YAML editor: a generation replaces the seeded codes and nothing     *)
(* else; for any two catalogs: a diff names what has changed and nothing   *)
(* else; and for any documents, sources and limits: a check says of each   *)
(* sketch what a text search says, or which budget that would have         *)
(* exceeded.                                                               *)
(***************************************************************************)
EXTENDS SketchCheck, SketchDiff, SketchRefresh, FoldProofs, FiniteSetTheorems, SequenceTheorems

CONSTANTS File, Label, Type, Policy, Byte       \* what entries are made of
Snippet == Seq(Byte)

-----------------------------------------------------------------------------
(* Resolution *)

SignatureEntry == [label : Label, file : File, sketch : Nat, type : Type]
SketchEntry ==
    [id : Nat \ {NoSketch}, file : File, signature : Label, type : Type,
     occurrence : Policy, code : Snippet]
ParsedDocument ==
    [root : BOOLEAN, files : Seq(File), signatures : Seq(SignatureEntry), sketches : Seq(SketchEntry)]

\* Any number of parsed documents, under any limits.
Parsed ==
    /\ documents \in Seq(ParsedDocument)
    /\ limits.signatures \in Nat /\ limits.sketches \in Nat

ResolutionSpec == Parsed /\ ResolutionInit /\ [][ResolutionNext]_<<resolution, outcome>>

\* The entries that have been read when the next one is at a place.
Passed(part, place) ==
    {e \in Entries(part) :
        \/ e[1] < place.document
        \/ /\ e[1] = place.document
           /\ \/ part = "signatures" /\ place.part = "sketch"
              \/ part = "signatures" /\ place.part = "signature" /\ e[2] < place.index
              \/ part = "sketches" /\ place.part = "sketch" /\ e[2] < place.index}
ReadSignatures == Passed("signatures", at)
ReadSketches == Passed("sketches", at)

Place ==
    /\ at \in [document : 1..(Len(documents) + 1), part : {"document", "signature", "sketch"},
               index : Nat \ {0}]
    /\ at.document = Len(documents) + 1 => at.part = "document"

\* What has been read is right so far.
RightSoFar ==
    /\ \A d \in DOMAIN documents :
          d < at.document \/ (d = at.document /\ at.part # "document") =>
              documents[d].root /\ IsInjective(documents[d].files)
    /\ \A e \in ReadSignatures : Entry("signatures", e).file \in Range(documents[e[1]].files)
    /\ \A f \in ReadSketches :
          /\ Entry("sketches", f).file \in Range(documents[f[1]].files)
          /\ ~IsEmptyText(NormalLines(Entry("sketches", f).code))
          /\ ~SnippetOverBudget(Entry("sketches", f).code)
    /\ \A e, g \in ReadSignatures :
          e[1] = g[1] /\ Entry("signatures", e).label = Entry("signatures", g).label => e = g
    /\ \A f, h \in ReadSketches : Entry("sketches", f).id = Entry("sketches", h).id => f = h

\* What is kept of it.
Kept ==
    /\ at.part # "document" =>
          labels = {Entry("signatures", e).label : e \in {g \in ReadSignatures : g[1] = at.document}}
    /\ indexed = Cardinality(ReadSignatures) /\ indexed <= limits.signatures
    /\ Cardinality(ReadSketches) <= limits.sketches
    /\ IsFiniteSet(declared)
    /\ contracts = <<>> => Cardinality(declared) = Cardinality(ReadSketches)

\* The sketches linked so far, and what is left of links and declarations.
Linked == {contracts[i].id : i \in DOMAIN contracts}
Naming == {e \in ReadSignatures : Entry("signatures", e).sketch # NoSketch}
LinkOf(e) == Located(Entry("signatures", e), e[1])
DeclarationOf(f) == Located(Entry("sketches", f), f[1])
OnlyPartner(e, f) ==
    /\ Counterparts(e, f)
    /\ \A g \in Naming : Entry("signatures", g).sketch = Entry("sketches", f).id => g = e

Matched ==
    /\ Len(contracts) \in Nat /\ DOMAIN contracts = 1..Len(contracts)
    /\ \E S : contracts \in Seq(S)
    /\ at.document <= Len(documents) => contracts = <<>>
    /\ links = {LinkOf(e) : e \in {g \in Naming : Entry("signatures", g).sketch \notin Linked}}
    /\ declared = {DeclarationOf(f) : f \in {g \in ReadSketches : Entry("sketches", g).id \notin Linked}}
    /\ \A id \in Linked :
          \E f \in ReadSketches, e \in Naming : Entry("sketches", f).id = id /\ OnlyPartner(e, f)
    /\ \A i, j \in DOMAIN contracts : i < j => contracts[i].id < contracts[j].id
    /\ \A i \in DOMAIN contracts, d \in declared : contracts[i].id < d.id

ResolutionInv ==
    /\ Parsed
    /\ outcome = "resolving" => Place /\ RightSoFar /\ Kept /\ Matched
    /\ ResolutionIsPairing

-----------------------------------------------------------------------------
(* Lemmas about entries and places. *)

LEMMA DocumentFields ==
    ASSUME Parsed
    PROVE  /\ Len(documents) \in Nat /\ DOMAIN documents = 1..Len(documents)
           /\ \A d \in DOMAIN documents : documents[d] \in ParsedDocument
BY DEF Parsed

LEMMA EntryTypes ==
    ASSUME Parsed
    PROVE  /\ \A e \in Entries("signatures") :
                /\ e = <<e[1], e[2]>> /\ e[1] \in DOMAIN documents
                /\ e[2] \in DOMAIN documents[e[1]].signatures /\ e[2] \in Nat \ {0}
                /\ Entry("signatures", e) = documents[e[1]].signatures[e[2]]
                /\ Entry("signatures", e) \in SignatureEntry
           /\ \A f \in Entries("sketches") :
                /\ f = <<f[1], f[2]>> /\ f[1] \in DOMAIN documents
                /\ f[2] \in DOMAIN documents[f[1]].sketches /\ f[2] \in Nat \ {0}
                /\ Entry("sketches", f) = documents[f[1]].sketches[f[2]]
                /\ Entry("sketches", f) \in SketchEntry
<1>1. \A d \in DOMAIN documents :
        /\ documents[d].signatures \in Seq(SignatureEntry)
        /\ documents[d].sketches \in Seq(SketchEntry)
  BY DocumentFields DEF ParsedDocument
<1> QED BY <1>1 DEF Entries, Entry

LEMMA EntriesAre ==
    ASSUME NEW d \in DOMAIN documents
    PROVE  /\ \A i \in DOMAIN documents[d].signatures : <<d, i>> \in Entries("signatures")
           /\ \A i \in DOMAIN documents[d].sketches : <<d, i>> \in Entries("sketches")
BY DEF Entries

\* There are finitely many entries.
LEMMA EntriesFinite ==
    ASSUME Parsed, NEW part \in {"signatures", "sketches"}
    PROVE  IsFiniteSet(Entries(part))
<1> DEFINE Row(d) == {<<d, i>> : i \in DOMAIN documents[d][part]}
           Rows == {Row(d) : d \in DOMAIN documents}
<1>1. ASSUME NEW d \in DOMAIN documents PROVE IsFiniteSet(Row(d))
  <2>1. PICK n \in Nat : DOMAIN documents[d][part] = 1..n
    <3>1. documents[d].signatures \in Seq(SignatureEntry) /\ documents[d].sketches \in Seq(SketchEntry)
      BY DocumentFields DEF ParsedDocument
    <3> QED BY <3>1
  <2>2. IsFiniteSet(1..n) BY FS_Interval
  <2> DEFINE f == [i \in 1..n |-> <<d, i>>]
  <2>3. f \in Surjection(1..n, Row(d)) BY <2>1 DEF Surjection
  <2> QED BY <2>2, <2>3, FS_Surjection
<1>2. IsFiniteSet(Rows)
  <2>1. IsFiniteSet(DOMAIN documents) BY DocumentFields, FS_Interval
  <2> DEFINE f == [d \in DOMAIN documents |-> Row(d)]
  <2>2. f \in Surjection(DOMAIN documents, Rows) BY DEF Surjection
  <2> QED BY <2>1, <2>2, FS_Surjection
<1>3. Entries(part) = UNION Rows BY DEF Entries
<1>4. \A T \in Rows : IsFiniteSet(T) BY <1>1
<1> HIDE DEF Rows
<1> QED BY <1>2, <1>3, <1>4, FS_UNION

SomePlace == [document : Nat \ {0}, part : {"document", "signature", "sketch"}, index : Nat \ {0}]

\* A place that only opens, changes or ends a list of entries passes none.
LEMMA PassedSame ==
    ASSUME Parsed, NEW p \in SomePlace, NEW q \in SomePlace,
           \/ p.part = "document" /\ q.document = p.document /\ q.part = "signature" /\ q.index = 1
           \/ /\ p.part = "signature" /\ q.document = p.document /\ q.part = "sketch" /\ q.index = 1
              /\ p.document \in DOMAIN documents
              /\ p.index > Len(documents[p.document].signatures)
           \/ /\ p.part = "sketch" /\ q.document = p.document + 1 /\ q.part = "document"
              /\ p.document \in DOMAIN documents
              /\ p.index > Len(documents[p.document].sketches)
    PROVE  /\ Passed("signatures", q) = Passed("signatures", p)
           /\ Passed("sketches", q) = Passed("sketches", p)
<1>1. \A d \in DOMAIN documents :
        /\ d \in Nat
        /\ documents[d].signatures \in Seq(SignatureEntry) /\ documents[d].sketches \in Seq(SketchEntry)
  BY DocumentFields DEF ParsedDocument
<1>2. \A e \in Entries("signatures") : e \in Passed("signatures", q) <=> e \in Passed("signatures", p)
  BY <1>1, EntryTypes DEF Passed, SomePlace
<1>3. \A f \in Entries("sketches") : f \in Passed("sketches", q) <=> f \in Passed("sketches", p)
  BY <1>1, EntryTypes DEF Passed, SomePlace
<1> QED BY <1>2, <1>3 DEF Passed

\* Reading an entry passes that one.
LEMMA PassedSignature ==
    ASSUME Parsed, NEW p \in SomePlace, p.part = "signature", p.document \in DOMAIN documents,
           NEW q \in SomePlace, q.document = p.document, q.part = "signature", q.index = p.index + 1,
           NEW e, e = <<p.document, p.index>>, e \in Entries("signatures")
    PROVE  /\ Passed("signatures", q) = Passed("signatures", p) \cup {e}
           /\ e \notin Passed("signatures", p)
           /\ Passed("sketches", q) = Passed("sketches", p)
<1>1. \A d \in DOMAIN documents : d \in Nat BY DocumentFields
<1>2. \A g \in Entries("signatures") :
        g \in Passed("signatures", q) <=> g \in Passed("signatures", p) \/ g = e
  BY <1>1, EntryTypes DEF Passed, SomePlace
<1>3. \A f \in Entries("sketches") : f \in Passed("sketches", q) <=> f \in Passed("sketches", p)
  BY <1>1, EntryTypes DEF Passed, SomePlace
<1>4. e \notin Passed("signatures", p) BY <1>1 DEF Passed, SomePlace
<1> QED BY <1>2, <1>3, <1>4 DEF Passed

LEMMA PassedSketch ==
    ASSUME Parsed, NEW p \in SomePlace, p.part = "sketch", p.document \in DOMAIN documents,
           NEW q \in SomePlace, q.document = p.document, q.part = "sketch", q.index = p.index + 1,
           NEW f, f = <<p.document, p.index>>, f \in Entries("sketches")
    PROVE  /\ Passed("sketches", q) = Passed("sketches", p) \cup {f}
           /\ f \notin Passed("sketches", p)
           /\ Passed("signatures", q) = Passed("signatures", p)
<1>1. \A d \in DOMAIN documents : d \in Nat BY DocumentFields
<1>2. \A g \in Entries("sketches") :
        g \in Passed("sketches", q) <=> g \in Passed("sketches", p) \/ g = f
  BY <1>1, EntryTypes DEF Passed, SomePlace
<1>3. \A e \in Entries("signatures") : e \in Passed("signatures", q) <=> e \in Passed("signatures", p)
  BY <1>1, EntryTypes DEF Passed, SomePlace
<1>4. f \notin Passed("sketches", p) BY <1>1 DEF Passed, SomePlace
<1> QED BY <1>2, <1>3, <1>4 DEF Passed

LEMMA AllPassed ==
    ASSUME Parsed, NEW p \in SomePlace, p.document = Len(documents) + 1
    PROVE  /\ Passed("signatures", p) = Entries("signatures")
           /\ Passed("sketches", p) = Entries("sketches")
BY DocumentFields, EntryTypes DEF Passed

LEMMA PassedPrimed ==
    ASSUME UNCHANGED documents
    PROVE  /\ \A part : Entries(part)' = Entries(part)
           /\ \A part, e : Entry(part, e)' = Entry(part, e)
           /\ ReadSignatures' = Passed("signatures", at')
           /\ ReadSketches' = Passed("sketches", at')
BY DEF Entries, Entry, ReadSignatures, ReadSketches, Passed

LEMMA LinkFields ==
    ASSUME Parsed, NEW e \in Entries("signatures")
    PROVE  LET link == LinkOf(e) s == Entry("signatures", e)
           IN  /\ link.label = s.label /\ link.file = s.file /\ link.sketch = s.sketch
               /\ link.type = s.type /\ link.locator = e[1]
<1>1. Entry("signatures", e) \in SignatureEntry BY EntryTypes
<1> QED BY <1>1 DEF LinkOf, Located, SignatureEntry

LEMMA DeclarationFields ==
    ASSUME Parsed, NEW f \in Entries("sketches")
    PROVE  LET sketch == DeclarationOf(f) k == Entry("sketches", f)
           IN  /\ sketch.id = k.id /\ sketch.file = k.file /\ sketch.signature = k.signature
               /\ sketch.type = k.type /\ sketch.locator = f[1]
               /\ sketch.id \in Nat \ {NoSketch}
<1>1. Entry("sketches", f) \in SketchEntry BY EntryTypes
<1> QED BY <1>1 DEF DeclarationOf, Located, SketchEntry

-----------------------------------------------------------------------------
(* The steps of the resolution keep the invariant. *)

Ongoing == outcome = "resolving" /\ Parsed /\ Place /\ RightSoFar /\ Kept /\ Matched

LEMMA StillOngoing ==
    ASSUME Parsed, UNCHANGED <<documents, limits>>, outcome' = "resolving",
           Place', RightSoFar', Kept', Matched'
    PROVE  ResolutionInv'
BY DEF ResolutionInv, ResolutionIsPairing, Parsed

LEMMA SameDocuments ==
    ASSUME UNCHANGED <<documents, limits>>
    PROVE  WellPaired' = WellPaired /\ WithinLimits' = WithinLimits
<1>1. \A d \in DOMAIN documents :
        IsInjective([i \in DOMAIN documents[d].signatures |-> documents[d].signatures[i].label])' <=>
        IsInjective([i \in DOMAIN documents[d].signatures |-> documents[d].signatures[i].label])
  BY DEF IsInjective
<1>2. WellPaired' = WellPaired BY <1>1, PassedPrimed DEF WellPaired, Counterparts
<1>3. WithinLimits' = WithinLimits BY PassedPrimed DEF WithinLimits, SnippetOverBudget
<1> QED BY <1>2, <1>3

LEMMA Rejected ==
    ASSUME Parsed, UNCHANGED <<documents, limits>>, outcome' = "rejected", ~WellPaired
    PROVE  ResolutionInv'
BY SameDocuments DEF ResolutionInv, ResolutionIsPairing, Parsed

LEMMA OverLimit ==
    ASSUME Parsed, UNCHANGED <<documents, limits>>, ~WithinLimits,
           outcome' \in {"signatures", "sketches", "snippet"}
    PROVE  ResolutionInv'
BY SameDocuments DEF ResolutionInv, ResolutionIsPairing, Parsed

\* A place that passes nothing changes nothing of what is known.
LEMMA SameKnown ==
    ASSUME Ongoing, UNCHANGED <<documents, limits, indexed, links, declared, contracts>>,
           Passed("signatures", at') = ReadSignatures, Passed("sketches", at') = ReadSketches,
           \/ at'.document = at.document
           \/ at'.document = at.document + 1 /\ at'.document > at.document /\ contracts = <<>>,
           \A d \in DOMAIN documents :
              d < at'.document \/ (d = at'.document /\ at'.part # "document") =>
                  documents[d].root /\ IsInjective(documents[d].files),
           at'.part # "document" =>
              labels' = {Entry("signatures", e).label : e \in {g \in ReadSignatures : g[1] = at'.document}}
    PROVE  RightSoFar' /\ Kept' /\ Matched'
<1>1. ReadSignatures' = ReadSignatures /\ ReadSketches' = ReadSketches BY PassedPrimed
<1>2. Naming' = Naming /\ Linked' = Linked BY <1>1, PassedPrimed DEF Naming, Linked
<1>3. RightSoFar'
  <2>1. \A code : SnippetOverBudget(code)' = SnippetOverBudget(code) BY DEF SnippetOverBudget
  <2> QED BY <1>1, <2>1, PassedPrimed DEF Ongoing, RightSoFar
<1>4. Kept' BY <1>1, PassedPrimed DEF Ongoing, Kept
<1>5. Matched'
  <2>1. \A e, f : OnlyPartner(e, f)' <=> OnlyPartner(e, f)
    BY <1>2, PassedPrimed DEF OnlyPartner, Counterparts
  <2>2. \A e : LinkOf(e)' = LinkOf(e) BY PassedPrimed DEF LinkOf
  <2>3. \A f : DeclarationOf(f)' = DeclarationOf(f) BY PassedPrimed DEF DeclarationOf
  <2>4. at'.document <= Len(documents') => contracts' = <<>>
    BY DocumentFields DEF Ongoing, Matched, Place
  <2> QED BY <1>1, <1>2, <2>1, <2>2, <2>3, <2>4, PassedPrimed DEF Ongoing, Matched
<1> QED BY <1>3, <1>4, <1>5

LEMMA PlaceIsSome == ASSUME Ongoing PROVE at \in SomePlace
BY DocumentFields DEF Ongoing, Place, SomePlace

LEMMA PlaceMoves ==
    ASSUME Parsed, UNCHANGED documents, at \in SomePlace, at.document \in DOMAIN documents,
           NEW part \in {"signature", "sketch"}, NEW index \in Nat \ {0}, Step(part, index)
    PROVE  /\ at'.document = at.document /\ at'.part = part /\ at'.index = index
           /\ at' \in SomePlace /\ Place'
<1>1. at' \in SomePlace BY DEF Step, SomePlace
<1>2. at'.document = at.document /\ at'.part = part /\ at'.index = index BY DEF Step, SomePlace
<1>3. at' = [document |-> at.document, part |-> part, index |-> index] BY DEF Step, SomePlace
<1>4. at.document \in 1..(Len(documents) + 1) BY DocumentFields
<1>5. Place' BY <1>2, <1>3, <1>4 DEF Place
<1> QED BY <1>1, <1>2, <1>5

LEMMA OpenKeeps == ASSUME Ongoing, OpenDocument PROVE ResolutionInv'
<1> USE DEF Reading, OpenDocument
<1>0. Parsed /\ Place /\ RightSoFar BY DEF Ongoing
<1>1. at.document \in DOMAIN documents /\ at.part = "document" BY <1>0, DocumentFields DEF Place
<1>2. CASE Open.root /\ IsInjective(Open.files)
  <2>1. Step("signature", 1) /\ labels' = {} /\ UNCHANGED documents BY <1>2
  <2>2. /\ at'.document = at.document /\ at'.part = "signature" /\ at'.index = 1
        /\ at' \in SomePlace /\ Place'
    <3>1. at \in SomePlace BY PlaceIsSome
    <3> QED BY <1>0, <1>1, <2>1, <3>1, PlaceMoves
  <2>3. Passed("signatures", at') = ReadSignatures /\ Passed("sketches", at') = ReadSketches
    BY <1>0, <1>1, <2>2, PlaceIsSome, PassedSame DEF ReadSignatures, ReadSketches
  <2>4. {g \in ReadSignatures : g[1] = at'.document} = {}
    BY <1>0, <1>1, <2>2, DocumentFields, EntryTypes DEF ReadSignatures, Passed
  <2>5. \A d \in DOMAIN documents :
              d < at'.document \/ (d = at'.document /\ at'.part # "document") =>
                  documents[d].root /\ IsInjective(documents[d].files)
    BY <1>0, <1>1, <1>2, <2>2, DocumentFields DEF RightSoFar, Open, Place
  <2>7. UNCHANGED <<documents, limits, indexed, links, declared, contracts>> /\ outcome' = "resolving"
    BY <1>2
  <2>8. RightSoFar' /\ Kept' /\ Matched'
    BY <1>1, <2>1, <2>2, <2>3, <2>4, <2>5, <2>7, SameKnown
  <2> QED BY <1>0, <2>2, <2>7, <2>8, StillOngoing
<1>3. CASE ~(Open.root /\ IsInjective(Open.files))
  <2>1. ~WellPaired BY <1>1, <1>3 DEF WellPaired, Open
  <2> QED BY <1>0, <1>3, <2>1, Rejected DEF Stop
<1> QED BY <1>2, <1>3

LEMMA EndKeeps == ASSUME Ongoing, EndSignatures \/ EndDocument PROVE ResolutionInv'
<1>0. Parsed /\ Place /\ RightSoFar /\ Kept /\ Matched /\ at \in SomePlace
  BY PlaceIsSome DEF Ongoing
<1>1. at.document \in DOMAIN documents /\ contracts = <<>>
  BY <1>0, DocumentFields DEF Place, Matched, EndSignatures, EndDocument, Reading
<1>2. UNCHANGED <<documents, limits, indexed, links, declared, contracts, labels>> /\ outcome' = "resolving"
  BY DEF EndSignatures, EndDocument, Reading
<1>3. \/ /\ at.part = "signature" /\ Step("sketch", 1)
         /\ at.index > Len(documents[at.document].signatures)
      \/ /\ at.part = "sketch"
         /\ at' = [document |-> at.document + 1, part |-> "document", index |-> 1]
         /\ at.index > Len(documents[at.document].sketches)
  BY DEF EndSignatures, EndDocument, Reading, Open
<1>4. at' \in SomePlace /\ Place'
  <2>1. CASE Step("sketch", 1) BY <1>0, <1>1, <1>2, <2>1, PlaceMoves
  <2>2. CASE at' = [document |-> at.document + 1, part |-> "document", index |-> 1]
    BY <1>0, <1>1, <1>2, <2>2, DocumentFields DEF Place, SomePlace
  <2> QED BY <1>3, <2>1, <2>2
<1>5. \/ /\ at.part = "signature" /\ at'.part = "sketch" /\ at'.index = 1
         /\ at'.document = at.document
         /\ at.index > Len(documents[at.document].signatures)
      \/ /\ at.part = "sketch" /\ at'.part = "document" /\ at'.document = at.document + 1
         /\ at.index > Len(documents[at.document].sketches)
  BY <1>0, <1>1, <1>2, <1>3, PlaceMoves
<1>6. Passed("signatures", at') = ReadSignatures /\ Passed("sketches", at') = ReadSketches
  BY <1>0, <1>1, <1>4, <1>5, PassedSame DEF ReadSignatures, ReadSketches
<1>7. \A d \in DOMAIN documents :
              d < at'.document \/ (d = at'.document /\ at'.part # "document") =>
                  documents[d].root /\ IsInjective(documents[d].files)
  BY <1>0, <1>1, <1>5, DocumentFields DEF RightSoFar
<1>8. at'.part # "document" =>
        labels' = {Entry("signatures", e).label : e \in {g \in ReadSignatures : g[1] = at'.document}}
  BY <1>0, <1>2, <1>5 DEF Kept
<1>9. \/ at'.document = at.document
      \/ at'.document = at.document + 1 /\ at'.document > at.document
  BY <1>0, <1>1, <1>5, DocumentFields
<1>10. RightSoFar' /\ Kept' /\ Matched' BY <1>1, <1>2, <1>6, <1>7, <1>8, <1>9, SameKnown
<1> QED BY <1>0, <1>2, <1>4, <1>10, StillOngoing

\* Another entry of a part is one more of finitely many.
LEMMA OneMore ==
    ASSUME Parsed, NEW part \in {"signatures", "sketches"},
           NEW S \in SUBSET Entries(part), NEW e \in Entries(part), e \notin S
    PROVE  /\ Cardinality(S) \in Nat /\ Cardinality(Entries(part)) \in Nat
           /\ Cardinality(S \cup {e}) = Cardinality(S) + 1
           /\ Cardinality(S) + 1 <= Cardinality(Entries(part))
<1>1. IsFiniteSet(Entries(part)) BY EntriesFinite
<1>2. IsFiniteSet(S) BY <1>1, FS_Subset
<1>3. Cardinality(S \cup {e}) = Cardinality(S) + 1 BY <1>2, FS_AddElement
<1>4. Cardinality(S \cup {e}) <= Cardinality(Entries(part)) BY <1>1, FS_Subset
<1>5. Cardinality(S) \in Nat /\ Cardinality(Entries(part)) \in Nat BY <1>1, <1>2, FS_CardinalityType
<1> QED BY <1>3, <1>4, <1>5

LEMMA MatchedAtFirst ==
    ASSUME contracts' = <<>>,
           links' = {LinkOf(e) : e \in Naming}', declared' = {DeclarationOf(f) : f \in ReadSketches}'
    PROVE  Matched'
<1>1. DOMAIN contracts' = 1..Len(contracts') /\ Len(contracts') = 0 /\ DOMAIN contracts' = {} OBVIOUS
<1>2. Linked' = {} BY <1>1 DEF Linked
<1> QED BY <1>1, <1>2 DEF Matched

LEMMA MatchedBefore ==
    ASSUME Matched, contracts = <<>>
    PROVE  links = {LinkOf(e) : e \in Naming} /\ declared = {DeclarationOf(f) : f \in ReadSketches}
<1>1. DOMAIN contracts = {} OBVIOUS
<1>2. Linked = {} BY <1>1 DEF Linked
<1> QED BY <1>2 DEF Matched

LEMMA SignatureKeeps == ASSUME Ongoing, ReadSignature PROVE ResolutionInv'
<1> DEFINE e == <<at.document, at.index>>
           s == Open.signatures[at.index]
<1>0. /\ Parsed /\ Place /\ RightSoFar /\ Kept /\ Matched /\ at \in SomePlace
      /\ limits.signatures \in Nat
  BY PlaceIsSome DEF Ongoing, Parsed
<1>1. /\ UNCHANGED <<documents, limits>> /\ at.part = "signature" /\ indexed' = indexed + 1
      /\ at.document \in DOMAIN documents /\ contracts = <<>>
  BY <1>0, DocumentFields DEF ReadSignature, Reading, Matched, Place
<1>2. /\ e \in Entries("signatures") /\ e[1] = at.document /\ e[2] = at.index
      /\ s = Entry("signatures", e)
  <2>1. documents[at.document].signatures \in Seq(SignatureEntry)
    BY <1>0, <1>1, DocumentFields DEF ParsedDocument
  <2>2. at.index \in DOMAIN documents[at.document].signatures
    BY <1>0, <2>1 DEF ReadSignature, Reading, Open, SomePlace
  <2> QED BY <1>1, <2>2, EntriesAre DEF Entry, Open
<1>3. /\ e \notin ReadSignatures /\ ReadSignatures \subseteq Entries("signatures")
      /\ Cardinality(ReadSignatures) \in Nat
      /\ Cardinality(ReadSignatures \cup {e}) = indexed'
      /\ Cardinality(Entries("signatures")) \in Nat /\ indexed' <= Cardinality(Entries("signatures"))
  <2>1. e \notin ReadSignatures BY <1>0, <1>1, <1>2 DEF ReadSignatures, Passed, SomePlace
  <2>2. ReadSignatures \subseteq Entries("signatures") BY DEF ReadSignatures, Passed
  <2> HIDE DEF e
  <2> QED BY <1>0, <1>1, <1>2, <2>1, <2>2, OneMore DEF Kept
<1> HIDE DEF e
<1>4. CASE indexed' > limits.signatures
  <2>1. ~WithinLimits BY <1>0, <1>1, <1>3, <1>4 DEF WithinLimits, Kept
  <2>2. outcome' = "signatures" BY <1>4 DEF ReadSignature, Stop
  <2> QED BY <1>0, <1>1, <2>1, <2>2, OverLimit
<1>5. CASE ~(indexed' > limits.signatures) /\ (s.file \notin Range(Open.files) \/ s.label \in labels)
  <2> SUFFICES ~WellPaired
    <3>1. outcome' = "rejected" BY <1>5 DEF ReadSignature, Stop
    <3> QED BY <1>0, <1>1, <3>1, Rejected
  <2>1. CASE s.file \notin Range(Open.files)
    <3>1. Entry("signatures", e).file \notin Range(documents[e[1]].files) BY <1>2, <2>1 DEF Open
    <3> QED BY <1>2, <3>1 DEF WellPaired
  <2>2. CASE s.label \in labels
    <3>1. PICK g \in ReadSignatures :
            g[1] = at.document /\ Entry("signatures", g).label = Entry("signatures", e).label
      BY <1>0, <1>1, <1>2, <2>2 DEF Kept
    <3>2. g # e /\ g \in Entries("signatures") BY <1>3, <3>1
    <3>3. g = <<g[1], g[2]>> /\ g[2] \in DOMAIN documents[at.document].signatures
      BY <1>0, <3>1, <3>2, EntryTypes
    <3>4. e = <<at.document, at.index>> /\ at.index \in DOMAIN documents[at.document].signatures
      BY <1>0, <1>2, EntryTypes DEF e
    <3>5. g[2] # at.index BY <3>1, <3>2, <3>3, <3>4
    <3>6. documents[at.document].signatures[g[2]].label
            = documents[at.document].signatures[at.index].label
      BY <1>2, <3>1 DEF Entry
    <3>7. ~IsInjective([i \in DOMAIN documents[at.document].signatures |->
                         documents[at.document].signatures[i].label])
      BY <3>3, <3>4, <3>5, <3>6 DEF IsInjective
    <3> QED BY <1>1, <3>7 DEF WellPaired
  <2> QED BY <1>5, <2>1, <2>2
<1>6. CASE ~(indexed' > limits.signatures) /\ s.file \in Range(Open.files) /\ s.label \notin labels
  <2>1. /\ labels' = labels \cup {s.label} /\ Step("signature", at.index + 1)
        /\ links' = (IF s.sketch = NoSketch THEN links ELSE links \cup {Located(s, at.document)})
        /\ UNCHANGED <<declared, contracts, outcome>>
    BY <1>6 DEF ReadSignature
  <2>2. /\ at'.document = at.document /\ at'.part = "signature" /\ at'.index = at.index + 1
        /\ at' \in SomePlace /\ Place'
    <3>1. at.index + 1 \in Nat \ {0} BY <1>0 DEF SomePlace
    <3> QED BY <1>0, <1>1, <2>1, <3>1, PlaceMoves
  <2>3. ReadSignatures' = ReadSignatures \cup {e} /\ ReadSketches' = ReadSketches
    BY <1>0, <1>1, <1>2, <2>2, PassedSignature, PassedPrimed DEF ReadSignatures, ReadSketches, e
  <2>4. \A code : SnippetOverBudget(code)' = SnippetOverBudget(code) BY <1>1 DEF SnippetOverBudget
  <2>5. RightSoFar'
    <3>1. Entry("signatures", e).file \in Range(documents[e[1]].files) BY <1>2, <1>6 DEF Open
    <3>2. \A g \in ReadSignatures :
            g[1] = e[1] => Entry("signatures", g).label # Entry("signatures", e).label
      BY <1>0, <1>1, <1>2, <1>6 DEF Kept
    <3>3. \A d \in DOMAIN documents :
          d < at'.document \/ (d = at'.document /\ at'.part # "document") =>
              documents[d].root /\ IsInjective(documents[d].files)
      BY <1>0, <1>1, <2>2 DEF RightSoFar
    <3>4. \A g \in ReadSignatures' : Entry("signatures", g).file \in Range(documents[g[1]].files)
      BY <1>0, <2>3, <3>1 DEF RightSoFar
    <3>5. \A g, h \in ReadSignatures' :
            g[1] = h[1] /\ Entry("signatures", g).label = Entry("signatures", h).label => g = h
      BY <1>0, <2>3, <3>2 DEF RightSoFar
    <3> QED BY <1>0, <1>1, <2>3, <2>4, <3>3, <3>4, <3>5, PassedPrimed DEF RightSoFar
  <2>6. Kept'
    <3>1. labels' = {Entry("signatures", g).label : g \in {h \in ReadSignatures \cup {e} : h[1] = at.document}}
      BY <1>0, <1>1, <1>2, <2>1 DEF Kept
    <3>2. indexed' <= limits.signatures BY <1>0, <1>1, <1>3, <1>6 DEF Kept
    <3> QED BY <1>0, <1>1, <1>3, <2>1, <2>2, <2>3, <3>1, <3>2, PassedPrimed DEF Kept
  <2>7. Matched'
    <3>1. Naming' = IF s.sketch = NoSketch THEN Naming ELSE Naming \cup {e}
      BY <1>1, <1>2, <2>3, PassedPrimed DEF Naming
    <3>2. links' = {LinkOf(g) : g \in Naming'}
      <4>1. Located(s, at.document) = LinkOf(e) BY <1>2 DEF LinkOf
      <4> QED BY <1>0, <1>1, <2>1, <3>1, <4>1, MatchedBefore
    <3>3. declared' = {DeclarationOf(f) : f \in ReadSketches'}
      BY <1>0, <1>1, <2>1, <2>3, MatchedBefore
    <3>4. \A g : LinkOf(g)' = LinkOf(g) BY <1>1, PassedPrimed DEF LinkOf
    <3>5. \A g : DeclarationOf(g)' = DeclarationOf(g) BY <1>1, PassedPrimed DEF DeclarationOf
    <3>6. links' = {LinkOf(g) : g \in Naming}' BY <3>2, <3>4
    <3>7. declared' = {DeclarationOf(f) : f \in ReadSketches}' BY <3>3, <3>5
    <3> QED BY <1>1, <2>1, <3>6, <3>7, MatchedAtFirst
  <2>8. outcome' = "resolving" BY <2>1 DEF Ongoing
  <2> QED BY <1>0, <1>1, <2>2, <2>5, <2>6, <2>7, <2>8, StillOngoing
<1> QED BY <1>4, <1>5, <1>6

LEMMA SketchKeeps == ASSUME Ongoing, ReadSketch PROVE ResolutionInv'
<1> DEFINE f == <<at.document, at.index>>
           s == Open.sketches[at.index]
<1>0. /\ Parsed /\ Place /\ RightSoFar /\ Kept /\ Matched /\ at \in SomePlace
      /\ limits.sketches \in Nat
  BY PlaceIsSome DEF Ongoing, Parsed
<1>1. /\ UNCHANGED <<documents, limits, indexed>> /\ at.part = "sketch"
      /\ at.document \in DOMAIN documents /\ contracts = <<>>
  BY <1>0, DocumentFields DEF ReadSketch, Reading, Matched, Place
<1>2. /\ f \in Entries("sketches") /\ f[1] = at.document /\ f[2] = at.index
      /\ s = Entry("sketches", f)
  <2>1. documents[at.document].sketches \in Seq(SketchEntry)
    BY <1>0, <1>1, DocumentFields DEF ParsedDocument
  <2>2. at.index \in DOMAIN documents[at.document].sketches
    BY <1>0, <2>1 DEF ReadSketch, Reading, Open, SomePlace
  <2> QED BY <1>1, <2>2, EntriesAre DEF Entry, Open
<1>3. /\ f \notin ReadSketches /\ ReadSketches \subseteq Entries("sketches")
      /\ Cardinality(ReadSketches) \in Nat
      /\ Cardinality(ReadSketches \cup {f}) = Cardinality(ReadSketches) + 1
      /\ Cardinality(Entries("sketches")) \in Nat
      /\ Cardinality(ReadSketches) + 1 <= Cardinality(Entries("sketches"))
  <2>1. f \notin ReadSketches BY <1>0, <1>1, <1>2 DEF ReadSketches, Passed, SomePlace
  <2>2. ReadSketches \subseteq Entries("sketches") BY DEF ReadSketches, Passed
  <2> HIDE DEF f
  <2> QED BY <1>0, <1>2, <2>1, <2>2, OneMore
<1>4. declared = {DeclarationOf(h) : h \in ReadSketches} BY <1>0, <1>1, MatchedBefore
<1>5. \A h \in ReadSketches : DeclarationOf(h).id = Entry("sketches", h).id
  BY <1>0, <1>3, DeclarationFields
<1> HIDE DEF f
<1>6. CASE s.file \notin Range(Open.files)
  <2>1. Entry("sketches", f).file \notin Range(documents[f[1]].files) BY <1>2, <1>6 DEF Open
  <2>2. ~WellPaired BY <1>2, <2>1 DEF WellPaired
  <2>3. outcome' = "rejected" BY <1>6 DEF ReadSketch, Stop
  <2> QED BY <1>0, <1>1, <2>2, <2>3, Rejected
<1>7. CASE s.file \in Range(Open.files) /\ SnippetOverBudget(s.code)
  <2>1. ~WithinLimits BY <1>2, <1>7 DEF WithinLimits
  <2>2. outcome' = "snippet" BY <1>7 DEF ReadSketch, Stop
  <2> QED BY <1>0, <1>1, <2>1, <2>2, OverLimit
<1>8. CASE s.file \in Range(Open.files) /\ ~SnippetOverBudget(s.code) /\ IsEmptyText(NormalLines(s.code))
  <2>1. ~WellPaired BY <1>2, <1>8 DEF WellPaired
  <2>2. outcome' = "rejected" BY <1>8 DEF ReadSketch, Stop
  <2> QED BY <1>0, <1>1, <2>1, <2>2, Rejected
<1>9. CASE /\ s.file \in Range(Open.files) /\ ~SnippetOverBudget(s.code)
           /\ ~IsEmptyText(NormalLines(s.code)) /\ \E d \in declared : d.id = s.id
  <2>1. PICK h \in ReadSketches : Entry("sketches", h).id = Entry("sketches", f).id
    BY <1>2, <1>4, <1>5, <1>9
  <2>2. h # f /\ h \in Entries("sketches") BY <1>3, <2>1
  <2>3. ~WellPaired BY <1>2, <2>1, <2>2 DEF WellPaired
  <2>4. outcome' = "rejected" BY <1>9 DEF ReadSketch, Stop
  <2> QED BY <1>0, <1>1, <2>3, <2>4, Rejected
<1>10. CASE /\ s.file \in Range(Open.files) /\ ~SnippetOverBudget(s.code)
            /\ ~IsEmptyText(NormalLines(s.code)) /\ ~\E d \in declared : d.id = s.id
            /\ Cardinality(declared) + 1 > limits.sketches
  <2>1. Cardinality(declared) = Cardinality(ReadSketches) BY <1>0, <1>1 DEF Kept
  <2>2. ~WithinLimits BY <1>0, <1>3, <1>10, <2>1 DEF WithinLimits
  <2>3. outcome' = "sketches" BY <1>10 DEF ReadSketch, Stop
  <2> QED BY <1>0, <1>1, <2>2, <2>3, OverLimit
<1>11. CASE /\ s.file \in Range(Open.files) /\ ~SnippetOverBudget(s.code)
            /\ ~IsEmptyText(NormalLines(s.code)) /\ ~\E d \in declared : d.id = s.id
            /\ ~(Cardinality(declared) + 1 > limits.sketches)
  <2>1. /\ declared' = declared \cup {Located(s, at.document)} /\ Step("sketch", at.index + 1)
        /\ UNCHANGED <<labels, links, contracts, outcome>>
    BY <1>11 DEF ReadSketch
  <2>2. /\ at'.document = at.document /\ at'.part = "sketch" /\ at'.index = at.index + 1
        /\ at' \in SomePlace /\ Place'
    <3>1. at.index + 1 \in Nat \ {0} BY <1>0 DEF SomePlace
    <3> QED BY <1>0, <1>1, <2>1, <3>1, PlaceMoves
  <2>3. ReadSketches' = ReadSketches \cup {f} /\ ReadSignatures' = ReadSignatures
    BY <1>0, <1>1, <1>2, <2>2, PassedSketch, PassedPrimed DEF ReadSignatures, ReadSketches, f
  <2>4. \A code : SnippetOverBudget(code)' = SnippetOverBudget(code) BY <1>1 DEF SnippetOverBudget
  <2>5. Located(s, at.document) = DeclarationOf(f) BY <1>2 DEF DeclarationOf
  <2>6. \A h \in ReadSketches : Entry("sketches", h).id # Entry("sketches", f).id
    BY <1>2, <1>4, <1>5, <1>11
  <2>7. RightSoFar'
    <3>1. \A d \in DOMAIN documents :
          d < at'.document \/ (d = at'.document /\ at'.part # "document") =>
              documents[d].root /\ IsInjective(documents[d].files)
      BY <1>0, <1>1, <2>2 DEF RightSoFar
    <3>2. /\ Entry("sketches", f).file \in Range(documents[f[1]].files)
          /\ ~IsEmptyText(NormalLines(Entry("sketches", f).code))
          /\ ~SnippetOverBudget(Entry("sketches", f).code)
      BY <1>2, <1>11 DEF Open
    <3>3. \A h \in ReadSketches' :
              /\ Entry("sketches", h).file \in Range(documents[h[1]].files)
              /\ ~IsEmptyText(NormalLines(Entry("sketches", h).code))
              /\ ~SnippetOverBudget(Entry("sketches", h).code)
      BY <1>0, <2>3, <3>2 DEF RightSoFar
    <3>4. \A g, h \in ReadSketches' : Entry("sketches", g).id = Entry("sketches", h).id => g = h
      BY <1>0, <2>3, <2>6 DEF RightSoFar
    <3> QED BY <1>0, <1>1, <2>3, <2>4, <3>1, <3>3, <3>4, PassedPrimed DEF RightSoFar
  <2>8. IsFiniteSet(declared') /\ Cardinality(declared') = Cardinality(ReadSketches')
    <3>1. DeclarationOf(f) \notin declared
      <4>1. DeclarationOf(f).id = Entry("sketches", f).id BY <1>0, <1>2, DeclarationFields
      <4> QED BY <1>4, <1>5, <2>6, <4>1
    <3>2. IsFiniteSet(declared) /\ Cardinality(declared) = Cardinality(ReadSketches)
      BY <1>0, <1>1 DEF Kept
    <3> QED BY <1>3, <2>1, <2>3, <2>5, <3>1, <3>2, FS_AddElement
  <2>9. Kept'
    <3>1. Cardinality(declared) = Cardinality(ReadSketches) BY <1>0, <1>1 DEF Kept
    <3>2. Cardinality(ReadSketches') <= limits.sketches BY <1>0, <1>3, <1>11, <2>3, <3>1
    <3> QED BY <1>0, <1>1, <2>1, <2>2, <2>3, <2>8, <3>2, PassedPrimed DEF Kept
  <2>10. Matched'
    <3>1. Naming' = Naming BY <1>1, <2>3, PassedPrimed DEF Naming
    <3>2. links' = {LinkOf(g) : g \in Naming'} BY <1>0, <1>1, <2>1, <3>1, MatchedBefore
    <3>3. declared' = {DeclarationOf(g) : g \in ReadSketches'} BY <1>4, <2>1, <2>3, <2>5
    <3>4. \A g : LinkOf(g)' = LinkOf(g) BY <1>1, PassedPrimed DEF LinkOf
    <3>5. \A g : DeclarationOf(g)' = DeclarationOf(g) BY <1>1, PassedPrimed DEF DeclarationOf
    <3>6. links' = {LinkOf(g) : g \in Naming}' BY <3>2, <3>4
    <3>7. declared' = {DeclarationOf(g) : g \in ReadSketches}' BY <3>3, <3>5
    <3> QED BY <1>1, <2>1, <3>6, <3>7, MatchedAtFirst
  <2>11. outcome' = "resolving" BY <2>1 DEF Ongoing
  <2> QED BY <1>0, <1>1, <2>2, <2>7, <2>9, <2>10, <2>11, StillOngoing
<1> QED BY <1>6, <1>7, <1>8, <1>9, <1>10, <1>11

-----------------------------------------------------------------------------
(* Linking: every entry has been read. *)

LEMMA AllRead ==
    ASSUME Ongoing, Linking
    PROVE  /\ at.document = Len(documents) + 1
           /\ ReadSignatures = Entries("signatures") /\ ReadSketches = Entries("sketches")
           /\ Naming = {e \in Entries("signatures") : Entry("signatures", e).sketch # NoSketch}
<1>1. Parsed /\ at \in SomePlace BY PlaceIsSome DEF Ongoing
<1>2. at.document = Len(documents) + 1 BY DocumentFields DEF Ongoing, Place, Linking
<1> QED BY <1>1, <1>2, AllPassed DEF ReadSignatures, ReadSketches, Naming

LEMMA FinishKeeps == ASSUME Ongoing, FinishResolution PROVE ResolutionInv'
<1> DEFINE Sig(e) == Entry("signatures", e)
           Sk(f) == Entry("sketches", f)
<1>0. /\ Parsed /\ RightSoFar /\ Kept /\ Matched /\ Linking /\ declared = {}
      /\ UNCHANGED <<documents, limits, contracts>>
  BY DEF Ongoing, FinishResolution, resolution
<1>1. /\ at.document = Len(documents) + 1
      /\ ReadSignatures = Entries("signatures") /\ ReadSketches = Entries("sketches")
      /\ Naming = {e \in Entries("signatures") : Sig(e).sketch # NoSketch}
  BY <1>0, AllRead
<1>2. \A f \in Entries("sketches") : Sk(f).id \in Linked
  <2>1. ASSUME NEW f \in ReadSketches, Sk(f).id \notin Linked PROVE DeclarationOf(f) \in declared
    BY <1>0, <2>1 DEF Matched
  <2> QED BY <1>0, <1>1, <2>1
<1>3. \A id \in Linked : \E f \in Entries("sketches"), e \in Naming : Sk(f).id = id /\ OnlyPartner(e, f)
  BY <1>0, <1>1 DEF Matched
<1>4. \A f, h \in Entries("sketches") : Sk(f).id = Sk(h).id => f = h BY <1>0, <1>1 DEF RightSoFar
<1>5. CASE links = {}
  <2>1. outcome' = "accepted" BY <1>5 DEF FinishResolution
  <2>2. \A e \in Naming : Sig(e).sketch \in Linked BY <1>0, <1>5 DEF Matched
  <2>3. WellPaired
    <3>1. ASSUME NEW d \in DOMAIN documents
          PROVE  /\ documents[d].root
                 /\ IsInjective(documents[d].files)
                 /\ IsInjective([i \in DOMAIN documents[d].signatures |->
                                    documents[d].signatures[i].label])
      <4>1. d < at.document BY <1>0, <1>1, DocumentFields
      <4>2. \A i \in DOMAIN documents[d].signatures :
              /\ <<d, i>> \in ReadSignatures
              /\ Sig(<<d, i>>).label = documents[d].signatures[i].label
        BY <1>1, EntriesAre DEF Entry
      <4>3. \A i, j \in DOMAIN documents[d].signatures :
              documents[d].signatures[i].label = documents[d].signatures[j].label => i = j
        <5> SUFFICES ASSUME NEW i \in DOMAIN documents[d].signatures,
                            NEW j \in DOMAIN documents[d].signatures,
                            Sig(<<d, i>>).label = Sig(<<d, j>>).label
                     PROVE  i = j
          BY <4>2
        <5>1. <<d, i>> = <<d, j>> BY <1>0, <4>2 DEF RightSoFar
        <5> QED BY <5>1
      <4>4. IsInjective([i \in DOMAIN documents[d].signatures |-> documents[d].signatures[i].label])
        BY <4>3 DEF IsInjective
      <4> QED BY <1>0, <4>1, <4>4 DEF RightSoFar
    <3>2. \A part \in {"signatures", "sketches"} : \A e \in Entries(part) :
              Entry(part, e).file \in Range(documents[e[1]].files)
      BY <1>0, <1>1 DEF RightSoFar
    <3>3. \A f \in Entries("sketches") : ~IsEmptyText(NormalLines(Sk(f).code))
      BY <1>0, <1>1 DEF RightSoFar
    <3>4. \A f \in Entries("sketches") : \E e \in Naming :
              /\ Counterparts(e, f)
              /\ \A g \in Naming : Sig(g).sketch = Sk(f).id => g = e
              /\ \A h \in Entries("sketches") : Sk(h).id = Sk(f).id => h = f
      <4> SUFFICES ASSUME NEW f \in Entries("sketches")
                   PROVE  \E e \in Naming :
                              /\ Counterparts(e, f)
                              /\ \A g \in Naming : Sig(g).sketch = Sk(f).id => g = e
                              /\ \A h \in Entries("sketches") : Sk(h).id = Sk(f).id => h = f
        OBVIOUS
      <4>1. PICK h \in Entries("sketches"), e \in Naming : Sk(h).id = Sk(f).id /\ OnlyPartner(e, h)
        BY <1>2, <1>3
      <4>2. h = f BY <1>4, <4>1
      <4> QED BY <1>4, <4>1, <4>2 DEF OnlyPartner
    <3>5. \A e \in Naming : \E f \in Entries("sketches") : Counterparts(e, f)
      <4> SUFFICES ASSUME NEW e \in Naming PROVE \E f \in Entries("sketches") : Counterparts(e, f)
        OBVIOUS
      <4>1. PICK f \in Entries("sketches"), g \in Naming : Sk(f).id = Sig(e).sketch /\ OnlyPartner(g, f)
        BY <1>3, <2>2
      <4>2. g = e BY <4>1 DEF OnlyPartner
      <4> QED BY <4>1, <4>2 DEF OnlyPartner
    <3> QED BY <1>1, <3>1, <3>2, <3>3, <3>4, <3>5 DEF WellPaired
  <2>4. WithinLimits
    <3>1. Cardinality(Entries("signatures")) <= limits.signatures BY <1>0, <1>1 DEF Kept
    <3>2. Cardinality(Entries("sketches")) <= limits.sketches BY <1>0, <1>1 DEF Kept
    <3>3. \A f \in Entries("sketches") : ~SnippetOverBudget(Sk(f).code)
      BY <1>0, <1>1 DEF RightSoFar
    <3> QED BY <3>1, <3>2, <3>3 DEF WithinLimits
  <2>5. {c.id : c \in Range(contracts)} = {Sk(f).id : f \in Entries("sketches")}
    <3>1. {c.id : c \in Range(contracts)} = Linked BY DEF Linked, Range
    <3> QED BY <1>2, <1>3, <3>1
  <2>6. \A i, j \in DOMAIN contracts : i < j => contracts[i].id < contracts[j].id BY <1>0 DEF Matched
  <2>7. WellPaired' /\ WithinLimits' BY <1>0, <2>3, <2>4, SameDocuments
  <2>8. \A part : Entries(part)' = Entries(part) BY <1>0, PassedPrimed
  <2>9. \A part, e : Entry(part, e)' = Entry(part, e) BY <1>0, PassedPrimed
  <2>10. ResolutionIsPairing' BY <1>0, <2>1, <2>5, <2>6, <2>7, <2>8, <2>9 DEF ResolutionIsPairing
  <2> QED BY <1>0, <2>1, <2>10 DEF ResolutionInv, Parsed
<1>6. CASE links # {}
  <2>1. outcome' = "rejected" BY <1>6 DEF FinishResolution
  <2>2. PICK e \in Naming : Sig(e).sketch \notin Linked BY <1>0, <1>6 DEF Matched
  <2>3. ~\E f \in Entries("sketches") : Counterparts(e, f) BY <1>2, <2>2 DEF Counterparts
  <2>4. ~WellPaired BY <1>1, <2>2, <2>3 DEF WellPaired
  <2> QED BY <1>0, <2>1, <2>4, Rejected
<1> QED BY <1>5, <1>6

\* The sketch that is linked is one read, with the least id not yet linked.
LEMMA LeastDeclared ==
    ASSUME Ongoing, Linking, declared # {}
    PROVE  LET id == Min({d.id : d \in declared})
               sketch == CHOOSE d \in declared : d.id = id
           IN  \E f \in ReadSketches :
                 /\ sketch = DeclarationOf(f) /\ sketch.id = id /\ Entry("sketches", f).id = id
                 /\ sketch \in declared /\ id \in Nat \ {NoSketch} /\ id \notin Linked
                 /\ \A d \in declared : id <= d.id
<1> DEFINE ids == {d.id : d \in declared}
           id == Min(ids)
           sketch == CHOOSE d \in declared : d.id = id
<1>0. Parsed /\ Matched /\ ReadSketches = Entries("sketches") BY AllRead DEF Ongoing
<1>1. \A d \in declared : \E f \in ReadSketches :
        d = DeclarationOf(f) /\ d.id = Entry("sketches", f).id /\ d.id \in Nat \ {NoSketch} /\ d.id \notin Linked
  <2> SUFFICES ASSUME NEW d \in declared
               PROVE  \E f \in ReadSketches :
                         /\ d = DeclarationOf(f) /\ d.id = Entry("sketches", f).id
                         /\ d.id \in Nat \ {NoSketch} /\ d.id \notin Linked
    OBVIOUS
  <2>1. PICK f \in ReadSketches : d = DeclarationOf(f) /\ Entry("sketches", f).id \notin Linked
    BY <1>0 DEF Matched
  <2>2. DeclarationOf(f).id = Entry("sketches", f).id /\ DeclarationOf(f).id \in Nat \ {NoSketch}
    BY <1>0, DeclarationFields
  <2> QED BY <2>1, <2>2
<1>2. ids \subseteq Nat /\ ids # {} BY <1>1
<1>3. \E x \in ids : \A y \in ids : x <= y BY <1>2, LeastNatural
<1>4. id \in ids /\ \A y \in ids : id <= y BY <1>3 DEF Min
<1>5. sketch \in declared /\ sketch.id = id BY <1>4
<1> HIDE DEF ids, id, sketch
<1>6. \A d \in declared : d.id \in ids BY DEF ids
<1>7. PICK f \in ReadSketches :
        /\ sketch = DeclarationOf(f) /\ sketch.id = Entry("sketches", f).id
        /\ sketch.id \in Nat \ {NoSketch} /\ sketch.id \notin Linked
  BY <1>1, <1>5
<1> QED BY <1>4, <1>5, <1>6, <1>7 DEF ids, id, sketch

LEMMA LinkKeeps == ASSUME Ongoing, LinkSketch PROVE ResolutionInv'
<1> DEFINE Sig(e) == Entry("signatures", e)
           Sk(f) == Entry("sketches", f)
           id == Min({d.id : d \in declared})
           sketch == CHOOSE d \in declared : d.id = id
           own == {l \in links : l.sketch = id}
<1>0. /\ Parsed /\ Place /\ RightSoFar /\ Kept /\ Matched /\ Linking /\ declared # {}
      /\ UNCHANGED <<documents, limits, indexed>>
  BY DEF Ongoing, LinkSketch
<1>1. /\ at.document = Len(documents) + 1 /\ at.part = "document"
      /\ ReadSignatures = Entries("signatures") /\ ReadSketches = Entries("sketches")
      /\ Naming = {e \in Entries("signatures") : Sig(e).sketch # NoSketch}
  BY <1>0, AllRead DEF Place
<1>2. PICK f \in ReadSketches :
        /\ sketch = DeclarationOf(f) /\ sketch.id = id /\ Sk(f).id = id
        /\ sketch \in declared /\ id \in Nat \ {NoSketch} /\ id \notin Linked
        /\ \A d \in declared : id <= d.id
  BY <1>0, LeastDeclared
<1>3. /\ sketch.file = Sk(f).file /\ sketch.signature = Sk(f).signature
      /\ sketch.type = Sk(f).type /\ sketch.locator = f[1]
  BY <1>0, <1>1, <1>2, DeclarationFields
<1>4. \A e \in Naming :
        /\ LinkOf(e).label = Sig(e).label /\ LinkOf(e).file = Sig(e).file
        /\ LinkOf(e).sketch = Sig(e).sketch /\ LinkOf(e).type = Sig(e).type /\ LinkOf(e).locator = e[1]
  BY <1>0, <1>1, LinkFields
<1>5. \/ /\ ~\E link \in own : own = {link} /\ Agree(sketch, link)
         /\ Stop("rejected")
      \/ /\ \E link \in own : own = {link} /\ Agree(sketch, link)
         /\ contracts' = Append(contracts, sketch) /\ declared' = declared \ {sketch}
         /\ links' = links \ own /\ UNCHANGED <<at, labels, outcome>>
  BY DEF LinkSketch
<1>6. links = {LinkOf(e) : e \in {g \in Naming : Sig(g).sketch \notin Linked}} BY <1>0 DEF Matched
<1>7. \A l \in own : \E e \in Naming : l = LinkOf(e) /\ Sig(e).sketch = id
  <2> SUFFICES ASSUME NEW l \in own PROVE \E e \in Naming : l = LinkOf(e) /\ Sig(e).sketch = id
    OBVIOUS
  <2>1. l \in links /\ l.sketch = id OBVIOUS
  <2> HIDE DEF own, id
  <2>2. PICK e \in Naming : l = LinkOf(e) BY <1>6, <2>1
  <2> QED BY <1>4, <2>1, <2>2
<1>8. \A e \in Naming : Sig(e).sketch = id => LinkOf(e) \in own BY <1>2, <1>4, <1>6
<1>20. \A l : l \in own <=> l \in links /\ l.sketch = id OBVIOUS
<1> HIDE DEF id, sketch, own
<1>9. CASE ~\E link \in own : own = {link} /\ Agree(sketch, link)
  <2>1. outcome' = "rejected" BY <1>5, <1>9 DEF Stop
  <2>2. ~WellPaired
    <3> SUFFICES ASSUME WellPaired PROVE FALSE OBVIOUS
    <3>1. PICK e \in Naming : /\ Counterparts(e, f)
                             /\ \A g \in Naming : Sig(g).sketch = Sk(f).id => g = e
      BY <1>1 DEF WellPaired
    <3>2. LinkOf(e) \in own BY <1>2, <1>8, <3>1 DEF Counterparts
    <3>3. \A l \in own : l = LinkOf(e) BY <1>2, <1>7, <3>1
    <3>4. own = {LinkOf(e)} BY <3>2, <3>3
    <3>5. Agree(sketch, LinkOf(e)) BY <1>3, <1>4, <3>1 DEF Agree, Counterparts
    <3> QED BY <1>9, <3>2, <3>4, <3>5
  <2> QED BY <1>0, <2>1, <2>2, Rejected
<1>10. CASE \E link \in own : own = {link} /\ Agree(sketch, link)
  <2>1. PICK link \in own : own = {link} /\ Agree(sketch, link) BY <1>10
  <2>2. /\ contracts' = Append(contracts, sketch) /\ declared' = declared \ {sketch}
        /\ links' = links \ own /\ UNCHANGED <<at, labels, outcome>>
    BY <1>5, <1>10
  <2>3. PICK e \in Naming : link = LinkOf(e) /\ Sig(e).sketch = id BY <1>7, <2>1
  <2>4. OnlyPartner(e, f)
    <3>1. Counterparts(e, f) BY <1>2, <1>3, <1>4, <2>1, <2>3 DEF Agree, Counterparts
    <3>2. ASSUME NEW g \in Naming, Sig(g).sketch = Sk(f).id PROVE g = e
      <4>1. LinkOf(g) = LinkOf(e) BY <1>2, <1>8, <2>1, <2>3, <3>2
      <4>2. g[1] = e[1] /\ Sig(g).label = Sig(e).label BY <1>4, <4>1
      <4> QED BY <1>0, <4>2 DEF RightSoFar, Naming
    <3> QED BY <3>1, <3>2 DEF OnlyPartner
  <2>5. /\ Len(contracts) \in Nat /\ DOMAIN contracts = 1..Len(contracts)
        /\ Len(contracts') = Len(contracts) + 1 /\ DOMAIN contracts' = 1..Len(contracts')
        /\ \A i \in DOMAIN contracts : i \in DOMAIN contracts' /\ contracts'[i] = contracts[i]
        /\ contracts'[Len(contracts')] = sketch
        /\ \E S : contracts' \in Seq(S)
    <3>1. PICK S : contracts \in Seq(S) BY <1>0 DEF Matched
    <3> DEFINE T == S \cup {sketch}
    <3>2. contracts \in Seq(T) /\ sketch \in T BY <3>1
    <3> HIDE DEF T
    <3>3. /\ contracts' \in Seq(T) /\ Len(contracts') = Len(contracts) + 1
          /\ \A i \in 1..Len(contracts) : contracts'[i] = contracts[i]
          /\ contracts'[Len(contracts) + 1] = sketch
      BY <2>2, <3>2, AppendProperties
    <3>4. Len(contracts) \in Nat /\ DOMAIN contracts = 1..Len(contracts) BY <3>2
    <3>5. Len(contracts') \in Nat /\ DOMAIN contracts' = 1..Len(contracts') BY <3>3
    <3>6. \A i \in 1..Len(contracts) : i \in 1..(Len(contracts) + 1) BY <3>4
    <3> QED BY <3>3, <3>4, <3>5, <3>6
  <2>6. Linked' = Linked \cup {id}
    BY <1>2, <2>5 DEF Linked
  <2>7. ReadSignatures' = ReadSignatures /\ ReadSketches' = ReadSketches
    BY <1>0, <2>2, PassedPrimed DEF ReadSignatures, ReadSketches
  <2>8. Naming' = Naming BY <1>0, <2>7, PassedPrimed DEF Naming
  <2>9. Place' BY <1>0, <2>2 DEF Place
  <2>10. RightSoFar'
    <3>1. \A code : SnippetOverBudget(code)' = SnippetOverBudget(code) BY <1>0 DEF SnippetOverBudget
    <3> QED BY <1>0, <2>2, <2>7, <3>1, PassedPrimed DEF RightSoFar
  <2>11. Kept'
    <3>1. IsFiniteSet(declared') BY <1>0, <2>2, FS_Subset DEF Kept
    <3>2. contracts' # <<>> BY <1>0, <2>5
    <3> QED BY <1>0, <1>1, <2>2, <2>7, <3>1, <3>2 DEF Kept
  <2>12. Matched'
    <3>1. links' = {LinkOf(g) : g \in {h \in Naming : Sig(h).sketch \notin Linked \cup {id}}}
      <4>1. \A l : l \in links' <=> l \in links /\ l.sketch # id BY <1>20, <2>2
      <4> QED BY <1>4, <1>6, <4>1
    <3>2. declared' = {DeclarationOf(g) : g \in {h \in ReadSketches : Sk(h).id \notin Linked \cup {id}}}
      <4>1. declared = {DeclarationOf(g) : g \in {h \in ReadSketches : Sk(h).id \notin Linked}}
        BY <1>0 DEF Matched
      <4>2. \A g \in ReadSketches : DeclarationOf(g).id = Sk(g).id BY <1>0, <1>1, DeclarationFields
      <4>3. \A g \in ReadSketches : DeclarationOf(g) = sketch <=> Sk(g).id = id
        BY <1>0, <1>2, <4>2 DEF RightSoFar
      <4> QED BY <2>2, <4>1, <4>3
    <3>3. \A i \in Linked' :
            \E h \in ReadSketches, g \in Naming : Sk(h).id = i /\ OnlyPartner(g, h)
      BY <1>0, <1>2, <2>4, <2>6 DEF Matched
    <3>4. \A i \in DOMAIN contracts : contracts[i].id < id BY <1>0, <1>2 DEF Matched
    <3>5. \A i \in DOMAIN contracts : contracts[i].id \in Nat
      <4>1. \A n \in Linked : n \in Nat BY <1>0, <1>1, EntryTypes DEF Matched, SketchEntry
      <4> QED BY <4>1 DEF Linked
    <3>6. \A d \in declared' : d.id \in Nat /\ id < d.id
      <4> SUFFICES ASSUME NEW d \in declared' PROVE d.id \in Nat /\ id < d.id OBVIOUS
      <4>1. PICK g \in ReadSketches : d = DeclarationOf(g) /\ Sk(g).id # id BY <3>2
      <4>2. d.id = Sk(g).id /\ d.id \in Nat BY <1>0, <1>1, <4>1, DeclarationFields
      <4>3. id <= d.id BY <1>2, <2>2
      <4> QED BY <1>2, <4>1, <4>2, <4>3
    <3>7. \A i, j \in DOMAIN contracts' : i < j => contracts'[i].id < contracts'[j].id
      <4> SUFFICES ASSUME NEW i \in DOMAIN contracts', NEW j \in DOMAIN contracts', i < j
                   PROVE  contracts'[i].id < contracts'[j].id
        OBVIOUS
      <4>1. i \in DOMAIN contracts BY <2>5
      <4>2. CASE j \in DOMAIN contracts BY <1>0, <2>5, <4>1, <4>2 DEF Matched
      <4>3. CASE j \notin DOMAIN contracts
        <5>1. j = Len(contracts') BY <2>5, <4>3
        <5> QED BY <1>2, <2>5, <3>4, <4>1, <5>1
      <4> QED BY <4>2, <4>3
    <3>8. \A i \in DOMAIN contracts', d \in declared' : contracts'[i].id < d.id
      <4> SUFFICES ASSUME NEW i \in DOMAIN contracts', NEW d \in declared'
                   PROVE  contracts'[i].id < d.id
        OBVIOUS
      <4>1. CASE i \in DOMAIN contracts
        <5>1. contracts'[i].id < id /\ contracts'[i].id \in Nat BY <2>5, <3>4, <3>5, <4>1
        <5> QED BY <1>2, <3>6, <5>1
      <4>2. CASE i \notin DOMAIN contracts
        <5>1. i = Len(contracts') BY <2>5, <4>2
        <5> QED BY <1>2, <2>5, <3>6, <5>1
      <4> QED BY <4>1, <4>2
    <3>9. \A g : LinkOf(g)' = LinkOf(g) /\ DeclarationOf(g)' = DeclarationOf(g)
      BY <1>0, PassedPrimed DEF LinkOf, DeclarationOf
    <3>10. \A g, h : OnlyPartner(g, h)' <=> OnlyPartner(g, h)
      BY <1>0, <2>8, PassedPrimed DEF OnlyPartner, Counterparts
    <3>11. /\ links' = {LinkOf(g) : g \in {h \in Naming : Sig(h).sketch \notin Linked}}'
           /\ declared' = {DeclarationOf(g) : g \in {h \in ReadSketches : Sk(h).id \notin Linked}}'
      BY <1>0, <2>6, <2>7, <2>8, <3>1, <3>2, <3>9, PassedPrimed
    <3>12. \A i \in Linked' :
            \E h \in ReadSketches', g \in Naming' : Entry("sketches", h)'.id = i /\ OnlyPartner(g, h)'
      BY <1>0, <2>7, <2>8, <3>3, <3>10, PassedPrimed
    <3>13. ~(at'.document <= Len(documents')) BY <1>0, <1>1, <2>2, DocumentFields
    <3> QED BY <2>5, <3>7, <3>8, <3>11, <3>12, <3>13 DEF Matched
  <2>13. outcome' = "resolving" BY <2>2 DEF Ongoing
  <2> QED BY <1>0, <2>9, <2>10, <2>11, <2>12, <2>13, StillOngoing
<1> QED BY <1>9, <1>10

-----------------------------------------------------------------------------
LEMMA InitInv == ASSUME Parsed, ResolutionInit PROVE ResolutionInv
<1>1. Place BY DocumentFields DEF ResolutionInit, Place
<1>2. ReadSignatures = {} /\ ReadSketches = {}
  BY DocumentFields, EntryTypes DEF ReadSignatures, ReadSketches, Passed, ResolutionInit
<1>3. RightSoFar BY <1>2, DocumentFields DEF ResolutionInit, RightSoFar
<1>4. Kept BY <1>2, FS_EmptySet DEF ResolutionInit, Kept, Parsed
<1>5. Matched
  <2>1. Len(contracts) = 0 /\ DOMAIN contracts = {} /\ DOMAIN contracts = 1..Len(contracts)
    BY DEF ResolutionInit
  <2>2. Linked = {} BY <2>1 DEF Linked
  <2> QED BY <1>2, <2>1, <2>2 DEF ResolutionInit, Matched, Naming
<1>6. ResolutionIsPairing BY DEF ResolutionInit, ResolutionIsPairing
<1> QED BY <1>1, <1>3, <1>4, <1>5, <1>6 DEF ResolutionInv

LEMMA CancelKeeps == ASSUME Parsed, Cancel PROVE ResolutionInv'
BY DEF Cancel, resolution, ResolutionInv, ResolutionIsPairing, Parsed

LEMMA StepKeepsInv == ASSUME ResolutionInv, ResolutionNext PROVE ResolutionInv'
<1>1. CASE Cancel BY <1>1, CancelKeeps DEF ResolutionInv
<1>2. CASE ~Cancel
  <2>1. outcome = "resolving" BY <1>2 DEF ResolutionNext, OpenDocument, ReadSignature, EndSignatures,
          ReadSketch, EndDocument, LinkSketch, FinishResolution, Reading, Linking
  <2>2. Ongoing BY <2>1 DEF ResolutionInv, Ongoing
  <2> QED BY <1>2, <2>2, OpenKeeps, SignatureKeeps, SketchKeeps, EndKeeps, LinkKeeps, FinishKeeps
        DEF ResolutionNext
<1> QED BY <1>1, <1>2

LEMMA StutterKeepsInv ==
    ASSUME ResolutionInv, UNCHANGED <<resolution, outcome>>
    PROVE  ResolutionInv'
<1>1. /\ UNCHANGED <<documents, limits, at, labels, indexed, links, declared, contracts, outcome>>
  BY DEF resolution
<1>2. Parsed /\ Parsed' BY <1>1 DEF ResolutionInv, Parsed
<1>3. ResolutionIsPairing'
  BY <1>1, SameDocuments, PassedPrimed DEF ResolutionInv, ResolutionIsPairing
<1>4. CASE outcome # "resolving" BY <1>1, <1>2, <1>3, <1>4 DEF ResolutionInv
<1>5. CASE outcome = "resolving"
  <2>1. Ongoing BY <1>5 DEF ResolutionInv, Ongoing
  <2>2. Place' BY <1>1, <2>1 DEF Ongoing, Place
  <2>3. Passed("signatures", at') = ReadSignatures /\ Passed("sketches", at') = ReadSketches
    BY <1>1 DEF ReadSignatures, ReadSketches
  <2>4. \A d \in DOMAIN documents :
              d < at'.document \/ (d = at'.document /\ at'.part # "document") =>
                  documents[d].root /\ IsInjective(documents[d].files)
    BY <1>1, <2>1 DEF Ongoing, RightSoFar
  <2>5. at'.part # "document" =>
          labels' = {Entry("signatures", e).label : e \in {g \in ReadSignatures : g[1] = at'.document}}
    BY <1>1, <2>1 DEF Ongoing, Kept
  <2>6. RightSoFar' /\ Kept' /\ Matched' BY <1>1, <2>1, <2>3, <2>4, <2>5, SameKnown
  <2> QED BY <1>1, <1>2, <1>3, <2>2, <2>6 DEF ResolutionInv
<1> QED BY <1>4, <1>5

\* Whatever the documents of a catalog, the limits and the moment of a
\* cancellation: SketchContractDocuments::contracts accepts exactly the catalogs
\* whose sketches and naming signature entries pair up, and refuses one for a
\* limit only if it exceeds it.
THEOREM ResolutionPairs == ResolutionSpec => []ResolutionIsPairing
<1>1. ResolutionSpec => ResolutionInv /\ [][ResolutionNext]_<<resolution, outcome>>
  BY InitInv DEF ResolutionSpec
<1>2. ResolutionInv /\ [ResolutionNext]_<<resolution, outcome>> => ResolutionInv'
  BY StepKeepsInv, StutterKeepsInv
<1>3. ResolutionInv => ResolutionIsPairing BY DEF ResolutionInv
<1> QED BY <1>1, <1>2, <1>3, PTL

-----------------------------------------------------------------------------
(* Generation: seeds are admitted, then files are edited *)

SeedEntry == [id : Nat, locator : Nat, file : File, type : Type, code : Snippet]

\* Any seeds for any documents, which lie in any files, with any codes that are aliased.
Requested == Parsed /\ fileOf \in [DOMAIN documents -> Nat] /\ seeds \in Seq(SeedEntry)

GenerationNext == (ResolutionNext /\ UNCHANGED refreshing) \/ RefreshNext
GenerationSpec ==
    /\ Requested /\ ResolutionInit /\ RefreshInit
    /\ [][GenerationNext]_<<resolution, outcome, refreshing>>

\* What is declared and linked is what the documents say.
Declarations ==
    /\ \E S : contracts \in Seq(S)
    /\ \A c \in declared \cup Range(contracts) : \E f \in Entries("sketches") : c = DeclarationOf(f)

\* The contracts are the sketches, and no two have one id.
OneEach ==
    \A e, f \in Entries("sketches") : Entry("sketches", e).id = Entry("sketches", f).id => e = f
Complete ==
    {c.id : c \in Range(contracts)} = {Entry("sketches", f).id : f \in Entries("sketches")}

\* Each seed that is admitted is for one sketch, in the document where it says.
ForSketch(seed) ==
    \E f \in Entries("sketches") : Entry("sketches", f).id = seed.id /\ f[1] = seed.locator
SeedsAdmitted ==
    /\ admitted \in 0..Len(seeds)
    /\ \A i \in 1..admitted : ForSketch(seeds[i])
    /\ \A i, j \in 1..admitted : seeds[i].id = seeds[j].id => i = j
AllAdmitted ==
    /\ admitted = Len(seeds)
    /\ request = "FullRefresh" => Covered

\* The files done hold their documents refreshed, and have been counted.
Done == {d \in DOMAIN documents : fileOf[d] \in DOMAIN output}
Counted(here) ==
    [refreshed |-> Cardinality(Targeted(here)), changed |-> Cardinality(Edited(here)),
     documents |-> Cardinality({e[1] : e \in Edited(here)})]
FilesDone ==
    /\ DOMAIN output \subseteq ContractFile
    /\ \A file \in DOMAIN output : output[file] = [d \in DocumentsOf(file) |-> Refreshed(d)]
    /\ counts = Counted(Done)
    /\ Edited(Done) \cap written = {}

NoFileDone == output = <<>> /\ counts = [refreshed |-> 0, changed |-> 0, documents |-> 0]
GenerationInv ==
    /\ Requested /\ ResolutionInv
    /\ outcome # "miscounted"
    /\ outcome = "resolving" => Declarations
    /\ outcome \in {"accepted", "admitting", "editing", "refreshed"} =>
          Declarations /\ OneEach /\ Complete
    /\ outcome \in {"resolving", "accepted"} => admitted = 0
    /\ outcome \in {"resolving", "accepted", "admitting"} => NoFileDone
    /\ outcome \in {"admitting", "editing", "refreshed"} => SeedsAdmitted
    /\ outcome \in {"editing", "refreshed"} => AllAdmitted /\ FilesDone
    /\ outcome = "refreshed" => ContractFile \subseteq DOMAIN output /\ counts.refreshed = Len(seeds)

-----------------------------------------------------------------------------
(* Resolution, seen by a generation *)

LEMMA SketchReadDeclared ==
    ASSUME Ongoing, Declarations, ReadSketch PROVE Declarations'
<1>1. UNCHANGED documents /\ \A part : Entries(part)' = Entries(part)
  BY PassedPrimed DEF ReadSketch
<1>2. \A f : DeclarationOf(f)' = DeclarationOf(f) BY <1>1, PassedPrimed DEF DeclarationOf
<1>3. contracts' = contracts BY DEF ReadSketch, Stop
<1> DEFINE f == <<at.document, at.index>>
           new == Located(Open.sketches[at.index], at.document)
<1>4. f \in Entries("sketches") /\ new = DeclarationOf(f)
  <2>1. at.document \in DOMAIN documents /\ at.index \in Nat \ {0}
    BY DocumentFields DEF Ongoing, Place, ReadSketch, Reading
  <2>2. documents[at.document].sketches \in Seq(SketchEntry)
    BY <2>1, DocumentFields DEF Ongoing, ParsedDocument
  <2>3. at.index \in DOMAIN documents[at.document].sketches
    BY <2>1, <2>2 DEF ReadSketch, Open
  <2>4. f \in Entries("sketches") BY <2>1, <2>3, EntriesAre
  <2> QED BY <2>4 DEF DeclarationOf, Entry, Open
<1>5. declared' \subseteq declared \cup {new} BY DEF ReadSketch, Stop
<1> HIDE DEF f, new
<1>6. \A c \in declared' \cup Range(contracts)' : \E g \in Entries("sketches") : c = DeclarationOf(g)
  BY <1>3, <1>4, <1>5 DEF Declarations
<1> QED BY <1>1, <1>2, <1>3, <1>6 DEF Declarations

LEMMA LinkDeclared ==
    ASSUME Ongoing, Declarations, LinkSketch PROVE Declarations'
<1>1. UNCHANGED documents /\ \A part : Entries(part)' = Entries(part)
  BY PassedPrimed DEF LinkSketch
<1>2. \A f : DeclarationOf(f)' = DeclarationOf(f) BY <1>1, PassedPrimed DEF DeclarationOf
<1> DEFINE id == Min({d.id : d \in declared})
           sketch == CHOOSE d \in declared : d.id = id
<1>3. sketch \in declared BY LeastDeclared DEF LinkSketch, Ongoing
<1>4. /\ declared' \subseteq declared
      /\ contracts' = contracts \/ contracts' = Append(contracts, sketch)
  BY DEF LinkSketch, Stop
<1> HIDE DEF id, sketch
<1>5. PICK S : contracts \in Seq(S) BY DEF Declarations
<1> DEFINE T == S \cup {sketch}
<1>6. contracts \in Seq(T) /\ sketch \in T BY <1>5
<1> HIDE DEF T
<1>7. contracts' \in Seq(T) BY <1>4, <1>6, AppendProperties
<1>8. Range(contracts)' \subseteq Range(contracts) \cup {sketch}
  <2>1. Range(Append(contracts, sketch)) \subseteq Range(contracts) \cup {sketch}
    BY <1>6, AppendProperties DEF Range
  <2> QED BY <1>4, <2>1
<1>9. \A c \in declared' \cup Range(contracts)' : \E g \in Entries("sketches") : c = DeclarationOf(g)
  BY <1>3, <1>4, <1>8 DEF Declarations
<1> QED BY <1>1, <1>2, <1>7, <1>9 DEF Declarations

\* A catalog that is accepted has contracts to admit seeds for.
\* What a resolution has declared stays declared.
LEMMA StillDeclared ==
    ASSUME ResolutionInv, Declarations, ResolutionNext, outcome = "resolving"
    PROVE  /\ UNCHANGED <<documents, limits, request>> /\ Declarations'
           /\ outcome' \in {"resolving", "accepted", "rejected", "signatures", "sketches", "snippet", "cancelled"}
<1>1. UNCHANGED <<documents, limits, request>>
  BY DEF ResolutionNext, OpenDocument, ReadSignature, EndSignatures, ReadSketch, EndDocument,
    LinkSketch, FinishResolution, Cancel, resolution
<1>2. Ongoing BY DEF ResolutionInv, Ongoing
<1>3. Declarations'
  <2>1. CASE ReadSketch BY <1>2, <2>1, SketchReadDeclared
  <2>2. CASE LinkSketch BY <1>2, <2>2, LinkDeclared
  <2>3. CASE OpenDocument \/ ReadSignature \/ EndSignatures \/ EndDocument \/ FinishResolution \/ Cancel
    <3>1. UNCHANGED <<declared, contracts>>
      BY <2>3 DEF OpenDocument, ReadSignature, EndSignatures, EndDocument, FinishResolution, Cancel, Stop, resolution
    <3>2. \A f : DeclarationOf(f)' = DeclarationOf(f) BY <1>1, PassedPrimed DEF DeclarationOf
    <3>3. Entries("sketches")' = Entries("sketches") BY <1>1, PassedPrimed
    <3> QED BY <3>1, <3>2, <3>3 DEF Declarations
  <2> QED BY <2>1, <2>2, <2>3 DEF ResolutionNext
<1>4. outcome' \in {"resolving", "accepted", "rejected", "signatures", "sketches", "snippet", "cancelled"}
  BY DEF ResolutionNext, OpenDocument, ReadSignature, EndSignatures, ReadSketch, EndDocument,
    LinkSketch, FinishResolution, Cancel, Stop
<1> QED BY <1>1, <1>3, <1>4

LEMMA ResolutionStep ==
    ASSUME GenerationInv, ResolutionNext, UNCHANGED refreshing
    PROVE  GenerationInv'
<1>1. ResolutionInv' BY StepKeepsInv DEF GenerationInv
<1>2. UNCHANGED <<documents, limits, request>>
  BY DEF ResolutionNext, OpenDocument, ReadSignature, EndSignatures, ReadSketch, EndDocument,
    LinkSketch, FinishResolution, Cancel, resolution
<1>3. UNCHANGED <<fileOf, written, seeds, admitted, output, counts>> BY DEF refreshing
<1>4. Requested' BY <1>2, <1>3 DEF GenerationInv, Requested, Parsed
<1>5. CASE outcome # "resolving"
  <2>1. Cancel BY <1>5 DEF ResolutionNext, OpenDocument, ReadSignature, EndSignatures,
          ReadSketch, EndDocument, LinkSketch, FinishResolution, Reading, Linking
  <2>2. outcome' = "cancelled" BY <2>1 DEF Cancel
  <2> QED BY <1>1, <1>4, <2>2 DEF GenerationInv
<1>6. CASE outcome = "resolving"
  <2>1. ResolutionInv /\ Declarations BY <1>6 DEF GenerationInv
  <2>2. /\ Declarations'
        /\ outcome' \in {"resolving", "accepted", "rejected", "signatures", "sketches", "snippet", "cancelled"}
    BY <1>6, <2>1, StillDeclared
  <2>3. outcome' = "accepted" => OneEach' /\ Complete'
    <3> SUFFICES ASSUME outcome' = "accepted" PROVE OneEach' /\ Complete' OBVIOUS
    <3>1. WellPaired' BY <1>1 DEF ResolutionInv, ResolutionIsPairing
    <3>2. Complete' BY <1>1 DEF ResolutionInv, ResolutionIsPairing, Complete
    <3>3. OneEach' BY <3>1 DEF WellPaired, OneEach
    <3> QED BY <3>2, <3>3
  <2>4. admitted' = 0 /\ NoFileDone' BY <1>3, <1>6 DEF GenerationInv, NoFileDone
  <2> QED BY <1>1, <1>4, <2>2, <2>3, <2>4 DEF GenerationInv
<1> QED BY <1>5, <1>6

-----------------------------------------------------------------------------
(* Seeds *)

LEMMA SameCatalog ==
    ASSUME GenerationInv, UNCHANGED <<resolution, fileOf, written, seeds>>,
           outcome' \notin {"resolving", "rejected", "signatures", "sketches", "snippet"},
           outcome' = "accepted" => outcome = "accepted"
    PROVE  /\ Requested' /\ ResolutionInv'
           /\ Declarations => Declarations'
           /\ OneEach => OneEach'
           /\ Complete => Complete'
<1>1. UNCHANGED <<documents, limits, contracts, declared, request>> BY DEF resolution
<1>2. Requested' BY <1>1 DEF GenerationInv, Requested, Parsed
<1>3. Parsed' BY <1>2 DEF Requested
<1>4. ResolutionIsPairing'
  BY <1>1, SameDocuments, PassedPrimed DEF GenerationInv, ResolutionInv, ResolutionIsPairing
<1>5. ResolutionInv' BY <1>3, <1>4 DEF ResolutionInv
<1>6. \A f : DeclarationOf(f)' = DeclarationOf(f) BY <1>1, PassedPrimed DEF DeclarationOf
<1>7. Declarations => Declarations'
  BY <1>1, <1>6, PassedPrimed DEF Declarations
<1>8. OneEach => OneEach' BY <1>1, PassedPrimed DEF OneEach
<1>9. Complete => Complete' BY <1>1, PassedPrimed DEF Complete
<1> QED BY <1>2, <1>5, <1>7, <1>8, <1>9

\* A generation that ends without an answer.
Failures == {"seed_limit", "bad_seed", "unsupported", "mismatch"}
LEMMA FailKeeps ==
    ASSUME GenerationInv, UNCHANGED <<resolution, fileOf, written, seeds>>, outcome' \in Failures
    PROVE  GenerationInv'
BY SameCatalog DEF GenerationInv, Failures

LEMMA BeginKeeps == ASSUME GenerationInv, BeginSeeds PROVE GenerationInv'
<1>0. UNCHANGED <<resolution, fileOf, written, seeds>> /\ outcome = "accepted" BY DEF BeginSeeds
<1>1. CASE outcome' = "seed_limit" BY <1>0, <1>1, FailKeeps DEF Failures
<1>2. CASE outcome' = "admitting" /\ UNCHANGED <<admitted, output, counts>>
  <2>1. admitted' = 0 /\ NoFileDone' BY <1>0, <1>2 DEF GenerationInv, NoFileDone
  <2>2. Len(seeds') \in Nat BY <1>0 DEF GenerationInv, Requested
  <2>3. SeedsAdmitted' BY <2>1, <2>2 DEF SeedsAdmitted
  <2> QED BY <1>0, <1>2, <2>1, <2>3, SameCatalog DEF GenerationInv
<1> QED BY <1>1, <1>2 DEF BeginSeeds, Fail

LEMMA SeedSequence ==
    ASSUME Requested
    PROVE  /\ Len(seeds) \in Nat /\ DOMAIN seeds = 1..Len(seeds)
           /\ \A i \in 1..Len(seeds) : seeds[i] \in SeedEntry
BY DEF Requested

LEMMA AdmitKeeps == ASSUME GenerationInv, AdmitSeed PROVE GenerationInv'
<1>0. /\ UNCHANGED <<resolution, fileOf, written, seeds>> /\ outcome = "admitting" /\ Requested
      /\ Declarations /\ OneEach /\ Complete /\ SeedsAdmitted /\ NoFileDone /\ admitted < Len(seeds)
  BY DEF AdmitSeed, GenerationInv
<1> DEFINE seed == seeds[admitted + 1]
<1>1. CASE outcome' \in Failures BY <1>0, <1>1, FailKeeps
<1>2. CASE /\ ~Seeded(seed.id)
           /\ \E c \in Range(contracts) : c.id = seed.id /\ ValidSeed(seed, c)
           /\ admitted' = admitted + 1 /\ UNCHANGED <<outcome, output, counts>>
  <2>1. ForSketch(seed)
    <3>1. PICK c \in Range(contracts) : c.id = seed.id /\ seed.locator = c.locator
      BY <1>2 DEF ValidSeed
    <3>2. PICK f \in Entries("sketches") : c = DeclarationOf(f) BY <1>0, <3>1 DEF Declarations
    <3>3. c.id = Entry("sketches", f).id /\ c.locator = f[1]
      BY <1>0, <3>2, DeclarationFields DEF Requested
    <3> QED BY <3>1, <3>3 DEF ForSketch
  <2>2. /\ admitted \in Nat /\ admitted + 1 \in 0..Len(seeds)
        /\ \A i \in 1..(admitted + 1) : i \in 1..admitted \/ i = admitted + 1
    BY <1>0, SeedSequence DEF SeedsAdmitted
  <2>3. \A i \in 1..admitted : seeds[i].id # seed.id
    BY <1>2 DEF Seeded, Admitted
  <2>4. \A f : ForSketch(f)' = ForSketch(f)
    BY <1>0, PassedPrimed DEF ForSketch, resolution
  <2> HIDE DEF seed
  <2>5. \A i \in 1..(admitted + 1) : ForSketch(seeds[i])
    BY <1>0, <2>1, <2>2 DEF SeedsAdmitted, seed
  <2>6. \A i, j \in 1..(admitted + 1) : seeds[i].id = seeds[j].id => i = j
    <3> SUFFICES ASSUME NEW i \in 1..(admitted + 1), NEW j \in 1..(admitted + 1),
                        seeds[i].id = seeds[j].id
                 PROVE  i = j
      OBVIOUS
    <3>1. CASE i \in 1..admitted /\ j \in 1..admitted BY <1>0, <3>1 DEF SeedsAdmitted
    <3>2. CASE i = admitted + 1 /\ j \in 1..admitted BY <2>3, <3>2 DEF seed
    <3>3. CASE j = admitted + 1 /\ i \in 1..admitted BY <2>3, <3>3 DEF seed
    <3> QED BY <2>2, <3>1, <3>2, <3>3
  <2>7. SeedsAdmitted' BY <1>0, <1>2, <2>2, <2>4, <2>5, <2>6 DEF SeedsAdmitted
  <2>8. NoFileDone' BY <1>0, <1>2 DEF NoFileDone
  <2>9. outcome' = "admitting" BY <1>0, <1>2
  <2> QED BY <1>0, <2>7, <2>8, <2>9, SameCatalog DEF GenerationInv
<1> QED BY <1>1, <1>2 DEF AdmitSeed, Fail, Failures

\* With all seeds admitted, and the sketches covered if they have to be, no file is done.
LEMMA EndKeepsSeeds == ASSUME GenerationInv, EndSeeds PROVE GenerationInv'
<1>0. /\ UNCHANGED <<resolution, fileOf, written, seeds>> /\ outcome = "admitting" /\ Requested
      /\ Declarations /\ OneEach /\ Complete /\ SeedsAdmitted /\ NoFileDone /\ admitted = Len(seeds)
  BY DEF EndSeeds, GenerationInv
<1>1. CASE outcome' \in Failures BY <1>0, <1>1, FailKeeps
<1>2. CASE /\ request = "FullRefresh" => Covered
           /\ outcome' = "editing" /\ UNCHANGED <<admitted, output, counts>>
  <2>1. \A s : ForSketch(s)' = ForSketch(s)
    BY <1>0, PassedPrimed DEF ForSketch, resolution
  <2>2. SeedsAdmitted' BY <1>0, <1>2, <2>1 DEF SeedsAdmitted
  <2>3. AllAdmitted' 
    <3>1. Covered' = Covered BY <1>0, <1>2 DEF Covered, Seeded, Admitted, resolution
    <3> QED BY <1>0, <1>2, <3>1 DEF AllAdmitted, resolution
  <2>4. DOMAIN output' = {} BY <1>0, <1>2 DEF NoFileDone
  <2>5. Done' = {} BY <2>4 DEF Done
  <2>6. Targeted({})' = {} /\ Edited({})' = {} BY DEF Targeted, Edited
  <2>7. {e[1] : e \in Edited(Done)}' = {} BY <2>5, <2>6
  <2>8. counts' = Counted(Done)'
    BY <1>0, <1>2, <2>5, <2>6, <2>7, FS_EmptySet DEF NoFileDone, Counted
  <2>9. FilesDone' BY <2>4, <2>5, <2>6, <2>8 DEF FilesDone
  <2> QED BY <1>0, <1>2, <2>2, <2>3, <2>9, SameCatalog DEF GenerationInv
<1> QED BY <1>1, <1>2 DEF EndSeeds, Fail, Failures

-----------------------------------------------------------------------------
(* Files *)

\* In an edit the catalog, the seeds and the documents to come stand.
Editing ==
    /\ GenerationInv /\ outcome = "editing"
    /\ UNCHANGED <<resolution, fileOf, written, seeds>>

LEMMA EditingKnows ==
    ASSUME Editing
    PROVE  /\ Requested /\ Parsed /\ Declarations /\ OneEach /\ Complete /\ SeedsAdmitted
           /\ AllAdmitted /\ FilesDone
           /\ fileOf \in [DOMAIN documents -> Nat]
BY DEF Editing, GenerationInv, Requested

LEMMA EditedPrimed ==
    ASSUME UNCHANGED <<resolution, fileOf, written, seeds, admitted>>
    PROVE  /\ \A here : Targeted(here)' = Targeted(here) /\ Edited(here)' = Edited(here)
           /\ \A here : Counted(here)' = Counted(here)
           /\ \A d : Refreshed(d)' = Refreshed(d)
           /\ \A file : DocumentsOf(file)' = DocumentsOf(file)
           /\ ContractFile' = ContractFile /\ Covered' = Covered
           /\ SeedsAdmitted' = SeedsAdmitted /\ AllAdmitted' = AllAdmitted
<1>1. UNCHANGED <<documents, contracts, request>> BY DEF resolution
<1>2. \A id : Seeded(id)' = Seeded(id) /\ CodeFor(id)' = CodeFor(id) BY DEF Seeded, CodeFor, Admitted
<1>3. \A here : Targeted(here)' = Targeted(here) BY <1>1, <1>2, PassedPrimed DEF Targeted
<1>4. \A here : Edited(here)' = Edited(here) BY <1>1, <1>2, <1>3, PassedPrimed DEF Edited
<1>5. \A here : Counted(here)' = Counted(here) BY <1>3, <1>4 DEF Counted
<1>6. \A sketch : WithCode(sketch)' = WithCode(sketch) BY <1>2 DEF WithCode
<1>7. \A d : Refreshed(d)' = Refreshed(d) BY <1>1, <1>6 DEF Refreshed
<1>8. \A file : DocumentsOf(file)' = DocumentsOf(file) BY <1>1 DEF DocumentsOf
<1>9. ContractFile' = ContractFile /\ Covered' = Covered BY <1>1, <1>2 DEF ContractFile, Covered
<1>10. \A s : ForSketch(s)' = ForSketch(s) BY <1>1, PassedPrimed DEF ForSketch
<1>11. SeedsAdmitted' = SeedsAdmitted BY <1>10 DEF SeedsAdmitted
<1>12. AllAdmitted' = AllAdmitted BY <1>1, <1>9 DEF AllAdmitted
<1> QED BY <1>3, <1>4, <1>5, <1>7, <1>8, <1>9, <1>11, <1>12

\* A document is refreshed sketch by sketch.
LEMMA RefreshedFields ==
    ASSUME Parsed, NEW d \in DOMAIN documents
    PROVE  /\ Refreshed(d) = [root |-> documents[d].root, files |-> documents[d].files,
                              signatures |-> documents[d].signatures,
                              sketches |-> [i \in DOMAIN documents[d].sketches |->
                                               WithCode(documents[d].sketches[i])]]
           /\ documents[d] = [root |-> documents[d].root, files |-> documents[d].files,
                              signatures |-> documents[d].signatures,
                              sketches |-> documents[d].sketches]
           /\ documents[d].sketches \in Seq(SketchEntry)
<1> DEFINE old == documents[d]
<1>1. old \in ParsedDocument BY DocumentFields
<1>2. Refreshed(d) = [old EXCEPT !.sketches = [i \in DOMAIN old.sketches |-> WithCode(old.sketches[i])]]
  BY Zenon DEF Refreshed
<1> HIDE DEF old
<1>3. /\ old = [root |-> old.root, files |-> old.files, signatures |-> old.signatures,
               sketches |-> old.sketches]
      /\ old.sketches \in Seq(SketchEntry)
  BY <1>1 DEF ParsedDocument
<1>4. \A x : [old EXCEPT !.sketches = x] = [root |-> old.root, files |-> old.files,
                                         signatures |-> old.signatures, sketches |-> x]
  BY <1>3
<1>5. Refreshed(d) = [root |-> old.root, files |-> old.files, signatures |-> old.signatures,
                      sketches |-> [i \in DOMAIN old.sketches |-> WithCode(old.sketches[i])]]
  BY <1>2, <1>4
<1> QED BY <1>3, <1>5 DEF old

\* A sketch whose code no seed changes is refreshed as it is, and only such a one.
LEMMA WithCodeIs ==
    ASSUME Parsed, NEW e \in Entries("sketches")
    PROVE  LET k == Entry("sketches", e)
           IN  /\ WithCode(k) # k <=> Seeded(k.id) /\ CodeFor(k.id) # k.code
               /\ Seeded(k.id) => WithCode(k) = [k EXCEPT !.code = CodeFor(k.id)]
<1>1. Entry("sketches", e) \in SketchEntry BY EntryTypes
<1> QED BY <1>1 DEF WithCode, SketchEntry

LEMMA UnchangedIsRefreshed ==
    ASSUME Parsed, NEW d \in DOMAIN documents, \A e \in Edited(DOMAIN documents) : e[1] # d
    PROVE  Refreshed(d) = documents[d]
<1>1. ASSUME NEW i \in DOMAIN documents[d].sketches
      PROVE  WithCode(documents[d].sketches[i]) = documents[d].sketches[i]
  <2> DEFINE e == <<d, i>>
  <2>1. e \in Entries("sketches") /\ e[1] = d BY EntriesAre
  <2>2. Entry("sketches", e) = documents[d].sketches[i] BY DEF Entry
  <2>3. e \notin Edited(DOMAIN documents) BY <2>1
  <2> HIDE DEF e
  <2> QED BY <2>1, <2>2, <2>3, WithCodeIs DEF Edited, Targeted
<1>2. documents[d].sketches = [i \in DOMAIN documents[d].sketches |-> documents[d].sketches[i]]
  BY RefreshedFields
<1>3. [i \in DOMAIN documents[d].sketches |-> WithCode(documents[d].sketches[i])] = documents[d].sketches
  BY <1>1, <1>2
<1> QED BY <1>3, RefreshedFields

\* What passes the final comparison, whatever the editor made of it, is right.
LEMMA RenderedRight ==
    ASSUME Parsed, NEW d \in DOMAIN documents, NEW text \in Rendered(d), MatchesRefresh(text, d)
    PROVE  text = Refreshed(d)
<1> DEFINE old == documents[d].sketches
           right == [i \in DOMAIN old |-> WithCode(old[i])]
<1>1. /\ old \in Seq(SketchEntry) /\ Len(old) \in Nat /\ DOMAIN old = 1..Len(old)
      /\ right \in Seq({WithCode(old[i]) : i \in DOMAIN old}) /\ Len(right) = Len(old)
  <2>1. old \in Seq(SketchEntry) BY RefreshedFields
  <2>2. Len(old) \in Nat /\ DOMAIN old = 1..Len(old) BY <2>1
  <2> HIDE DEF old
  <2>3. right \in [1..Len(old) -> {WithCode(old[i]) : i \in DOMAIN old}] BY <2>2
  <2>4. right \in Seq({WithCode(old[i]) : i \in DOMAIN old}) /\ Len(right) = Len(old)
    BY <2>2, <2>3
  <2> QED BY <2>1, <2>2, <2>4
<1> DEFINE Text(g, k) == [root |-> documents[d].root, files |-> documents[d].files,
                          signatures |-> g, sketches |-> k]
           given == documents[d].signatures
           AsOld(k) == Len(k) = Len(old) => k = [i \in DOMAIN old |-> k[i]]
<1>2. Refreshed(d) = Text(given, right) /\ documents[d] = Text(given, old) BY RefreshedFields
<1>3. \A g, k, x : /\ [Text(g, k) EXCEPT !.sketches = x] = Text(g, x)
                   /\ [Text(g, k) EXCEPT !.signatures = x] = Text(x, k)
                   /\ Text(g, k).sketches = k /\ Text(g, k).signatures = g
  OBVIOUS
<1>4. AsOld(right) /\ AsOld(old) BY <1>1
<1>5. \E g, k : text = Text(g, k) /\ AsOld(k)
  <2>1. CASE text = Refreshed(d) BY <1>2, <1>4, <2>1
  <2>2. CASE text = documents[d] BY <1>2, <1>4, <2>2
  <2>3. CASE text = [Refreshed(d) EXCEPT !.signatures = <<>>]
    <3>1. text = Text(<<>>, right) BY <1>2, <1>3, <2>3
    <3> QED BY <1>4, <3>1
  <2>4. CASE text = [Refreshed(d) EXCEPT !.sketches =
                       SubSeq(Refreshed(d).sketches, 1, Len(Refreshed(d).sketches) - 1)]
    <3> DEFINE short == SubSeq(right, 1, Len(right) - 1)
    <3>1. Refreshed(d).sketches = right BY <1>2, <1>3
    <3>2. text = Text(given, short)
      <4> HIDE DEF right, Text, given
      <4>1. text = [Text(given, right) EXCEPT !.sketches = short] BY <1>2, <2>4, <3>1
      <4> HIDE DEF short
      <4>2. [Text(given, right) EXCEPT !.sketches = short] = Text(given, short) BY <1>3, Zenon
      <4> QED BY <4>1, <4>2, Zenon
    <3>3. AsOld(short)
      <4> HIDE DEF right, old
      <4>1. Len(right) \in Nat BY <1>1
      <4>2. short = [i \in 1..Len(short) |-> short[i]] BY <1>1, <4>1
      <4> HIDE DEF short
      <4> QED BY <1>1, <4>2
    <3> QED BY <3>2, <3>3
  <2>5. CASE \E i \in DOMAIN Refreshed(d).sketches, c \in {<<"a">>, <<>>} :
               text = [Refreshed(d) EXCEPT !.sketches =
                         [Refreshed(d).sketches EXCEPT ![i] =
                            [Refreshed(d).sketches[i] EXCEPT !.code = c]]]
    <3>1. Refreshed(d).sketches = right BY <1>2, <1>3
    <3>2. PICK i \in DOMAIN right, c \in {<<"a">>, <<>>} :
            text = [Refreshed(d) EXCEPT !.sketches = [right EXCEPT ![i] = [right[i] EXCEPT !.code = c]]]
      BY <2>5, <3>1
    <3> DEFINE other == [right EXCEPT ![i] = [right[i] EXCEPT !.code = c]]
    <3>3. text = Text(given, other) BY <1>2, <1>3, <3>2
    <3>4. other = [j \in DOMAIN old |-> other[j]] OBVIOUS
    <3> HIDE DEF other
    <3> QED BY <3>3, <3>4
  <2> HIDE DEF right, old, Text, AsOld, given
  <2> QED BY <2>1, <2>2, <2>3, <2>4, <2>5 DEF Rendered
<1>6. PICK g, k : text = Text(g, k) /\ AsOld(k) BY <1>5
<1>7. g = given /\ Len(k) = Len(old) /\ \A i \in DOMAIN k : k[i] = WithCode(old[i])
  BY <1>6 DEF MatchesRefresh
<1>8. k = [i \in DOMAIN old |-> k[i]] BY <1>6, <1>7
<1>9. k = right BY <1>7, <1>8
<1> QED BY <1>2, <1>6, <1>7, <1>9

-----------------------------------------------------------------------------
\* What is counted of two sets of documents apart adds up.
LEMMA TargetsFinite ==
    ASSUME Parsed, NEW here
    PROVE  /\ IsFiniteSet(Targeted(here)) /\ IsFiniteSet(Edited(here))
           /\ IsFiniteSet({e[1] : e \in Edited(here)})
<1>1. IsFiniteSet(Targeted(here))
  <2>1. IsFiniteSet(Entries("sketches")) BY EntriesFinite
  <2> QED BY <2>1, FS_Subset DEF Targeted
<1>2. IsFiniteSet(Edited(here)) BY <1>1, FS_Subset DEF Edited
<1>3. IsFiniteSet({e[1] : e \in Edited(here)})
  <2> DEFINE first == [e \in Edited(here) |-> e[1]]
  <2>1. first \in Surjection(Edited(here), {e[1] : e \in Edited(here)}) BY DEF Surjection
  <2> QED BY <1>2, <2>1, FS_Surjection
<1> QED BY <1>1, <1>2, <1>3

LEMMA DisjointSum ==
    \A S, T : IsFiniteSet(S) /\ IsFiniteSet(T) /\ S \cap T = {} =>
        Cardinality(S \cup T) = Cardinality(S) + Cardinality(T)
<1> SUFFICES ASSUME NEW S, NEW T, IsFiniteSet(S), IsFiniteSet(T), S \cap T = {}
             PROVE  Cardinality(S \cup T) = Cardinality(S) + Cardinality(T)
  OBVIOUS
<1>1. Cardinality(S) \in Nat /\ Cardinality(T) \in Nat BY FS_CardinalityType
<1>2. Cardinality(S \cup T) = Cardinality(S) + Cardinality(T) - Cardinality(S \cap T) BY FS_Union
<1> QED BY <1>1, <1>2, FS_EmptySet

LEMMA CountedApart ==
    ASSUME Parsed, NEW A, NEW B, A \cap B = {}
    PROVE  /\ Targeted(A \cup B) = Targeted(A) \cup Targeted(B)
           /\ Edited(A \cup B) = Edited(A) \cup Edited(B)
           /\ Counted(A \cup B) = [refreshed |-> Counted(A).refreshed + Counted(B).refreshed,
                                   changed |-> Counted(A).changed + Counted(B).changed,
                                   documents |-> Counted(A).documents + Counted(B).documents]
<1>1. /\ Targeted(A \cup B) = Targeted(A) \cup Targeted(B) /\ Targeted(A) \cap Targeted(B) = {}
  BY DEF Targeted
<1>2. /\ Edited(A \cup B) = Edited(A) \cup Edited(B) /\ Edited(A) \cap Edited(B) = {}
  BY <1>1 DEF Edited
<1> DEFINE first(S) == {e[1] : e \in S}
<1>3. /\ first(Edited(A \cup B)) = first(Edited(A)) \cup first(Edited(B))
      /\ first(Edited(A)) \cap first(Edited(B)) = {}
  <2>1. first(Edited(A)) \subseteq A /\ first(Edited(B)) \subseteq B BY DEF Edited, Targeted
  <2> QED BY <1>2, <2>1
<1>4. /\ Cardinality(Targeted(A \cup B)) = Cardinality(Targeted(A)) + Cardinality(Targeted(B))
      /\ Cardinality(Edited(A \cup B)) = Cardinality(Edited(A)) + Cardinality(Edited(B))
      /\ Cardinality(first(Edited(A \cup B))) = Cardinality(first(Edited(A))) + Cardinality(first(Edited(B)))
  BY <1>1, <1>2, <1>3, TargetsFinite, DisjointSum
<1> QED BY <1>1, <1>2, <1>4 DEF Counted

LEMMA CountedNothing ==
    ASSUME Parsed, NEW A
    PROVE  /\ Counted(A).refreshed \in Nat /\ Counted(A).changed \in Nat /\ Counted(A).documents \in Nat
           /\ Edited(A) = {} => Counted(A).changed = 0 /\ Counted(A).documents = 0
           /\ Targeted(A) = {} => Counted(A).refreshed = 0
<1>1. /\ Cardinality(Targeted(A)) \in Nat /\ Cardinality(Edited(A)) \in Nat
      /\ Cardinality({e[1] : e \in Edited(A)}) \in Nat
  BY TargetsFinite, FS_CardinalityType
<1>2. Edited(A) = {} => {e[1] : e \in Edited(A)} = {} OBVIOUS
<1> QED BY <1>1, <1>2, FS_EmptySet DEF Counted

\* The next file is one that is left.
LEMMA NextFile ==
    ASSUME Editing, \E f \in ContractFile : f \notin DOMAIN output
    PROVE  LET file == Min({f \in ContractFile : f \notin DOMAIN output})
           IN  file \in ContractFile /\ file \notin DOMAIN output
<1> DEFINE left == {f \in ContractFile : f \notin DOMAIN output}
<1>1. left \subseteq Nat /\ left # {} BY EditingKnows DEF ContractFile, Range
<1>2. \E x \in left : \A y \in left : x <= y BY <1>1, LeastNatural
<1>3. Min(left) \in left BY <1>2 DEF Min
<1> QED BY <1>3

\* One more file is done.
LEMMA OneFileMore ==
    ASSUME Editing, UNCHANGED admitted, NEW file \in ContractFile, file \notin DOMAIN output,
           output' = [f \in DOMAIN output \cup {file} |->
                         IF f = file THEN [d \in DocumentsOf(file) |-> Refreshed(d)] ELSE output[f]],
           counts' = [refreshed |-> counts.refreshed + Counted(DocumentsOf(file)).refreshed,
                      changed |-> counts.changed + Counted(DocumentsOf(file)).changed,
                      documents |-> counts.documents + Counted(DocumentsOf(file)).documents],
           Edited(DocumentsOf(file)) \cap written = {}
    PROVE  FilesDone'
<1> DEFINE here == DocumentsOf(file)
<1>1. Parsed /\ FilesDone /\ UNCHANGED <<documents, fileOf, written>> BY EditingKnows DEF Editing, resolution
<1>2. DOMAIN output' = DOMAIN output \cup {file} /\ DOMAIN output' \subseteq ContractFile
  BY <1>1 DEF FilesDone
<1>3. Done' = Done \cup here /\ Done \cap here = {} BY <1>1, <1>2 DEF Done, DocumentsOf
<1>4. \A f \in DOMAIN output' : output'[f] = [d \in DocumentsOf(f) |-> Refreshed(d)]
  BY <1>1, <1>2 DEF FilesDone
<1> HIDE DEF here
<1>5. counts' = Counted(Done \cup here) BY <1>1, <1>3, CountedApart DEF FilesDone, here
<1>6. Edited(Done \cup here) \cap written = {}
  <2>1. Edited(Done \cup here) = Edited(Done) \cup Edited(here) BY <1>1, <1>3, CountedApart
  <2>2. Edited(Done) \cap written = {} /\ Edited(here) \cap written = {} BY <1>1 DEF FilesDone, here
  <2> QED BY <2>1, <2>2
<1>7. PICK T : T = Done \cup here OBVIOUS
<1>8. UNCHANGED <<resolution, fileOf, written, seeds, admitted>> BY DEF Editing
<1>9. /\ Targeted(T)' = Targeted(T) /\ Edited(T)' = Edited(T) /\ Counted(T)' = Counted(T)
      /\ \A f : DocumentsOf(f)' = DocumentsOf(f)
      /\ \A d : Refreshed(d)' = Refreshed(d)
      /\ ContractFile' = ContractFile
  BY <1>8, EditedPrimed
<1>10. Counted(Done)' = Counted(T) /\ Edited(Done)' = Edited(T) BY <1>3, <1>7, <1>9
<1>11. DOMAIN output' \subseteq ContractFile' BY <1>2, <1>9
<1>12. \A f \in DOMAIN output' : output'[f] = [d \in DocumentsOf(f) |-> Refreshed(d)]' BY <1>4, <1>9
<1> QED BY <1>1, <1>5, <1>6, <1>7, <1>10, <1>11, <1>12 DEF FilesDone

LEMMA EditKeeps == ASSUME GenerationInv, EditFile PROVE GenerationInv'
<1> DEFINE file == Min({f \in ContractFile : f \notin DOMAIN output})
           here == DocumentsOf(file)
           done(new) == output' = [f \in DOMAIN output \cup {file} |->
                                      IF f = file THEN new ELSE output[f]]
           changed == {e[1] : e \in Edited(here)}
           counted(rewritten) ==
               [refreshed |-> counts.refreshed + Cardinality(Targeted(here)),
                changed |-> counts.changed + Cardinality(Edited(here)),
                documents |-> counts.documents + Cardinality(rewritten)]
<1>0. Editing /\ \E f \in ContractFile : f \notin DOMAIN output BY DEF EditFile, Editing
<1>1. file \in ContractFile /\ file \notin DOMAIN output BY <1>0, NextFile
<1>2. /\ Requested /\ Parsed /\ Declarations /\ OneEach /\ Complete /\ SeedsAdmitted /\ AllAdmitted /\ FilesDone
      /\ here \subseteq DOMAIN documents
  BY <1>0, EditingKnows DEF DocumentsOf
<1>3. \/ outcome' \in {"unsupported", "mismatch"}
      \/ /\ UNCHANGED <<outcome, admitted, counts>> /\ Targeted(here) = {}
         /\ done([d \in here |-> documents[d]])
      \/ /\ UNCHANGED <<outcome, admitted>> /\ Edited(here) = {}
         /\ counts' = counted({})
         /\ done([d \in here |-> documents[d]])
      \/ /\ UNCHANGED <<outcome, admitted>> /\ Edited(here) \cap written = {}
         /\ counts' = counted(changed)
         /\ done([d \in here |-> Refreshed(d)])
  <2> DEFINE targeted == \E s \in Admitted : fileOf[s.locator] = file
  <2>1. CASE ~targeted
    <3>1. UNCHANGED <<outcome, admitted, counts>> /\ done([d \in here |-> documents[d]])
      BY <2>1 DEF EditFile
    <3>2. Targeted(here) = {}
      <4> SUFFICES ASSUME NEW e \in Targeted(here) PROVE FALSE OBVIOUS
      <4>1. e \in Entries("sketches") /\ fileOf[e[1]] = file /\ Seeded(Entry("sketches", e).id)
        BY DEF Targeted, DocumentsOf
      <4>2. PICK i \in 1..admitted : seeds[i].id = Entry("sketches", e).id
        BY <4>1 DEF Seeded, Admitted
      <4>3. PICK f \in Entries("sketches") : Entry("sketches", f).id = seeds[i].id /\ f[1] = seeds[i].locator
        BY <1>2, <4>2 DEF SeedsAdmitted, ForSketch
      <4>4. f = e BY <1>2, <4>1, <4>2, <4>3 DEF OneEach
      <4>5. seeds[i] \in Admitted BY DEF Admitted
      <4> QED BY <2>1, <4>1, <4>3, <4>4, <4>5
    <3> QED BY <3>1, <3>2
  <2>2. CASE targeted /\ changed = {}
    <3>1. Edited(here) = {} BY <2>2
    <3> QED BY <2>2, <3>1 DEF EditFile
  <2>3. CASE targeted /\ changed # {}
    <3>1. CASE Fail("unsupported") BY <3>1 DEF Fail
    <3>2. CASE /\ Edited(here) \cap written = {}
               /\ \E e \in here : \E text \in Rendered(e) :
                    LET new == [d \in here |-> IF d = e THEN text ELSE Refreshed(d)]
                    IN  IF \A d \in here : MatchesRefresh(new[d], d)
                          THEN /\ done(new)
                               /\ counts' = counted(changed)
                               /\ UNCHANGED <<outcome, admitted>>
                          ELSE Fail("mismatch")
      <4>1. PICK e \in here : \E text \in Rendered(e) :
              LET new == [d \in here |-> IF d = e THEN text ELSE Refreshed(d)]
              IN  IF \A d \in here : MatchesRefresh(new[d], d)
                    THEN /\ done(new)
                         /\ counts' = counted(changed)
                         /\ UNCHANGED <<outcome, admitted>>
                    ELSE Fail("mismatch")
        BY <3>2
      <4>0. PICK text \in Rendered(e) :
              LET new == [d \in here |-> IF d = e THEN text ELSE Refreshed(d)]
              IN  IF \A d \in here : MatchesRefresh(new[d], d)
                    THEN /\ done(new)
                         /\ counts' = counted(changed)
                         /\ UNCHANGED <<outcome, admitted>>
                    ELSE Fail("mismatch")
        BY <4>1
      <4> DEFINE new == [d \in here |-> IF d = e THEN text ELSE Refreshed(d)]
      <4>2. CASE \A d \in here : MatchesRefresh(new[d], d)
        <5>1. MatchesRefresh(text, e) BY <4>2
        <5>2. text = Refreshed(e) BY <1>2, <5>1, RenderedRight
        <5>3. new = [d \in here |-> Refreshed(d)] BY <5>2
        <5>4. /\ done(new) /\ UNCHANGED <<outcome, admitted>>
              /\ counts' = counted(changed)
          BY <4>0, <4>2
        <5> QED BY <3>2, <5>3, <5>4
      <4>3. CASE ~\A d \in here : MatchesRefresh(new[d], d)
        BY <4>0, <4>3 DEF Fail
      <4> QED BY <4>2, <4>3
    <3> QED BY <2>3, <3>1, <3>2 DEF EditFile
  <2> QED BY <2>1, <2>2, <2>3
<1> HIDE DEF file
<1>4. counts = [refreshed |-> counts.refreshed, changed |-> counts.changed, documents |-> counts.documents]
      /\ counts.refreshed \in Nat /\ counts.changed \in Nat /\ counts.documents \in Nat
  BY <1>2, CountedNothing DEF FilesDone, Counted
<1>5. /\ Counted(here).refreshed = Cardinality(Targeted(here))
      /\ Counted(here).changed = Cardinality(Edited(here))
      /\ Counted(here).documents = Cardinality({e[1] : e \in Edited(here)})
  BY DEF Counted
<1> HIDE DEF here
<1>6. CASE outcome' \in {"unsupported", "mismatch"} BY <1>0, <1>6, FailKeeps DEF Editing, Failures
<1>7. ASSUME UNCHANGED <<outcome, admitted>>, done([d \in here |-> Refreshed(d)]),
             Edited(here) \cap written = {},
             counts' = [refreshed |-> counts.refreshed + Counted(here).refreshed,
                        changed |-> counts.changed + Counted(here).changed,
                        documents |-> counts.documents + Counted(here).documents]
      PROVE  GenerationInv'
  <2>1. FilesDone' BY <1>0, <1>1, <1>7, OneFileMore DEF here
  <2>2. SeedsAdmitted' /\ AllAdmitted' BY <1>0, <1>2, <1>7, EditedPrimed DEF Editing
  <2>3. outcome' = "editing" BY <1>0, <1>7 DEF Editing
  <2> QED BY <1>0, <1>2, <2>1, <2>2, <2>3, SameCatalog DEF GenerationInv, Editing
<1>8. Edited(here) = {} => [d \in here |-> documents[d]] = [d \in here |-> Refreshed(d)]
  <2> SUFFICES ASSUME Edited(here) = {}, NEW d \in here PROVE Refreshed(d) = documents[d]
    OBVIOUS
  <2>1. \A e \in Edited(DOMAIN documents) : e[1] # d BY DEF Edited, Targeted
  <2> QED BY <1>2, <2>1, UnchangedIsRefreshed
<1>9. CASE /\ UNCHANGED <<outcome, admitted, counts>> /\ Targeted(here) = {}
           /\ done([d \in here |-> documents[d]])
  <2>1. Edited(here) = {} BY <1>9 DEF Edited
  <2>2. /\ Counted(here).refreshed = 0 /\ Counted(here).changed = 0 /\ Counted(here).documents = 0
    BY <1>2, <1>9, <2>1, CountedNothing
  <2>3. counts' = [refreshed |-> counts.refreshed + Counted(here).refreshed,
                   changed |-> counts.changed + Counted(here).changed,
                   documents |-> counts.documents + Counted(here).documents]
    BY <1>4, <1>9, <2>2
  <2>4. done([d \in here |-> Refreshed(d)]) BY <1>8, <1>9, <2>1
  <2> QED BY <1>7, <1>9, <2>1, <2>3, <2>4
<1>10. CASE /\ UNCHANGED <<outcome, admitted>> /\ Edited(here) = {}
            /\ counts' = counted({})
            /\ done([d \in here |-> documents[d]])
  <2>1. Counted(here).documents = 0 /\ Cardinality({}) = 0 BY <1>2, <1>10, CountedNothing, FS_EmptySet
  <2>2. counts' = [refreshed |-> counts.refreshed + Counted(here).refreshed,
                   changed |-> counts.changed + Counted(here).changed,
                   documents |-> counts.documents + Counted(here).documents]
    BY <1>5, <1>10, <2>1
  <2>3. done([d \in here |-> Refreshed(d)]) BY <1>8, <1>10
  <2> QED BY <1>7, <1>10, <2>2, <2>3
<1>11. CASE /\ UNCHANGED <<outcome, admitted>> /\ Edited(here) \cap written = {}
            /\ counts' = counted(changed)
            /\ done([d \in here |-> Refreshed(d)])
  <2>1. counts' = [refreshed |-> counts.refreshed + Counted(here).refreshed,
                   changed |-> counts.changed + Counted(here).changed,
                   documents |-> counts.documents + Counted(here).documents]
    BY <1>5, <1>11
  <2> QED BY <1>7, <1>11, <2>1
<1> QED BY <1>3, <1>6, <1>9, <1>10, <1>11

\* With every file done, as many sketches are refreshed as there are seeds.
LEMMA SeedsTaken ==
    ASSUME Requested, OneEach, SeedsAdmitted, AllAdmitted
    PROVE  Cardinality(Targeted(DOMAIN documents)) = Len(seeds)
<1> DEFINE n == Len(seeds)
           all == Targeted(DOMAIN documents)
           sketch == [i \in 1..n |-> CHOOSE e \in Entries("sketches") : Entry("sketches", e).id = seeds[i].id]
<1>1. n \in Nat BY SeedSequence
<1>2. ASSUME NEW i \in 1..n
      PROVE  sketch[i] \in Entries("sketches") /\ Entry("sketches", sketch[i]).id = seeds[i].id
  BY DEF SeedsAdmitted, AllAdmitted, ForSketch
<1>3. Admitted = {seeds[i] : i \in 1..n} BY DEF Admitted, AllAdmitted
<1>4. \A i \in 1..n : sketch[i][1] \in DOMAIN documents BY <1>2, EntryTypes DEF Requested
<1> HIDE DEF n, sketch
<1>5. \A i \in 1..n : sketch[i] \in all BY <1>2, <1>3, <1>4 DEF Targeted, Seeded
<1>6. \A e \in all : \E i \in 1..n : sketch[i] = e
  <2> SUFFICES ASSUME NEW e \in all PROVE \E i \in 1..n : sketch[i] = e OBVIOUS
  <2>1. PICK i \in 1..n : seeds[i].id = Entry("sketches", e).id BY <1>3 DEF Targeted, Seeded
  <2> QED BY <1>2, <2>1 DEF OneEach, Targeted
<1>7. \A i, j \in 1..n : sketch[i] = sketch[j] => i = j
  BY <1>2 DEF SeedsAdmitted, AllAdmitted, n
<1>8. sketch \in Bijection(1..n, all)
  <2>1. sketch \in [1..n -> all] BY <1>5 DEF sketch
  <2> HIDE DEF all
  <2> QED BY <1>6, <1>7, <2>1 DEF Bijection, Injection, Surjection, IsInjective
<1>9. IsFiniteSet(1..n) /\ Cardinality(1..n) = n BY <1>1, FS_Interval
<1> HIDE DEF all
<1>10. ExistsBijection(1..n, all) BY <1>8 DEF ExistsBijection
<1>11. Cardinality(all) = n BY <1>9, <1>10, FS_Bijection
<1> QED BY <1>11 DEF n, all

LEMMA AllDone ==
    ASSUME Requested, FilesDone, ContractFile \subseteq DOMAIN output
    PROVE  Done = DOMAIN documents
BY DEF Requested, Done, ContractFile, Range

LEMMA RefreshKeeps == ASSUME GenerationInv, Refresh PROVE GenerationInv'
<1>1. /\ outcome = "editing" /\ ContractFile \subseteq DOMAIN output
      /\ UNCHANGED <<resolution, fileOf, written, seeds, admitted, output, counts>>
  BY DEF Refresh, refreshing
<1>2. Editing BY <1>1 DEF Editing
<1>3. counts.refreshed = Len(seeds)
  BY <1>1, <1>2, EditingKnows, AllDone, SeedsTaken DEF FilesDone, Counted
<1>4. outcome' = "refreshed" BY <1>3 DEF Refresh
<1>5. SeedsAdmitted' /\ AllAdmitted' /\ ContractFile' = ContractFile
  BY <1>1, <1>2, EditedPrimed, EditingKnows
<1>6. FilesDone'
  <2>1. PICK T : T = Done OBVIOUS
  <2>2. Done' = T BY <1>1, <2>1 DEF Done, resolution
  <2>3. /\ Counted(T)' = Counted(T) /\ Edited(T)' = Edited(T)
        /\ \A f : DocumentsOf(f)' = DocumentsOf(f)
        /\ \A d : Refreshed(d)' = Refreshed(d)
    BY <1>1, EditedPrimed
  <2>4. Counted(Done)' = Counted(T) /\ Edited(Done)' = Edited(T) BY <2>2, <2>3
  <2>5. /\ DOMAIN output \subseteq ContractFile /\ counts = Counted(T) /\ Edited(T) \cap written = {}
        /\ \A f \in DOMAIN output : output[f] = [d \in DocumentsOf(f) |-> Refreshed(d)]
    BY <1>2, <2>1, EditingKnows DEF FilesDone
  <2>6. \A f \in DOMAIN output : output[f] = [d \in DocumentsOf(f) |-> Refreshed(d)]' BY <2>3, <2>5
  <2> QED BY <1>1, <1>5, <2>4, <2>5, <2>6 DEF FilesDone
<1> QED BY <1>1, <1>2, <1>3, <1>4, <1>5, <1>6, EditingKnows, SameCatalog DEF GenerationInv

LEMMA GenerationKeeps ==
    ASSUME GenerationInv, [GenerationNext]_<<resolution, outcome, refreshing>> PROVE GenerationInv'
<1>1. CASE GenerationNext
  BY <1>1, ResolutionStep, BeginKeeps, AdmitKeeps, EndKeepsSeeds, EditKeeps, RefreshKeeps
  DEF GenerationNext, RefreshNext
<1>2. CASE UNCHANGED <<resolution, outcome, refreshing>>
  <2>1. UNCHANGED <<documents, limits, contracts, declared, request, fileOf, written, seeds, admitted,
                    output, counts, outcome, resolution>>
    BY <1>2 DEF resolution, refreshing
  <2>2. ResolutionInv' BY <2>1, StutterKeepsInv DEF GenerationInv
  <2>3. Requested' BY <2>1 DEF GenerationInv, Requested, Parsed
  <2>4. /\ Declarations => Declarations'
        /\ OneEach => OneEach'
        /\ Complete => Complete'
    <3>1. \A f : DeclarationOf(f)' = DeclarationOf(f) BY <2>1, PassedPrimed DEF DeclarationOf
    <3>2. Declarations => Declarations' BY <2>1, <3>1, PassedPrimed DEF Declarations
    <3>3. OneEach => OneEach' BY <2>1, PassedPrimed DEF OneEach
    <3>4. Complete => Complete' BY <2>1, PassedPrimed DEF Complete
    <3> QED BY <3>2, <3>3, <3>4
  <2>5. SeedsAdmitted' = SeedsAdmitted /\ AllAdmitted' = AllAdmitted /\ ContractFile' = ContractFile
    BY <2>1, EditedPrimed
  <2>6. FilesDone => FilesDone'
    <3>1. PICK T : T = Done OBVIOUS
    <3>2. Done' = T BY <2>1, <3>1 DEF Done
    <3>3. /\ Counted(T)' = Counted(T) /\ Edited(T)' = Edited(T)
          /\ \A f : DocumentsOf(f)' = DocumentsOf(f)
          /\ \A d : Refreshed(d)' = Refreshed(d)
      BY <2>1, EditedPrimed
    <3>4. Counted(Done)' = Counted(T) /\ Edited(Done)' = Edited(T) BY <3>2, <3>3
    <3>5. (\A f \in DOMAIN output : output[f] = [d \in DocumentsOf(f) |-> Refreshed(d)])
          => \A f \in DOMAIN output : output[f] = [d \in DocumentsOf(f) |-> Refreshed(d)]'
      BY <3>3
    <3> QED BY <2>1, <2>5, <3>1, <3>4, <3>5 DEF FilesDone
  <2>7. NoFileDone' = NoFileDone BY <2>1 DEF NoFileDone
  <2> QED BY <2>1, <2>2, <2>3, <2>4, <2>5, <2>6, <2>7 DEF GenerationInv
<1> QED BY <1>1, <1>2

LEMMA ExactAtTheEnd == GenerationInv => RefreshIsExact
<1> SUFFICES ASSUME GenerationInv, outcome = "refreshed" PROVE RefreshIsExact
  BY DEF GenerationInv, RefreshIsExact
<1>0. /\ Requested /\ Parsed /\ OneEach /\ Complete /\ SeedsAdmitted /\ AllAdmitted /\ FilesDone
      /\ ContractFile \subseteq DOMAIN output /\ counts.refreshed = Len(seeds)
  BY DEF GenerationInv, Requested
<1> DEFINE after == [d \in DOMAIN documents |-> output[fileOf[d]][d]]
           ids == {e \in Entries("sketches") :
                      \E s \in Range(seeds) : s.id = Entry("sketches", e).id}
           moved == {e \in Entries("sketches") :
                        after[e[1]].sketches[e[2]] # Entry("sketches", e)}
           all == DOMAIN documents
<1>1. \A d \in all : after[d] = Refreshed(d)
  <2> SUFFICES ASSUME NEW d \in all PROVE after[d] = Refreshed(d) OBVIOUS
  <2>1. fileOf[d] \in ContractFile BY <1>0 DEF Requested, ContractFile, Range
  <2>2. fileOf[d] \in DOMAIN output /\ d \in DocumentsOf(fileOf[d]) BY <1>0, <2>1 DEF DocumentsOf
  <2> QED BY <1>0, <2>2 DEF FilesDone
<1>2. Admitted = Range(seeds)
  BY <1>0, SeedSequence DEF Admitted, AllAdmitted, Range
<1>3. ids = Targeted(all) BY <1>0, <1>2, EntryTypes DEF Targeted, Seeded
<1> HIDE DEF after
<1>4. \A e \in Entries("sketches") : after[e[1]].sketches[e[2]] = WithCode(Entry("sketches", e))
  <2> SUFFICES ASSUME NEW e \in Entries("sketches")
               PROVE  after[e[1]].sketches[e[2]] = WithCode(Entry("sketches", e))
    OBVIOUS
  <2>1. e[1] \in all /\ e[2] \in DOMAIN documents[e[1]].sketches
        /\ Entry("sketches", e) = documents[e[1]].sketches[e[2]]
    BY <1>0, EntryTypes
  <2>2. Refreshed(e[1]).sketches = [i \in DOMAIN documents[e[1]].sketches |->
                                       WithCode(documents[e[1]].sketches[i])]
    BY <1>0, <2>1, RefreshedFields
  <2> QED BY <1>1, <2>1, <2>2
<1>5. moved = Edited(all)
  <2>1. \A e \in Entries("sketches") :
          e \in moved <=> Seeded(Entry("sketches", e).id) /\ CodeFor(Entry("sketches", e).id) # Entry("sketches", e).code
    BY <1>0, <1>4, WithCodeIs
  <2> QED BY <1>0, <2>1, EntryTypes DEF Edited, Targeted
<1>6. \A d \in all : /\ [after[d] EXCEPT !.sketches = documents[d].sketches] = documents[d]
                     /\ DOMAIN after[d].sketches = DOMAIN documents[d].sketches
  <2> SUFFICES ASSUME NEW d \in all
               PROVE  /\ [after[d] EXCEPT !.sketches = documents[d].sketches] = documents[d]
                      /\ DOMAIN after[d].sketches = DOMAIN documents[d].sketches
    OBVIOUS
  <2>1. \A r, f, g, k, x : [[root |-> r, files |-> f, signatures |-> g, sketches |-> k] EXCEPT !.sketches = x]
                           = [root |-> r, files |-> f, signatures |-> g, sketches |-> x]
    OBVIOUS
  <2>2. after[d] = Refreshed(d) BY <1>1
  <2> HIDE DEF all
  <2>3. d \in DOMAIN documents BY DEF all
  <2> QED BY <1>0, <2>1, <2>2, <2>3, RefreshedFields
<1>7. moved \subseteq ids BY <1>3, <1>5 DEF Edited
<1>8. \A e \in Entries("sketches") : \A s \in Range(seeds) :
         s.id = Entry("sketches", e).id =>
             after[e[1]].sketches[e[2]] = [Entry("sketches", e) EXCEPT !.code = s.code]
  <2> SUFFICES ASSUME NEW e \in Entries("sketches"), NEW s \in Range(seeds), s.id = Entry("sketches", e).id
               PROVE  after[e[1]].sketches[e[2]] = [Entry("sketches", e) EXCEPT !.code = s.code]
    OBVIOUS
  <2>1. \A t \in Range(seeds) : t.id = s.id => t = s
    BY <1>0, SeedSequence DEF SeedsAdmitted, AllAdmitted, Range
  <2>2. CodeFor(s.id) = s.code BY <1>2, <2>1 DEF CodeFor
  <2>3. Seeded(s.id) BY <1>2 DEF Seeded
  <2> QED BY <1>0, <1>4, <2>2, <2>3, WithCodeIs
<1>9. request = "FullRefresh" => ids = Entries("sketches")
  <2> SUFFICES ASSUME request = "FullRefresh", NEW e \in Entries("sketches") PROVE e \in ids OBVIOUS
  <2>1. PICK c \in Range(contracts) : c.id = Entry("sketches", e).id BY <1>0 DEF Complete
  <2>2. Seeded(c.id) BY <1>0 DEF AllAdmitted, Covered
  <2> QED BY <1>2, <2>1, <2>2 DEF Seeded
<1>10. /\ counts = Counted(all) /\ Edited(all) \cap written = {}
  BY <1>0, AllDone DEF FilesDone
<1>11. counts = [refreshed |-> Len(seeds), changed |-> Cardinality(moved),
                 documents |-> Cardinality({e[1] : e \in moved})]
  <2> HIDE DEF moved, all
  <2> QED BY <1>0, <1>5, <1>10 DEF Counted
<1>12. \A e \in ids : e \in moved => e \notin written BY <1>5, <1>10
<1>13. outcome # "miscounted" OBVIOUS
<1> QED BY <1>6, <1>7, <1>8, <1>9, <1>11, <1>12, <1>13 DEF RefreshIsExact, after

\* However many documents, files and seeds, and whatever the YAML editor renders or
\* refuses: a generation that completes returns the catalog it was given with exactly
\* the seeded codes replaced, its counts are right, a full refresh reaches every
\* sketch, no code written with an anchor or alias changes, and the final count of
\* refreshed sketches never fails (SketchContractDocuments::refresh).
THEOREM GenerationReplacesSeeds == GenerationSpec => []RefreshIsExact
<1>1. Requested /\ ResolutionInit /\ RefreshInit => GenerationInv
  <2> SUFFICES ASSUME Requested, ResolutionInit, RefreshInit PROVE GenerationInv OBVIOUS
  <2>1. ResolutionInv BY InitInv DEF Requested
  <2>2. outcome = "resolving" /\ admitted = 0 /\ NoFileDone
    BY DEF ResolutionInit, RefreshInit, NoFileDone
  <2>3. Declarations
    <3>1. contracts \in Seq({}) /\ Range(contracts) = {} /\ declared = {} BY DEF ResolutionInit, Range
    <3> QED BY <3>1 DEF Declarations
  <2> QED BY <2>1, <2>2, <2>3 DEF GenerationInv
<1>2. GenerationInv /\ [GenerationNext]_<<resolution, outcome, refreshing>> => GenerationInv'
  BY GenerationKeeps
<1> QED BY <1>1, <1>2, ExactAtTheEnd, PTL DEF GenerationSpec

-----------------------------------------------------------------------------
(* The diff of two catalogs *)

\* A resolved contract: a sketch with the place of its document.
ResolvedContract ==
    [id : Nat \ {NoSketch}, file : File, signature : Label, type : Type, occurrence : Policy,
     code : Snippet, locator : Nat]
InOrder(catalog) ==
    /\ catalog \in Seq(ResolvedContract)
    /\ \A i, j \in DOMAIN catalog : i < j => catalog[i].id < catalog[j].id

\* Any two catalogs, each in the order of its ids.
Resolved == InOrder(current) /\ InOrder(previous)
DiffSpec == Resolved /\ DiffInit /\ merged = FALSE /\ [][DiffNext]_diff

Seen(catalog, n) == {catalog[i] : i \in {k \in DOMAIN catalog : k < n}}
Left(catalog, n) == {catalog[i] : i \in {k \in DOMAIN catalog : ~(k < n)}}
NowSeen == Seen(current, next.current)
NowLeft == Left(current, next.current)
BeforeSeen == Seen(previous, next.previous)
BeforeLeft == Left(previous, next.previous)

NamedEntry ==
    [kind : {"added", "removed", "changed"}, id : Nat, fields : SUBSET (Semantic \cup {"code"})]

\* The two cursors are abreast, and what both have passed is named.
DiffInv ==
    /\ Resolved
    /\ next \in [{"current", "previous"} -> Nat \ {0}]
    /\ entries \in Seq(NamedEntry)
    /\ \A c \in NowSeen, p \in BeforeLeft : c.id < p.id
    /\ \A c \in NowLeft, p \in BeforeSeen : p.id < c.id
    /\ Named("added") = {c.id : c \in {d \in NowSeen : d.id \notin Ids(previous)}}
    /\ Named("removed") = {p.id : p \in {q \in BeforeSeen : q.id \notin Ids(current)}}
    /\ Named("changed") = {c.id : c \in {d \in NowSeen :
                             \E p \in Of(previous, d.id) : ~SameMeaning(d, p)}}
    /\ \A i, j \in DOMAIN entries : i < j => entries[i].id < entries[j].id
    /\ \A i \in DOMAIN entries : \A c \in NowLeft \cup BeforeLeft : entries[i].id < c.id
    /\ merged => NowLeft = {} /\ BeforeLeft = {}

\* A catalog is what a cursor has passed and what is left; the step of a cursor
\* passes the least one left.
LEMMA SeenAndLeft ==
    \A catalog : \A n \in Nat \ {0} : InOrder(catalog) =>
        /\ Range(catalog) = Seen(catalog, n) \cup Left(catalog, n)
        /\ \A c \in Range(catalog) : c \in ResolvedContract
        /\ \A c \in Seen(catalog, n), d \in Left(catalog, n) : c.id < d.id
        /\ \A c, d \in Range(catalog) : c.id = d.id => c = d
        /\ ~(n <= Len(catalog)) => Left(catalog, n) = {}
<1> SUFFICES ASSUME NEW catalog, NEW n \in Nat \ {0}, InOrder(catalog)
             PROVE  /\ Range(catalog) = Seen(catalog, n) \cup Left(catalog, n)
                    /\ \A c \in Range(catalog) : c \in ResolvedContract
                    /\ \A c \in Seen(catalog, n), d \in Left(catalog, n) : c.id < d.id
                    /\ \A c, d \in Range(catalog) : c.id = d.id => c = d
                    /\ ~(n <= Len(catalog)) => Left(catalog, n) = {}
  OBVIOUS
<1>0. \A c \in ResolvedContract : c.id \in Nat BY DEF ResolvedContract
<1>1. /\ Len(catalog) \in Nat /\ DOMAIN catalog = 1..Len(catalog)
      /\ \A i \in DOMAIN catalog : catalog[i] \in ResolvedContract /\ catalog[i].id \in Nat
      /\ \A i, j \in DOMAIN catalog : i < j => catalog[i].id < catalog[j].id
  BY <1>0 DEF InOrder
<1>2. Range(catalog) = Seen(catalog, n) \cup Left(catalog, n) BY DEF Seen, Left, Range
<1>3. \A c \in Range(catalog) : c \in ResolvedContract BY <1>1 DEF Range
<1>4. \A c \in Seen(catalog, n), d \in Left(catalog, n) : c.id < d.id
  <2> SUFFICES ASSUME NEW i \in DOMAIN catalog, NEW j \in DOMAIN catalog, i < n, ~(j < n)
               PROVE  catalog[i].id < catalog[j].id
    BY DEF Seen, Left
  <2> QED BY <1>1
<1>5. \A c, d \in Range(catalog) : c.id = d.id => c = d
  <2> SUFFICES ASSUME NEW i \in DOMAIN catalog, NEW j \in DOMAIN catalog, catalog[i].id = catalog[j].id
               PROVE  i = j
    BY DEF Range
  <2>1. i \in Nat /\ j \in Nat /\ catalog[i].id \in Nat /\ catalog[j].id \in Nat BY <1>1
  <2>2. ~(i < j) /\ ~(j < i) BY <1>1, <2>1
  <2> QED BY <2>1, <2>2
<1>6. ~(n <= Len(catalog)) => Left(catalog, n) = {} BY <1>1 DEF Left
<1> QED BY <1>2, <1>3, <1>4, <1>5, <1>6

LEMMA CursorSteps ==
    \A catalog : \A n \in Nat \ {0} : InOrder(catalog) /\ n <= Len(catalog) =>
        /\ Seen(catalog, n + 1) = Seen(catalog, n) \cup {catalog[n]}
        /\ Left(catalog, n) = Left(catalog, n + 1) \cup {catalog[n]}
        /\ \A c \in Left(catalog, n + 1) : catalog[n].id < c.id
        /\ catalog[n] \in Range(catalog)
<1> SUFFICES ASSUME NEW catalog, NEW n \in Nat \ {0}, InOrder(catalog), n <= Len(catalog)
             PROVE  /\ Seen(catalog, n + 1) = Seen(catalog, n) \cup {catalog[n]}
                    /\ Left(catalog, n) = Left(catalog, n + 1) \cup {catalog[n]}
                    /\ \A c \in Left(catalog, n + 1) : catalog[n].id < c.id
                    /\ catalog[n] \in Range(catalog)
  OBVIOUS
<1>1. Len(catalog) \in Nat /\ DOMAIN catalog = 1..Len(catalog) /\ n \in DOMAIN catalog
  BY DEF InOrder
<1>2. \A k \in DOMAIN catalog : (k < n + 1 <=> k < n \/ k = n) /\ (~(k < n) <=> ~(k < n + 1) \/ k = n)
  BY <1>1
<1>3. Seen(catalog, n + 1) = Seen(catalog, n) \cup {catalog[n]} BY <1>1, <1>2 DEF Seen
<1>4. Left(catalog, n) = Left(catalog, n + 1) \cup {catalog[n]} BY <1>1, <1>2 DEF Left
<1>5. \A c \in Left(catalog, n + 1) : catalog[n].id < c.id
  <2> SUFFICES ASSUME NEW k \in DOMAIN catalog, ~(k < n + 1) PROVE catalog[n].id < catalog[k].id
    BY DEF Left
  <2> QED BY <1>1 DEF InOrder
<1>6. catalog[n] \in Range(catalog) BY <1>1 DEF Range
<1> QED BY <1>3, <1>4, <1>5, <1>6

\* One more entry.
LEMMA OneEntry ==
    ASSUME entries \in Seq(NamedEntry), NEW x \in NamedEntry, entries' = entries \o <<x>>,
           \A i, j \in DOMAIN entries : i < j => entries[i].id < entries[j].id,
           \A i \in DOMAIN entries : entries[i].id < x.id
    PROVE  /\ entries' \in Seq(NamedEntry)
           /\ \A kind : Named(kind)' = Named(kind) \cup (IF x.kind = kind THEN {x.id} ELSE {})
           /\ \A i, j \in DOMAIN entries' : i < j => entries'[i].id < entries'[j].id
           /\ \A i \in DOMAIN entries' :
                (i \in DOMAIN entries /\ entries'[i] = entries[i]) \/ entries'[i] = x
<1>1. /\ Len(entries) \in Nat /\ DOMAIN entries = 1..Len(entries)
      /\ entries' \in Seq(NamedEntry) /\ Len(entries') = Len(entries) + 1
      /\ DOMAIN entries' = 1..(Len(entries) + 1)
      /\ \A i \in DOMAIN entries : i \in DOMAIN entries' /\ entries'[i] = entries[i]
      /\ entries'[Len(entries) + 1] = x /\ (Len(entries) + 1) \in DOMAIN entries'
  OBVIOUS
<1>2. \A i \in DOMAIN entries' : i \in DOMAIN entries \/ i = Len(entries) + 1 BY <1>1
<1>3. Range(entries') = Range(entries) \cup {x} BY <1>1, <1>2 DEF Range
<1>4. \A kind : Named(kind)' = Named(kind) \cup (IF x.kind = kind THEN {x.id} ELSE {})
  BY <1>3 DEF Named
<1>5. \A i, j \in DOMAIN entries' : i < j => entries'[i].id < entries'[j].id
  <2> SUFFICES ASSUME NEW i \in DOMAIN entries', NEW j \in DOMAIN entries', i < j
               PROVE  entries'[i].id < entries'[j].id
    OBVIOUS
  <2>1. i \in DOMAIN entries BY <1>1
  <2>2. CASE j \in DOMAIN entries BY <1>1, <2>1, <2>2
  <2>3. CASE j \notin DOMAIN entries BY <1>1, <1>2, <2>1, <2>3
  <2> QED BY <2>2, <2>3
<1>6. \A i \in DOMAIN entries' : (i \in DOMAIN entries /\ entries'[i] = entries[i]) \/ entries'[i] = x
  BY <1>1, <1>2
<1> QED BY <1>1, <1>4, <1>5, <1>6

LEMMA NothingDiffers ==
    ASSUME NEW c, NEW p
    PROVE  ChangedFields(c, p) = {} <=> SameMeaning(c, p)
BY DEF ChangedFields, SameMeaning, Semantic

LEMMA DiffStarts == ASSUME Resolved, DiffInit, merged = FALSE PROVE DiffInv
<1>1. next = [current |-> 1, previous |-> 1] /\ entries = <<>> BY DEF DiffInit
<1>2. next \in [{"current", "previous"} -> Nat \ {0}] /\ next.current = 1 /\ next.previous = 1 BY <1>1
<1>3. NowSeen = {} /\ BeforeSeen = {} BY <1>2 DEF NowSeen, BeforeSeen, Seen, Resolved, InOrder
<1>4. entries \in Seq(NamedEntry) /\ DOMAIN entries = {} BY <1>1
<1>5. Range(entries) = {} BY <1>4 DEF Range
<1> QED BY <1>2, <1>3, <1>4, <1>5 DEF DiffInv, Named

\* What both sides know of each other when the diff goes on.
LEMMA BothSides ==
    ASSUME DiffInv
    PROVE  /\ InOrder(current) /\ InOrder(previous)
           /\ next.current \in Nat \ {0} /\ next.previous \in Nat \ {0}
           /\ Range(current) = NowSeen \cup NowLeft /\ Range(previous) = BeforeSeen \cup BeforeLeft
           /\ \A c \in Range(current) \cup Range(previous) : c.id \in Nat
           /\ \A c, d \in Range(current) : c.id = d.id => c = d
           /\ \A c, d \in Range(previous) : c.id = d.id => c = d
           /\ \A c \in NowSeen, d \in NowLeft : c.id < d.id
           /\ \A c \in BeforeSeen, d \in BeforeLeft : c.id < d.id
<1>1. InOrder(current) /\ InOrder(previous) BY DEF DiffInv, Resolved
<1>2. next.current \in Nat \ {0} /\ next.previous \in Nat \ {0} BY DEF DiffInv
<1>3. /\ Range(current) = NowSeen \cup NowLeft
      /\ \A c \in Range(current) : c \in ResolvedContract
      /\ \A c \in NowSeen, d \in NowLeft : c.id < d.id
      /\ \A c, d \in Range(current) : c.id = d.id => c = d
  BY <1>1, <1>2, SeenAndLeft DEF NowSeen, NowLeft
<1>4. /\ Range(previous) = BeforeSeen \cup BeforeLeft
      /\ \A c \in Range(previous) : c \in ResolvedContract
      /\ \A c \in BeforeSeen, d \in BeforeLeft : c.id < d.id
      /\ \A c, d \in Range(previous) : c.id = d.id => c = d
  BY <1>1, <1>2, SeenAndLeft DEF BeforeSeen, BeforeLeft
<1> QED BY <1>1, <1>2, <1>3, <1>4 DEF ResolvedContract

LEMMA NowSteps ==
    ASSUME DiffInv, More("current", current), UNCHANGED current, next'.current = next.current + 1
    PROVE  /\ NowSeen' = NowSeen \cup {Now} /\ NowLeft = NowLeft' \cup {Now}
           /\ \A c \in NowLeft' : Now.id < c.id
           /\ Now \in Range(current) /\ Now.id \in Nat
<1>1. next.current <= Len(current) BY DEF More
<1>2. /\ Seen(current, next.current + 1) = NowSeen \cup {Now}
      /\ NowLeft = Left(current, next.current + 1) \cup {Now}
      /\ \A c \in Left(current, next.current + 1) : Now.id < c.id
      /\ Now \in Range(current)
  BY <1>1, BothSides, CursorSteps DEF Now, NowSeen, NowLeft
<1>3. NowSeen' = Seen(current, next.current + 1) /\ NowLeft' = Left(current, next.current + 1)
  BY DEF NowSeen, NowLeft, Seen, Left
<1> QED BY <1>2, <1>3, BothSides

LEMMA BeforeSteps ==
    ASSUME DiffInv, More("previous", previous), UNCHANGED previous, next'.previous = next.previous + 1
    PROVE  /\ BeforeSeen' = BeforeSeen \cup {Before} /\ BeforeLeft = BeforeLeft' \cup {Before}
           /\ \A c \in BeforeLeft' : Before.id < c.id
           /\ Before \in Range(previous) /\ Before.id \in Nat
<1>1. next.previous <= Len(previous) BY DEF More
<1>2. /\ Seen(previous, next.previous + 1) = BeforeSeen \cup {Before}
      /\ BeforeLeft = Left(previous, next.previous + 1) \cup {Before}
      /\ \A c \in Left(previous, next.previous + 1) : Before.id < c.id
      /\ Before \in Range(previous)
  BY <1>1, BothSides, CursorSteps DEF Before, BeforeSeen, BeforeLeft
<1>3. BeforeSeen' = Seen(previous, next.previous + 1) /\ BeforeLeft' = Left(previous, next.previous + 1)
  BY DEF BeforeSeen, BeforeLeft, Seen, Left
<1> QED BY <1>2, <1>3, BothSides

LEMMA NowRests ==
    ASSUME UNCHANGED current, next'.current = next.current
    PROVE  NowSeen' = NowSeen /\ NowLeft' = NowLeft
BY DEF NowSeen, NowLeft, Seen, Left

LEMMA BeforeRests ==
    ASSUME UNCHANGED previous, next'.previous = next.previous
    PROVE  BeforeSeen' = BeforeSeen /\ BeforeLeft' = BeforeLeft
BY DEF BeforeSeen, BeforeLeft, Seen, Left

\* The cursors that step.
LEMMA MergeSteps ==
    ASSUME DiffInv, NEW sides \in SUBSET {"current", "previous"}, NEW added, Merge(added, sides)
    PROVE  /\ next' \in [{"current", "previous"} -> Nat \ {0}]
           /\ next'.current = (IF "current" \in sides THEN next.current + 1 ELSE next.current)
           /\ next'.previous = (IF "previous" \in sides THEN next.previous + 1 ELSE next.previous)
           /\ UNCHANGED <<current, previous, merged>> /\ entries' = entries \o added
<1>1. next \in [{"current", "previous"} -> Nat \ {0}] BY DEF DiffInv
<1>2. next' = [s \in {"current", "previous"} |-> IF s \in sides THEN next[s] + 1 ELSE next[s]]
  BY <1>1 DEF Merge
<1>3. next["current"] + 1 \in Nat \ {0} /\ next["previous"] + 1 \in Nat \ {0} BY <1>1
<1> QED BY <1>1, <1>2, <1>3 DEF Merge

LEMMA SameCatalogs ==
    ASSUME UNCHANGED <<current, previous>>
    PROVE  /\ Resolved' = Resolved /\ Ids(current)' = Ids(current) /\ Ids(previous)' = Ids(previous)
           /\ \A id : Of(previous, id)' = Of(previous, id)
BY DEF Resolved, InOrder, Ids, Of

LEMMA AddedKeeps == ASSUME DiffInv, Added PROVE DiffInv'
<1> DEFINE x == DiffEntry("added", Now.id, {})
<1>1. /\ ~merged /\ More("current", current) /\ (More("previous", previous) => Now.id < Before.id)
      /\ Merge(<<x>>, {"current"})
  BY DEF Added
<1>2. /\ next' \in [{"current", "previous"} -> Nat \ {0}]
      /\ next'.current = next.current + 1 /\ next'.previous = next.previous
      /\ UNCHANGED <<current, previous, merged>> /\ entries' = entries \o <<x>>
  BY <1>1, MergeSteps
<1>3. /\ NowSeen' = NowSeen \cup {Now} /\ NowLeft = NowLeft' \cup {Now}
      /\ \A c \in NowLeft' : Now.id < c.id
      /\ Now \in Range(current) /\ Now.id \in Nat
  BY <1>1, <1>2, NowSteps
<1>4. BeforeSeen' = BeforeSeen /\ BeforeLeft' = BeforeLeft BY <1>2, BeforeRests
<1>5. \A p \in BeforeLeft : Now.id < p.id
  <2>1. CASE More("previous", previous)
    <3>1. /\ BeforeLeft = Left(previous, next.previous + 1) \cup {Before}
          /\ \A p \in Left(previous, next.previous + 1) : Before.id < p.id
      BY <2>1, BothSides, CursorSteps DEF More, Before, BeforeLeft
    <3> QED BY <1>1, <1>3, <2>1, <3>1, BothSides
  <2>2. CASE ~More("previous", previous)
    <3>1. BeforeLeft = {} BY <2>2, BothSides, SeenAndLeft DEF More, BeforeLeft
    <3> QED BY <3>1
  <2> QED BY <2>1, <2>2
<1>6. Now.id \notin Ids(previous) /\ Of(previous, Now.id) = {}
  BY <1>3, <1>5, BothSides DEF Ids, Of, DiffInv
<1>7. x \in NamedEntry /\ x.kind = "added" /\ x.id = Now.id BY <1>3 DEF DiffEntry, NamedEntry
<1>8. \A i \in DOMAIN entries : entries[i].id < Now.id BY <1>3 DEF DiffInv
<1> HIDE DEF x
<1>9. /\ entries' \in Seq(NamedEntry)
      /\ \A kind : Named(kind)' = Named(kind) \cup (IF x.kind = kind THEN {x.id} ELSE {})
      /\ \A i, j \in DOMAIN entries' : i < j => entries'[i].id < entries'[j].id
      /\ \A i \in DOMAIN entries' : (i \in DOMAIN entries /\ entries'[i] = entries[i]) \/ entries'[i] = x
  BY <1>2, <1>7, <1>8, OneEntry DEF DiffInv
<1>10. /\ Named("added")' = Named("added") \cup {Now.id}
       /\ Named("removed")' = Named("removed") /\ Named("changed")' = Named("changed")
  BY <1>7, <1>9
<1>11. Named("added")' = {c.id : c \in {d \in NowSeen' : d.id \notin Ids(previous)}}
  BY <1>3, <1>6, <1>10 DEF DiffInv
<1>12. Named("changed")' = {c.id : c \in {d \in NowSeen' :
                              \E p \in Of(previous, d.id) : ~SameMeaning(d, p)}}
  BY <1>3, <1>6, <1>10 DEF DiffInv
<1>13. Named("removed")' = {p.id : p \in {q \in BeforeSeen' : q.id \notin Ids(current)}}
  BY <1>4, <1>10 DEF DiffInv
<1>14. \A c \in NowSeen', p \in BeforeLeft' : c.id < p.id BY <1>3, <1>4, <1>5 DEF DiffInv
<1>15. \A c \in NowLeft', p \in BeforeSeen' : p.id < c.id BY <1>3, <1>4 DEF DiffInv
<1>16. \A i \in DOMAIN entries' : \A c \in (NowLeft \cup BeforeLeft)' : entries'[i].id < c.id
  BY <1>3, <1>4, <1>5, <1>7, <1>9 DEF DiffInv
<1> QED BY <1>1, <1>2, <1>9, <1>11, <1>12, <1>13, <1>14, <1>15, <1>16, SameCatalogs DEF DiffInv

LEMMA RemovedKeeps == ASSUME DiffInv, Removed PROVE DiffInv'
<1> DEFINE x == DiffEntry("removed", Before.id, {})
<1>1. /\ ~merged /\ More("previous", previous) /\ (More("current", current) => Before.id < Now.id)
      /\ Merge(<<x>>, {"previous"})
  BY DEF Removed
<1>2. /\ next' \in [{"current", "previous"} -> Nat \ {0}]
      /\ next'.current = next.current /\ next'.previous = next.previous + 1
      /\ UNCHANGED <<current, previous, merged>> /\ entries' = entries \o <<x>>
  <2>1. {"previous"} \in SUBSET {"current", "previous"} /\ "current" \notin {"previous"} OBVIOUS
  <2> HIDE DEF x
  <2> QED BY <1>1, <2>1, MergeSteps
<1>3. /\ BeforeSeen' = BeforeSeen \cup {Before} /\ BeforeLeft = BeforeLeft' \cup {Before}
      /\ \A p \in BeforeLeft' : Before.id < p.id
      /\ Before \in Range(previous) /\ Before.id \in Nat
  BY <1>1, <1>2, BeforeSteps
<1>4. NowSeen' = NowSeen /\ NowLeft' = NowLeft BY <1>2, NowRests
<1>5. \A c \in NowLeft : Before.id < c.id
  <2>1. CASE More("current", current)
    <3>1. /\ NowLeft = Left(current, next.current + 1) \cup {Now}
          /\ \A c \in Left(current, next.current + 1) : Now.id < c.id
      BY <2>1, BothSides, CursorSteps DEF More, Now, NowLeft
    <3> QED BY <1>1, <1>3, <2>1, <3>1, BothSides
  <2>2. CASE ~More("current", current)
    <3>1. NowLeft = {} BY <2>2, BothSides, SeenAndLeft DEF More, NowLeft
    <3> QED BY <3>1
  <2> QED BY <2>1, <2>2
<1>6. Before.id \notin Ids(current) BY <1>3, <1>5, BothSides DEF Ids, DiffInv
<1>7. x \in NamedEntry /\ x.kind = "removed" /\ x.id = Before.id BY <1>3 DEF DiffEntry, NamedEntry
<1>8. \A i \in DOMAIN entries : entries[i].id < Before.id BY <1>3 DEF DiffInv
<1> HIDE DEF x
<1>9. /\ entries' \in Seq(NamedEntry)
      /\ \A kind : Named(kind)' = Named(kind) \cup (IF x.kind = kind THEN {x.id} ELSE {})
      /\ \A i, j \in DOMAIN entries' : i < j => entries'[i].id < entries'[j].id
      /\ \A i \in DOMAIN entries' : (i \in DOMAIN entries /\ entries'[i] = entries[i]) \/ entries'[i] = x
  BY <1>2, <1>7, <1>8, OneEntry DEF DiffInv
<1>10. /\ Named("removed")' = Named("removed") \cup {Before.id}
       /\ Named("added")' = Named("added") /\ Named("changed")' = Named("changed")
  BY <1>7, <1>9
<1>11. Named("removed")' = {p.id : p \in {q \in BeforeSeen' : q.id \notin Ids(current)}}
  BY <1>3, <1>6, <1>10 DEF DiffInv
<1>12. /\ Named("added")' = {c.id : c \in {d \in NowSeen' : d.id \notin Ids(previous)}}
       /\ Named("changed")' = {c.id : c \in {d \in NowSeen' :
                              \E p \in Of(previous, d.id) : ~SameMeaning(d, p)}}
  BY <1>4, <1>10 DEF DiffInv
<1>13. \A c \in NowSeen', p \in BeforeLeft' : c.id < p.id BY <1>3, <1>4 DEF DiffInv
<1>14. \A c \in NowLeft', p \in BeforeSeen' : p.id < c.id BY <1>3, <1>4, <1>5 DEF DiffInv
<1>15. \A i \in DOMAIN entries' : \A c \in (NowLeft \cup BeforeLeft)' : entries'[i].id < c.id
  BY <1>3, <1>4, <1>5, <1>7, <1>9 DEF DiffInv
<1> QED BY <1>1, <1>2, <1>9, <1>11, <1>12, <1>13, <1>14, <1>15, SameCatalogs DEF DiffInv

LEMMA PairedKeeps == ASSUME DiffInv, Paired PROVE DiffInv'
<1> DEFINE fields == ChangedFields(Now, Before)
           x == DiffEntry("changed", Now.id, fields)
           added == IF fields = {} THEN <<>> ELSE <<x>>
<1>1. /\ ~merged /\ More("current", current) /\ More("previous", previous) /\ Now.id = Before.id
      /\ Merge(added, {"current", "previous"})
  BY DEF Paired
<1>2. /\ next' \in [{"current", "previous"} -> Nat \ {0}]
      /\ next'.current = next.current + 1 /\ next'.previous = next.previous + 1
      /\ UNCHANGED <<current, previous, merged>> /\ entries' = entries \o added
  BY <1>1, MergeSteps
<1>3. /\ NowSeen' = NowSeen \cup {Now} /\ NowLeft = NowLeft' \cup {Now}
      /\ \A c \in NowLeft' : Now.id < c.id
      /\ Now \in Range(current) /\ Now.id \in Nat
  BY <1>1, <1>2, NowSteps
<1>4. /\ BeforeSeen' = BeforeSeen \cup {Before} /\ BeforeLeft = BeforeLeft' \cup {Before}
      /\ \A p \in BeforeLeft' : Before.id < p.id
      /\ Before \in Range(previous) /\ Before.id \in Nat
  BY <1>1, <1>2, BeforeSteps
<1>5. Now.id \in Ids(previous) /\ Before.id \in Ids(current) /\ Of(previous, Now.id) = {Before}
  BY <1>1, <1>3, <1>4, BothSides DEF Ids, Of
<1>6. fields = {} <=> SameMeaning(Now, Before) BY NothingDiffers
<1>7. x \in NamedEntry /\ x.kind = "changed" /\ x.id = Now.id
  <2>1. fields \in SUBSET (Semantic \cup {"code"}) BY DEF ChangedFields
  <2> QED BY <1>3, <2>1 DEF DiffEntry, NamedEntry
<1>8. \A i \in DOMAIN entries : entries[i].id < Now.id BY <1>3 DEF DiffInv
<1> HIDE DEF x, fields
<1>9. /\ entries' \in Seq(NamedEntry)
      /\ Named("added")' = Named("added") /\ Named("removed")' = Named("removed")
      /\ Named("changed")' = Named("changed") \cup (IF fields = {} THEN {} ELSE {Now.id})
      /\ \A i, j \in DOMAIN entries' : i < j => entries'[i].id < entries'[j].id
      /\ \A i \in DOMAIN entries' :
            (i \in DOMAIN entries /\ entries'[i] = entries[i]) \/ entries'[i].id = Now.id
  <2>1. CASE fields = {}
    <3>1. entries' = entries BY <1>2, <2>1 DEF DiffInv
    <3>2. \A kind : Named(kind)' = Named(kind) BY <3>1 DEF Named
    <3> QED BY <2>1, <3>1, <3>2 DEF DiffInv
  <2>2. CASE fields # {}
    <3>1. /\ entries' \in Seq(NamedEntry)
          /\ \A kind : Named(kind)' = Named(kind) \cup (IF x.kind = kind THEN {x.id} ELSE {})
          /\ \A i, j \in DOMAIN entries' : i < j => entries'[i].id < entries'[j].id
          /\ \A i \in DOMAIN entries' :
                (i \in DOMAIN entries /\ entries'[i] = entries[i]) \/ entries'[i] = x
      BY <1>2, <1>7, <1>8, <2>2, OneEntry DEF DiffInv
    <3> QED BY <1>7, <2>2, <3>1
  <2> QED BY <2>1, <2>2
<1>10. Named("added")' = {c.id : c \in {d \in NowSeen' : d.id \notin Ids(previous)}}
  BY <1>3, <1>5, <1>9 DEF DiffInv
<1>11. Named("removed")' = {p.id : p \in {q \in BeforeSeen' : q.id \notin Ids(current)}}
  BY <1>4, <1>5, <1>9 DEF DiffInv
<1>12. Named("changed")' = {c.id : c \in {d \in NowSeen' :
                              \E p \in Of(previous, d.id) : ~SameMeaning(d, p)}}
  <2>1. (\E p \in Of(previous, Now.id) : ~SameMeaning(Now, p)) <=> fields # {} BY <1>5, <1>6
  <2>2. Named("changed") = {c.id : c \in {d \in NowSeen :
                              \E p \in Of(previous, d.id) : ~SameMeaning(d, p)}}
    BY DEF DiffInv
  <2> QED BY <1>3, <1>9, <2>1, <2>2
<1>13. \A c \in NowSeen', p \in BeforeLeft' : c.id < p.id BY <1>1, <1>3, <1>4 DEF DiffInv
<1>14. \A c \in NowLeft', p \in BeforeSeen' : p.id < c.id BY <1>1, <1>3, <1>4 DEF DiffInv
<1>15. \A i \in DOMAIN entries' : \A c \in (NowLeft \cup BeforeLeft)' : entries'[i].id < c.id
  BY <1>1, <1>3, <1>4, <1>9 DEF DiffInv
<1> QED BY <1>1, <1>2, <1>9, <1>10, <1>11, <1>12, <1>13, <1>14, <1>15, SameCatalogs DEF DiffInv

LEMMA EndDiffKeeps == ASSUME DiffInv, EndDiff \/ UNCHANGED diff PROVE DiffInv'
<1>1. UNCHANGED <<current, previous, next, entries>> BY DEF EndDiff, diff
<1>2. /\ NowSeen' = NowSeen /\ NowLeft' = NowLeft /\ BeforeSeen' = BeforeSeen /\ BeforeLeft' = BeforeLeft
      /\ \A kind : Named(kind)' = Named(kind)
  BY <1>1 DEF NowSeen, NowLeft, BeforeSeen, BeforeLeft, Seen, Left, Named
<1>3. merged' => NowLeft = {} /\ BeforeLeft = {}
  <2>1. CASE EndDiff
    <3>1. ~(next.current <= Len(current)) /\ ~(next.previous <= Len(previous))
      BY <2>1 DEF EndDiff, More
    <3> QED BY <3>1, BothSides, SeenAndLeft DEF NowLeft, BeforeLeft
  <2>2. CASE UNCHANGED diff BY <2>2 DEF diff, DiffInv
  <2> QED BY <2>1, <2>2
<1> QED BY <1>1, <1>2, <1>3, SameCatalogs DEF DiffInv

LEMMA AllNamed == DiffInv => DiffNamesChanges
<1> SUFFICES ASSUME DiffInv, merged
             PROVE  /\ Named("added") = Ids(current) \ Ids(previous)
                    /\ Named("removed") = Ids(previous) \ Ids(current)
                    /\ Named("changed") = {c.id : c \in {d \in Range(current) :
                                             \E p \in Of(previous, d.id) : ~SameMeaning(d, p)}}
                    /\ \A i, j \in DOMAIN entries : i < j => entries[i].id < entries[j].id
  BY DEF DiffNamesChanges
<1>1. Range(current) = NowSeen /\ Range(previous) = BeforeSeen BY BothSides DEF DiffInv
<1>2. Named("added") = Ids(current) \ Ids(previous) BY <1>1 DEF DiffInv, Ids
<1>3. Named("removed") = Ids(previous) \ Ids(current) BY <1>1 DEF DiffInv, Ids
<1> QED BY <1>1, <1>2, <1>3 DEF DiffInv

-----------------------------------------------------------------------------
(* The digest of a catalog *)

Line == Seq(Byte \ {"LF"})
Crlf(text, i) == text[i] = "CR" /\ i < Len(text) /\ text[i + 1] = "LF"
After(text, i) == IF Crlf(text, i) THEN i + 2 ELSE i + 1

\* What the lines of a text from byte i on are, for each i.
SplitAt(lines, text, i) ==
    /\ ~Crlf(text, i) /\ text[i] # "LF" =>
          lines[i] = << <<text[i]>> \o Head(lines[i + 1]) >> \o Tail(lines[i + 1])
    /\ Crlf(text, i) \/ text[i] = "LF" =>
          lines[i] = IF After(text, i) > Len(text) THEN << <<>> >> ELSE << <<>> >> \o lines[After(text, i)]
Splits(lines, text) ==
    /\ lines[Len(text) + 1] = << <<>> >> /\ lines[1] = NormalLines(text)
    /\ \A i \in 1..Len(text) : SplitAt(lines, text, i)

\* A line with one byte more, a text with one line more.
LEMMA LineAdded ==
    ASSUME NEW b \in Byte \ {"LF"}, NEW l \in Seq(Line), l # <<>>
    PROVE  /\ << <<b>> \o Head(l) >> \o Tail(l) \in Seq(Line)
           /\ << <<b>> \o Head(l) >> \o Tail(l) # <<>>
<1>1. Head(l) \in Line /\ Tail(l) \in Seq(Line) OBVIOUS
<1>2. <<b>> \o Head(l) \in Line BY <1>1 DEF Line
<1>3. \A h \in Line, t \in Seq(Line) : <<h>> \o t \in Seq(Line) /\ <<h>> \o t # <<>> OBVIOUS
<1> QED BY <1>1, <1>2, <1>3

LEMMA LineBegun ==
    ASSUME NEW l \in Seq(Line)
    PROVE  << <<>> >> \o l \in Seq(Line) /\ << <<>> >> \o l # <<>>
<1>1. <<>> \in Line BY DEF Line
<1>2. \A h \in Line, t \in Seq(Line) : <<h>> \o t \in Seq(Line) /\ <<h>> \o t # <<>> OBVIOUS
<1> QED BY <1>1, <1>2

\* The lines of a text: at least one.
LEMMA TextSplits ==
    ASSUME NEW text \in Snippet
    PROVE  \E lines \in [1..(Len(text) + 1) -> Seq(Line) \ {<<>>}] : Splits(lines, text)
<1> DEFINE n == Len(text)
           L == Seq(Line) \ {<<>>}
           crlf(i) == text[i] = "CR" /\ i < Len(text) /\ text[i + 1] = "LF"
           Lines(f, i) ==
               IF i > Len(text) THEN << <<>> >>
               ELSE LET after == IF crlf(i) THEN i + 2 ELSE i + 1
                        byte == IF crlf(i) THEN "LF" ELSE text[i]
                    IN  IF byte # "LF"
                          THEN << <<byte>> \o Head(f[after]) >> \o Tail(f[after])
                        ELSE IF after > Len(text) THEN << <<>> >>
                        ELSE << <<>> >> \o f[after]
           Whole(f) == f = [i \in 1..(Len(text) + 1) |-> Lines(f, i)]
           lines == CHOOSE f : Whole(f)
           Further(i) == IF crlf(i) THEN i + 2 ELSE i + 1
<1>0. n \in Nat /\ \A i \in 1..n : text[i] \in Byte BY DEF Snippet
<1>1. ASSUME NEW i \in 1..n PROVE Further(i) \in (i + 1)..(n + 1) BY <1>0
<1>2. << <<>> >> \in L BY DEF Line
<1>3. ASSUME NEW i \in 1..(n + 1), NEW f, i > n \/ f[Further(i)] \in L PROVE Lines(f, i) \in L
  <2>1. CASE i > n BY <1>2, <2>1
  <2>2. CASE i <= n
    <3> DEFINE l == f[Further(i)]
    <3>1. l \in Seq(Line) /\ l # <<>> BY <1>0, <1>3, <2>2
    <3>2. i \in 1..n BY <2>2, <1>0
    <3>3. CASE ~crlf(i) /\ text[i] # "LF"
      <4>1. Lines(f, i) = << <<text[i]>> \o Head(l) >> \o Tail(l) 
        <5>1. ~(i > Len(text)) BY <3>2, <1>0
        <5>2. l = f[i + 1] BY <3>3
        <5>3. Lines(f, i) = << <<text[i]>> \o Head(f[i + 1]) >> \o Tail(f[i + 1]) BY <3>3, <5>1, Zenon
        <5> QED BY <5>2, <5>3
      <4> HIDE DEF l, Lines
      <4> QED BY <1>0, <3>1, <3>2, <3>3, <4>1, LineAdded
    <3>4. CASE crlf(i) \/ text[i] = "LF"
      <4>1. Lines(f, i) = IF Further(i) > n THEN << <<>> >> ELSE << <<>> >> \o l BY <2>2, <3>2, <3>4
      <4> HIDE DEF l, Lines
      <4>2. << <<>> >> \o l \in Seq(Line) /\ << <<>> >> \o l # <<>> BY <3>1, LineBegun
      <4> QED BY <1>2, <4>1, <4>2
    <3> QED BY <3>3, <3>4
  <2> QED BY <1>0, <2>1, <2>2
<1>4. ASSUME NEW i \in 1..(n + 1), NEW f, NEW g, i > n \/ f[Further(i)] = g[Further(i)]
      PROVE  Lines(f, i) = Lines(g, i)
  BY <1>0, <1>4
<1> DEFINE Runs(f, m) == \A i \in (n + 1 - m)..(n + 1) : f[i] = Lines(f, i)
           S == {m \in 0..n : \E f \in [(n + 1 - m)..(n + 1) -> L] : Runs(f, m)}
<1> HIDE DEF Lines, L, Further
<1>5. 0 \in S
  <2> DEFINE f == [i \in (n + 1)..(n + 1) |-> << <<>> >>]
  <2>1. n + 1 - 0 = n + 1 /\ n + 1 > n /\ \A i \in (n + 1)..(n + 1) : i = n + 1 BY <1>0
  <2>2. Lines(f, n + 1) = << <<>> >> BY <1>0 DEF Lines
  <2>3. f \in [(n + 1 - 0)..(n + 1) -> L] /\ Runs(f, 0) BY <1>2, <2>1, <2>2
  <2> HIDE DEF f, Runs
  <2>4. 0 \in 0..n BY <1>0
  <2> QED BY <2>3, <2>4
<1>6. ASSUME NEW m \in 0..(n - 1), m \in S PROVE m + 1 \in S
  <2> DEFINE k == n - m
  <2>1. /\ k \in 1..n /\ k \in 1..(n + 1) /\ n + 1 - (m + 1) = k /\ n + 1 - m = k + 1 /\ m + 1 \in 0..n
        /\ k..(n + 1) = {k} \cup (k + 1)..(n + 1)
    BY <1>0
  <2>2. PICK f \in [(k + 1)..(n + 1) -> L] : \A i \in (k + 1)..(n + 1) : f[i] = Lines(f, i)
    BY <1>6, <2>1
  <2> HIDE DEF k
  <2> DEFINE g == [i \in k..(n + 1) |-> IF i = k THEN Lines(f, k) ELSE f[i]]
  <2>3. \A i \in (k + 1)..(n + 1) : g[i] = f[i] /\ i # k BY <2>1
  <2>4. Lines(f, k) \in L
    <3>1. f[Further(k)] \in L BY <1>1, <2>1
    <3> QED BY <1>3, <2>1, <3>1
  <2>5. g \in [k..(n + 1) -> L] BY <2>1, <2>4
  <2>6. ASSUME NEW i \in k..(n + 1) PROVE g[i] = Lines(g, i)
    <3>1. i \in 1..(n + 1) /\ (i = k \/ i \in (k + 1)..(n + 1)) BY <1>0, <2>1
    <3>2. i > n \/ g[Further(i)] = f[Further(i)]
      <4> SUFFICES ASSUME ~(i > n) PROVE g[Further(i)] = f[Further(i)] OBVIOUS
      <4>1. i \in 1..n BY <1>0, <3>1
      <4>2. Further(i) \in (i + 1)..(n + 1) BY <1>1, <4>1
      <4>3. Further(i) \in (k + 1)..(n + 1) BY <1>0, <2>1, <3>1, <4>2
      <4> QED BY <2>3, <4>3
    <3> HIDE DEF g
    <3>3. Lines(g, i) = Lines(f, i) BY <1>4, <3>1, <3>2
    <3>4. CASE i = k BY <3>3, <3>4 DEF g
    <3>5. CASE i # k
      <4>1. i \in (k + 1)..(n + 1) BY <3>1, <3>5
      <4> QED BY <2>2, <2>3, <3>3, <4>1
    <3> QED BY <3>4, <3>5
  <2> HIDE DEF g
  <2>7. \E h \in [(n + 1 - (m + 1))..(n + 1) -> L] : Runs(h, m + 1)
    <3>1. Runs(g, m + 1) BY <2>1, <2>6
    <3> HIDE DEF Runs
    <3> QED BY <2>1, <2>5, <3>1
  <2> HIDE DEF Runs
  <2> QED BY <2>1, <2>7, Zenon
<1> HIDE DEF S
<1>7. \A m \in 0..n : m \in S
  <2> HIDE DEF n
  <2> QED BY <1>0, <1>5, <1>6, InductionUpTo
<1>8. PICK f \in [1..(n + 1) -> L] : \A i \in 1..(n + 1) : f[i] = Lines(f, i)
  <2>1. n \in S /\ n + 1 - n = 1 BY <1>0, <1>7
  <2> QED BY <2>1 DEF S
<1>9. Whole(f)
  <2>1. f = [i \in 1..(n + 1) |-> f[i]] OBVIOUS
  <2> QED BY <1>8, <2>1
<1>10. Whole(lines)
  <2> HIDE DEF Whole
  <2> QED BY <1>9
<1>11. NormalLines(text) = lines[1] BY DEF NormalLines, Lines
<1> HIDE DEF lines
<1>12. \A i \in 1..(n + 1) : lines[i] = Lines(lines, i) BY <1>10
<1> DEFINE T == {m \in 0..n : \A i \in (n + 1 - m)..(n + 1) : lines[i] \in L}
<1>13. 0 \in T
  <2>1. n + 1 - 0 = n + 1 /\ n + 1 > n /\ n + 1 \in 1..(n + 1) /\ \A i \in (n + 1)..(n + 1) : i = n + 1
    BY <1>0
  <2>2. lines[n + 1] \in L BY <1>3, <1>12, <2>1
  <2>3. 0 \in 0..n BY <1>0
  <2> QED BY <2>1, <2>2, <2>3
<1>14. ASSUME NEW m \in 0..(n - 1), m \in T PROVE m + 1 \in T
  <2> DEFINE k == n - m
  <2>1. /\ k \in 1..n /\ k \in 1..(n + 1) /\ n + 1 - (m + 1) = k /\ n + 1 - m = k + 1 /\ m + 1 \in 0..n
        /\ k..(n + 1) = {k} \cup (k + 1)..(n + 1)
    BY <1>0
  <2>2. \A i \in (k + 1)..(n + 1) : lines[i] \in L BY <1>14, <2>1
  <2> HIDE DEF k
  <2>3. lines[Further(k)] \in L BY <1>1, <2>1, <2>2
  <2>4. lines[k] \in L BY <1>3, <1>12, <2>1, <2>3
  <2>5. \A i \in (n + 1 - (m + 1))..(n + 1) : lines[i] \in L BY <2>1, <2>2, <2>4
  <2> QED BY <2>1, <2>5
<1> HIDE DEF T
<1>15. \A m \in 0..n : m \in T
  <2> HIDE DEF n
  <2> QED BY <1>0, <1>13, <1>14, InductionUpTo
<1>16. \A i \in 1..(n + 1) : lines[i] \in L
  <2>1. n \in T /\ n + 1 - n = 1 BY <1>0, <1>15
  <2> QED BY <2>1 DEF T
<1>17. lines \in [1..(n + 1) -> L]
  <2>1. lines = [i \in 1..(n + 1) |-> lines[i]] BY <1>10, Zenon DEF Whole
  <2> QED BY <1>16, <2>1
<1>18. lines[n + 1] = << <<>> >>
  <2>1. n + 1 > n /\ n + 1 \in 1..(n + 1) BY <1>0
  <2> QED BY <1>12, <2>1 DEF Lines
<1>19. ASSUME NEW i \in 1..n PROVE SplitAt(lines, text, i)
  <2>1. i \in 1..(n + 1) /\ ~(i > Len(text)) BY <1>0
  <2>2. lines[i] = Lines(lines, i) BY <1>12, <2>1
  <2>3. Crlf(text, i) <=> crlf(i) BY DEF Crlf
  <2>4. CASE ~crlf(i) /\ text[i] # "LF"
    <3>1. lines[i] = << <<text[i]>> \o Head(lines[i + 1]) >> \o Tail(lines[i + 1])
      BY <2>1, <2>2, <2>4, Zenon DEF Lines
    <3> QED BY <2>3, <2>4, <3>1 DEF SplitAt
  <2>5. CASE crlf(i) \/ text[i] = "LF"
    <3>1. After(text, i) = IF crlf(i) THEN i + 2 ELSE i + 1 BY <2>3 DEF After
    <3>2. lines[i] = IF After(text, i) > Len(text) THEN << <<>> >> ELSE << <<>> >> \o lines[After(text, i)]
      BY <2>1, <2>2, <2>5, <3>1 DEF Lines
    <3> QED BY <2>3, <2>5, <3>2 DEF SplitAt
  <2> QED BY <2>4, <2>5
<1> QED BY <1>11, <1>17, <1>18, <1>19 DEF Splits, L

LEMMA NormalLinesAre ==
    ASSUME NEW text \in Snippet
    PROVE  NormalLines(text) \in Seq(Line) /\ NormalLines(text) # <<>>
<1>1. PICK lines \in [1..(Len(text) + 1) -> Seq(Line) \ {<<>>}] : Splits(lines, text) BY TextSplits
<1>2. 1 \in 1..(Len(text) + 1) BY DEF Snippet
<1> QED BY <1>1, <1>2 DEF Splits

\* What write_semantics writes: one field after the other.
Field == Nat \cup File \cup Label \cup Type \cup Policy \cup Seq(Byte)

LEMMA LinesCounted ==
    ASSUME NEW x \in Seq(Seq(Byte)), x # <<>>, NEW y \in Seq(Seq(Byte)), y # <<>>,
           LineCount(x) = LineCount(y)
    PROVE  Len(x) = Len(y) /\ LineCount(x) \in Nat
<1>1. Len(x) \in Nat \ {0} /\ Len(y) \in Nat \ {0} OBVIOUS
<1>2. (IsEmptyText(x) => Len(x) = 1) /\ (IsEmptyText(y) => Len(y) = 1) BY DEF IsEmptyText
<1> QED BY <1>1, <1>2 DEF LineCount

LEMMA EncodedIs ==
    ASSUME NEW c \in ResolvedContract
    PROVE  /\ NormalLines(c.code) \in Seq(Seq(Byte)) /\ NormalLines(c.code) # <<>>
           /\ Encoded(c) \in Seq(Field) /\ Len(Encoded(c)) = 6 + Len(NormalLines(c.code))
           /\ Encoded(c)[1] = c.id /\ Encoded(c)[2] = c.file /\ Encoded(c)[3] = c.signature
           /\ Encoded(c)[4] = c.type /\ Encoded(c)[5] = c.occurrence
           /\ Encoded(c)[6] = LineCount(NormalLines(c.code))
           /\ \A k \in 1..Len(NormalLines(c.code)) : Encoded(c)[6 + k] = NormalLines(c.code)[k]
<1> DEFINE lines == NormalLines(c.code)
           fixed == <<c.id, c.file, c.signature, c.type, c.occurrence, LineCount(lines)>>
<1>1. c.code \in Seq(Byte) BY DEF ResolvedContract, Snippet
<1>2. lines \in Seq(Seq(Byte)) /\ lines # <<>>
  <2>1. lines \in Seq(Line) /\ lines # <<>> BY <1>1, NormalLinesAre DEF Snippet
  <2>2. \A l \in Line : l \in Seq(Byte) BY DEF Line
  <2> HIDE DEF lines
  <2>3. \A i \in 1..Len(lines) : lines[i] \in Line BY <2>1
  <2> QED BY <2>1, <2>2, <2>3
<1>3. LineCount(lines) \in Nat BY <1>2, LinesCounted
<1>4. /\ c.id \in Field /\ c.file \in Field /\ c.signature \in Field /\ c.type \in Field
      /\ c.occurrence \in Field /\ LineCount(lines) \in Field
  BY <1>3 DEF ResolvedContract, Field
<1>5. lines \in Seq(Field)
  <2> HIDE DEF lines
  <2>0. \A k \in 1..Len(lines) : lines[k] \in Seq(Byte) BY <1>2
  <2>1. \A k \in 1..Len(lines) : lines[k] \in Field BY <2>0 DEF Field
  <2>2. Len(lines) \in Nat /\ lines = [k \in 1..Len(lines) |-> lines[k]] BY <1>2
  <2> QED BY <2>1, <2>2, SeqDef
<1>6. Encoded(c) = fixed \o lines BY DEF Encoded
<1> HIDE DEF lines
<1>7. fixed \in Seq(Field) /\ Len(fixed) = 6 BY <1>4
<1>8. /\ fixed[1] = c.id /\ fixed[2] = c.file /\ fixed[3] = c.signature
      /\ fixed[4] = c.type /\ fixed[5] = c.occurrence /\ fixed[6] = LineCount(lines)
  OBVIOUS
<1> HIDE DEF fixed
<1>9. /\ fixed \o lines \in Seq(Field) /\ Len(fixed \o lines) = 6 + Len(lines)
      /\ \A k \in 1..6 : (fixed \o lines)[k] = fixed[k]
      /\ \A k \in 1..Len(lines) : (fixed \o lines)[6 + k] = lines[k]
  <2>1. /\ fixed \o lines \in Seq(Field) /\ Len(fixed \o lines) = Len(fixed) + Len(lines)
        /\ Begins(fixed, fixed \o lines)
        /\ \A k \in 1..Len(lines) : (fixed \o lines)[Len(fixed) + k] = lines[k]
    <3>1. fixed \in Seq(Field) BY <1>7
    <3>2. /\ fixed \o lines \in Seq(Field) /\ Len(fixed \o lines) = Len(fixed) + Len(lines)
          /\ Begins(fixed, fixed \o lines)
      BY <1>5, <3>1, Appended
    <3>3. \A k \in 1..Len(lines) : (fixed \o lines)[Len(fixed) + k] = lines[k] BY <1>5, <3>1
    <3> QED BY <3>2, <3>3
  <2>2. \A k \in 1..6 : (fixed \o lines)[k] = fixed[k] BY <1>7, <2>1 DEF Begins
  <2> QED BY <1>7, <2>1, <2>2
<1>10. /\ Encoded(c)[1] = fixed[1] /\ Encoded(c)[2] = fixed[2] /\ Encoded(c)[3] = fixed[3]
       /\ Encoded(c)[4] = fixed[4] /\ Encoded(c)[5] = fixed[5] /\ Encoded(c)[6] = fixed[6]
  BY <1>6, <1>9
<1>11. /\ Encoded(c) \in Seq(Field) /\ Len(Encoded(c)) = 6 + Len(lines)
       /\ \A k \in 1..Len(lines) : Encoded(c)[6 + k] = lines[k]
  BY <1>6, <1>9
<1> QED BY <1>2, <1>8, <1>10, <1>11 DEF lines

\* What one contract writes does not begin what another one writes, so that it
\* tells the contract's id and its meaning.
LEMMA EncodedApart ==
    ASSUME NEW c \in ResolvedContract, NEW d \in ResolvedContract, Begins(Encoded(c), Encoded(d))
    PROVE  Encoded(c) = Encoded(d) /\ c.id = d.id /\ SameMeaning(c, d)
<1> DEFINE x == NormalLines(c.code)
           y == NormalLines(d.code)
           e == Encoded(c)
           f == Encoded(d)
<1>1. /\ x \in Seq(Seq(Byte)) /\ x # <<>> /\ y \in Seq(Seq(Byte)) /\ y # <<>>
      /\ e \in Seq(Field) /\ f \in Seq(Field) /\ Len(e) = 6 + Len(x) /\ Len(f) = 6 + Len(y)
      /\ e[6] = LineCount(x) /\ f[6] = LineCount(y)
      /\ (\A k \in 1..Len(x) : e[6 + k] = x[k]) /\ (\A k \in 1..Len(y) : f[6 + k] = y[k])
  BY EncodedIs
<1>2. /\ e[1] = c.id /\ e[2] = c.file /\ e[3] = c.signature /\ e[4] = c.type /\ e[5] = c.occurrence
      /\ f[1] = d.id /\ f[2] = d.file /\ f[3] = d.signature /\ f[4] = d.type /\ f[5] = d.occurrence
  BY EncodedIs
<1>3. \A k \in 1..Len(e) : e[k] = f[k] BY DEF Begins
<1> HIDE DEF e, f, x, y
<1>4. Len(x) \in Nat /\ Len(y) \in Nat BY <1>1
<1>5. e[1] = f[1] /\ e[2] = f[2] /\ e[3] = f[3] /\ e[4] = f[4] /\ e[5] = f[5] /\ e[6] = f[6]
  BY <1>1, <1>3, <1>4
<1>6. Len(x) = Len(y) BY <1>1, <1>5, LinesCounted
<1>7. e = f
  <2>1. Len(e) = Len(f) /\ e = [k \in 1..Len(e) |-> e[k]] /\ f = [k \in 1..Len(f) |-> f[k]]
    BY <1>1, <1>6
  <2> QED BY <1>3, <2>1
<1>8. x = y
  <2>1. \A k \in 1..Len(x) : x[k] = y[k] BY <1>1, <1>6, <1>7
  <2>2. x = [k \in 1..Len(x) |-> x[k]] /\ y = [k \in 1..Len(y) |-> y[k]] BY <1>1
  <2> QED BY <1>6, <2>1, <2>2
<1>9. \A field \in {"file", "signature", "type", "occurrence"} : c[field] = d[field]
  BY <1>2, <1>5
<1> QED BY <1>2, <1>5, <1>7, <1>8, <1>9 DEF SameMeaning, e, f, x, y

\* And that is all it tells.
LEMMA EncodedAlike ==
    ASSUME NEW c, NEW d, c.id = d.id, SameMeaning(c, d) PROVE Encoded(c) = Encoded(d)
<1>1. c.file = d.file /\ c.signature = d.signature /\ c.type = d.type /\ c.occurrence = d.occurrence
  BY DEF SameMeaning
<1>2. NormalLines(c.code) = NormalLines(d.code) BY DEF SameMeaning
<1> QED BY <1>1, <1>2 DEF Encoded

Written(catalog) == [i \in DOMAIN catalog |-> Encoded(catalog[i])]

LEMMA WrittenIs ==
    ASSUME NEW catalog, InOrder(catalog)
    PROVE  /\ Written(catalog) \in Seq({Encoded(c) : c \in ResolvedContract})
           /\ Len(Written(catalog)) = Len(catalog) /\ Len(catalog) \in Nat
           /\ FlattenSeq(Written(catalog)) \in Seq(Field)
<1>1. catalog \in Seq(ResolvedContract) /\ Len(catalog) \in Nat /\ DOMAIN catalog = 1..Len(catalog)
  BY DEF InOrder
<1> DEFINE C == {Encoded(c) : c \in ResolvedContract}
<1>2. \A i \in 1..Len(catalog) : Encoded(catalog[i]) \in C BY <1>1
<1>3. C \in SUBSET Seq(Field) BY EncodedIs
<1> HIDE DEF C
<1>4. Written(catalog) \in Seq(C) /\ Len(Written(catalog)) = Len(catalog)
  BY <1>1, <1>2 DEF Written
<1>5. Written(catalog) \in Seq(Seq(Field)) BY <1>3, <1>4
<1>6. FlattenSeq(Written(catalog)) \in Seq(Field)
  <2>1. PICK a \in [0..Len(Written(catalog)) -> Seq(Field)] :
            FlattenSeq(Written(catalog)) = a[Len(Written(catalog))]
    BY <1>5, Flattened
  <2>2. Len(Written(catalog)) \in 0..Len(Written(catalog)) BY <1>1, <1>4
  <2> QED BY <2>1, <2>2
<1> QED BY <1>1, <1>4, <1>6 DEF C

\* Equal digests: as many contracts, one like the other.
LEMMA DigestTells ==
    ASSUME InOrder(current), InOrder(previous)
    PROVE  Digest(current) = Digest(previous) <=>
             /\ Len(current) = Len(previous)
             /\ \A i \in 1..Len(current) : /\ current[i].id = previous[i].id
                                           /\ SameMeaning(current[i], previous[i])
<1> DEFINE C == {Encoded(c) : c \in ResolvedContract}
           x == Written(current)
           y == Written(previous)
<1>1. /\ x \in Seq(C) /\ y \in Seq(C) /\ Len(x) = Len(current) /\ Len(y) = Len(previous)
      /\ Len(current) \in Nat /\ Len(previous) \in Nat
      /\ FlattenSeq(x) \in Seq(Field) /\ FlattenSeq(y) \in Seq(Field)
  BY WrittenIs
<1>2. /\ DOMAIN current = 1..Len(current) /\ DOMAIN previous = 1..Len(previous)
      /\ \A i \in 1..Len(current) : current[i] \in ResolvedContract
      /\ \A i \in 1..Len(previous) : previous[i] \in ResolvedContract
  BY DEF InOrder
<1>3. (\A i \in 1..Len(current) : x[i] = Encoded(current[i]))
      /\ \A i \in 1..Len(previous) : y[i] = Encoded(previous[i])
  BY <1>2 DEF Written
<1>4. Digest(current) = <<Len(current)>> \o FlattenSeq(x)
      /\ Digest(previous) = <<Len(previous)>> \o FlattenSeq(y)
  BY DEF Digest, Written
<1>5. C \in SUBSET Seq(Field) BY EncodedIs
<1>6. \A e, f \in C : Begins(e, f) => e = f BY EncodedApart
<1>7. ASSUME Digest(current) = Digest(previous)
      PROVE  /\ Len(current) = Len(previous)
             /\ \A i \in 1..Len(current) : /\ current[i].id = previous[i].id
                                           /\ SameMeaning(current[i], previous[i])
  <2>1. Len(current) = Len(previous) /\ FlattenSeq(x) = FlattenSeq(y)
    <3> DEFINE s == FlattenSeq(x)
               t == FlattenSeq(y)
    <3>1. <<Len(current)>> \o s = <<Len(previous)>> \o t /\ s \in Seq(Field) /\ t \in Seq(Field)
      BY <1>1, <1>4, <1>7
    <3> HIDE DEF s, t
    <3>2. Head(<<Len(current)>> \o s) = Len(current) /\ Head(<<Len(previous)>> \o t) = Len(previous)
      BY <3>1
    <3>3. Len(current) \in Field /\ Len(previous) \in Field BY <1>1 DEF Field
    <3>4. <<Len(current)>> \in Seq(Field) /\ <<Len(previous)>> \in Seq(Field) BY <3>3
    <3>5. Len(<<Len(current)>> \o s) = 1 + Len(s) /\ Len(<<Len(previous)>> \o t) = 1 + Len(t)
          /\ Len(s) \in Nat /\ Len(t) \in Nat
          /\ (\A k \in 1..Len(s) : (<<Len(current)>> \o s)[1 + k] = s[k])
          /\ (\A k \in 1..Len(t) : (<<Len(previous)>> \o t)[1 + k] = t[k])
      BY <3>1, <3>4
    <3>6. Len(s) = Len(t) BY <3>1, <3>5
    <3>7. \A k \in 1..Len(s) : s[k] = t[k] BY <3>1, <3>5, <3>6
    <3>8. s = t BY <3>1, <3>6, <3>7
    <3> QED BY <3>1, <3>2, <3>8 DEF s, t
  <2> HIDE DEF C, x, y
  <2>2. x = y BY <1>1, <1>5, <1>6, <2>1, FlattenedApart
  <2>3. ASSUME NEW i \in 1..Len(current)
        PROVE  current[i].id = previous[i].id /\ SameMeaning(current[i], previous[i])
    <3>1. Encoded(current[i]) = Encoded(previous[i]) /\ current[i] \in ResolvedContract
          /\ previous[i] \in ResolvedContract
      BY <1>2, <1>3, <2>1, <2>2
    <3>2. Begins(Encoded(current[i]), Encoded(previous[i]))
      <4>1. Len(Encoded(current[i])) \in Nat BY <3>1, EncodedIs
      <4> QED BY <3>1, <4>1 DEF Begins
    <3> QED BY <3>1, <3>2, EncodedApart
  <2> QED BY <2>1, <2>3
<1>8. ASSUME Len(current) = Len(previous),
             \A i \in 1..Len(current) : /\ current[i].id = previous[i].id
                                        /\ SameMeaning(current[i], previous[i])
      PROVE  Digest(current) = Digest(previous)
  <2>1. \A i \in 1..Len(current) : Encoded(current[i]) = Encoded(previous[i]) BY <1>8, EncodedAlike
  <2>2. x = y BY <1>2, <1>8, <2>1 DEF Written
  <2> HIDE DEF x, y
  <2> QED BY <1>4, <1>8, <2>2
<1> QED BY <1>7, <1>8

\* Two catalogs in the order of the same ids have them at the same places.
LEMMA PlacedAlike ==
    ASSUME NEW s, NEW t, InOrder(s), InOrder(t), Ids(s) = Ids(t), Len(s) <= Len(t)
    PROVE  Len(s) = Len(t) /\ \A i \in 1..Len(s) : s[i].id = t[i].id
<1>0. /\ Len(s) \in Nat /\ Len(t) \in Nat /\ DOMAIN s = 1..Len(s) /\ DOMAIN t = 1..Len(t)
      /\ (\A i \in 1..Len(s) : s[i].id \in Nat) /\ (\A i \in 1..Len(t) : t[i].id \in Nat)
      /\ (\A i, j \in 1..Len(s) : i < j => s[i].id < s[j].id)
      /\ (\A i, j \in 1..Len(t) : i < j => t[i].id < t[j].id)
  <2>1. \A c \in ResolvedContract : c.id \in Nat BY DEF ResolvedContract
  <2>2. /\ s \in Seq(ResolvedContract) /\ t \in Seq(ResolvedContract)
        /\ (\A i, j \in DOMAIN s : i < j => s[i].id < s[j].id)
        /\ (\A i, j \in DOMAIN t : i < j => t[i].id < t[j].id)
    BY DEF InOrder
  <2>3. /\ Len(s) \in Nat /\ Len(t) \in Nat /\ DOMAIN s = 1..Len(s) /\ DOMAIN t = 1..Len(t)
        /\ (\A i \in 1..Len(s) : s[i] \in ResolvedContract)
        /\ (\A i \in 1..Len(t) : t[i] \in ResolvedContract)
    BY <2>2
  <2> QED BY <2>1, <2>2, <2>3
<1>1. /\ \A i \in 1..Len(s) : \E k \in 1..Len(t) : t[k].id = s[i].id
      /\ \A i \in 1..Len(t) : \E k \in 1..Len(s) : s[k].id = t[i].id
  <2>1. \A i \in 1..Len(s) : s[i].id \in Ids(s) BY <1>0 DEF Ids, Range
  <2>2. \A i \in 1..Len(t) : t[i].id \in Ids(t) BY <1>0 DEF Ids, Range
  <2>3. \A id \in Ids(t) : \E k \in 1..Len(t) : t[k].id = id BY <1>0 DEF Ids, Range
  <2>4. \A id \in Ids(s) : \E k \in 1..Len(s) : s[k].id = id BY <1>0 DEF Ids, Range
  <2> QED BY <2>1, <2>2, <2>3, <2>4
<1> DEFINE n == Len(s)
           T == {m \in 0..n : \A i \in 1..m : s[i].id = t[i].id}
<1>2. 0 \in T BY <1>0
<1>3. ASSUME NEW m \in 0..(n - 1), m \in T PROVE m + 1 \in T
  <2> DEFINE j == m + 1
  <2>1. j \in 1..Len(s) /\ j \in 1..Len(t) /\ \A i \in 1..j : i \in 1..m \/ i = j BY <1>0
  <2>2. \A i \in 1..m : s[i].id = t[i].id /\ i \in 1..Len(s) /\ i \in 1..Len(t) /\ i < j BY <1>0, <1>3
  <2> HIDE DEF j
  <2>3. t[j].id <= s[j].id
    <3>1. PICK k \in 1..Len(t) : t[k].id = s[j].id BY <1>1, <2>1
    <3>2. CASE k \in 1..m
      <4>1. s[k].id < s[j].id /\ s[k].id = t[k].id BY <1>0, <2>1, <2>2, <3>2
      <4> QED BY <1>0, <2>1, <3>1, <4>1
    <3>3. CASE k = j BY <1>0, <2>1, <3>1, <3>3
    <3>4. CASE k > j BY <1>0, <2>1, <3>1, <3>4
    <3>5. k \in 1..m \/ k = j \/ k > j BY <1>0 DEF j
    <3> QED BY <3>2, <3>3, <3>4, <3>5
  <2>4. s[j].id <= t[j].id
    <3>1. PICK k \in 1..Len(s) : s[k].id = t[j].id BY <1>1, <2>1
    <3>2. CASE k \in 1..m
      <4>1. t[k].id < t[j].id /\ s[k].id = t[k].id BY <1>0, <2>1, <2>2, <3>2
      <4> QED BY <1>0, <2>1, <3>1, <4>1
    <3>3. CASE k = j BY <1>0, <2>1, <3>1, <3>3
    <3>4. CASE k > j BY <1>0, <2>1, <3>1, <3>4
    <3>5. k \in 1..m \/ k = j \/ k > j BY <1>0 DEF j
    <3> QED BY <3>2, <3>3, <3>4, <3>5
  <2>5. s[j].id = t[j].id BY <1>0, <2>1, <2>3, <2>4
  <2>6. m + 1 \in 0..n BY <1>0
  <2> QED BY <1>3, <2>1, <2>5, <2>6 DEF j
<1> HIDE DEF T
<1>4. n \in T
  <2> HIDE DEF n
  <2>1. n \in Nat BY <1>0 DEF n
  <2>2. \A m \in 0..n : m \in T BY <2>1, <1>2, <1>3, InductionUpTo
  <2>3. n \in 0..n BY <2>1
  <2> QED BY <2>2, <2>3
<1>5. \A i \in 1..n : s[i].id = t[i].id BY <1>4 DEF T
<1>6. Len(s) = Len(t)
  <2>0. Len(s) \in Nat /\ Len(t) \in Nat BY <1>0
  <2> SUFFICES ASSUME Len(s) < Len(t) PROVE FALSE BY <2>0
  <2>1. Len(t) \in 1..Len(t) BY <1>0
  <2>2. PICK k \in 1..Len(s) : s[k].id = t[Len(t)].id BY <1>1, <2>1
  <2>3. k \in 1..Len(t) /\ k < Len(t) /\ t[k].id = t[Len(t)].id BY <1>0, <1>5, <2>2
  <2> QED BY <1>0, <2>1, <2>3
<1> QED BY <1>5, <1>6

\* A diff without an entry: the same ids, and the same meaning for each.
LEMMA NothingNamed ==
    ASSUME DiffInv, DiffNamesChanges, merged
    PROVE  entries = <<>> <=>
             /\ Ids(current) = Ids(previous)
             /\ \A c \in Range(current), p \in Range(previous) : c.id = p.id => SameMeaning(c, p)
<1>1. /\ Named("added") = Ids(current) \ Ids(previous)
      /\ Named("removed") = Ids(previous) \ Ids(current)
      /\ Named("changed") = {c.id : c \in {d \in Range(current) :
                                             \E p \in Of(previous, d.id) : ~SameMeaning(d, p)}}
  BY DEF DiffNamesChanges
<1>2. entries \in Seq(NamedEntry) /\ DOMAIN entries = 1..Len(entries) /\ Len(entries) \in Nat
  BY DEF DiffInv
<1>3. entries = <<>> <=> \A kind \in {"added", "removed", "changed"} : Named(kind) = {}
  <2>1. ASSUME entries = <<>> PROVE \A kind \in {"added", "removed", "changed"} : Named(kind) = {}
    <3>1. Range(entries) = {} BY <2>1 DEF Range
    <3> QED BY <3>1 DEF Named
  <2>2. ASSUME entries # <<>> PROVE \E kind \in {"added", "removed", "changed"} : Named(kind) # {}
    <3>0. Len(entries) # 0 BY <1>2, <2>2
    <3>1. 1 \in DOMAIN entries BY <1>2, <3>0
    <3>2. entries[1] \in Range(entries) BY <3>1 DEF Range
    <3>3. entries[1] \in NamedEntry BY <1>2, <3>1
    <3>5. entries[1].kind \in {"added", "removed", "changed"} BY <3>3 DEF NamedEntry
    <3>4. entries[1].id \in Named(entries[1].kind) BY <3>2 DEF Named
    <3> QED BY <3>4, <3>5
  <2> QED BY <2>1, <2>2
<1>4. Named("changed") = {} <=>
        \A c \in Range(current), p \in Range(previous) : c.id = p.id => SameMeaning(c, p)
  <2>1. \A c \in Range(current) : \A p : p \in Of(previous, c.id) <=> p \in Range(previous) /\ p.id = c.id
    BY DEF Of
  <2>2. Named("changed") = {} <=> \A c \in Range(current) : \A p \in Of(previous, c.id) : SameMeaning(c, p)
    BY <1>1
  <2> QED BY <2>1, <2>2
<1> QED BY <1>1, <1>3, <1>4

LEMMA DigestAgrees ==
    ASSUME DiffInv, DiffNamesChanges, merged
    PROVE  (entries = <<>>) <=> (Digest(current) = Digest(previous))
<1>1. InOrder(current) /\ InOrder(previous) BY BothSides
<1>2. /\ Len(current) \in Nat /\ DOMAIN current = 1..Len(current)
      /\ Len(previous) \in Nat /\ DOMAIN previous = 1..Len(previous)
  BY <1>1 DEF InOrder
<1>3. ASSUME entries = <<>> PROVE Digest(current) = Digest(previous)
  <2>1. /\ Ids(current) = Ids(previous)
        /\ \A c \in Range(current), p \in Range(previous) : c.id = p.id => SameMeaning(c, p)
    BY <1>3, NothingNamed
  <2>2. Len(current) = Len(previous) /\ \A i \in 1..Len(current) : current[i].id = previous[i].id
    <3>1. CASE Len(current) <= Len(previous) BY <1>1, <2>1, <3>1, PlacedAlike
    <3>2. CASE Len(previous) <= Len(current)
      <4>1. Len(previous) = Len(current) /\ \A i \in 1..Len(previous) : previous[i].id = current[i].id
        BY <1>1, <2>1, <3>2, PlacedAlike
      <4> QED BY <4>1
    <3>3. Len(current) <= Len(previous) \/ Len(previous) <= Len(current) BY <1>2
    <3> QED BY <3>1, <3>2, <3>3
  <2>3. \A i \in 1..Len(current) : current[i] \in Range(current) /\ previous[i] \in Range(previous)
    BY <1>2, <2>2 DEF Range
  <2> QED BY <1>1, <2>1, <2>2, <2>3, DigestTells
<1>4. ASSUME Digest(current) = Digest(previous) PROVE entries = <<>>
  <2>1. /\ Len(current) = Len(previous)
        /\ \A i \in 1..Len(current) : /\ current[i].id = previous[i].id
                                      /\ SameMeaning(current[i], previous[i])
    BY <1>1, <1>4, DigestTells
  <2>2. Ids(current) = Ids(previous) BY <1>2, <2>1 DEF Ids, Range
  <2>3. ASSUME NEW i \in 1..Len(current), NEW j \in 1..Len(current), current[i].id = previous[j].id
        PROVE  SameMeaning(current[i], previous[j])
    <3>1. current[i] \in Range(current) /\ current[j] \in Range(current) BY <1>2 DEF Range
    <3>2. current[j].id = previous[j].id BY <2>1
    <3>3. current[i] = current[j] BY <2>3, <3>1, <3>2, BothSides
    <3> QED BY <2>1, <3>3
  <2>4. \A c \in Range(current), p \in Range(previous) : c.id = p.id => SameMeaning(c, p)
    BY <1>2, <2>1, <2>3 DEF Range
  <2> QED BY <2>2, <2>4, NothingNamed
<1> QED BY <1>3, <1>4

LEMMA Semantics == DiffInv => DiffIsSemantic BY AllNamed, DigestAgrees DEF DiffIsSemantic

\* For any two catalogs, each in the order of its ids: the merge of diff_against
\* names, once and in the order of the ids, the contracts only one side has and
\* those that differ in more than their place and their line endings; and what
\* write_semantics hashes is the same for both exactly if nothing is named.
THEOREM DiffSemantic == DiffSpec => []DiffIsSemantic
<1>1. Resolved /\ DiffInit /\ merged = FALSE => DiffInv BY DiffStarts
<1>2. DiffInv /\ [DiffNext]_diff => DiffInv'
  BY AddedKeeps, RemovedKeeps, PairedKeeps, EndDiffKeeps DEF DiffNext
<1> QED BY <1>1, <1>2, Semantics, PTL DEF DiffSpec

-----------------------------------------------------------------------------
(* A check: what a search of the lines finds is what a search of the texts finds *)

Symbol == Byte \cup {"LF"}

LEMMA Regrouped ==
    ASSUME NEW S, NEW x \in Seq(S), NEW y \in Seq(S), NEW z \in Seq(S)
    PROVE  (x \o y) \o z = x \o (y \o z)
OBVIOUS

LEMMA Concatenated ==
    ASSUME NEW S, NEW x \in Seq(S), NEW y \in Seq(S)
    PROVE  /\ x \o y \in Seq(S) /\ Len(x \o y) = Len(x) + Len(y)
           /\ \A p \in 1..Len(x) : (x \o y)[p] = x[p]
           /\ \A j \in 1..Len(y) : (x \o y)[Len(x) + j] = y[j]
OBVIOUS

\* Concatenation, from the front.
LEMMA FlattenPrepended ==
    ASSUME NEW S, NEW first \in Seq(S), NEW seqs \in Seq(Seq(S))
    PROVE  FlattenSeq(<<first>> \o seqs) = first \o FlattenSeq(seqs)
<1> DEFINE T == {s \in Seq(Seq(S)) : FlattenSeq(<<first>> \o s) = first \o FlattenSeq(s)}
<1>0. FlattenSeq(<<>>) = <<>> BY DEF FlattenSeq
<1>1. <<>> \in T
  <2>1. <<>> \in Seq(Seq(S)) /\ <<first>> \o <<>> = Append(<<>>, first) OBVIOUS
  <2>2. FlattenSeq(Append(<<>>, first)) = FlattenSeq(<<>>) \o first BY <2>1, FlattenAppended
  <2>3. <<>> \o first = first /\ first \o <<>> = first OBVIOUS
  <2>4. FlattenSeq(<<first>> \o <<>>) = first \o FlattenSeq(<<>>) BY <1>0, <2>1, <2>2, <2>3, Zenon
  <2> QED BY <2>1, <2>4
<1>2. ASSUME NEW s \in Seq(Seq(S)), NEW e \in Seq(S), s \in T PROVE Append(s, e) \in T
  <2>1. <<first>> \o s \in Seq(Seq(S)) /\ <<first>> \o Append(s, e) = Append(<<first>> \o s, e)
        /\ Append(s, e) \in Seq(Seq(S))
    OBVIOUS
  <2>2. FlattenSeq(Append(<<first>> \o s, e)) = FlattenSeq(<<first>> \o s) \o e BY <2>1, FlattenAppended
  <2>3. FlattenSeq(Append(s, e)) = FlattenSeq(s) \o e /\ FlattenSeq(s) \in Seq(S) BY FlattenAppended
  <2>4. (first \o FlattenSeq(s)) \o e = first \o (FlattenSeq(s) \o e) BY <2>3, Regrouped
  <2>5. FlattenSeq(<<first>> \o s) = first \o FlattenSeq(s) BY <1>2
  <2>6. FlattenSeq(<<first>> \o Append(s, e)) = first \o FlattenSeq(Append(s, e))
    BY <2>1, <2>2, <2>3, <2>4, <2>5, Zenon
  <2> QED BY <2>1, <2>6
<1> HIDE DEF T
<1>3. \A s \in Seq(Seq(S)) : s \in T BY <1>1, <1>2, SequenceInduction
<1> QED BY <1>3 DEF T

\* Lines, each with its terminator.
Closed(lines) == [k \in DOMAIN lines |-> Append(lines[k], "LF")]
Ended(lines) == FlattenSeq(Closed(lines))

LEMMA ClosedIs ==
    ASSUME NEW lines \in Seq(Line), NEW l \in Line
    PROVE  /\ Closed(lines) \in Seq(Seq(Symbol)) /\ Append(l, "LF") \in Seq(Symbol)
           /\ Closed(Append(lines, l)) = Append(Closed(lines), Append(l, "LF"))
           /\ Closed(<<l>> \o lines) = <<Append(l, "LF")>> \o Closed(lines)
           /\ Closed(<<>>) = <<>>
<1>1. \A k \in Line : Append(k, "LF") \in Seq(Symbol) BY DEF Line, Symbol
<1>2. Len(lines) \in Nat /\ DOMAIN lines = 1..Len(lines) /\ \A k \in 1..Len(lines) : lines[k] \in Line OBVIOUS
<1>3. Closed(lines) \in Seq(Seq(Symbol)) /\ Len(Closed(lines)) = Len(lines)
      /\ \A k \in 1..Len(lines) : Closed(lines)[k] = Append(lines[k], "LF")
  BY <1>1, <1>2 DEF Closed
<1>4. Closed(Append(lines, l)) = Append(Closed(lines), Append(l, "LF")) BY <1>2, <1>3 DEF Closed
<1>5. Closed(<<l>> \o lines) = <<Append(l, "LF")>> \o Closed(lines)
  <2> DEFINE x == Closed(<<l>> \o lines) y == <<Append(l, "LF")>> \o Closed(lines)
  <2>1. <<l>> \o lines \in Seq(Line) /\ Len(<<l>> \o lines) = Len(lines) + 1 OBVIOUS
  <2>2. \A k \in 1..(Len(lines) + 1) : (<<l>> \o lines)[k] = IF k = 1 THEN l ELSE lines[k - 1] BY <1>2
  <2>3. /\ x \in Seq(Seq(Symbol)) /\ Len(x) = Len(lines) + 1
        /\ \A k \in 1..(Len(lines) + 1) : x[k] = Append((<<l>> \o lines)[k], "LF")
    <3> DEFINE z == <<l>> \o lines m == Len(lines) + 1
    <3>1. z \in Seq(Line) /\ Len(z) = m /\ m \in Nat BY <1>2, <2>1
    <3> HIDE DEF z, m
    <3>2. DOMAIN z = 1..m /\ \A k \in 1..m : Append(z[k], "LF") \in Seq(Symbol) BY <1>1, <3>1
    <3>3. Closed(z) = [k \in 1..m |-> Append(z[k], "LF")] BY <3>2 DEF Closed
    <3>4. Closed(z) \in Seq(Seq(Symbol)) /\ Len(Closed(z)) = m BY <3>1, <3>2, <3>3
    <3> QED BY <3>3, <3>4 DEF z, m
  <2>4. y \in Seq(Seq(Symbol)) /\ Len(y) = Len(lines) + 1 BY <1>1, <1>2, <1>3
  <2>5. ASSUME NEW k \in 1..(Len(lines) + 1) PROVE x[k] = y[k]
    <3> HIDE DEF x
    <3>1. CASE k = 1
      <4>1. y[1] = Append(l, "LF") BY <1>1, <1>3
      <4> QED BY <2>2, <2>3, <3>1, <4>1
    <3>2. CASE k # 1
      <4>1. k - 1 \in 1..Len(lines) BY <1>2, <3>2
      <4>2. y[k] = Closed(lines)[k - 1] BY <1>1, <1>2, <1>3, <3>2
      <4>3. y[k] = Append(lines[k - 1], "LF") BY <1>3, <4>1, <4>2
      <4> HIDE DEF y
      <4> QED BY <2>2, <2>3, <3>2, <4>3
    <3> QED BY <3>1, <3>2
  <2> HIDE DEF x, y
  <2>6. x = y BY <2>3, <2>4, <2>5
  <2> QED BY <2>6 DEF x, y
<1>6. Closed(<<>>) = <<>> BY DEF Closed
<1> QED BY <1>1, <1>3, <1>4, <1>5, <1>6

LEMMA EndedIs ==
    ASSUME NEW lines \in Seq(Line), NEW l \in Line
    PROVE  /\ Ended(lines) \in Seq(Symbol) /\ Append(l, "LF") \in Seq(Symbol)
           /\ Ended(Append(lines, l)) = Ended(lines) \o Append(l, "LF")
           /\ Ended(<<l>> \o lines) = Append(l, "LF") \o Ended(lines)
           /\ Ended(<<>>) = <<>>
<1>1. Ended(lines) \in Seq(Symbol) /\ Ended(Append(lines, l)) = Ended(lines) \o Append(l, "LF")
  BY ClosedIs, FlattenAppended DEF Ended
<1>2. Ended(<<l>> \o lines) = Append(l, "LF") \o Ended(lines) BY ClosedIs, FlattenPrepended DEF Ended
<1>3. Ended(<<>>) = <<>> BY ClosedIs DEF Ended, FlattenSeq
<1> QED BY <1>1, <1>2, <1>3, ClosedIs

\* A text from byte i on: its kept bytes one by one, and its lines.
KeptBytes(text) ==
    {i \in DOMAIN text : ~(text[i] = "CR" /\ i < Len(text) /\ text[i + 1] = "LF")}
Body(text) ==
    IF Len(text) \in KeptBytes(text) /\ text[Len(text)] = "LF" THEN KeptBytes(text) \ {Len(text)} ELSE KeptBytes(text)
Mask(text) == [i \in DOMAIN text |-> IF i \in Body(text) THEN <<text[i]>> ELSE <<>>]
From(text, i) == FlattenSeq(SubSeq(Mask(text), i, Len(text)))

LEMMA PlainIs == ASSUME NEW text PROVE Plain(text) = FlattenSeq(Mask(text)) BY DEF Plain, Mask, Body, KeptBytes

LEMMA FromIs ==
    ASSUME NEW text \in Snippet
    PROVE  /\ \A i \in 1..(Len(text) + 1) : From(text, i) \in Seq(Symbol)
           /\ From(text, Len(text) + 1) = <<>> /\ From(text, 1) = Plain(text)
           /\ \A i \in 1..Len(text) : From(text, i) = Mask(text)[i] \o From(text, i + 1)
<1> DEFINE n == Len(text) mask == Mask(text)
<1>0. n \in Nat /\ DOMAIN text = 1..n /\ \A i \in 1..n : text[i] \in Byte BY DEF Snippet
<1>1. mask \in Seq(Seq(Symbol)) /\ Len(mask) = n
  <2>1. ASSUME NEW i \in 1..n PROVE mask[i] \in Seq(Symbol)
    <3>1. text[i] \in Symbol /\ mask[i] = IF i \in Body(text) THEN <<text[i]>> ELSE <<>> BY <1>0 DEF Mask, Symbol
    <3> HIDE DEF mask
    <3>2. <<text[i]>> \in Seq(Symbol) /\ <<>> \in Seq(Symbol) BY <3>1
    <3> QED BY <3>1, <3>2
  <2>2. mask = [i \in 1..n |-> mask[i]] BY <1>0 DEF Mask
  <2> QED BY <1>0, <2>1, <2>2
<1> HIDE DEF mask
<1>2. ASSUME NEW i \in 1..(n + 1) PROVE SubSeq(mask, i, n) \in Seq(Seq(Symbol)) BY <1>0, <1>1
<1>3. ASSUME NEW i \in 1..n PROVE SubSeq(mask, i, n) = <<mask[i]>> \o SubSeq(mask, i + 1, n)
  <2> DEFINE x == SubSeq(mask, i, n) y == SubSeq(mask, i + 1, n)
  <2>1. x \in Seq(Seq(Symbol)) /\ y \in Seq(Seq(Symbol)) BY <1>0, <1>2
  <2>2. Len(x) = n - i + 1 /\ Len(y) = n - i /\ (\A k \in 1..(n - i + 1) : x[k] = mask[i + k - 1])
        /\ (\A k \in 1..(n - i) : y[k] = mask[i + 1 + k - 1])
    <3>1. i \in 1..(n + 1) /\ i + 1 \in 1..(n + 1) /\ n - (i + 1) + 1 = n - i BY <1>0
    <3>2. \A k \in 1..(n + 1) : /\ Len(SubSeq(mask, k, n)) = n - k + 1
                               /\ \A l \in 1..(n - k + 1) : SubSeq(mask, k, n)[l] = mask[k + l - 1]
      BY <1>0, <1>1
    <3> HIDE DEF mask, n
    <3> QED BY <3>1, <3>2
  <2>3. mask[i] \in Seq(Symbol) BY <1>0, <1>1
  <2> HIDE DEF x, y
  <2>4. <<mask[i]>> \o y \in Seq(Seq(Symbol)) /\ Len(<<mask[i]>> \o y) = n - i + 1 BY <1>0, <2>1, <2>2, <2>3
  <2>5. ASSUME NEW k \in 1..(n - i + 1) PROVE (<<mask[i]>> \o y)[k] = x[k]
    <3>1. CASE k = 1 BY <1>0, <2>1, <2>2, <2>3, <3>1
    <3>2. CASE k # 1
      <4>1. k - 1 \in 1..(n - i) /\ i + 1 + (k - 1) - 1 = i + k - 1 /\ 1 + (k - 1) = k BY <1>0, <3>2
      <4>2. <<mask[i]>> \in Seq(Seq(Symbol)) /\ Len(<<mask[i]>>) = 1 BY <2>3
      <4>3. \A j \in 1..(n - i) : (<<mask[i]>> \o y)[1 + j] = y[j] BY <2>1, <2>2, <4>2, Concatenated
      <4>4. (<<mask[i]>> \o y)[k] = y[k - 1] BY <4>1, <4>3
      <4> QED BY <2>2, <4>1, <4>4
    <3> QED BY <3>1, <3>2
  <2>6. <<mask[i]>> \o y = x
    <3> DEFINE z == <<mask[i]>> \o y
    <3>1. z \in Seq(Seq(Symbol)) /\ Len(z) = Len(x) /\ \A k \in 1..Len(x) : z[k] = x[k] BY <2>2, <2>4, <2>5
    <3> HIDE DEF z
    <3>2. z = x BY <2>1, <3>1, SeqEqual
    <3> QED BY <3>2 DEF z
  <2> QED BY <2>6 DEF x, y
<1>4. ASSUME NEW i \in 1..n PROVE From(text, i) = mask[i] \o From(text, i + 1)
  <2>1. i + 1 \in 1..(n + 1) /\ mask[i] \in Seq(Symbol) BY <1>0, <1>1
  <2>2. SubSeq(mask, i + 1, n) \in Seq(Seq(Symbol)) BY <1>2, <2>1
  <2> QED BY <1>3, <2>1, <2>2, FlattenPrepended DEF From, mask
<1>5. SubSeq(mask, n + 1, n) = <<>> /\ SubSeq(mask, 1, n) = mask
  <2>1. /\ SubSeq(mask, 1, n) \in Seq(Seq(Symbol)) /\ Len(SubSeq(mask, 1, n)) = n
        /\ \A k \in 1..n : SubSeq(mask, 1, n)[k] = mask[k]
    BY <1>0, <1>1
  <2>2. SubSeq(mask, n + 1, n) \in Seq(Seq(Symbol)) /\ Len(SubSeq(mask, n + 1, n)) = 0 BY <1>0, <1>1
  <2>3. SubSeq(mask, n + 1, n) = <<>> BY <2>2
  <2> DEFINE z == SubSeq(mask, 1, n)
  <2> HIDE DEF z, n
  <2>4. z = mask BY <1>1, <2>1 DEF z
  <2> QED BY <2>3, <2>4 DEF z
<1>6. From(text, n + 1) = <<>> /\ From(text, 1) = Plain(text)
  <2>1. FlattenSeq(<<>>) = <<>> BY DEF FlattenSeq
  <2>2. From(text, n + 1) = FlattenSeq(SubSeq(mask, n + 1, n)) /\ From(text, 1) = FlattenSeq(SubSeq(mask, 1, n))
        /\ Plain(text) = FlattenSeq(mask)
    BY PlainIs DEF From, mask
  <2> QED BY <1>5, <2>1, <2>2
<1>7. ASSUME NEW i \in 1..(n + 1) PROVE From(text, i) \in Seq(Symbol)
  <2>1. SubSeq(mask, i, n) \in Seq(Seq(Symbol)) /\ <<>> \in Seq(Symbol) BY <1>2
  <2>2. FlattenSeq(SubSeq(mask, i, n)) \in Seq(Symbol) BY <2>1, FlattenAppended
  <2> QED BY <2>2 DEF From, mask
<1> QED BY <1>4, <1>6, <1>7 DEF mask

LEMMA MaskIs ==
    ASSUME NEW text \in Snippet, NEW i \in 1..Len(text)
    PROVE  /\ ~Crlf(text, i) /\ text[i] # "LF" => Mask(text)[i] = <<text[i]>>
           /\ Crlf(text, i) => /\ Mask(text)[i] = <<>> /\ i + 1 \in 1..Len(text)
                               /\ text[i + 1] = "LF" /\ After(text, i) = i + 2
           /\ text[i] = "LF" => /\ Mask(text)[i] = IF i = Len(text) THEN <<>> ELSE <<"LF">>
                                /\ After(text, i) = i + 1
<1> DEFINE n == Len(text)
<1>0. n \in Nat /\ DOMAIN text = 1..n BY DEF Snippet
<1>1. Mask(text)[i] = IF i \in Body(text) THEN <<text[i]>> ELSE <<>> BY <1>0 DEF Mask
<1>2. i \in KeptBytes(text) <=> ~Crlf(text, i) BY <1>0 DEF KeptBytes, Crlf
<1>3. i \in Body(text) <=> ~Crlf(text, i) /\ ~(i = n /\ text[i] = "LF") BY <1>0, <1>2 DEF Body
<1>4. text[i] = "LF" => ~Crlf(text, i) BY DEF Crlf
<1>5. Crlf(text, i) => text[i + 1] = "LF" /\ i + 1 \in 1..n BY <1>0 DEF Crlf
<1>6. After(text, i) = IF Crlf(text, i) THEN i + 2 ELSE i + 1 BY DEF After
<1> QED BY <1>1, <1>3, <1>4, <1>5, <1>6

LEMMA EndedLonger ==
    ASSUME NEW b \in Byte \ {"LF"}, NEW l \in Seq(Line), l # <<>>
    PROVE  Ended(<< <<b>> \o Head(l) >> \o Tail(l)) = <<b>> \o Ended(l)
<1> DEFINE h == Head(l) t == Tail(l)
<1>1. h \in Line /\ t \in Seq(Line) /\ l = <<h>> \o t BY HeadTailProperties, SeqEqual
<1> HIDE DEF h, t
<1>2. <<b>> \o h \in Line /\ <<b>> \in Seq(Symbol) BY <1>1 DEF Line, Symbol
<1>3. Append(<<b>> \o h, "LF") = <<b>> \o Append(h, "LF") BY <1>1, <1>2 DEF Line
<1>4. Ended(<< <<b>> \o h >> \o t) = Append(<<b>> \o h, "LF") \o Ended(t) BY <1>1, <1>2, EndedIs
<1>5. Ended(l) = Append(h, "LF") \o Ended(t) /\ Append(h, "LF") \in Seq(Symbol) /\ Ended(t) \in Seq(Symbol)
  BY <1>1, EndedIs
<1>6. (<<b>> \o Append(h, "LF")) \o Ended(t) = <<b>> \o (Append(h, "LF") \o Ended(t)) BY <1>2, <1>5, Regrouped
<1>7. Ended(<< <<b>> \o h >> \o t) = <<b>> \o Ended(l) BY <1>3, <1>4, <1>5, <1>6, Zenon
<1> QED BY <1>7 DEF h, t

\* The reference's text is the lines of the code.
LEMMA FramedIs ==
    ASSUME NEW text \in Snippet
    PROVE  Framed(text) = <<"LF">> \o Ended(NormalLines(text))
<1> DEFINE n == Len(text)
<1>0. n \in Nat /\ \A i \in 1..n : text[i] \in Byte BY DEF Snippet
<1>1. PICK lines \in [1..(n + 1) -> Seq(Line) \ {<<>>}] : Splits(lines, text) BY TextSplits
<1> DEFINE Good(i) == Ended(lines[i]) = From(text, i) \o <<"LF">>
           T == {m \in 0..n : \A i \in (n + 1 - m)..(n + 1) : Good(i)}
<1>2. <<"LF">> \in Seq(Symbol) BY DEF Symbol
<1>3. Ended(<< <<>> >>) = <<"LF">> /\ <<>> \o <<"LF">> = <<"LF">>
  <2>1. <<>> \in Line /\ <<>> \in Seq(Line) BY DEF Line
  <2>2. Ended(Append(<<>>, <<>>)) = Ended(<<>>) \o Append(<<>>, "LF") /\ Ended(<<>>) = <<>>
    BY <2>1, EndedIs
  <2> QED BY <1>2, <2>2
<1>4. Good(n + 1) BY <1>1, <1>3, FromIs DEF Splits
<1>5. 0 \in T
  <2>1. n + 1 - 0 = n + 1 /\ 0 \in 0..n /\ \A i \in (n + 1)..(n + 1) : i = n + 1 BY <1>0
  <2> HIDE DEF Good
  <2> QED BY <1>4, <2>1
<1>6. ASSUME NEW m \in 0..(n - 1), m \in T PROVE m + 1 \in T
  <2> DEFINE k == n - m
  <2>1. /\ k \in 1..n /\ k \in 1..(n + 1) /\ k + 1 \in 1..(n + 1) /\ n + 1 - (m + 1) = k /\ n + 1 - m = k + 1
        /\ m + 1 \in 0..n /\ k..(n + 1) = {k} \cup (k + 1)..(n + 1) /\ k + 1 \in (k + 1)..(n + 1)
        /\ (k # n => k + 2 \in (k + 1)..(n + 1) /\ k + 1 \in 1..n /\ k + 2 \in 1..(n + 1))
        /\ (k + 1) + 1 = k + 2
    BY <1>0
  <2>2. \A i \in (k + 1)..(n + 1) : Good(i) BY <1>6, <2>1
  <2> HIDE DEF k
  <2>3. SplitAt(lines, text, k) BY <1>1, <2>1 DEF Splits
  <2>4. From(text, k) = Mask(text)[k] \o From(text, k + 1) /\ From(text, k + 1) \in Seq(Symbol)
    BY <2>1, FromIs
  <2>5. \A i \in 1..(n + 1) : lines[i] \in Seq(Line) /\ lines[i] # <<>> BY <1>1
  <2>6. \A x \in Seq(Symbol) : <<>> \o x = x OBVIOUS
  <2>7. ASSUME NEW i \in 1..(n + 1) PROVE Ended(<< <<>> >> \o lines[i]) = <<"LF">> \o Ended(lines[i])
    <3>1. <<>> \in Line /\ Append(<<>>, "LF") = <<"LF">> BY DEF Line
    <3> QED BY <2>5, <3>1, EndedIs
  <2>8. Good(k)
    <3>1. CASE ~Crlf(text, k) /\ text[k] # "LF"
      <4>1. lines[k] = << <<text[k]>> \o Head(lines[k + 1]) >> \o Tail(lines[k + 1]) BY <2>3, <3>1 DEF SplitAt
      <4>2. text[k] \in Byte \ {"LF"} /\ <<text[k]>> \in Seq(Symbol) BY <1>0, <2>1, <3>1 DEF Symbol
      <4>3. Ended(lines[k]) = <<text[k]>> \o Ended(lines[k + 1]) BY <2>1, <2>5, <4>1, <4>2, EndedLonger
      <4>4. Ended(lines[k + 1]) = From(text, k + 1) \o <<"LF">> BY <2>1, <2>2
      <4>5. From(text, k) = <<text[k]>> \o From(text, k + 1) BY <2>1, <2>4, <3>1, MaskIs
      <4>6. (<<text[k]>> \o From(text, k + 1)) \o <<"LF">> = <<text[k]>> \o (From(text, k + 1) \o <<"LF">>)
        BY <1>2, <2>4, <4>2, Regrouped
      <4> QED BY <4>3, <4>4, <4>5, <4>6, Zenon
    <3>2. CASE text[k] = "LF"
      <4>1. After(text, k) = k + 1 /\ Mask(text)[k] = IF k = n THEN <<>> ELSE <<"LF">> BY <2>1, <3>2, MaskIs
      <4>2. lines[k] = IF k + 1 > n THEN << <<>> >> ELSE << <<>> >> \o lines[k + 1]
        BY <2>3, <3>2, <4>1 DEF SplitAt
      <4>3. CASE k = n
        <5>1. lines[k] = << <<>> >> BY <1>0, <4>2, <4>3
        <5>2. From(text, k) = <<>> BY <2>4, <2>6, <4>1, <4>3, FromIs
        <5> QED BY <1>3, <5>1, <5>2
      <4>4. CASE k # n
        <5>1. lines[k] = << <<>> >> \o lines[k + 1] BY <1>0, <2>1, <4>2, <4>4
        <5>2. Ended(lines[k]) = <<"LF">> \o Ended(lines[k + 1]) BY <2>1, <2>7, <5>1
        <5>3. Ended(lines[k + 1]) = From(text, k + 1) \o <<"LF">> BY <2>1, <2>2
        <5>4. From(text, k) = <<"LF">> \o From(text, k + 1) BY <2>4, <4>1, <4>4
        <5>5. (<<"LF">> \o From(text, k + 1)) \o <<"LF">> = <<"LF">> \o (From(text, k + 1) \o <<"LF">>)
          BY <1>2, <2>4, Regrouped
        <5> QED BY <5>2, <5>3, <5>4, <5>5, Zenon
      <4> QED BY <4>3, <4>4
    <3>3. CASE Crlf(text, k)
      <4>1. Mask(text)[k] = <<>> /\ k + 1 \in 1..n /\ text[k + 1] = "LF" /\ After(text, k) = k + 2
        BY <2>1, <3>3, MaskIs
      <4>2. From(text, k) = From(text, k + 1) BY <2>4, <2>6, <4>1
      <4>3. lines[k] = IF k + 2 > n THEN << <<>> >> ELSE << <<>> >> \o lines[k + 2]
        BY <2>3, <3>3, <4>1 DEF SplitAt
      <4>4. After(text, k + 1) = k + 2 /\ SplitAt(lines, text, k + 1)
        BY <1>1, <2>1, <4>1, MaskIs DEF Splits
      <4>5. lines[k + 1] = IF k + 2 > n THEN << <<>> >> ELSE << <<>> >> \o lines[k + 2]
        BY <4>1, <4>4 DEF SplitAt
      <4>6. Good(k + 1) BY <2>1, <2>2
      <4> QED BY <4>2, <4>3, <4>5, <4>6
    <3> QED BY <3>1, <3>2, <3>3
  <2> HIDE DEF Good
  <2>9. \A i \in (n + 1 - (m + 1))..(n + 1) : Good(i) BY <2>1, <2>2, <2>8
  <2> QED BY <2>1, <2>9
<1> HIDE DEF T
<1>7. \A m \in 0..n : m \in T
  <2> HIDE DEF n
  <2> QED BY <1>0, <1>5, <1>6, InductionUpTo
<1>8. Good(1)
  <2> HIDE DEF Good
  <2>1. n \in T /\ n + 1 - n = 1 /\ 1 \in 1..(n + 1) BY <1>0, <1>7
  <2> QED BY <2>1 DEF T
<1>9. Ended(NormalLines(text)) = Plain(text) \o <<"LF">> BY <1>1, <1>8, FromIs DEF Splits
<1>10. Plain(text) \in Seq(Symbol)
  <2>1. 1 \in 1..(n + 1) BY <1>0
  <2> QED BY <2>1, FromIs
<1>11. (<<"LF">> \o Plain(text)) \o <<"LF">> = <<"LF">> \o (Plain(text) \o <<"LF">>) BY <1>2, <1>10, Regrouped
<1> QED BY <1>9, <1>11 DEF Framed

\* Where the lines of a framed text are: a[k] is the place of the terminator of
\* the k-th line, a[0] that of the first "LF".
Laid(whole, lines, a) ==
    /\ whole \in Seq(Symbol) /\ a \in [0..Len(lines) -> Nat \ {0}]
    /\ a[0] = 1 /\ Len(whole) = a[Len(lines)]
    /\ \A k \in 0..Len(lines) : whole[a[k]] = "LF"
    /\ \A k \in 1..Len(lines) :
          /\ a[k] = a[k - 1] + Len(lines[k]) + 1
          /\ \A j \in 1..Len(lines[k]) : whole[a[k - 1] + j] = lines[k][j]

LEMMA LaidOut ==
    ASSUME NEW lines \in Seq(Line)
    PROVE  \E a : Laid(<<"LF">> \o Ended(lines), lines, a)
<1> DEFINE T == {s \in Seq(Line) : \E a : Laid(<<"LF">> \o Ended(s), s, a)}
<1>1. <<>> \in T
  <2> DEFINE a == [k \in 0..0 |-> 1]
  <2>0. <<>> \in Line /\ <<>> \in Seq(Line) BY DEF Line
  <2>1. Ended(<<>>) = <<>> BY <2>0, EndedIs
  <2>2. /\ <<"LF">> \o Ended(<<>>) = <<"LF">> /\ <<"LF">> \in Seq(Symbol) /\ Len(<<"LF">>) = 1
        /\ <<"LF">>[1] = "LF"
    <3>1. <<"LF">> \o <<>> = <<"LF">> /\ <<"LF">> \in Seq(Symbol) /\ Len(<<"LF">>) = 1 /\ <<"LF">>[1] = "LF"
      BY DEF Symbol
    <3> QED BY <2>1, <3>1
  <2>3. 0..Len(<<>>) = 0..0 /\ 1..Len(<<>>) = {} /\ a \in [0..0 -> Nat \ {0}] /\ \A k \in 0..0 : k = 0 /\ a[k] = 1
    OBVIOUS
  <2>4. Len(<<>>) = 0 /\ 0 \in 0..0 OBVIOUS
  <2> HIDE DEF a
  <2>5. Laid(<<"LF">>, <<>>, a) BY <2>2, <2>3, <2>4 DEF Laid
  <2> QED BY <2>0, <2>2, <2>5
<1>2. ASSUME NEW s \in Seq(Line), NEW l \in Line, s \in T PROVE Append(s, l) \in T
  <2> DEFINE w == <<"LF">> \o Ended(s)
             v == <<"LF">> \o Ended(Append(s, l))
             n == Len(s)
  <2>1. PICK a : Laid(w, s, a) BY <1>2
  <2> DEFINE b == [k \in 0..(n + 1) |-> IF k = n + 1 THEN a[n] + Len(l) + 1 ELSE a[k]]
  <2>2. /\ n \in Nat /\ Len(l) \in Nat /\ \A j \in 1..Len(l) : l[j] \in Symbol BY DEF Line, Symbol
  <2>3. /\ Append(s, l) \in Seq(Line) /\ Len(Append(s, l)) = n + 1 /\ Append(s, l)[n + 1] = l
        /\ \A k \in 1..n : Append(s, l)[k] = s[k] /\ Len(s[k]) \in Nat
    BY DEF Line
  <2>4. v = w \o Append(l, "LF") /\ Append(l, "LF") \in Seq(Symbol)
    <3>1. Ended(Append(s, l)) = Ended(s) \o Append(l, "LF") /\ Ended(s) \in Seq(Symbol)
          /\ Append(l, "LF") \in Seq(Symbol)
      BY EndedIs
    <3>2. <<"LF">> \in Seq(Symbol) BY DEF Symbol
    <3> DEFINE f == <<"LF">> d == Ended(s) e == Append(l, "LF") both == Ended(Append(s, l))
    <3>3. f \in Seq(Symbol) /\ d \in Seq(Symbol) /\ e \in Seq(Symbol) /\ both = d \o e BY <3>1, <3>2
    <3> HIDE DEF f, d, e, both
    <3>4. (f \o d) \o e = f \o (d \o e) BY <3>3, Regrouped
    <3>5. f \o both = (f \o d) \o e /\ e \in Seq(Symbol) BY <3>3, <3>4, Zenon
    <3> QED BY <3>5 DEF f, d, e, both
  <2>5. Len(Append(l, "LF")) = Len(l) + 1 /\ Append(l, "LF")[Len(l) + 1] = "LF"
        /\ \A j \in 1..Len(l) : Append(l, "LF")[j] = l[j]
    BY DEF Line
  <2>6. /\ w \in Seq(Symbol) /\ Len(w) = a[n] /\ a \in [0..n -> Nat \ {0}] /\ a[0] = 1
        /\ \A k \in 0..n : w[a[k]] = "LF"
        /\ \A k \in 1..n : /\ a[k] = a[k - 1] + Len(s[k]) + 1
                           /\ \A j \in 1..Len(s[k]) : w[a[k - 1] + j] = s[k][j]
    BY <2>1 DEF Laid
  <2> HIDE DEF w, v
  <2>7. /\ v \in Seq(Symbol) /\ Len(v) = a[n] + Len(l) + 1
        /\ \A p \in 1..a[n] : v[p] = w[p]
        /\ \A j \in 1..(Len(l) + 1) : v[a[n] + j] = Append(l, "LF")[j]
    <3>1. a[n] \in Nat BY <2>2, <2>6
    <3> DEFINE e == Append(l, "LF")
    <3> HIDE DEF e
    <3>2. e \in Seq(Symbol) /\ v = w \o e /\ Len(e) = Len(l) + 1 BY <2>4, <2>5 DEF e
    <3>3. /\ w \o e \in Seq(Symbol) /\ Len(w \o e) = Len(w) + Len(e)
          /\ \A p \in 1..Len(w) : (w \o e)[p] = w[p]
          /\ \A j \in 1..Len(e) : (w \o e)[Len(w) + j] = e[j]
      <4>1. w \in Seq(Symbol) /\ e \in Seq(Symbol) BY <2>6, <3>2
      <4> QED BY <4>1, Concatenated
    <3>4. Len(w) + Len(e) = a[n] + Len(l) + 1 BY <2>2, <2>6, <3>1, <3>2
    <3> QED BY <2>6, <3>2, <3>3, <3>4 DEF e
  <2> HIDE DEF n
  <2>8. \A k \in 0..n : a[k] \in Nat \ {0} /\ a[k] <= a[n]
    <3> DEFINE U == {m \in 0..n : a[n - m] <= a[n]}
    <3>1. 0 \in U BY <2>2, <2>6
    <3>2. ASSUME NEW m \in 0..(n - 1), m \in U PROVE m + 1 \in U
      <4>1. n - m \in 1..n /\ (n - m) - 1 = n - (m + 1) /\ m + 1 \in 0..n /\ n - (m + 1) \in 0..n BY <2>2
      <4>2. a[n - m] = a[n - (m + 1)] + Len(s[n - m]) + 1 BY <2>6, <4>1
      <4>3. a[n - m] \in Nat /\ a[n - (m + 1)] \in Nat /\ a[n] \in Nat /\ Len(s[n - m]) \in Nat
        BY <2>2, <2>3, <2>6, <4>1
      <4> QED BY <3>2, <4>1, <4>2, <4>3
    <3> HIDE DEF U
    <3>3. \A m \in 0..n : m \in U BY <2>2, <3>1, <3>2, InductionUpTo
    <3>4. ASSUME NEW k \in 0..n PROVE a[k] <= a[n]
      <4>1. n - k \in 0..n /\ n - (n - k) = k BY <2>2
      <4> QED BY <3>3, <4>1 DEF U
    <3> QED BY <2>6, <3>4
  <2>9. /\ b \in [0..(n + 1) -> Nat \ {0}] /\ b[n + 1] = a[n] + Len(l) + 1 /\ \A k \in 0..n : b[k] = a[k]
    BY <2>2, <2>6
  <2> HIDE DEF b
  <2>10. b[0] = 1 /\ Len(v) = b[n + 1] BY <2>2, <2>6, <2>7, <2>9
  <2>11. ASSUME NEW k \in 0..(n + 1) PROVE v[b[k]] = "LF"
    <3>1. CASE k = n + 1
      <4>0. n \in 0..n /\ a[n] \in Nat BY <2>2, <2>8
      <4> DEFINE len == Len(l) at0 == a[n]
      <4>00. len \in Nat /\ at0 \in Nat BY <2>2, <4>0
      <4> HIDE DEF len, at0
      <4>01. len + 1 \in 1..(len + 1) /\ at0 + (len + 1) = at0 + len + 1 BY <4>00
      <4>1. Len(l) + 1 \in 1..(Len(l) + 1) /\ a[n] + (Len(l) + 1) = a[n] + Len(l) + 1
        BY <4>01 DEF len, at0
      <4>2. v[a[n] + (Len(l) + 1)] = Append(l, "LF")[Len(l) + 1] BY <2>7, <4>1
      <4> QED BY <2>5, <2>9, <3>1, <4>1, <4>2
    <3>2. CASE k # n + 1
      <4>1. k \in 0..n BY <2>2, <3>2
      <4>2. a[k] \in 1..a[n] BY <2>2, <2>8, <4>1
      <4>3. v[a[k]] = w[a[k]] BY <2>7, <4>2
      <4>4. w[a[k]] = "LF" /\ b[k] = a[k] BY <2>6, <2>9, <4>1
      <4> QED BY <4>3, <4>4
    <3> QED BY <3>1, <3>2
  <2>12. ASSUME NEW k \in 1..(n + 1)
         PROVE  /\ b[k] = b[k - 1] + Len(Append(s, l)[k]) + 1
                /\ \A j \in 1..Len(Append(s, l)[k]) : v[b[k - 1] + j] = Append(s, l)[k][j]
    <3>1. CASE k = n + 1
      <4>1. k - 1 = n /\ n \in 0..n BY <2>2, <3>1
      <4>2. b[k - 1] = a[n] /\ b[k] = a[n] + Len(l) + 1 /\ Append(s, l)[k] = l
        BY <2>3, <2>9, <3>1, <4>1
      <4>3. \A j \in 1..Len(l) : j \in 1..(Len(l) + 1) /\ v[a[n] + j] = l[j] BY <2>2, <2>5, <2>7
      <4> QED BY <4>2, <4>3
    <3>2. CASE k # n + 1
      <4>1. k \in 1..n /\ k - 1 \in 0..n /\ k \in 0..n BY <2>2, <3>2
      <4>2. b[k] = a[k] /\ b[k - 1] = a[k - 1] /\ Append(s, l)[k] = s[k] BY <2>3, <2>9, <4>1
      <4>3. a[k] = a[k - 1] + Len(s[k]) + 1 /\ \A j \in 1..Len(s[k]) : w[a[k - 1] + j] = s[k][j]
        BY <2>6, <4>1
      <4>4. \A j \in 1..Len(s[k]) : a[k - 1] + j \in 1..a[n] BY <2>2, <2>3, <2>8, <4>1, <4>3
      <4>5. \A j \in 1..Len(s[k]) : v[a[k - 1] + j] = w[a[k - 1] + j] BY <2>7, <4>4
      <4> QED BY <4>2, <4>3, <4>5
    <3> QED BY <3>1, <3>2
  <2>13. Laid(v, Append(s, l), b)
    BY <2>3, <2>7, <2>9, <2>10, <2>11, <2>12 DEF Laid
  <2> QED BY <2>3, <2>13 DEF v
<1> HIDE DEF T
<1>3. \A s \in Seq(Line) : s \in T BY <1>1, <1>2, SequenceInduction
<1> QED BY <1>3 DEF T

LEMMA LineFacts ==
    ASSUME NEW s \in Seq(Line)
    PROVE  /\ Len(s) \in Nat
           /\ \A k \in 1..Len(s) :
                 s[k] \in Line /\ Len(s[k]) \in Nat /\ \A j \in 1..Len(s[k]) : s[k][j] # "LF"
BY DEF Line

LEMMA LaidRises ==
    ASSUME NEW w, NEW s \in Seq(Line), NEW a, Laid(w, s, a)
    PROVE  \A k, l \in 0..Len(s) : k < l => a[k] < a[l]
<1> DEFINE n == Len(s)
           U == {m \in 0..n : \A k \in 0..m : k < m => a[k] < a[m]}
<1>0. n \in Nat /\ \A k \in 0..n : a[k] \in Nat BY LineFacts DEF Laid
<1>1. \A k \in 1..n : a[k - 1] < a[k]
  <2> SUFFICES ASSUME NEW k \in 1..n PROVE a[k - 1] < a[k] OBVIOUS
  <2>1. k - 1 \in 0..n /\ k \in 0..n BY <1>0
  <2>2. a[k] = a[k - 1] + Len(s[k]) + 1 /\ Len(s[k]) \in Nat BY LineFacts DEF Laid
  <2> QED BY <1>0, <2>1, <2>2
<1> HIDE DEF n
<1>2. 0 \in U BY <1>0
<1>3. ASSUME NEW m \in 0..(n - 1), m \in U PROVE m + 1 \in U
  <2>1. m + 1 \in 0..n /\ m \in 0..n /\ m + 1 \in 1..n /\ (m + 1) - 1 = m BY <1>0
  <2>2. a[m] < a[m + 1] BY <1>1, <2>1
  <2>3. ASSUME NEW k \in 0..(m + 1), k < m + 1 PROVE a[k] < a[m + 1]
    <3>1. k \in 0..m /\ k \in 0..n BY <1>0, <2>3
    <3>2. k = m \/ a[k] < a[m] BY <1>3, <3>1
    <3> QED BY <1>0, <2>1, <2>2, <3>1, <3>2
  <2> QED BY <2>1, <2>3
<1> HIDE DEF U
<1>4. \A m \in 0..n : m \in U BY <1>0, <1>2, <1>3, InductionUpTo
<1>5. ASSUME NEW k \in 0..n, NEW l \in 0..n, k < l PROVE a[k] < a[l]
  <2>1. k \in 0..l BY <1>0, <1>5
  <2> QED BY <1>4, <1>5, <2>1 DEF U
<1> QED BY <1>5 DEF n

\* Every place is a terminator's or in a line.
LEMMA EveryPlace ==
    ASSUME NEW w, NEW s \in Seq(Line), NEW a, Laid(w, s, a), NEW p \in 1..Len(w)
    PROVE  \/ \E k \in 0..Len(s) : p = a[k]
           \/ \E k \in 1..Len(s) : \E j \in 1..Len(s[k]) : p = a[k - 1] + j
<1> DEFINE n == Len(s)
           reached == {k \in 0..n : p <= a[k]}
<1>0. n \in Nat /\ Len(w) = a[n] /\ n \in 0..n /\ \A k \in 0..n : a[k] \in Nat
  <2>1. n \in Nat BY LineFacts
  <2>2. Len(w) = a[n] /\ \A k \in 0..n : a[k] \in Nat BY DEF Laid
  <2> HIDE DEF n
  <2> QED BY <2>1, <2>2
<1>1. n \in reached BY <1>0
<1>2. PICK k \in reached : \A j \in reached : k <= j
  <2>1. reached \in SUBSET Nat BY <1>0
  <2> HIDE DEF reached
  <2> QED BY <1>1, <2>1, LeastNatural
<1>3. CASE k = 0
  <2>1. a[0] = 1 BY LineFacts DEF Laid
  <2>2. p = a[0] /\ 0 \in 0..n BY <1>0, <1>2, <1>3, <2>1
  <2> QED BY <2>2
<1>4. CASE k # 0
  <2>1. k \in 1..n /\ k - 1 \in 0..n /\ k \in 0..n /\ ~(k <= k - 1) BY <1>0, <1>4
  <2>2. ~(p <= a[k - 1]) BY <1>2, <2>1
  <2>3. a[k] = a[k - 1] + Len(s[k]) + 1 /\ Len(s[k]) \in Nat BY <2>1, LineFacts DEF Laid
  <2>4. p <= a[k] BY <1>2
  <2>5. p \in Nat BY <1>0
  <2>6. p - a[k - 1] \in Nat \ {0} /\ a[k - 1] + (p - a[k - 1]) = p BY <1>0, <2>1, <2>2, <2>5
  <2>7. CASE p < a[k]
    <3>1. p - a[k - 1] \in 1..Len(s[k]) BY <1>0, <2>1, <2>3, <2>5, <2>6, <2>7
    <3> QED BY <2>1, <2>6, <3>1
  <2>8. CASE p = a[k] BY <2>1, <2>8
  <2> QED BY <1>0, <2>1, <2>4, <2>5, <2>7, <2>8
<1> QED BY <1>3, <1>4

\* The terminators are nowhere else.
LEMMA Terminators ==
    ASSUME NEW w, NEW s \in Seq(Line), NEW a, Laid(w, s, a), NEW p \in 1..Len(w), w[p] = "LF"
    PROVE  \E k \in 0..Len(s) : p = a[k]
<1>1. SUFFICES ASSUME NEW k \in 1..Len(s), NEW j \in 1..Len(s[k]), p = a[k - 1] + j PROVE FALSE
  BY EveryPlace
<1>2. w[a[k - 1] + j] = s[k][j] /\ s[k][j] # "LF" BY LineFacts DEF Laid
<1> QED BY <1>1, <1>2

\* A framed snippet starts at a place of a framed source.
At(whole, part, p) ==
    /\ p \in 1..(Len(whole) + 1 - Len(part))
    /\ \A q \in 1..Len(part) : whole[p + q - 1] = part[q]

\* Lines that are the same at one start are at the same distance from it.
SameFrom(lines, source, s, k) ==
    s + k <= Len(source) /\ \A i \in 1..k : lines[i] = source[s + i]

AsFar(a, b, s, m) == \A k \in 0..m : a[s + k] = a[s] + b[k] - 1

LEMMA SameDistance ==
    ASSUME NEW w, NEW v, NEW lines \in Seq(Line), NEW source \in Seq(Line), NEW a, NEW b,
           Laid(w, source, a), Laid(v, lines, b), NEW s \in 0..Len(source), NEW m \in 0..Len(lines),
           SameFrom(lines, source, s, m)
    PROVE  AsFar(a, b, s, m)
<1> DEFINE U == {k \in 0..m : a[s + k] = a[s] + b[k] - 1}
<1>0. /\ Len(source) \in Nat /\ Len(lines) \in Nat /\ m \in Nat /\ s \in Nat /\ s + m <= Len(source) /\ m <= Len(lines)
      /\ \A k \in 0..Len(source) : a[k] \in Nat
      /\ \A k \in 0..Len(lines) : b[k] \in Nat
  <2>1. Len(source) \in Nat /\ Len(lines) \in Nat /\ m \in Nat /\ s \in Nat /\ m <= Len(lines) BY LineFacts
  <2>2. s + m <= Len(source) BY DEF SameFrom
  <2>3. (\A k \in 0..Len(source) : a[k] \in Nat) /\ \A k \in 0..Len(lines) : b[k] \in Nat BY DEF Laid
  <2> QED BY <2>1, <2>2, <2>3
<1>1. 0 \in U
  <2>1. b[0] = 1 /\ s + 0 = s /\ a[s] \in Nat BY <1>0, LineFacts DEF Laid
  <2> QED BY <1>0, <2>1
<1>2. ASSUME NEW k \in 0..(m - 1), k \in U PROVE k + 1 \in U
  <2>1. /\ k + 1 \in 1..m /\ k + 1 \in 1..Len(lines) /\ s + (k + 1) \in 1..Len(source) /\ (k + 1) - 1 = k
        /\ (s + (k + 1)) - 1 = s + k /\ k \in 0..Len(lines) /\ s + k \in 0..Len(source) /\ k + 1 \in 0..m
        /\ k + 1 \in 0..Len(lines) /\ s + (k + 1) \in 0..Len(source)
    BY <1>0
  <2>2. a[s + (k + 1)] = a[s + k] + Len(source[s + (k + 1)]) + 1 BY <2>1, LineFacts DEF Laid
  <2>3. b[k + 1] = b[k] + Len(lines[k + 1]) + 1 /\ Len(lines[k + 1]) \in Nat BY <2>1, LineFacts DEF Laid
  <2>4. lines[k + 1] = source[s + (k + 1)] BY <2>1 DEF SameFrom
  <2>5. a[s + k] = a[s] + b[k] - 1 BY <1>2
  <2>6. a[s] \in Nat /\ b[k] \in Nat /\ a[s + k] \in Nat BY <1>0, <2>1
  <2>7. a[s + (k + 1)] = a[s] + b[k + 1] - 1
    <3> DEFINE x == a[s + k] y == a[s + (k + 1)] l == Len(lines[k + 1]) z == b[k + 1] g == a[s] h == b[k]
    <3>1. y = x + l + 1 /\ z = h + l + 1 /\ l \in Nat BY <2>2, <2>3, <2>4
    <3>2. x = g + h - 1 /\ x \in Nat /\ g \in Nat /\ h \in Nat BY <2>5, <2>6
    <3> HIDE DEF x, y, l, z, g, h
    <3>3. y = g + z - 1 BY <3>1, <3>2
    <3> QED BY <3>3 DEF y, z, g
  <2> QED BY <2>1, <2>7
<1> HIDE DEF U
<1>3. \A k \in 0..m : k \in U BY <1>0, <1>1, <1>2, InductionUpTo
<1> QED BY <1>3 DEF U, AsFar

LEMMA MatchOccurs ==
    ASSUME NEW w, NEW v, NEW lines \in Seq(Line), NEW source \in Seq(Line), NEW a, NEW b,
           Laid(w, source, a), Laid(v, lines, b), NEW s \in 0..Len(source),
           SameFrom(lines, source, s, Len(lines))
    PROVE  At(w, v, a[s])
<1> DEFINE m == Len(lines) n == Len(source)
<1>0. /\ n \in Nat /\ m \in Nat /\ m \in 0..m /\ n \in 0..n /\ s + m \in 0..n
      /\ \A k \in 1..m : s + k \in 1..n /\ s + k \in 0..n /\ k - 1 \in 0..m /\ (s + k) - 1 = s + (k - 1)
      /\ \A k \in 0..m : s + k \in 0..n
  <2>1. n \in Nat /\ m \in Nat BY LineFacts
  <2>2. s + m <= n BY DEF SameFrom
  <2> HIDE DEF m, n
  <2> QED BY <2>1, <2>2
<1>1. \A k \in 0..m : a[s + k] = a[s] + b[k] - 1
  <2>1. AsFar(a, b, s, Len(lines)) BY <1>0, SameDistance
  <2> QED BY <2>1 DEF AsFar
<1>2. /\ \A k \in 0..n : a[k] \in Nat \ {0} /\ w[a[k]] = "LF"
      /\ \A k \in 1..n : \A j \in 1..Len(source[k]) : w[a[k - 1] + j] = source[k][j]
      /\ Len(w) = a[n]
  BY DEF Laid
<1>3. /\ \A k \in 0..m : b[k] \in Nat \ {0} /\ v[b[k]] = "LF"
      /\ \A k \in 1..m : \A j \in 1..Len(lines[k]) : v[b[k - 1] + j] = lines[k][j]
      /\ Len(v) = b[m]
  BY DEF Laid
<1>4. a[s] \in 1..(Len(w) + 1 - Len(v))
  <2>1. a[s + m] <= a[n]
    <3>1. s + m = n \/ s + m < n BY <1>0
    <3>2. s + m < n => a[s + m] < a[n] BY <1>0, LaidRises
    <3>3. a[s + m] \in Nat /\ a[n] \in Nat BY <1>0, <1>2
    <3> HIDE DEF m, n
    <3> QED BY <3>1, <3>2, <3>3
  <2>2. a[s + m] = a[s] + b[m] - 1 BY <1>0, <1>1
  <2>3. a[s] \in Nat \ {0} /\ a[n] \in Nat /\ b[m] \in Nat BY <1>0, <1>2, <1>3
  <2> QED BY <1>2, <1>3, <2>1, <2>2, <2>3
<1>5. ASSUME NEW q \in 1..Len(v) PROVE w[a[s] + q - 1] = v[q]
  <2>0. a[s] \in Nat BY <1>2
  <2>1. CASE \E k \in 0..m : q = b[k]
    <3>1. PICK k \in 0..m : q = b[k] BY <2>1
    <3>2. w[a[s + k]] = "LF" BY <1>0, <1>2
    <3> QED BY <1>1, <1>3, <3>1, <3>2
  <2>2. CASE \E k \in 1..m : \E j \in 1..Len(lines[k]) : q = b[k - 1] + j
    <3>0. PICK k \in 1..m : \E j \in 1..Len(lines[k]) : q = b[k - 1] + j BY <2>2
    <3>1. PICK j \in 1..Len(lines[k]) : q = b[k - 1] + j BY <3>0
    <3>2. lines[k] = source[s + k] BY DEF SameFrom
    <3>3. v[q] = lines[k][j] BY <1>3, <3>1
    <3>4. w[a[(s + k) - 1] + j] = source[s + k][j] BY <1>0, <1>2, <3>2
    <3>5. a[(s + k) - 1] = a[s] + b[k - 1] - 1 BY <1>0, <1>1
    <3>6. b[k - 1] \in Nat /\ j \in Nat BY <1>0, <1>3
    <3>7. a[(s + k) - 1] + j = a[s] + q - 1
      <4> DEFINE x == a[s] y == b[k - 1] z == a[(s + k) - 1]
      <4>1. x \in Nat /\ y \in Nat /\ z = x + y - 1 /\ q = y + j BY <2>0, <3>1, <3>5, <3>6
      <4> HIDE DEF x, y, z
      <4>2. z + j = x + q - 1 BY <3>6, <4>1
      <4> QED BY <4>2 DEF x, z
    <3> QED BY <3>2, <3>3, <3>4, <3>7
  <2> QED BY <2>1, <2>2, EveryPlace
<1> QED BY <1>4, <1>5 DEF At

LEMMA OccurrenceMatches ==
    ASSUME NEW w, NEW v, NEW lines \in Seq(Line), NEW source \in Seq(Line), NEW a, NEW b,
           Laid(w, source, a), Laid(v, lines, b), NEW p, At(w, v, p)
    PROVE  \E s \in 0..Len(source) : p = a[s] /\ SameFrom(lines, source, s, Len(lines))
<1> DEFINE m == Len(lines) n == Len(source)
<1>0. n \in Nat /\ m \in Nat /\ m \in 0..m /\ 0 \in 0..m /\ n \in 0..n BY LineFacts
<1>1. /\ \A k \in 0..n : a[k] \in Nat \ {0} /\ w[a[k]] = "LF"
      /\ \A k \in 1..n : /\ a[k] = a[k - 1] + Len(source[k]) + 1
                         /\ \A j \in 1..Len(source[k]) : w[a[k - 1] + j] = source[k][j]
      /\ Len(w) = a[n]
  BY DEF Laid
<1>2. /\ \A k \in 0..m : b[k] \in Nat \ {0} /\ v[b[k]] = "LF"
      /\ \A k \in 1..m : /\ b[k] = b[k - 1] + Len(lines[k]) + 1
                         /\ \A j \in 1..Len(lines[k]) : v[b[k - 1] + j] = lines[k][j]
      /\ Len(v) = b[m] /\ b[0] = 1
  BY DEF Laid
<1>3. \A k, l \in 0..m : k < l => b[k] < b[l] BY LaidRises
<1>4. \A k \in 0..m : b[k] \in 1..b[m]
  <2> SUFFICES ASSUME NEW k \in 0..m PROVE b[k] \in 1..b[m] OBVIOUS
  <2>1. k = m \/ k < m BY <1>0
  <2>2. b[k] \in Nat \ {0} /\ b[m] \in Nat /\ (k < m => b[k] < b[m]) BY <1>0, <1>2, <1>3
  <2> QED BY <2>1, <2>2
<1>5. p \in Nat \ {0} /\ p + b[m] - 1 <= a[n] /\ \A q \in 1..b[m] : w[p + q - 1] = v[q]
  BY <1>0, <1>1, <1>2 DEF At
<1>6. PICK s \in 0..n : p = a[s]
  <2>1. b[0] \in 1..b[m] /\ b[0] = 1 /\ v[b[0]] = "LF" /\ p + 1 - 1 = p BY <1>0, <1>2, <1>4, <1>5
  <2>2. w[p] = "LF" BY <1>5, <2>1
  <2>3. p \in 1..Len(w) BY <1>0, <1>1, <1>2, <1>5
  <2> QED BY <2>2, <2>3, Terminators
<1> DEFINE U == {k \in 0..m : SameFrom(lines, source, s, k)}
<1>7. 0 \in U BY <1>0 DEF SameFrom
<1>8. ASSUME NEW k \in 0..(m - 1), k \in U PROVE k + 1 \in U
  <2> DEFINE t == s + k x == a[t]
  <2>1. k + 1 \in 1..m /\ k + 1 \in 0..m /\ (k + 1) - 1 = k /\ k \in 0..m /\ k \in Nat BY <1>0
  <2>2. SameFrom(lines, source, s, k) BY <1>8
  <2>3. t \in 0..n BY <1>0, <2>1, <2>2 DEF SameFrom
  <2>4. x = p + b[k] - 1
    <3>0. AsFar(a, b, s, k) BY <2>1, <2>2, SameDistance
    <3>1. \A l \in 0..k : a[s + l] = a[s] + b[l] - 1 BY <3>0 DEF AsFar
    <3>2. k \in 0..k BY <2>1
    <3> QED BY <1>6, <3>1, <3>2
  <2>5. /\ b[k + 1] = b[k] + Len(lines[k + 1]) + 1 /\ Len(lines[k + 1]) \in Nat
        /\ \A j \in 1..Len(lines[k + 1]) : v[b[k] + j] = lines[k + 1][j] /\ lines[k + 1][j] # "LF"
    BY <1>2, <2>1, LineFacts
  <2>6. b[k] \in 1..b[m] /\ b[k + 1] \in 1..b[m] /\ v[b[k + 1]] = "LF" /\ b[m] \in Nat /\ b[k] \in Nat
    BY <1>0, <1>2, <1>4, <2>1
  <2>7. x \in Nat /\ a[n] \in Nat BY <1>0, <1>1, <2>3
  <2>8. t # n
    <3>1. x < a[n]
      <4> DEFINE y == b[k] z == b[k + 1] l == Len(lines[k + 1]) e == b[m] g == a[n]
      <4>1. /\ x \in Nat /\ y \in Nat /\ l \in Nat /\ e \in Nat /\ g \in Nat /\ x = p + y - 1
            /\ z = y + l + 1 /\ z <= e /\ p + e - 1 <= g
        BY <1>5, <2>4, <2>5, <2>6, <2>7
      <4> HIDE DEF x, y, z, l, e, g
      <4>2. x < g BY <1>5, <4>1
      <4> QED BY <4>2 DEF g
    <3> QED BY <2>7, <3>1
  <2>9. t + 1 \in 1..n /\ t + 1 \in 0..n /\ (t + 1) - 1 = t /\ s + (k + 1) = t + 1 BY <1>0, <2>3, <2>8
  <2>10. /\ a[t + 1] = x + Len(source[t + 1]) + 1 /\ Len(source[t + 1]) \in Nat
         /\ \A j \in 1..Len(source[t + 1]) : w[x + j] = source[t + 1][j] /\ source[t + 1][j] # "LF"
         /\ w[a[t + 1]] = "LF"
    BY <1>1, <2>9, LineFacts
  <2>11. \A j \in 1..(Len(lines[k + 1]) + 1) : w[x + j] = v[b[k] + j]
    <3> SUFFICES ASSUME NEW j \in 1..(Len(lines[k + 1]) + 1) PROVE w[x + j] = v[b[k] + j] OBVIOUS
    <3>1. b[k] + j \in 1..b[m] /\ p + (b[k] + j) - 1 = x + j
      <4> DEFINE y == b[k] z == b[k + 1] l == Len(lines[k + 1]) e == b[m]
      <4>1. /\ y \in Nat /\ l \in Nat /\ e \in Nat /\ x \in Nat /\ x = p + y - 1 /\ z = y + l + 1 /\ z <= e
            /\ j \in 1..(l + 1) /\ y \in 1..e
        BY <2>4, <2>5, <2>6, <2>7
      <4> HIDE DEF x, y, z, l, e
      <4>2. y + j \in 1..e /\ p + (y + j) - 1 = x + j BY <1>5, <4>1
      <4> QED BY <4>2 DEF y, e
    <3> QED BY <1>5, <3>1
  <2> HIDE DEF t, x
  <2> DEFINE e == lines[k + 1] c == source[t + 1]
  <2>12. e \in Line /\ c \in Line /\ Len(e) \in Nat /\ Len(c) \in Nat BY <2>1, <2>9, LineFacts
  <2>13. \A j \in 1..Len(e) : w[x + j] = e[j] /\ e[j] # "LF"
    <3>1. \A j \in 1..Len(e) : j \in 1..(Len(e) + 1) BY <2>12
    <3> QED BY <2>5, <2>11, <3>1
  <2>14. w[x + (Len(e) + 1)] = "LF"
    <3>1. Len(e) + 1 \in 1..(Len(e) + 1) BY <2>12
    <3>2. b[k + 1] = b[k] + (Len(e) + 1) BY <2>5, <2>6
    <3> QED BY <2>6, <2>11, <3>1, <3>2
  <2>15. w[x + (Len(c) + 1)] = "LF"
    <3>1. a[t + 1] = x + (Len(c) + 1) BY <2>7, <2>10
    <3> QED BY <2>10, <3>1
  <2>16. \A j \in 1..Len(c) : w[x + j] = c[j] /\ c[j] # "LF" BY <2>10
  <2> HIDE DEF e, c
  <2>17. Len(e) = Len(c)
    <3>1. ~(Len(e) + 1 \in 1..Len(c)) BY <2>14, <2>16
    <3>2. ~(Len(c) + 1 \in 1..Len(e)) BY <2>13, <2>15
    <3> QED BY <2>12, <3>1, <3>2
  <2>18. e = c
    <3>1. \A j \in 1..Len(e) : e[j] = c[j] BY <2>13, <2>16, <2>17
    <3> QED BY <2>12, <2>17, <3>1, SeqEqual DEF Line
  <2>19. s + (k + 1) <= n /\ \A i \in 1..(k + 1) : lines[i] = source[s + i]
    <3>1. s + (k + 1) <= n BY <1>0, <2>9
    <3>2. lines[k + 1] = source[s + (k + 1)] BY <2>9, <2>18 DEF e, c
    <3>3. \A i \in 1..k : lines[i] = source[s + i] BY <2>2 DEF SameFrom
    <3>4. \A i \in 1..(k + 1) : i \in 1..k \/ i = k + 1 BY <2>1
    <3> QED BY <3>1, <3>2, <3>3, <3>4
  <2> QED BY <2>1, <2>19 DEF SameFrom
<1> HIDE DEF U
<1>9. \A k \in 0..m : k \in U
  <2> HIDE DEF m
  <2> QED BY <1>0, <1>7, <1>8, InductionUpTo
<1>10. SameFrom(lines, source, s, m) BY <1>0, <1>9 DEF U
<1> QED BY <1>6, <1>10

LEMMA LinesOfText ==
    ASSUME NEW text \in Snippet
    PROVE  /\ NormalLines(text) \in Seq(Line) /\ Len(NormalLines(text)) \in Nat \ {0}
           /\ DOMAIN NormalLines(text) = 1..Len(NormalLines(text))
           /\ LineCount(NormalLines(text)) \in 0..Len(NormalLines(text))
           /\ ~IsEmptyText(NormalLines(text)) => LineCount(NormalLines(text)) = Len(NormalLines(text))
           /\ IsEmptyText(NormalLines(text)) =>
                 LineCount(NormalLines(text)) = 0 /\ Len(NormalLines(text)) = 1
           /\ \E a : Laid(Framed(text), NormalLines(text), a)
<1> DEFINE x == NormalLines(text)
<1>1. x \in Seq(Line) /\ x # <<>> BY NormalLinesAre
<1>2. \E a : Laid(Framed(text), x, a) BY <1>1, LaidOut, FramedIs
<1> HIDE DEF x
<1>3. Len(x) \in Nat \ {0} /\ DOMAIN x = 1..Len(x) BY <1>1
<1>4. IsEmptyText(x) => Len(x) = 1 BY DEF IsEmptyText
<1>5. LineCount(x) = IF IsEmptyText(x) THEN 0 ELSE Len(x) BY DEF LineCount
<1> QED BY <1>1, <1>2, <1>3, <1>4, <1>5 DEF x

\* A contract with a snippet to search for, and a text to search.
Searchable(c) ==
    /\ c.code \in Snippet /\ ~IsEmptyText(NormalLines(c.code))
    /\ sources[c.file] \in Snippet

Rises(a, n) == \A k, l \in 0..n : k < l => a[k] < a[l]

LEMMA OccurrencesAreHits ==
    ASSUME NEW c, Searchable(c)
    PROVE  \E n \in Nat : \E a : /\ a \in [0..n -> Nat] /\ Rises(a, n) /\ Hits(c) \subseteq 0..n
                             /\ Occurrences(c) = {a[s] : s \in Hits(c)}
<1> DEFINE lines == NormalLines(c.code) source == NormalLines(sources[c.file])
           w == Framed(sources[c.file]) v == Framed(c.code)
           m == Len(lines) n == Len(source)
<1>1. /\ lines \in Seq(Line) /\ source \in Seq(Line) /\ m \in Nat \ {0} /\ n \in Nat \ {0}
      /\ DOMAIN lines = 1..m
      /\ LineCount(lines) = m /\ LineCount(source) \in 0..n
      /\ ~IsEmptyText(source) => LineCount(source) = n
      /\ IsEmptyText(source) => LineCount(source) = 0 /\ n = 1
  BY LinesOfText DEF Searchable
<1>2. PICK a : Laid(w, source, a) BY LinesOfText DEF Searchable
<1>3. PICK b : Laid(v, lines, b) BY LinesOfText DEF Searchable
<1>4. a \in [0..n -> Nat] /\ Rises(a, n)
  <2>1. a \in [0..n -> Nat \ {0}] BY <1>2 DEF Laid
  <2>2. \A k, l \in 0..n : k < l => a[k] < a[l] BY <1>1, <1>2, LaidRises
  <2> QED BY <2>1, <2>2 DEF Rises
<1>5. \A s : s \in Hits(c) <=> s \in 0..(LineCount(source) - 1) /\ MatchesAt(lines, source, s)
  BY DEF Hits, Starts
<1>6. ASSUME NEW s \in Nat PROVE s \in Hits(c) <=> s \in 0..n /\ SameFrom(lines, source, s, m)
  <2>1. s \in Hits(c) => s \in 0..n /\ SameFrom(lines, source, s, m)
    <3> SUFFICES ASSUME s \in Hits(c) PROVE s \in 0..n /\ SameFrom(lines, source, s, m) OBVIOUS
    <3>1. s \in 0..(LineCount(source) - 1) /\ s + m <= LineCount(source) /\ Differences(lines, source, s) = {}
      BY <1>1, <1>5 DEF MatchesAt, Fits
    <3>2. \A i \in 1..m : lines[i] = source[s + i] BY <1>1, <3>1 DEF Differences, Agrees
    <3>3. s \in 0..n /\ s + m <= n BY <1>1, <3>1
    <3> QED BY <3>2, <3>3 DEF SameFrom
  <2>2. s \in 0..n /\ SameFrom(lines, source, s, m) => s \in Hits(c)
    <3> SUFFICES ASSUME s \in 0..n, SameFrom(lines, source, s, m) PROVE s \in Hits(c) OBVIOUS
    <3>1. s + m <= n /\ \A i \in 1..m : lines[i] = source[s + i] BY DEF SameFrom
    <3>2. ~IsEmptyText(source)
      <4> SUFFICES ASSUME source = << <<>> >> PROVE FALSE BY DEF IsEmptyText
      <4>1. n = 1 /\ source[1] = <<>> OBVIOUS
      <4> HIDE DEF source, lines, n, m
      <4>2. s = 0 /\ m = 1 BY <1>1, <3>1, <4>1
      <4>3. 1 \in 1..m /\ s + 1 = 1 BY <4>2
      <4>4. lines[1] = source[1] BY <3>1, <4>3
      <4>5. lines[1] = <<>> BY <4>1, <4>4
      <4>6. << <<>> >> \in Seq(Line) /\ Len(<< <<>> >>) = 1 /\ << <<>> >>[1] = <<>> BY DEF Line
      <4>7. lines = << <<>> >>
        <5> DEFINE e == << <<>> >>
        <5>1. Len(lines) = 1 BY <4>2 DEF m
        <5>2. e \in Seq(Line) /\ Len(e) = 1 /\ \A i \in 1..Len(e) : e[i] = lines[i] BY <4>5, <4>6
        <5> HIDE DEF e
        <5>3. e = lines BY <1>1, <5>1, <5>2, SeqEqual
        <5> QED BY <5>3 DEF e
      <4> QED BY <4>7 DEF Searchable, IsEmptyText, lines
    <3>3. LineCount(source) = n BY <1>1, <3>2
    <3>4. Fits(lines, source, s) BY <1>1, <3>1, <3>3 DEF Fits
    <3>5. \A i \in 1..m : Agrees(lines, source, s, i) BY <1>1, <3>1 DEF Agrees
    <3>6. Differences(lines, source, s) = {} BY <1>1, <3>5 DEF Differences
    <3>7. s \in 0..(n - 1) BY <1>1, <3>1
    <3> QED BY <1>5, <3>3, <3>4, <3>6, <3>7 DEF MatchesAt
  <2> QED BY <2>1, <2>2
<1>7. Hits(c) \subseteq 0..n
  <2>1. \A s \in Hits(c) : s \in Nat BY <1>1, <1>5
  <2> QED BY <1>6, <2>1
<1>8. \A p : p \in Occurrences(c) <=> At(w, v, p)
  <2>1. Occurrences(c) = {p \in 1..(Len(w) + 1 - Len(v)) : SubSeq(w, p, p + Len(v) - 1) = v}
    BY DEF Occurrences
  <2>2. w \in Seq(Symbol) /\ v \in Seq(Symbol) BY <1>2, <1>3 DEF Laid
  <2> HIDE DEF w, v
  <2>3. ASSUME NEW p \in 1..(Len(w) + 1 - Len(v))
        PROVE  SubSeq(w, p, p + Len(v) - 1) = v <=> \A q \in 1..Len(v) : w[p + q - 1] = v[q]
    <3> DEFINE x == SubSeq(w, p, p + Len(v) - 1)
    <3>0. Len(w) \in Nat /\ Len(v) \in Nat BY <2>2
    <3>1. x \in Seq(Symbol) /\ Len(x) = Len(v) /\ \A q \in 1..Len(v) : x[q] = w[p + q - 1]
      <4>1. p \in Nat /\ p \in 1..(Len(w) + 1) /\ p + Len(v) - 1 \in (p - 1)..Len(w) BY <3>0
      <4>2. x \in Seq(Symbol) /\ Len(x) = (p + Len(v) - 1) - p + 1
            /\ \A q \in 1..((p + Len(v) - 1) - p + 1) : x[q] = w[p + q - 1]
        BY <2>2, <3>0, <4>1
      <4>3. (p + Len(v) - 1) - p + 1 = Len(v) BY <3>0, <4>1
      <4> HIDE DEF x
      <4> QED BY <4>2, <4>3
    <3> HIDE DEF x
    <3>2. x = v <=> \A q \in 1..Len(v) : x[q] = v[q]
      <4>1. (\A q \in 1..Len(v) : x[q] = v[q]) => x = v BY <2>2, <3>1, SeqEqual
      <4> QED BY <4>1
    <3> QED BY <3>1, <3>2 DEF x
  <2> QED BY <2>1, <2>3 DEF At
<1>9. Occurrences(c) = {a[s] : s \in Hits(c)}
  <2>1. ASSUME NEW s \in Hits(c) PROVE a[s] \in Occurrences(c)
    <3>1. s \in 0..Len(source) /\ SameFrom(lines, source, s, Len(lines)) BY <1>6, <1>7
    <3>2. At(w, v, a[s])
      <4> HIDE DEF w, v, lines, source
      <4> QED BY <1>1, <1>2, <1>3, <3>1, MatchOccurs
    <3> QED BY <1>8, <3>2
  <2>2. ASSUME NEW p \in Occurrences(c) PROVE \E s \in Hits(c) : p = a[s]
    <3>1. At(w, v, p) BY <1>8
    <3>2. PICK s \in 0..Len(source) : p = a[s] /\ SameFrom(lines, source, s, Len(lines))
      <4> HIDE DEF w, v, lines, source
      <4> QED BY <1>1, <1>2, <1>3, <3>1, OccurrenceMatches
    <3>3. s \in Nat /\ s \in Hits(c) BY <1>1, <1>6, <3>2
    <3> QED BY <3>2, <3>3
  <2> HIDE DEF w, v, lines, source, m, n
  <2> QED BY <2>1, <2>2
<1>10. n \in Nat BY <1>1
<1> HIDE DEF w, v, lines, source, m, n
<1> QED BY <1>4, <1>7, <1>9, <1>10

\* As many of the one as of the other, and the first of each.
Places(a, S) == {a[s] : s \in S}
LEMMA CountedAlike ==
    ASSUME NEW n \in Nat, NEW a \in [0..n -> Nat], Rises(a, n), NEW S \in SUBSET (0..n)
    PROVE  IsFiniteSet(S) /\ IsFiniteSet(Places(a, S)) /\ Cardinality(Places(a, S)) = Cardinality(S)
<1> DEFINE T == {a[s] : s \in S}
           f == [s \in S |-> a[s]]
<1>1. IsFiniteSet(S)
  <2>1. IsFiniteSet(0..n) BY FS_Interval
  <2> QED BY <2>1, FS_Subset
<1>2. f \in Bijection(S, T)
  <2>1. f \in [S -> T] OBVIOUS
  <2>2. ASSUME NEW k \in S, NEW l \in S, f[k] = f[l] PROVE k = l
    <3>1. k \in 0..n /\ l \in 0..n /\ a[k] \in Nat /\ a[l] \in Nat /\ a[k] = a[l] BY <2>2
    <3>2. ~(k < l) /\ ~(l < k) BY <3>1 DEF Rises
    <3> QED BY <3>1, <3>2
  <2>3. \A t \in T : \E s \in S : f[s] = t OBVIOUS
  <2> HIDE DEF f, T
  <2> QED BY <2>1, <2>2, <2>3 DEF Bijection, Injection, Surjection, IsInjective
<1> HIDE DEF T, f
<1>3. ExistsBijection(S, T) BY <1>2 DEF ExistsBijection
<1>4. IsFiniteSet(T) /\ Cardinality(T) = Cardinality(S) BY <1>1, <1>3, FS_Bijection
<1> QED BY <1>1, <1>4 DEF T, Places

LEMMA HitsCounted ==
    ASSUME NEW c, Searchable(c)
    PROVE  /\ Hits(c) \subseteq Nat /\ IsFiniteSet(Hits(c)) /\ IsFiniteSet(First(Occurrences(c), c))
           /\ Cardinality(Occurrences(c)) = Cardinality(Hits(c))
           /\ Occurrences(c) = {} <=> Hits(c) = {}
           /\ Cardinality(First(Occurrences(c), c)) = Cardinality(First(Hits(c), c))
<1>1. PICK n \in Nat : \E a : /\ a \in [0..n -> Nat] /\ Rises(a, n) /\ Hits(c) \subseteq 0..n
                             /\ Occurrences(c) = {a[s] : s \in Hits(c)}
  BY OccurrencesAreHits
<1>2. PICK a : /\ a \in [0..n -> Nat] /\ Rises(a, n) /\ Hits(c) \subseteq 0..n
               /\ Occurrences(c) = {a[s] : s \in Hits(c)}
  BY <1>1
<1>3. First(Occurrences(c), c) = {a[s] : s \in First(Hits(c), c)}
  <2>1. ASSUME NEW k \in Hits(c), NEW l \in Hits(c) PROVE a[k] <= a[l] <=> k <= l
    <3>1. k \in 0..n /\ l \in 0..n /\ a[k] \in Nat /\ a[l] \in Nat BY <1>2
    <3>2. (k < l => a[k] < a[l]) /\ (l < k => a[l] < a[k]) BY <1>2, <3>1 DEF Rises
    <3> QED BY <3>1, <3>2
  <2>2. ASSUME NEW k \in Hits(c)
        PROVE  (\A q \in Occurrences(c) : a[k] <= q) <=> \A l \in Hits(c) : k <= l
    BY <1>2, <2>1
  <2> QED BY <1>2, <2>2 DEF First
<1>4. First(Hits(c), c) \in SUBSET (0..n) /\ Hits(c) \in SUBSET (0..n) BY <1>2 DEF First
<1>5. Occurrences(c) = Places(a, Hits(c)) /\ First(Occurrences(c), c) = Places(a, First(Hits(c), c))
  BY <1>2, <1>3 DEF Places
<1>6. IsFiniteSet(Hits(c)) /\ Cardinality(Occurrences(c)) = Cardinality(Hits(c))
  <2>1. a \in [0..n -> Nat] /\ Rises(a, n) /\ Hits(c) \in SUBSET (0..n) BY <1>2, <1>4
  <2>2. IsFiniteSet(Hits(c)) /\ Cardinality(Places(a, Hits(c))) = Cardinality(Hits(c))
    BY <1>1, <2>1, CountedAlike, Zenon
  <2> QED BY <1>5, <2>2
<1>7. /\ IsFiniteSet(First(Occurrences(c), c))
      /\ Cardinality(First(Occurrences(c), c)) = Cardinality(First(Hits(c), c))
  <2>1. a \in [0..n -> Nat] /\ Rises(a, n) /\ First(Hits(c), c) \in SUBSET (0..n) BY <1>2, <1>4
  <2>2. /\ IsFiniteSet(Places(a, First(Hits(c), c)))
        /\ Cardinality(Places(a, First(Hits(c), c))) = Cardinality(First(Hits(c), c))
    BY <1>1, <2>1, CountedAlike, Zenon
  <2> QED BY <1>5, <2>2
<1>8. Hits(c) \subseteq Nat /\ (Occurrences(c) = {} <=> Hits(c) = {})
  <2>1. \A k \in 0..n : k \in Nat BY <1>2
  <2>2. Occurrences(c) = {a[s] : s \in Hits(c)} /\ Hits(c) \subseteq 0..n BY <1>2
  <2> QED BY <2>1, <2>2
<1> QED BY <1>6, <1>7, <1>8

-----------------------------------------------------------------------------
(* The invariant of a check *)

\* Any parsed documents and any sources, under any limits.
Checked ==
    /\ Parsed
    /\ limits.comparisons \in Nat /\ limits.occurrences \in Nat
    /\ limits.diagnostics \in Nat /\ limits.spans \in Nat
    /\ \A file \in DOMAIN sources : sources[file] \in Snippet

CheckedNext == (ResolutionNext /\ UNCHANGED matching) \/ CheckNext
CheckSpec == Checked /\ ResolutionInit /\ CheckInit /\ [][CheckedNext]_<<resolution, outcome, matching>>

\* What resolution hands over.
Sketches ==
    /\ \E S : contracts \in Seq(S)
    /\ \A i, j \in DOMAIN contracts : i < j => contracts[i].id < contracts[j].id
    /\ \A c \in Range(contracts) : c.id \in Nat /\ c.code \in Snippet /\ ~IsEmptyText(NormalLines(c.code))

\* Each contract waits once, or is finished.
Queued == queue \in Seq(Range(contracts)) /\ IsInjective(queue)
Finished == Range(contracts) \ Range(queue)
FinishedFailing == {c \in Finished : ~Holds(c)}

\* A diagnostic that is true of a sketch.
Right(d, c) ==
    /\ d.id = c.id /\ d.kind = Kind(c)
    /\ d.actual = IF d.kind = "mismatch" THEN Cardinality(Occurrences(c)) ELSE 0
    /\ Evidence(d, c)

\* The finished sketches have been reported.
ReportedSoFar ==
    /\ \E S : report \in Seq(S)
    /\ \A d \in Range(report) : \E c \in FinishedFailing : Right(d, c)
    /\ \A c \in FinishedFailing : \E i \in DOMAIN report : report[i].id = c.id
    /\ \A i, j \in DOMAIN report : report[i].id = report[j].id => i = j
    /\ Len(report) = Cardinality(FinishedFailing) /\ Len(report) <= limits.diagnostics
    /\ matched \in Nat /\ matched + Len(report) = Cardinality(Finished)

\* The scan of a source has seen its first starts.
SourceLines(c) == NormalLines(sources[c.file])
SnippetLines(c) == NormalLines(c.code)
Earlier(c, n) == {s \in Hits(c) : s < n}
Agreeing(c, s) == Score(SnippetLines(c), SourceLines(c), s)

HitsSoFar(c) ==
    /\ Len(scan.hits) = Cardinality(Earlier(c, scan.start))
    /\ \A i \in DOMAIN scan.hits : Cardinality({s \in Hits(c) : s <= scan.hits[i]}) = i
    /\ c.occurrence = "at_least_one" => Earlier(c, scan.start) = {}

BestSoFar(c) ==
    \/ scan.start = 0
    \/ /\ scan.best \in 0..(scan.start - 1) /\ scan.score = Agreeing(c, scan.best)
       /\ \A s \in 0..(scan.start - 1) :
             Agreeing(c, s) < scan.score \/ (Agreeing(c, s) = scan.score /\ s >= scan.best)

Scanning(c) ==
    /\ scan \in [step : {"begin", "evaluate", "candidate"}, start : Nat, hits : Seq(Nat),
                 best : Nat, score : Nat]
    /\ scan.step = "begin" => scan = NoScan
    /\ scan.step # "begin" => Present(c) /\ scan.start <= LineCount(SourceLines(c))
    /\ scan.step = "evaluate" => HitsSoFar(c)
    /\ scan.step = "candidate" => Hits(c) = {} /\ BestSoFar(c)

\* What has been charged for the finished sketches and the first starts of this one.
ComparedBy(K) == UNION {{c.id} \X Compared(c) : c \in {d \in K : Present(d)}}
FoundBy(K) == UNION {{c.id} \X First(Occurrences(c), c) : c \in {d \in K : Present(d)}}
Decided(c, n) ==
    UNION {{<<"decide", s, i>> : i \in LookedAt(SnippetLines(c), SourceLines(c), s)} : s \in 0..(n - 1)}
Scored(c, n) == {"score"} \X (0..(n - 1)) \X DOMAIN SnippetLines(c)
ComparedPart(c) ==
    CASE scan.step = "begin" -> {}
      [] scan.step = "evaluate" -> Decided(c, scan.start)
      [] OTHER -> Decided(c, LineCount(SourceLines(c))) \cup Scored(c, scan.start)
FoundPart(c) == IF scan.step = "evaluate" THEN Earlier(c, scan.start) ELSE {}

Charged(comparisons, occurrences) ==
    /\ usage.comparisons = Cardinality(ComparedBy(Finished)) + comparisons
    /\ usage.occurrences = Cardinality(FoundBy(Finished)) + occurrences
    /\ usage.comparisons <= limits.comparisons /\ usage.occurrences <= limits.occurrences
    /\ usage = [comparisons |-> usage.comparisons, occurrences |-> usage.occurrences, bytes |-> usage.bytes]

Working(c) ==
    /\ Scanning(c)
    /\ Charged(Cardinality(ComparedPart(c)), Cardinality(FoundPart(c)))

Underway ==
    /\ Checked /\ Sketches /\ Queued /\ ReportedSoFar
    /\ queue = <<>> => Charged(0, 0)
    /\ \A c \in Range(contracts) : queue # <<>> /\ c = Head(queue) => Working(c)

Concluded ==
    /\ Checked /\ Sketches /\ Queued /\ ReportedSoFar
    /\ queue = <<>> /\ Charged(0, 0)
    /\ \A i, j \in DOMAIN report : i < j => report[i].id < report[j].id

CheckInv ==
    /\ outcome = "resolving" => Checked /\ ResolutionInv /\ Declarations /\ CheckInit
    /\ outcome = "accepted" => Checked /\ Sketches /\ CheckInit
    /\ outcome = "matching" => Underway
    /\ outcome = "reported" => Concluded
    /\ outcome # "reported" => BudgetsAreExact

-----------------------------------------------------------------------------
(* What a sketch costs *)

LEMMA SketchesAre ==
    ASSUME Sketches
    PROVE  /\ Len(contracts) \in Nat /\ DOMAIN contracts = 1..Len(contracts)
           /\ IsFiniteSet(Range(contracts)) /\ Cardinality(Range(contracts)) = Len(contracts)
           /\ \A c, d \in Range(contracts) : c.id = d.id => c = d
           /\ \A c \in Range(contracts) : c.id \in Nat
<1>1. Len(contracts) \in Nat /\ DOMAIN contracts = 1..Len(contracts) BY DEF Sketches
<1>2. \A i \in DOMAIN contracts : contracts[i].id \in Nat BY DEF Sketches, Range
<1>3. \A i, j \in DOMAIN contracts : contracts[i].id = contracts[j].id => i = j
  <2> SUFFICES ASSUME NEW i \in DOMAIN contracts, NEW j \in DOMAIN contracts, contracts[i].id = contracts[j].id
               PROVE  i = j
    OBVIOUS
  <2>1. ~(i < j) /\ ~(j < i) BY <1>2 DEF Sketches
  <2> QED BY <1>1, <2>1
<1>4. \A c, d \in Range(contracts) : c.id = d.id => c = d BY <1>3 DEF Range
<1>5. contracts \in Bijection(1..Len(contracts), Range(contracts))
  <2>1. contracts \in [1..Len(contracts) -> Range(contracts)] BY <1>1 DEF Range, Sketches
  <2>2. \A i, j \in 1..Len(contracts) : contracts[i] = contracts[j] => i = j BY <1>1, <1>3
  <2>3. \A c \in Range(contracts) : \E i \in 1..Len(contracts) : contracts[i] = c BY <1>1 DEF Range
  <2> QED BY <2>1, <2>2, <2>3 DEF Bijection, Injection, Surjection, IsInjective
<1>6. IsFiniteSet(Range(contracts)) /\ Cardinality(Range(contracts)) = Len(contracts)
  <2>1. IsFiniteSet(1..Len(contracts)) /\ Cardinality(1..Len(contracts)) = Len(contracts)
    <3> DEFINE n == Len(contracts)
    <3>1. n \in Nat /\ 1 \in Int BY <1>1
    <3> HIDE DEF n
    <3>2. IsFiniteSet(1..n) /\ Cardinality(1..n) = IF 1 > n THEN 0 ELSE n - 1 + 1 BY <3>1, FS_Interval
    <3>3. Cardinality(1..n) = n BY <3>1, <3>2
    <3> QED BY <3>2, <3>3 DEF n
  <2>2. ExistsBijection(1..Len(contracts), Range(contracts)) BY <1>5 DEF ExistsBijection
  <2> QED BY <2>1, <2>2, FS_Bijection
<1> QED BY <1>1, <1>2, <1>4, <1>6 DEF Range

LEMMA SketchSearchable ==
    ASSUME Checked, Sketches, NEW c \in Range(contracts), Present(c)
    PROVE  /\ Searchable(c)
           /\ SnippetLines(c) \in Seq(Line) /\ Len(SnippetLines(c)) \in Nat \ {0} /\ DOMAIN SnippetLines(c) = 1..Len(SnippetLines(c))
           /\ LineCount(SnippetLines(c)) = Len(SnippetLines(c))
           /\ SourceLines(c) \in Seq(Line) /\ Len(SourceLines(c)) \in Nat \ {0}
           /\ LineCount(SourceLines(c)) \in 0..Len(SourceLines(c))
           /\ ~IsEmptyText(SourceLines(c)) => LineCount(SourceLines(c)) = Len(SourceLines(c))
           /\ IsEmptyText(SourceLines(c)) => LineCount(SourceLines(c)) = 0
<1>1. Searchable(c) BY DEF Searchable, Checked, Sketches, Present
<1> QED BY <1>1, LinesOfText DEF Searchable, SnippetLines, SourceLines

LEMMA TagCounted ==
    ASSUME NEW id, NEW S, IsFiniteSet(S)
    PROVE  IsFiniteSet({id} \X S) /\ Cardinality({id} \X S) = Cardinality(S)
<1>1. IsFiniteSet({id}) /\ Cardinality({id}) = 1 BY FS_Singleton
<1>2. IsFiniteSet({id} \X S) /\ Cardinality({id} \X S) = 1 * Cardinality(S) BY <1>1, FS_Product, Zenon
<1>3. Cardinality(S) \in Nat BY FS_CardinalityType
<1> QED BY <1>2, <1>3

\* Places of some starts, start after start.
Triples(tag, G, n) == UNION {{<<tag, s, i>> : i \in G[s]} : s \in 0..(n - 1)}

LEMMA TriplesMore ==
    ASSUME NEW tag, NEW G, NEW n \in Nat, \A s \in 0..n : IsFiniteSet(G[s])
    PROVE  /\ IsFiniteSet(Triples(tag, G, n)) /\ IsFiniteSet(Triples(tag, G, n + 1))
           /\ Triples(tag, G, n) \subseteq Triples(tag, G, n + 1)
           /\ Cardinality(Triples(tag, G, n + 1)) = Cardinality(Triples(tag, G, n)) + Cardinality(G[n])
<1> DEFINE new(s) == {<<tag, s, i>> : i \in G[s]}
           T == {k \in 0..(n + 1) : IsFiniteSet(Triples(tag, G, k))}
<1>1. ASSUME NEW s \in 0..n PROVE IsFiniteSet(new(s)) /\ Cardinality(new(s)) = Cardinality(G[s])
  <2> DEFINE S == G[s] R == new(s) f == [i \in S |-> <<tag, s, i>>]
  <2>1. f \in Bijection(S, R)
    <3>1. f \in [S -> R] /\ (\A i, j \in S : f[i] = f[j] => i = j) /\ \A r \in R : \E i \in S : f[i] = r
      OBVIOUS
    <3> QED BY <3>1 DEF Bijection, Injection, Surjection, IsInjective
  <2>2. IsFiniteSet(S) BY <1>1
  <2> HIDE DEF S, R, f
  <2>3. ExistsBijection(S, R) BY <2>1 DEF ExistsBijection
  <2>4. IsFiniteSet(R) /\ Cardinality(R) = Cardinality(S) BY <2>2, <2>3, FS_Bijection
  <2> QED BY <2>4 DEF R, S
<1>2. ASSUME NEW k \in 0..n
      PROVE  /\ Triples(tag, G, k + 1) = Triples(tag, G, k) \cup new(k)
             /\ Triples(tag, G, k) \cap new(k) = {}
  <2>1. 0..((k + 1) - 1) = (0..(k - 1)) \cup {k} /\ k \notin 0..(k - 1) OBVIOUS
  <2> QED BY <2>1 DEF Triples
<1> HIDE DEF new
<1>3. 0 \in T
  <2>1. 0..(0 - 1) = {} /\ 0 \in 0..(n + 1) OBVIOUS
  <2>2. Triples(tag, G, 0) = {} BY <2>1 DEF Triples
  <2> QED BY <2>1, <2>2, FS_EmptySet
<1>4. ASSUME NEW k \in 0..((n + 1) - 1), k \in T PROVE k + 1 \in T
  <2>1. k \in 0..n /\ k + 1 \in 0..(n + 1) OBVIOUS
  <2>2. IsFiniteSet(Triples(tag, G, k) \cup new(k)) BY <1>1, <1>4, <2>1, FS_Union
  <2> QED BY <1>2, <2>1, <2>2
<1> HIDE DEF T
<1>5. n + 1 \in Nat OBVIOUS
<1>6. \A k \in 0..(n + 1) : k \in T BY <1>3, <1>4, <1>5, InductionUpTo
<1>7. n \in 0..n /\ n \in 0..(n + 1) /\ n + 1 \in 0..(n + 1) OBVIOUS
<1>8. IsFiniteSet(Triples(tag, G, n)) /\ IsFiniteSet(Triples(tag, G, n + 1)) BY <1>6, <1>7 DEF T
<1>9. Cardinality(Triples(tag, G, n + 1)) = Cardinality(Triples(tag, G, n)) + Cardinality(G[n])
  BY <1>1, <1>2, <1>7, <1>8, DisjointSum
<1> QED BY <1>2, <1>7, <1>8, <1>9

\* The lines looked at are counted.
LEMMA ComparisonsCounted ==
    ASSUME Checked, Sketches, NEW c \in Range(contracts), Present(c), NEW s \in Nat
    PROVE  /\ IsFiniteSet(LookedAt(SnippetLines(c), SourceLines(c), s))
           /\ Cardinality(LookedAt(SnippetLines(c), SourceLines(c), s))
                = Comparisons(SnippetLines(c), SourceLines(c), s)
           /\ Comparisons(SnippetLines(c), SourceLines(c), s) \in Nat
<1> DEFINE e == SnippetLines(c) f == SourceLines(c) m == Len(e)
           D == Differences(e, f, s) \cup {m}
<1>1. /\ m \in Nat \ {0} /\ DOMAIN e = 1..m /\ LineCount(e) = m /\ LineCount(f) \in 0..Len(f) /\ Len(f) \in Nat
  BY SketchSearchable
<1> HIDE DEF e, f
<1>2. CASE ~Fits(e, f, s)
  <2>1. s + m > LineCount(f) BY <1>1, <1>2 DEF Fits
  <2>2. LookedAt(e, f, s) = {} BY <2>1 DEF LookedAt
  <2>3. Comparisons(e, f, s) = 0 BY <1>2 DEF Comparisons
  <2> QED BY <2>2, <2>3, FS_EmptySet DEF e, f
<1>3. CASE Fits(e, f, s)
  <2>1. ~(s + m > LineCount(f)) /\ s + m <= Len(f) BY <1>1, <1>3 DEF Fits
  <2>2. D \in SUBSET (1..m) /\ D # {} BY <1>1 DEF Differences
  <2>3. PICK k \in D : \A y \in D : k <= y
    <3>1. D \in SUBSET Nat BY <1>1, <2>2
    <3> HIDE DEF D
    <3> QED BY <2>2, <3>1, LeastNatural
  <2>4. k \in 1..m BY <2>2
  <2>5. Min(D) = k
    <3>1. \A x \in D : (\A y \in D : x <= y) => x = k
      <4>1. D \subseteq Nat BY <1>1, <2>2
      <4> HIDE DEF D
      <4> QED BY <2>3, <4>1
    <3> HIDE DEF D
    <3> QED BY <2>3, <3>1 DEF Min
  <2>6. LookedAt(e, f, s) = 1..k
    <3>1. LookedAt(e, f, s) = {i \in 1..m : \A j \in 1..(i - 1) : e[j] = f[s + j]}
      BY <1>1, <2>1 DEF LookedAt
    <3>2. \A j \in 1..m : j \in D <=> (j = m \/ e[j] # f[s + j])
      <4> SUFFICES ASSUME NEW j \in 1..m PROVE j \in D <=> (j = m \/ e[j] # f[s + j]) OBVIOUS
      <4>1. s + j <= Len(f)
        <5> HIDE DEF m, D
        <5> QED BY <1>1, <2>1
      <4>2. Agrees(e, f, s, j) <=> e[j] = f[s + j] BY <4>1 DEF Agrees
      <4>3. j \in Differences(e, f, s) <=> e[j] # f[s + j] BY <1>1, <4>2 DEF Differences
      <4> QED BY <4>3
    <3> HIDE DEF D, m
    <3>3. ASSUME NEW i \in 1..m, \A j \in 1..(i - 1) : e[j] = f[s + j] PROVE i \in 1..k
      <4>1. CASE k < i
        <5>1. k \in 1..(i - 1) /\ k # m BY <1>1, <2>4, <4>1
        <5> QED BY <2>3, <2>4, <3>2, <3>3, <5>1
      <4>2. CASE ~(k < i) BY <1>1, <2>4, <4>2
      <4> QED BY <4>1, <4>2
    <3>4. ASSUME NEW i \in 1..k PROVE i \in 1..m /\ \A j \in 1..(i - 1) : e[j] = f[s + j]
      <4>1. i \in 1..m BY <1>1, <2>4
      <4>2. ASSUME NEW j \in 1..(i - 1) PROVE e[j] = f[s + j]
        <5>1. j \in 1..m /\ ~(k <= j) BY <1>1, <2>4
        <5>2. j \notin D BY <2>3, <5>1
        <5> QED BY <3>2, <5>1, <5>2
      <4> QED BY <4>1, <4>2
    <3> QED BY <3>1, <3>3, <3>4
  <2>7. Comparisons(e, f, s) = k BY <1>1, <1>3, <2>5 DEF Comparisons
  <2>8. IsFiniteSet(1..k) /\ Cardinality(1..k) = k
    <3>1. k \in Nat /\ 1 \in Int /\ k \in Int BY <2>4
    <3>2. IsFiniteSet(1..k) /\ Cardinality(1..k) = IF 1 > k THEN 0 ELSE k - 1 + 1 BY <3>1, FS_Interval
    <3> HIDE DEF D
    <3>3. Cardinality(1..k) = k BY <3>1, <3>2
    <3> QED BY <3>2, <3>3
  <2> QED BY <2>4, <2>6, <2>7, <2>8 DEF e, f
<1> QED BY <1>2, <1>3

LEMMA DecidedMore ==
    ASSUME Checked, Sketches, NEW c \in Range(contracts), Present(c), NEW n \in Nat
    PROVE  /\ IsFiniteSet(Decided(c, n)) /\ Decided(c, 0) = {}
           /\ Decided(c, n) \subseteq Decided(c, n + 1) /\ IsFiniteSet(Decided(c, n + 1))
           /\ Cardinality(Decided(c, n + 1))
                = Cardinality(Decided(c, n)) + Comparisons(SnippetLines(c), SourceLines(c), n)
<1> DEFINE G == [s \in Nat |-> LookedAt(SnippetLines(c), SourceLines(c), s)]
<1>1. \A s \in Nat : IsFiniteSet(G[s]) /\ Cardinality(G[s]) = Comparisons(SnippetLines(c), SourceLines(c), s)
  BY ComparisonsCounted
<1>2. \A k \in Nat : Decided(c, k) = Triples("decide", G, k)
  <2> SUFFICES ASSUME NEW k \in Nat PROVE Decided(c, k) = Triples("decide", G, k) OBVIOUS
  <2>1. \A s \in 0..(k - 1) : s \in Nat /\ G[s] = LookedAt(SnippetLines(c), SourceLines(c), s) OBVIOUS
  <2> HIDE DEF G
  <2> QED BY <2>1 DEF Decided, Triples
<1> HIDE DEF G
<1>3. Decided(c, 0) = {}
  <2>1. 0..(0 - 1) = {} OBVIOUS
  <2> QED BY <2>1 DEF Decided
<1>4. /\ IsFiniteSet(Triples("decide", G, n)) /\ IsFiniteSet(Triples("decide", G, n + 1))
      /\ Triples("decide", G, n) \subseteq Triples("decide", G, n + 1)
      /\ Cardinality(Triples("decide", G, n + 1)) = Cardinality(Triples("decide", G, n)) + Cardinality(G[n])
  <2>1. \A s \in 0..n : IsFiniteSet(G[s]) BY <1>1
  <2> QED BY <2>1, TriplesMore
<1>5. n + 1 \in Nat OBVIOUS
<1> QED BY <1>1, <1>2, <1>3, <1>4, <1>5

LEMMA ScoredMore ==
    ASSUME Checked, Sketches, NEW c \in Range(contracts), Present(c), NEW n \in Nat
    PROVE  /\ IsFiniteSet(Scored(c, n)) /\ Scored(c, 0) = {}
           /\ Scored(c, n) \subseteq Scored(c, n + 1) /\ IsFiniteSet(Scored(c, n + 1))
           /\ Cardinality(Scored(c, n + 1)) = Cardinality(Scored(c, n)) + Len(SnippetLines(c))
<1> DEFINE m == Len(SnippetLines(c)) G == [s \in Nat |-> 1..m]
<1>0. m \in Nat /\ DOMAIN SnippetLines(c) = 1..m BY SketchSearchable
<1>1. \A s \in Nat : IsFiniteSet(G[s]) /\ Cardinality(G[s]) = m
  <2> SUFFICES ASSUME NEW s \in Nat PROVE IsFiniteSet(G[s]) /\ Cardinality(G[s]) = m OBVIOUS
  <2>1. G[s] = 1..m OBVIOUS
  <2> HIDE DEF G, m
  <2>2. m \in Int /\ 1 \in Int BY <1>0
  <2>3. IsFiniteSet(1..m) /\ Cardinality(1..m) = IF 1 > m THEN 0 ELSE m - 1 + 1 BY <2>2, FS_Interval
  <2>4. Cardinality(1..m) = m BY <1>0, <2>3
  <2> QED BY <2>1, <2>3, <2>4
<1>2. \A k \in Nat : Scored(c, k) = Triples("score", G, k)
  <2> SUFFICES ASSUME NEW k \in Nat PROVE Scored(c, k) = Triples("score", G, k) OBVIOUS
  <2>1. \A s \in 0..(k - 1) : s \in Nat /\ G[s] = 1..m OBVIOUS
  <2>2. Scored(c, k) = {"score"} \X (0..(k - 1)) \X (1..m) BY <1>0 DEF Scored
  <2> DEFINE S == 0..(k - 1) I == 1..m new(s) == {<<"score", s, i>> : i \in I}
  <2>3. Triples("score", G, k) = UNION {new(s) : s \in S} BY <2>1 DEF Triples
  <2> HIDE DEF G, m, S, I
  <2>4. {"score"} \X S \X I = UNION {new(s) : s \in S}
    <3>1. ASSUME NEW t \in {"score"} \X S \X I PROVE t \in UNION {new(s) : s \in S}
      <4>1. t[2] \in S /\ t[3] \in I /\ t = <<"score", t[2], t[3]>> OBVIOUS
      <4>2. t \in new(t[2]) BY <4>1
      <4> HIDE DEF new
      <4> QED BY <4>1, <4>2
    <3>2. ASSUME NEW t \in UNION {new(s) : s \in S} PROVE t \in {"score"} \X S \X I
      <4>1. PICK s \in S : t \in new(s) OBVIOUS
      <4>2. PICK i \in I : t = <<"score", s, i>> BY <4>1
      <4> QED BY <4>2
    <3> QED BY <3>1, <3>2
  <2> QED BY <2>2, <2>3, <2>4 DEF S, I
<1> HIDE DEF G
<1>3. Scored(c, 0) = {}
  <2>1. 0..(0 - 1) = {} OBVIOUS
  <2>2. {"score"} \X {} \X DOMAIN SnippetLines(c) = {} OBVIOUS
  <2> QED BY <2>1, <2>2 DEF Scored
<1>4. /\ IsFiniteSet(Triples("score", G, n)) /\ IsFiniteSet(Triples("score", G, n + 1))
      /\ Triples("score", G, n) \subseteq Triples("score", G, n + 1)
      /\ Cardinality(Triples("score", G, n + 1)) = Cardinality(Triples("score", G, n)) + Cardinality(G[n])
  <2>1. \A s \in 0..n : IsFiniteSet(G[s]) BY <1>1
  <2> QED BY <2>1, TriplesMore
<1>5. n + 1 \in Nat OBVIOUS
<1> QED BY <1>1, <1>2, <1>3, <1>4, <1>5 DEF m

\* The two do not mix.
LEMMA BothCounted ==
    ASSUME Checked, Sketches, NEW c \in Range(contracts), Present(c), NEW k \in Nat, NEW n \in Nat
    PROVE  /\ IsFiniteSet(Decided(c, k) \cup Scored(c, n)) /\ Decided(c, k) \cup Scored(c, 0) = Decided(c, k)
           /\ Decided(c, k) \cup Scored(c, n) \subseteq Decided(c, k) \cup Scored(c, n + 1)
           /\ Cardinality(Decided(c, k) \cup Scored(c, n + 1))
                = Cardinality(Decided(c, k) \cup Scored(c, n)) + Len(SnippetLines(c))
<1>1. IsFiniteSet(Decided(c, k)) /\ Cardinality(Decided(c, k)) \in Nat BY DecidedMore, FS_CardinalityType
<1>2. /\ IsFiniteSet(Scored(c, n)) /\ Scored(c, 0) = {}
      /\ Scored(c, n) \subseteq Scored(c, n + 1) /\ IsFiniteSet(Scored(c, n + 1))
      /\ Cardinality(Scored(c, n + 1)) = Cardinality(Scored(c, n)) + Len(SnippetLines(c))
  BY ScoredMore
<1>3. \A l \in Nat : Decided(c, k) \cap Scored(c, l) = {}
  <2> SUFFICES ASSUME NEW l \in Nat, NEW t \in Decided(c, k), t \in Scored(c, l) PROVE FALSE OBVIOUS
  <2>1. t[1] = "decide" BY DEF Decided
  <2>2. t[1] = "score" BY DEF Scored
  <2> QED BY <2>1, <2>2
<1>4. Cardinality(Scored(c, n)) \in Nat /\ Len(SnippetLines(c)) \in Nat BY <1>2, FS_CardinalityType, SketchSearchable
<1>5. /\ Cardinality(Decided(c, k) \cup Scored(c, n)) = Cardinality(Decided(c, k)) + Cardinality(Scored(c, n))
      /\ Cardinality(Decided(c, k) \cup Scored(c, n + 1)) = Cardinality(Decided(c, k)) + Cardinality(Scored(c, n + 1))
  <2>1. n + 1 \in Nat OBVIOUS
  <2> QED BY <1>1, <1>2, <1>3, <2>1, DisjointSum
<1>6. IsFiniteSet(Decided(c, k) \cup Scored(c, n)) BY <1>1, <1>2, FS_Union
<1>7. Cardinality(Decided(c, k) \cup Scored(c, n + 1))
        = Cardinality(Decided(c, k) \cup Scored(c, n)) + Len(SnippetLines(c))
  BY <1>1, <1>2, <1>4, <1>5
<1> QED BY <1>2, <1>6, <1>7

LEMMA ComparedIs ==
    ASSUME Checked, Sketches, NEW c \in Range(contracts), Present(c)
    PROVE  /\ IsFiniteSet(Compared(c))
           /\ \A n \in Nat : 0..(n - 1) \subseteq Searched(c) => Decided(c, n) \subseteq Compared(c)
           /\ \A n \in Nat : Searched(c) = 0..(n - 1) /\ Hits(c) # {} => Compared(c) = Decided(c, n)
           /\ Hits(c) = {} => Compared(c) = Decided(c, LineCount(SourceLines(c)))
                                              \cup Scored(c, LineCount(SourceLines(c)))
<1> DEFINE N == LineCount(SourceLines(c))
           decide(S) == UNION {{<<"decide", s, i>> : i \in LookedAt(SnippetLines(c), SourceLines(c), s)} : s \in S}
<1>0. N \in Nat BY SketchSearchable
<1>1. /\ Compared(c) = decide(Searched(c)) \cup (IF Hits(c) = {} THEN Scored(c, N) ELSE {})
      /\ Starts(c) = 0..(N - 1)
  BY DEF Compared, Scored, Starts, SnippetLines, SourceLines
<1>2. \A n : Decided(c, n) = decide(0..(n - 1)) BY DEF Decided
<1>3. \A S, T : S \subseteq T => decide(S) \subseteq decide(T) OBVIOUS
<1> HIDE DEF decide, N
<1>4. Searched(c) \subseteq 0..(N - 1) BY <1>1 DEF Searched
<1>5. IsFiniteSet(Compared(c))
  <2>1. IsFiniteSet(Decided(c, N) \cup Scored(c, N)) BY <1>0, BothCounted
  <2>2. decide(Searched(c)) \subseteq decide(0..(N - 1))
    <3> DEFINE T == 0..(N - 1) part(s) == {<<"decide", s, i>> : i \in LookedAt(SnippetLines(c), SourceLines(c), s)}
    <3>1. Searched(c) \subseteq T BY <1>4
    <3> HIDE DEF T, part
    <3>2. UNION {part(s) : s \in Searched(c)} \subseteq UNION {part(s) : s \in T} BY <3>1
    <3> QED BY <3>2 DEF decide, T, part
  <2>3. Decided(c, N) = decide(0..(N - 1)) BY <1>2
  <2>4. Compared(c) \subseteq Decided(c, N) \cup Scored(c, N) BY <1>1, <2>2, <2>3
  <2> QED BY <2>1, <2>4, FS_Subset
<1>6. Hits(c) = {} => Compared(c) = Decided(c, N) \cup Scored(c, N)
  <2> SUFFICES ASSUME Hits(c) = {} PROVE Compared(c) = Decided(c, N) \cup Scored(c, N) OBVIOUS
  <2>1. Searched(c) = 0..(N - 1) BY <1>1 DEF Searched
  <2> QED BY <1>1, <1>2, <2>1
<1>7. \A n \in Nat : 0..(n - 1) \subseteq Searched(c) => Decided(c, n) \subseteq Compared(c) BY <1>1, <1>2, <1>3
<1>8. \A n \in Nat : Searched(c) = 0..(n - 1) /\ Hits(c) # {} => Compared(c) = Decided(c, n) BY <1>1, <1>2
<1> QED BY <1>5, <1>6, <1>7, <1>8 DEF N

\* The costs of some sketches, and of one more.
Tagged(P, part) == UNION {{d.id} \X part[d] : d \in P}

LEMMA TaggedFinite ==
    ASSUME NEW P, NEW part, IsFiniteSet(P), \A d \in P : IsFiniteSet(part[d])
    PROVE  IsFiniteSet(Tagged(P, part))
<1> DEFINE f == [d \in P |-> {d.id} \X part[d]] F == {f[d] : d \in P}
<1>1. Tagged(P, part) = UNION F BY DEF Tagged
<1>2. IsFiniteSet(F)
  <2>1. f \in Surjection(P, F) BY DEF Surjection
  <2> HIDE DEF f, F
  <2> QED BY <2>1, FS_Surjection
<1>3. \A T \in F : IsFiniteSet(T)
  <2> SUFFICES ASSUME NEW d \in P PROVE IsFiniteSet(f[d]) OBVIOUS
  <2>1. f[d] = {d.id} \X part[d] OBVIOUS
  <2>2. IsFiniteSet({d.id} \X part[d]) BY TagCounted
  <2> QED BY <2>1, <2>2
<1> HIDE DEF F
<1> QED BY <1>1, <1>2, <1>3, FS_UNION

Another(P, part, c) ==
    IsFiniteSet(P) /\ IsFiniteSet(part[c]) /\ \A d \in P : IsFiniteSet(part[d]) /\ d.id # c.id
CostsMore(P, part, c) ==
    /\ Cardinality(Tagged(P, part)) \in Nat /\ Cardinality(part[c]) \in Nat
    /\ Cardinality(Tagged(P \cup {c}, part)) = Cardinality(Tagged(P, part)) + Cardinality(part[c])

LEMMA TaggedMore ==
    ASSUME NEW P, NEW part, NEW c, Another(P, part, c)
    PROVE  CostsMore(P, part, c)
<1>0. IsFiniteSet(P) /\ IsFiniteSet(part[c]) /\ \A d \in P : IsFiniteSet(part[d]) /\ d.id # c.id BY DEF Another
<1>1. IsFiniteSet(Tagged(P, part)) BY <1>0, TaggedFinite
<1>2. IsFiniteSet({c.id} \X part[c]) /\ Cardinality({c.id} \X part[c]) = Cardinality(part[c])
  BY <1>0, TagCounted
<1>3. Tagged(P \cup {c}, part) = Tagged(P, part) \cup ({c.id} \X part[c]) BY DEF Tagged
<1>4. Tagged(P, part) \cap ({c.id} \X part[c]) = {}
  <2> SUFFICES ASSUME NEW t \in Tagged(P, part), t \in {c.id} \X part[c] PROVE FALSE OBVIOUS
  <2>1. t[1] = c.id OBVIOUS
  <2>2. PICK d \in P : t \in {d.id} \X part[d] BY DEF Tagged
  <2>3. t[1] = d.id BY <2>2
  <2> QED BY <1>0, <2>1, <2>3
<1>5. Cardinality(Tagged(P, part)) \in Nat /\ Cardinality(part[c]) \in Nat BY <1>0, <1>1, FS_CardinalityType
<1>6. Cardinality(Tagged(P \cup {c}, part)) = Cardinality(Tagged(P, part)) + Cardinality(part[c])
  BY <1>1, <1>2, <1>3, <1>4, DisjointSum
<1> QED BY <1>5, <1>6 DEF CostsMore

Shown(K) == {d \in K : Present(d)}

LEMMA CostsAre ==
    ASSUME Checked, Sketches
    PROVE  /\ \A d \in Range(contracts) : Present(d) =>
                 /\ IsFiniteSet(Compared(d)) /\ IsFiniteSet(First(Occurrences(d), d))
                 /\ Cardinality(First(Occurrences(d), d)) = Cardinality(First(Hits(d), d))
           /\ \A K \in SUBSET Range(contracts) :
                 /\ IsFiniteSet(Shown(K))
                 /\ ComparedBy(K) = Tagged(Shown(K), [d \in Range(contracts) |-> Compared(d)])
                 /\ FoundBy(K) = Tagged(Shown(K), [d \in Range(contracts) |-> First(Occurrences(d), d)])
<1>1. ASSUME NEW d \in Range(contracts), Present(d)
      PROVE  /\ IsFiniteSet(Compared(d)) /\ IsFiniteSet(First(Occurrences(d), d))
             /\ Cardinality(First(Occurrences(d), d)) = Cardinality(First(Hits(d), d))
  BY <1>1, ComparedIs, SketchSearchable, HitsCounted
<1>2. ASSUME NEW K \in SUBSET Range(contracts)
      PROVE  /\ IsFiniteSet(Shown(K))
             /\ ComparedBy(K) = Tagged(Shown(K), [d \in Range(contracts) |-> Compared(d)])
             /\ FoundBy(K) = Tagged(Shown(K), [d \in Range(contracts) |-> First(Occurrences(d), d)])
  <2>1. IsFiniteSet(Range(contracts)) BY SketchesAre
  <2>2. Shown(K) \subseteq Range(contracts) BY DEF Shown
  <2>3. \A d \in Shown(K) : /\ [e \in Range(contracts) |-> Compared(e)][d] = Compared(d)
                            /\ [e \in Range(contracts) |-> First(Occurrences(e), e)][d] = First(Occurrences(d), d)
    BY <2>2
  <2>4. ComparedBy(K) = UNION {{d.id} \X Compared(d) : d \in Shown(K)} BY DEF ComparedBy, Shown
  <2>5. FoundBy(K) = UNION {{d.id} \X First(Occurrences(d), d) : d \in Shown(K)} BY DEF FoundBy, Shown
  <2> QED BY <2>1, <2>2, <2>3, <2>4, <2>5, FS_Subset DEF Tagged
<1> QED BY <1>1, <1>2

LEMMA CostsFinite ==
    ASSUME Checked, Sketches, NEW K \in SUBSET Range(contracts)
    PROVE  IsFiniteSet(ComparedBy(K)) /\ IsFiniteSet(FoundBy(K))
<1> DEFINE cost == [d \in Range(contracts) |-> Compared(d)]
           found == [d \in Range(contracts) |-> First(Occurrences(d), d)]
<1>1. \A d \in Shown(K) : d \in Range(contracts) /\ Present(d) BY DEF Shown
<1>2. \A d \in Shown(K) : IsFiniteSet(cost[d]) /\ IsFiniteSet(found[d]) BY <1>1, CostsAre
<1>3. /\ IsFiniteSet(Shown(K)) /\ ComparedBy(K) = Tagged(Shown(K), cost) /\ FoundBy(K) = Tagged(Shown(K), found)
  BY CostsAre
<1> HIDE DEF cost, found
<1> QED BY <1>2, <1>3, TaggedFinite

LEMMA OneSketchMore ==
    ASSUME Checked, Sketches, NEW K \in SUBSET Range(contracts), NEW c \in Range(contracts) \ K
    PROVE  /\ IsFiniteSet(ComparedBy(K)) /\ IsFiniteSet(FoundBy(K))
           /\ Cardinality(ComparedBy(K)) \in Nat /\ Cardinality(FoundBy(K)) \in Nat
           /\ ~Present(c) => ComparedBy(K \cup {c}) = ComparedBy(K) /\ FoundBy(K \cup {c}) = FoundBy(K)
           /\ Present(c) =>
                 /\ Cardinality(ComparedBy(K \cup {c})) = Cardinality(ComparedBy(K)) + Cardinality(Compared(c))
                 /\ Cardinality(FoundBy(K \cup {c})) = Cardinality(FoundBy(K)) + Cardinality(First(Hits(c), c))
                 /\ Cardinality(Compared(c)) \in Nat /\ Cardinality(First(Hits(c), c)) \in Nat
<1> DEFINE R == Range(contracts)
           cost == [d \in R |-> Compared(d)] found == [d \in R |-> First(Occurrences(d), d)]
<1>1. \A L \in SUBSET R : /\ IsFiniteSet(Shown(L)) /\ Shown(L) \subseteq R
                          /\ ComparedBy(L) = Tagged(Shown(L), cost) /\ FoundBy(L) = Tagged(Shown(L), found)
                          /\ \A d \in Shown(L) : IsFiniteSet(cost[d]) /\ IsFiniteSet(found[d])
  <2> SUFFICES ASSUME NEW L \in SUBSET R
               PROVE  /\ IsFiniteSet(Shown(L)) /\ Shown(L) \subseteq R
                      /\ ComparedBy(L) = Tagged(Shown(L), cost) /\ FoundBy(L) = Tagged(Shown(L), found)
                      /\ \A d \in Shown(L) : IsFiniteSet(cost[d]) /\ IsFiniteSet(found[d])
    OBVIOUS
  <2>1. \A d \in Shown(L) : d \in R /\ Present(d) BY DEF Shown
  <2>2. \A d \in Shown(L) : IsFiniteSet(cost[d]) /\ IsFiniteSet(found[d]) BY <2>1, CostsAre
  <2> QED BY <2>1, <2>2, CostsAre
<1>0. /\ IsFiniteSet(ComparedBy(K)) /\ IsFiniteSet(FoundBy(K))
      /\ Cardinality(ComparedBy(K)) \in Nat /\ Cardinality(FoundBy(K)) \in Nat
  BY CostsFinite, FS_CardinalityType
<1>2. \A d \in Shown(K) : d.id # c.id BY SketchesAre DEF Shown
<1>3. CASE ~Present(c)
  <2>1. Shown(K \cup {c}) = Shown(K) BY <1>3 DEF Shown
  <2>2. K \in SUBSET R /\ K \cup {c} \in SUBSET R OBVIOUS
  <2> QED BY <1>0, <1>1, <1>3, <2>1, <2>2
<1>4. CASE Present(c)
  <2>1. Shown(K \cup {c}) = Shown(K) \cup {c} /\ c \in Shown({c}) /\ {c} \in SUBSET R BY <1>4 DEF Shown
  <2>2. cost[c] = Compared(c) /\ found[c] = First(Occurrences(c), c) OBVIOUS
  <2>3. IsFiniteSet(cost[c]) /\ IsFiniteSet(found[c]) BY <1>1, <2>1
  <2>4. Cardinality(found[c]) = Cardinality(First(Hits(c), c)) BY <1>4, <2>2, CostsAre
  <2>5. K \in SUBSET R /\ K \cup {c} \in SUBSET R OBVIOUS
  <2> HIDE DEF cost, found, R
  <2>8. /\ IsFiniteSet(Shown(K)) /\ \A d \in Shown(K) : IsFiniteSet(cost[d])
        /\ \A d \in Shown(K) : IsFiniteSet(found[d])
    BY <1>1, <2>5
  <2>6. Another(Shown(K), cost, c) /\ Another(Shown(K), found, c) BY <1>2, <2>3, <2>8, Zenon DEF Another
  <2>7. CostsMore(Shown(K), cost, c) /\ CostsMore(Shown(K), found, c) BY <2>6, TaggedMore
  <2> QED BY <1>0, <1>1, <1>4, <2>1, <2>2, <2>4, <2>5, <2>7 DEF CostsMore
<1> QED BY <1>3, <1>4

\* No more than those of all.
LEMMA AllSketches ==
    ASSUME Checked, Sketches, NEW K \in SUBSET Range(contracts)
    PROVE  /\ Cardinality(ComparedBy(K)) <= Cardinality(Comparing)
           /\ Cardinality(FoundBy(K)) <= Cardinality(Finding)
           /\ Cardinality(Comparing) \in Nat /\ Cardinality(Finding) \in Nat
<1> DEFINE R == Range(contracts)
<1>1. Comparing = ComparedBy(R) /\ Finding = FoundBy(R) BY DEF Comparing, Finding, ComparedBy, FoundBy
<1>2. ComparedBy(K) \subseteq ComparedBy(R) /\ FoundBy(K) \subseteq FoundBy(R) BY DEF ComparedBy, FoundBy
<1>3. IsFiniteSet(ComparedBy(R)) /\ IsFiniteSet(FoundBy(R)) BY CostsFinite
<1> QED BY <1>1, <1>2, <1>3, FS_Subset, FS_CardinalityType

-----------------------------------------------------------------------------
(* Steps that leave the sources alone *)

LEMMA SameSearch ==
    ASSUME UNCHANGED <<contracts, sources>>
    PROVE  /\ \A c : Present(c)' = Present(c) /\ SourceLines(c)' = SourceLines(c)
           /\ \A c : Hits(c)' = Hits(c) /\ Occurrences(c)' = Occurrences(c)
           /\ \A c : Holds(c)' = Holds(c) /\ Kind(c)' = Kind(c)
           /\ \A c, n : Earlier(c, n)' = Earlier(c, n) /\ Agreeing(c, n)' = Agreeing(c, n)
           /\ \A c, n : Decided(c, n)' = Decided(c, n)
           /\ \A K : ComparedBy(K)' = ComparedBy(K) /\ FoundBy(K)' = FoundBy(K)
           /\ Comparing' = Comparing /\ Finding' = Finding /\ Failing' = Failing
<1>1. \A c : Present(c)' = Present(c) /\ SourceLines(c)' = SourceLines(c) BY DEF Present, SourceLines
<1>2. \A c : Starts(c)' = Starts(c) BY DEF Starts
<1>3. \A c : Hits(c)' = Hits(c) BY <1>2 DEF Hits
<1>4. \A c : Occurrences(c)' = Occurrences(c) BY DEF Occurrences
<1>5. \A c : Holds(c)' = Holds(c) BY <1>1, <1>4 DEF Holds
<1>6. \A c : Kind(c)' = Kind(c) BY <1>1, <1>4 DEF Kind
<1>7. \A c, n : Earlier(c, n)' = Earlier(c, n) BY <1>3 DEF Earlier
<1>8. \A c, n : Agreeing(c, n)' = Agreeing(c, n) BY <1>1 DEF Agreeing
<1>9. \A c, n : Decided(c, n)' = Decided(c, n) BY <1>1 DEF Decided
<1>10. \A c : Searched(c)' = Searched(c) BY <1>2, <1>3 DEF Searched
<1>11. \A c : Compared(c)' = Compared(c) BY <1>2, <1>3, <1>10 DEF Compared
<1>12. \A c : First(Occurrences(c), c)' = First(Occurrences(c), c) BY <1>4 DEF First
<1>13. \A K : ComparedBy(K)' = ComparedBy(K) BY <1>1, <1>11 DEF ComparedBy
<1>14. \A K : FoundBy(K)' = FoundBy(K) BY <1>1, <1>12 DEF FoundBy
<1>15. Comparing' = Comparing BY <1>1, <1>11 DEF Comparing
<1>16. Finding' = Finding BY <1>1, <1>12 DEF Finding
<1>17. Failing' = Failing BY <1>5 DEF Failing
<1> QED BY <1>1, <1>3, <1>4, <1>5, <1>6, <1>7, <1>8, <1>9, <1>13, <1>14, <1>15, <1>16, <1>17

LEMMA SameRight ==
    ASSUME UNCHANGED <<contracts, sources, limits>>
    PROVE  \A d, c : Right(d, c)' = Right(d, c)
<1>1. \A c : Starts(c)' = Starts(c) BY DEF Starts
<1>2. \A d, c : Evidence(d, c)' = Evidence(d, c)
  <2> SUFFICES ASSUME NEW d, NEW c PROVE Evidence(d, c)' = Evidence(d, c) OBVIOUS
  <2>1. Starts(c)' = Starts(c) /\ Hits(c)' = Hits(c) /\ limits' = limits /\ sources' = sources BY <1>1, SameSearch
  <2> QED BY <2>1 DEF Evidence
<1> QED BY <1>2, SameSearch DEF Right

LEMMA SameLimits ==
    ASSUME Checked, Sketches, UNCHANGED <<documents, limits, contracts, sources>> PROVE Checked' /\ Sketches'
BY DEF Checked, Sketches, Parsed

-----------------------------------------------------------------------------
(* From resolution to matching *)

Accepted == Parsed /\ Declarations /\ ResolutionIsPairing /\ outcome = "accepted"
LEMMA AcceptedAre == Accepted => Sketches
<1> SUFFICES ASSUME Parsed, Declarations, ResolutionIsPairing, outcome = "accepted" PROVE Sketches BY DEF Accepted
<1>1. WellPaired /\ \A i, j \in DOMAIN contracts : i < j => contracts[i].id < contracts[j].id
  BY DEF ResolutionIsPairing
<1>2. \A f \in Entries("sketches") : ~IsEmptyText(NormalLines(Entry("sketches", f).code))
  BY <1>1 DEF WellPaired
<1>3. ASSUME NEW c \in Range(contracts) PROVE c.id \in Nat /\ c.code \in Snippet /\ ~IsEmptyText(NormalLines(c.code))
  <2>1. PICK f \in Entries("sketches") : c = DeclarationOf(f) BY DEF Declarations
  <2>2. Entry("sketches", f) \in SketchEntry BY EntryTypes
  <2>3. c.code = Entry("sketches", f).code BY <2>1, <2>2 DEF DeclarationOf, Located, SketchEntry
  <2>4. c.id \in Nat BY <2>1, DeclarationFields
  <2>5. Entry("sketches", f).code \in Snippet BY <2>2 DEF SketchEntry
  <2> QED BY <1>2, <2>3, <2>4, <2>5
<1>4. \E S : contracts \in Seq(S) BY DEF Declarations
<1> QED BY <1>1, <1>3, <1>4 DEF Sketches

LEMMA ResolvedAre == ASSUME Accepted' PROVE Sketches'
BY AcceptedAre, PTL

LEMMA ResolvingKeeps ==
    ASSUME CheckInv, ResolutionNext, UNCHANGED matching PROVE CheckInv'
<1>1. UNCHANGED <<sources, queue, scan, usage, matched, report>> BY DEF matching
<1>2. CASE outcome = "resolving"
  <2>1. Checked /\ ResolutionInv /\ Declarations /\ CheckInit BY <1>2 DEF CheckInv
  <2>2. /\ UNCHANGED <<documents, limits, request>> /\ Declarations'
        /\ outcome' \in {"resolving", "accepted", "rejected", "signatures", "sketches", "snippet", "cancelled"}
    BY <1>2, <2>1, StillDeclared
  <2>3. ResolutionInv' BY <2>1, StepKeepsInv
  <2>4. Checked' BY <1>1, <2>1, <2>2 DEF Checked, Parsed
  <2>5. CheckInit' BY <1>1, <2>1 DEF CheckInit
  <2>6. outcome' = "accepted" => Sketches'
    <3>1. Parsed' /\ ResolutionIsPairing' BY <2>3 DEF ResolutionInv
    <3> QED BY <2>2, <3>1, ResolvedAre DEF Accepted
  <2>7. BudgetsAreExact' BY <2>2 DEF BudgetsAreExact
  <2> QED BY <2>2, <2>3, <2>4, <2>5, <2>6, <2>7 DEF CheckInv
<1>3. CASE outcome # "resolving"
  <2>1. Cancel BY <1>3 DEF ResolutionNext, OpenDocument, ReadSignature, EndSignatures,
          ReadSketch, EndDocument, LinkSketch, FinishResolution, Reading, Linking
  <2>2. outcome' = "cancelled" BY <2>1 DEF Cancel
  <2>3. BudgetsAreExact' BY <2>2 DEF BudgetsAreExact
  <2> QED BY <2>2, <2>3 DEF CheckInv
<1> QED BY <1>2, <1>3

LEMMA CheckStarts == ASSUME Checked, ResolutionInit, CheckInit PROVE CheckInv
<1>1. ResolutionInv BY InitInv DEF Checked
<1>2. Declarations
  <2>1. contracts \in Seq({}) /\ Range(contracts) = {} /\ declared = {} BY DEF ResolutionInit, Range
  <2> QED BY <2>1 DEF Declarations
<1>3. outcome = "resolving" BY DEF ResolutionInit
<1> QED BY <1>1, <1>2, <1>3 DEF CheckInv, BudgetsAreExact

-----------------------------------------------------------------------------
(* The queue *)

LEMMA GroupsKeep == ASSUME CheckInv, Groups PROVE CheckInv'
<1>1. UNCHANGED <<documents, limits, contracts, sources, scan, usage, matched, report>> /\ outcome = "accepted"
  BY DEF Groups, resolution
<1>2. Checked /\ Sketches /\ CheckInit BY <1>1 DEF CheckInv
<1>3. Checked' /\ Sketches' BY <1>1, <1>2, SameLimits
<1> DEFINE n == Len(contracts)
<1>4. n \in Nat /\ DOMAIN contracts = 1..n BY <1>2, SketchesAre
<1>5. \A i, j \in DOMAIN contracts : contracts[i] = contracts[j] => i = j
  <2> SUFFICES ASSUME NEW i \in DOMAIN contracts, NEW j \in DOMAIN contracts, contracts[i] = contracts[j]
               PROVE  i = j
    OBVIOUS
  <2>1. contracts[i] \in Range(contracts) /\ contracts[i].id \in Nat BY <1>2, SketchesAre DEF Range
  <2>2. ~(i < j) /\ ~(j < i) BY <1>2, <2>1 DEF Sketches
  <2> QED BY <1>4, <2>2
<1>6. PICK order \in Bijection(1..n, 1..n) : queue' = [i \in 1..n |-> contracts[order[i]]]
  <2>1. PICK p \in Bijection(DOMAIN contracts, DOMAIN contracts) : queue' = [i \in DOMAIN contracts |-> contracts[p[i]]]
    BY DEF Groups, Sorted
  <2> QED BY <1>4, <2>1
<1>7. /\ order \in [1..n -> 1..n] /\ \A i, j \in 1..n : order[i] = order[j] => i = j
      /\ \A k \in 1..n : \E i \in 1..n : order[i] = k
  BY DEF Bijection, Injection, Surjection, IsInjective
<1>8. queue' \in Seq(Range(contracts)) /\ Range(queue') = Range(contracts)
  <2>1. \A i \in 1..n : contracts[order[i]] \in Range(contracts) BY <1>4, <1>7 DEF Range
  <2>2. queue' \in [1..n -> Range(contracts)] BY <1>6, <2>1
  <2>3. \A i \in 1..n : \E k \in 1..n : queue'[k] = contracts[i] BY <1>6, <1>7
  <2>4. DOMAIN queue' = 1..n BY <1>6
  <2>5. Range(queue') = Range(contracts) BY <1>4, <2>2, <2>3, <2>4 DEF Range
  <2> QED BY <1>4, <2>2, <2>5
<1>9. IsInjective(queue')
  <2> SUFFICES ASSUME NEW i \in 1..n, NEW j \in 1..n, queue'[i] = queue'[j] PROVE i = j BY <1>6 DEF IsInjective
  <2>1. order[i] \in 1..n /\ order[j] \in 1..n /\ contracts[order[i]] = contracts[order[j]] BY <1>6, <1>7
  <2>2. order[i] = order[j] BY <1>4, <1>5, <2>1
  <2> QED BY <1>7, <2>2
<1>10. Queued' /\ Finished' = {} BY <1>1, <1>8, <1>9 DEF Queued, Finished
<1>11. ReportedSoFar'
  <2>1. FinishedFailing' = {} BY <1>10 DEF FinishedFailing
  <2>2. report' = <<>> /\ matched' = 0 BY <1>1, <1>2 DEF CheckInit
  <2>3. Cardinality({}) = 0 BY FS_EmptySet
  <2>4. report' \in Seq({}) /\ Len(report') = 0 /\ DOMAIN report' = {} /\ Range(report') = {} BY <2>2 DEF Range
  <2>5. limits.diagnostics \in Nat BY <1>2 DEF Checked
  <2> QED BY <1>1, <1>10, <2>1, <2>2, <2>3, <2>4, <2>5 DEF ReportedSoFar
<1>12. ComparedBy({}) = {} /\ FoundBy({}) = {} BY DEF ComparedBy, FoundBy
<1>13. Charged(0, 0)'
  <2>1. Cardinality({}) = 0 BY FS_EmptySet
  <2>2. ComparedBy(Finished)' = {} /\ FoundBy(Finished)' = {} BY <1>10 DEF ComparedBy, FoundBy
  <2>3. usage' = [comparisons |-> 0, occurrences |-> 0, bytes |-> 0] BY <1>1, <1>2 DEF CheckInit
  <2>4. limits'.comparisons \in Nat /\ limits'.occurrences \in Nat BY <1>1, <1>2 DEF Checked
  <2> QED BY <2>1, <2>2, <2>3, <2>4 DEF Charged
<1>14. scan' = NoScan BY <1>1, <1>2 DEF CheckInit
<1>15. \A c : Working(c)'
  <2> SUFFICES ASSUME NEW c PROVE Working(c)' OBVIOUS
  <2>1. ComparedPart(c)' = {} /\ FoundPart(c)' = {} BY <1>14 DEF ComparedPart, FoundPart, NoScan
  <2>2. Cardinality({}) = 0 BY FS_EmptySet
  <2>3. Scanning(c)' BY <1>14 DEF Scanning, NoScan
  <2> QED BY <1>13, <2>1, <2>2, <2>3 DEF Working
<1>16. Underway' BY <1>3, <1>10, <1>11, <1>13, <1>15 DEF Underway
<1>17. outcome' = "matching" BY DEF Groups
<1>18. BudgetsAreExact' BY <1>17 DEF BudgetsAreExact
<1> QED BY <1>16, <1>17, <1>18 DEF CheckInv

LEMMA CurrentIs ==
    ASSUME Underway, queue # <<>>
    PROVE  /\ Contract \in Range(contracts) \ Finished /\ Working(Contract)
           /\ Tail(queue) \in Seq(Range(contracts)) /\ IsInjective(Tail(queue))
           /\ Range(contracts) \ Range(Tail(queue)) = Finished \cup {Contract}
           /\ IsFiniteSet(Finished) /\ Finished \in SUBSET Range(contracts)
<1> DEFINE R == Range(contracts) c == Contract rest == Tail(queue)
<1>1. queue \in Seq(R) /\ IsInjective(queue) BY DEF Underway, Queued
<1>2. /\ Len(queue) \in Nat \ {0} /\ c = queue[1] /\ DOMAIN queue = 1..Len(queue)
      /\ rest \in Seq(R) /\ Len(rest) = Len(queue) - 1 /\ \A i \in 1..Len(rest) : rest[i] = queue[i + 1]
  BY <1>1, HeadTailProperties DEF Contract
<1>3. DOMAIN rest = 1..Len(rest) BY <1>2
<1>4. c \in R BY <1>1, <1>2
<1>5. IsInjective(rest)
  <2> SUFFICES ASSUME NEW i \in 1..Len(rest), NEW j \in 1..Len(rest), rest[i] = rest[j] PROVE i = j
    BY <1>3 DEF IsInjective
  <2>1. i + 1 \in 1..Len(queue) /\ j + 1 \in 1..Len(queue) /\ queue[i + 1] = queue[j + 1] BY <1>2
  <2>2. i + 1 = j + 1 BY <1>1, <1>2, <2>1 DEF IsInjective
  <2> QED BY <1>2, <2>2
<1>6. Range(queue) = Range(rest) \cup {c}
  <2>1. ASSUME NEW x \in Range(queue) PROVE x \in Range(rest) \cup {c}
    <3>1. PICK i \in 1..Len(queue) : x = queue[i] BY <1>2 DEF Range
    <3>2. CASE i = 1 BY <1>2, <3>1, <3>2
    <3>3. CASE i # 1
      <4>1. i - 1 \in 1..Len(rest) /\ (i - 1) + 1 = i BY <1>2, <3>3
      <4>2. x = rest[i - 1] BY <1>2, <3>1, <4>1
      <4> QED BY <1>3, <4>1, <4>2 DEF Range
    <3> QED BY <3>2, <3>3
  <2>2. ASSUME NEW x \in Range(rest) PROVE x \in Range(queue)
    <3>1. PICK i \in 1..Len(rest) : x = rest[i] BY <1>3 DEF Range
    <3>2. i + 1 \in 1..Len(queue) BY <1>2
    <3> QED BY <1>2, <3>1, <3>2 DEF Range
  <2>3. c \in Range(queue) BY <1>2 DEF Range
  <2> QED BY <2>1, <2>2, <2>3
<1>7. c \notin Range(rest)
  <2> SUFFICES ASSUME c \in Range(rest) PROVE FALSE OBVIOUS
  <2>1. PICK i \in 1..Len(rest) : c = rest[i] BY <1>3 DEF Range
  <2>2. i + 1 \in 1..Len(queue) /\ queue[i + 1] = queue[1] /\ 1 \in 1..Len(queue) BY <1>2, <2>1
  <2>3. i + 1 = 1 BY <1>1, <1>2, <2>2 DEF IsInjective
  <2> QED BY <1>2, <2>3
<1>8. Working(c) BY <1>4 DEF Underway, Contract
<1>9. Range(queue) \subseteq R BY <1>1 DEF Range
<1>10. IsFiniteSet(R) BY SketchesAre DEF Underway
<1>11. Finished = R \ Range(queue) BY DEF Finished
<1>12. Finished \subseteq R /\ IsFiniteSet(Finished) BY <1>10, <1>11, FS_Subset
<1> QED BY <1>2, <1>4, <1>5, <1>6, <1>7, <1>8, <1>9, <1>11, <1>12

LEMMA Dequeued ==
    ASSUME Underway, queue # <<>>, queue' = Tail(queue), UNCHANGED contracts
    PROVE  Queued' /\ Finished' = Finished \cup {Contract}
<1>1. Queued'
  <2>1. queue' \in Seq(Range(contracts')) /\ IsInjective(Tail(queue)) BY CurrentIs
  <2>2. IsInjective(queue') BY <2>1
  <2> QED BY <2>1, <2>2 DEF Queued
<1>2. Finished' = Range(contracts) \ Range(Tail(queue)) BY DEF Finished
<1> QED BY <1>1, <1>2, CurrentIs

LEMMA FinishedOneMore ==
    ASSUME Underway, queue # <<>>
    PROVE  /\ Cardinality(Finished) \in Nat
           /\ Cardinality(Finished \cup {Contract}) = Cardinality(Finished) + 1
           /\ IsFiniteSet(FinishedFailing) /\ Contract \notin FinishedFailing
           /\ Cardinality(FinishedFailing) \in Nat
           /\ Cardinality(FinishedFailing \cup {Contract}) = Cardinality(FinishedFailing) + 1
<1>1. IsFiniteSet(Finished) /\ Contract \notin Finished BY CurrentIs
<1>2. FinishedFailing \subseteq Finished BY DEF FinishedFailing
<1>3. IsFiniteSet(FinishedFailing) /\ Contract \notin FinishedFailing BY <1>1, <1>2, FS_Subset
<1> QED BY <1>1, <1>3, FS_AddElement, FS_CardinalityType

\* A sketch whose policy holds is counted.
LEMMA SatisfiedReports ==
    ASSUME Underway, queue # <<>>, queue' = Tail(queue), UNCHANGED <<contracts, sources, limits>>,
           Holds(Contract), matched' = matched + 1, report' = report
    PROVE  ReportedSoFar'
<1> DEFINE F == FinishedFailing
<1>1. Finished' = Finished \cup {Contract} BY Dequeued
<1>2. FinishedFailing' = F BY <1>1, SameSearch DEF FinishedFailing
<1>3. \A d, c : Right(d, c)' = Right(d, c) BY SameRight
<1>4. ReportedSoFar BY DEF Underway
<1>5. Cardinality(Finished') = Cardinality(Finished) + 1 /\ Cardinality(Finished) \in Nat BY <1>1, FinishedOneMore
<1>6. Len(report) \in Nat BY <1>4 DEF ReportedSoFar
<1>7. matched' \in Nat /\ matched' + Len(report') = Cardinality(Finished')
  BY <1>4, <1>5, <1>6 DEF ReportedSoFar
<1>8. \A d \in Range(report)' : \E c \in FinishedFailing' : Right(d, c)'
  <2> SUFFICES ASSUME NEW d \in Range(report) PROVE \E c \in F : Right(d, c)' BY <1>2 DEF Range
  <2>1. PICK c \in F : Right(d, c) BY <1>4 DEF ReportedSoFar
  <2> QED BY <1>3, <2>1
<1> QED BY <1>2, <1>4, <1>7, <1>8 DEF ReportedSoFar

\* One whose policy does not is reported.
LEMMA PushedReports ==
    ASSUME Underway, queue # <<>>, queue' = Tail(queue), UNCHANGED <<contracts, sources, limits, matched>>,
           ~Holds(Contract), NEW d, Right(d, Contract), report' = Append(report, d),
           ~(Len(report) + 1 > limits.diagnostics)
    PROVE  ReportedSoFar'
<1>1. Finished' = Finished \cup {Contract} BY Dequeued
<1>2. FinishedFailing' = FinishedFailing \cup {Contract} BY <1>1, SameSearch DEF FinishedFailing
<1>3. \A e, c : Right(e, c)' = Right(e, c) BY SameRight
<1>4. ReportedSoFar BY DEF Underway
<1>5. /\ Contract \notin FinishedFailing
      /\ Cardinality(FinishedFailing') = Cardinality(FinishedFailing) + 1 /\ Cardinality(FinishedFailing) \in Nat
      /\ Cardinality(Finished') = Cardinality(Finished) + 1 /\ Cardinality(Finished) \in Nat
  BY <1>1, <1>2, FinishedOneMore
<1> DEFINE n == Len(report)
<1>6. n \in Nat /\ DOMAIN report = 1..n BY <1>4 DEF ReportedSoFar
<1>7. /\ n = Cardinality(FinishedFailing) /\ matched \in Nat /\ matched + n = Cardinality(Finished)
  BY <1>4 DEF ReportedSoFar
<1>8. /\ \E S : report' \in Seq(S) /\ DOMAIN report' = 1..(n + 1) /\ Len(report') = n + 1
      /\ \A i \in 1..n : report'[i] = report[i]
      /\ report'[n + 1] = d
  <2>1. PICK S : report \in Seq(S) BY <1>4 DEF ReportedSoFar
  <2> DEFINE T == S \cup {d}
  <2>2. report \in Seq(T) /\ d \in T BY <2>1
  <2> HIDE DEF T
  <2>3. report' \in Seq(T) /\ Len(report') = n + 1 /\ (\A i \in 1..n : report'[i] = report[i]) /\ report'[n + 1] = d
    BY <2>2, AppendProperties
  <2>4. DOMAIN report' = 1..(n + 1) BY <2>3
  <2> QED BY <2>3, <2>4
<1>9. limits.diagnostics \in Nat BY DEF Underway, Checked
<1>10. d.id = Contract.id BY DEF Right
<1>11. \A c \in FinishedFailing : c.id # Contract.id
  <2>1. Contract \in Range(contracts) /\ FinishedFailing \subseteq Range(contracts)
    BY CurrentIs DEF FinishedFailing, Finished
  <2>2. \A c, e \in Range(contracts) : c.id = e.id => c = e BY SketchesAre DEF Underway
  <2> QED BY <1>5, <2>1, <2>2
<1>12. \A i \in 1..n : report[i].id # d.id
  <2> SUFFICES ASSUME NEW i \in 1..n PROVE report[i].id # d.id OBVIOUS
  <2>1. report[i] \in Range(report) BY <1>6 DEF Range
  <2>2. PICK c \in FinishedFailing : Right(report[i], c) BY <1>4, <2>1 DEF ReportedSoFar
  <2>3. report[i].id = c.id BY <2>2 DEF Right
  <2> QED BY <1>10, <1>11, <2>3
<1>13. \A i \in 1..(n + 1) : i \in 1..n \/ i = n + 1 BY <1>6
<1>14. n + 1 \in 1..(n + 1) /\ \A i \in 1..n : i \in 1..(n + 1) BY <1>6
<1>15. Range(report') = Range(report) \cup {d}
  <2>1. \A x : x \in Range(report') <=> \E i \in 1..(n + 1) : x = report'[i] BY <1>8 DEF Range
  <2>2. \A x : x \in Range(report) <=> \E i \in 1..n : x = report[i] BY <1>6 DEF Range
  <2> HIDE DEF n
  <2> QED BY <1>8, <1>13, <1>14, <2>1, <2>2
<1>16. \A e \in Range(report)' : \E c \in FinishedFailing' : Right(e, c)'
  <2> SUFFICES ASSUME NEW e \in Range(report) \cup {d} PROVE \E c \in FinishedFailing \cup {Contract} : Right(e, c)
    BY <1>2, <1>3, <1>15 DEF Range
  <2>1. CASE e = d BY <2>1
  <2>2. CASE e \in Range(report) BY <1>4, <2>2 DEF ReportedSoFar
  <2> QED BY <2>1, <2>2
<1>17. \A c \in FinishedFailing' : \E i \in DOMAIN report' : report'[i].id = c.id
  <2> SUFFICES ASSUME NEW c \in FinishedFailing \cup {Contract} PROVE \E i \in 1..(n + 1) : report'[i].id = c.id
    BY <1>2, <1>8
  <2>1. CASE c = Contract BY <1>8, <1>10, <1>14, <2>1
  <2>2. CASE c \in FinishedFailing
    <3>1. PICK i \in 1..n : report[i].id = c.id BY <1>4, <1>6, <2>2 DEF ReportedSoFar
    <3> QED BY <1>8, <1>14, <3>1
  <2> QED BY <2>1, <2>2
<1>18. \A i, j \in DOMAIN report' : report'[i].id = report'[j].id => i = j
  <2> SUFFICES ASSUME NEW i \in 1..(n + 1), NEW j \in 1..(n + 1), report'[i].id = report'[j].id PROVE i = j
    BY <1>8
  <2>1. \A k, l \in 1..n : report[k].id = report[l].id => k = l BY <1>4, <1>6 DEF ReportedSoFar
  <2> HIDE DEF n
  <2> QED BY <1>8, <1>12, <1>13, <2>1
<1>19. Len(report') = Cardinality(FinishedFailing') /\ Len(report') <= limits'.diagnostics
  BY <1>5, <1>6, <1>7, <1>8, <1>9
<1>20. matched' \in Nat /\ matched' + Len(report') = Cardinality(Finished') BY <1>5, <1>6, <1>7, <1>8
<1> QED BY <1>8, <1>16, <1>17, <1>18, <1>19, <1>20 DEF ReportedSoFar

-----------------------------------------------------------------------------
(* The steps of a check, by their effect *)

LEMMA SameReport ==
    ASSUME ReportedSoFar, UNCHANGED <<contracts, sources, limits, queue, report, matched>>
    PROVE  ReportedSoFar' /\ Finished' = Finished
<1>1. Finished' = Finished BY DEF Finished
<1>2. FinishedFailing' = FinishedFailing BY <1>1, SameSearch DEF FinishedFailing
<1>3. \A d \in Range(report)' : \E c \in FinishedFailing' : Right(d, c)'
  <2> SUFFICES ASSUME NEW d \in Range(report) PROVE \E c \in FinishedFailing : Right(d, c)' BY <1>2 DEF Range
  <2>1. PICK c \in FinishedFailing : Right(d, c) BY DEF ReportedSoFar
  <2> QED BY SameRight, <2>1
<1> QED BY <1>1, <1>2, <1>3 DEF ReportedSoFar

LEMMA SameCharge ==
    ASSUME NEW k, NEW l, Charged(k, l), UNCHANGED <<contracts, sources, limits, queue, usage>>
    PROVE  Charged(k, l)'
<1>1. Finished' = Finished BY DEF Finished
<1>2. ComparedBy(Finished)' = ComparedBy(Finished) /\ FoundBy(Finished)' = FoundBy(Finished)
  <2>1. PICK K : K = Finished OBVIOUS
  <2>2. ComparedBy(Finished)' = ComparedBy(K)' /\ FoundBy(Finished)' = FoundBy(K)' BY <1>1, <2>1 DEF ComparedBy, FoundBy
  <2> QED BY <2>1, <2>2, SameSearch
<1> QED BY <1>2 DEF Charged

\* The next line, start or phase of the same sketch.
LEMMA StayKeeps ==
    ASSUME Underway, outcome = "matching", queue # <<>>,
           UNCHANGED <<resolution, outcome, sources, queue, matched, report>>, NEW c, c = Contract, Working(c)'
    PROVE  CheckInv'
<1>1. UNCHANGED <<contracts, documents, limits>> BY DEF resolution
<1>2. Checked' /\ Sketches' BY <1>1, SameLimits DEF Underway
<1>3. Queued' BY <1>1 DEF Underway, Queued
<1>4. ReportedSoFar' BY <1>1, SameReport DEF Underway
<1>5. \A d \in Range(contracts') : queue' # <<>> /\ d = Head(queue') => Working(d)' BY DEF Contract
<1>6. Underway' BY <1>2, <1>3, <1>4, <1>5 DEF Underway
<1> QED BY <1>6 DEF CheckInv, BudgetsAreExact

\* The costs of the present sketch are known in full.
Paid(comparisons, occurrences) ==
    IF Present(Contract)
      THEN /\ comparisons = Cardinality(ComparedBy(Finished)) + Cardinality(Compared(Contract))
           /\ occurrences = Cardinality(FoundBy(Finished)) + Cardinality(First(Hits(Contract), Contract))
    ELSE comparisons = Cardinality(ComparedBy(Finished)) /\ occurrences = Cardinality(FoundBy(Finished))

LEMMA PaidOneMore ==
    ASSUME Underway, queue # <<>>, NEW k, NEW l, Paid(k, l)
    PROVE  /\ k = Cardinality(ComparedBy(Finished \cup {Contract}))
           /\ l = Cardinality(FoundBy(Finished \cup {Contract}))
<1>1. Contract \in Range(contracts) \ Finished /\ Finished \in SUBSET Range(contracts) BY CurrentIs
<1> QED BY <1>1, OneSketchMore DEF Paid, Underway

LEMMA AdvanceKeeps ==
    ASSUME Underway, outcome = "matching", queue # <<>>, NextSketch,
           UNCHANGED <<resolution, outcome, sources>>, ReportedSoFar',
           NEW k, NEW l, NEW b, Paid(k, l), usage' = [comparisons |-> k, occurrences |-> l, bytes |-> b],
           k <= limits.comparisons, l <= limits.occurrences
    PROVE  CheckInv'
<1>1. UNCHANGED <<contracts, documents, limits>> BY DEF resolution
<1>2. Checked' /\ Sketches' BY <1>1, SameLimits DEF Underway
<1>3. queue' = Tail(queue) /\ scan' = NoScan BY DEF NextSketch
<1>4. Queued' /\ Finished' = Finished \cup {Contract} BY <1>1, <1>3, Dequeued
<1>5. Charged(0, 0)'
  <2>1. PICK K : K = Finished \cup {Contract} OBVIOUS
  <2>2. ComparedBy(Finished)' = ComparedBy(K)' /\ FoundBy(Finished)' = FoundBy(K)'
    BY <1>4, <2>1 DEF ComparedBy, FoundBy
  <2>3. k = Cardinality(ComparedBy(Finished)') /\ l = Cardinality(FoundBy(Finished)')
    BY <1>1, <2>1, <2>2, SameSearch, PaidOneMore
  <2>4. k \in Nat /\ l \in Nat
    <3>1. K \in SUBSET Range(contracts) BY <2>1, CurrentIs
    <3>2. IsFiniteSet(ComparedBy(K)) /\ IsFiniteSet(FoundBy(K)) BY <3>1, CostsFinite DEF Underway
    <3> QED BY <2>1, <3>2, PaidOneMore, FS_CardinalityType
  <2> QED BY <1>1, <2>3, <2>4 DEF Charged
<1>6. \A c : Working(c)'
  <2> SUFFICES ASSUME NEW c PROVE Working(c)' OBVIOUS
  <2>1. ComparedPart(c)' = {} /\ FoundPart(c)' = {} BY <1>3 DEF ComparedPart, FoundPart, NoScan
  <2>2. Cardinality({}) = 0 BY FS_EmptySet
  <2>3. Scanning(c)' BY <1>3 DEF Scanning, NoScan
  <2> QED BY <1>5, <2>1, <2>2, <2>3 DEF Working
<1>7. Underway' BY <1>2, <1>4, <1>5, <1>6 DEF Underway
<1> QED BY <1>7 DEF CheckInv, BudgetsAreExact

\* A check that ends for a budget.
LEMMA RefuseKeeps ==
    ASSUME NEW budget \in {"comparisons", "occurrences", "diagnostics", "bytes", "source"}, Refuse(budget),
           UNCHANGED <<resolution, sources>>,
           budget = "comparisons" => Cardinality(Comparing) > limits.comparisons,
           budget = "occurrences" => Cardinality(Finding) > limits.occurrences,
           budget = "diagnostics" => Cardinality(Failing) > limits.diagnostics,
           budget = "source" => \E c \in Range(contracts) : Present(c) /\
               OverBudget(SourceLines(c), limits.sourceBytes, limits.sourceLines)
    PROVE  CheckInv'
<1>1. UNCHANGED <<contracts, limits>> /\ outcome' = budget BY DEF resolution, Refuse
<1>2. Comparing' = Comparing /\ Finding' = Finding /\ Failing' = Failing BY <1>1, SameSearch
<1>3. \A c : Present(c)' = Present(c) BY <1>1, SameSearch
<1>4. BudgetsAreExact' BY <1>1, <1>2, <1>3 DEF BudgetsAreExact, SourceLines
<1> QED BY <1>1, <1>4 DEF CheckInv

LEMMA TooManyFail ==
    ASSUME Underway, queue # <<>>, ~Holds(Contract), Len(report) + 1 > limits.diagnostics
    PROVE  Cardinality(Failing) > limits.diagnostics
<1>1. FinishedFailing \cup {Contract} \subseteq Failing BY CurrentIs DEF FinishedFailing, Finished, Failing
<1>2. IsFiniteSet(Failing)
  <2>1. IsFiniteSet(Range(contracts)) BY SketchesAre DEF Underway
  <2> QED BY <2>1, FS_Subset DEF Failing
<1>3. Cardinality(FinishedFailing \cup {Contract}) <= Cardinality(Failing) /\ Cardinality(Failing) \in Nat
  BY <1>1, <1>2, FS_Subset, FS_CardinalityType
<1>4. Len(report) = Cardinality(FinishedFailing) /\ limits.diagnostics \in Nat
  BY DEF Underway, ReportedSoFar, Checked
<1> QED BY <1>3, <1>4, FinishedOneMore

LEMMA PushKeeps ==
    ASSUME Underway, outcome = "matching", queue # <<>>, NEW d, Push(d), Right(d, Contract), ~Holds(Contract),
           UNCHANGED <<resolution, sources>>, Paid(usage.comparisons, usage.occurrences)
    PROVE  CheckInv'
<1>1. CASE Len(report) + 1 > limits.diagnostics
  BY <1>1, TooManyFail, RefuseKeeps DEF Push
<1>2. CASE ~(Len(report) + 1 > limits.diagnostics) /\ usage.bytes + Weight(d) > limits.bytes
  BY <1>2, RefuseKeeps DEF Push
<1>3. CASE ~(Len(report) + 1 > limits.diagnostics) /\ ~(usage.bytes + Weight(d) > limits.bytes)
  <2>1. /\ report' = Append(report, d) /\ usage' = [usage EXCEPT !.bytes = @ + Weight(d)]
        /\ NextSketch /\ UNCHANGED <<outcome, matched>>
    BY <1>3 DEF Push
  <2>2. UNCHANGED <<contracts, limits>> BY DEF resolution
  <2>3. ReportedSoFar' BY <1>3, <2>1, <2>2, PushedReports DEF NextSketch
  <2>4. PICK k, l : Charged(k, l)
    <3>1. Working(Contract) BY CurrentIs
    <3> QED BY <3>1 DEF Working
  <2>5. /\ usage.comparisons <= limits.comparisons /\ usage.occurrences <= limits.occurrences
        /\ usage = [comparisons |-> usage.comparisons, occurrences |-> usage.occurrences, bytes |-> usage.bytes]
    BY <2>4 DEF Charged
  <2> DEFINE b == usage.bytes + Weight(d)
  <2>6. usage' = [comparisons |-> usage.comparisons, occurrences |-> usage.occurrences, bytes |-> b]
    <3> HIDE DEF b
    <3>1. usage' = [usage EXCEPT !.bytes = b] BY <2>1 DEF b
    <3> QED BY <2>5, <3>1
  <2> HIDE DEF b
  <2> QED BY <2>1, <2>3, <2>5, <2>6, AdvanceKeeps
<1> QED BY <1>1, <1>2, <1>3

-----------------------------------------------------------------------------
(* What the scan of a source adds up to *)

LEMMA PartsAreAffordable ==
    ASSUME Checked, Sketches, NEW K \in SUBSET Range(contracts), NEW c \in Range(contracts) \ K, Present(c)
    PROVE  /\ \A D : D \subseteq Compared(c) =>
                 Cardinality(ComparedBy(K)) + Cardinality(D) <= Cardinality(Comparing)
           /\ \A D : D \subseteq First(Hits(c), c) =>
                 Cardinality(FoundBy(K)) + Cardinality(D) <= Cardinality(Finding)
           /\ Cardinality(ComparedBy(K)) \in Nat /\ Cardinality(FoundBy(K)) \in Nat
           /\ Cardinality(Comparing) \in Nat /\ Cardinality(Finding) \in Nat
<1>1. /\ Cardinality(ComparedBy(K)) \in Nat /\ Cardinality(FoundBy(K)) \in Nat
      /\ Cardinality(ComparedBy(K \cup {c})) = Cardinality(ComparedBy(K)) + Cardinality(Compared(c))
      /\ Cardinality(FoundBy(K \cup {c})) = Cardinality(FoundBy(K)) + Cardinality(First(Hits(c), c))
  BY OneSketchMore
<1>2. K \cup {c} \in SUBSET Range(contracts) OBVIOUS
<1>3. /\ Cardinality(ComparedBy(K \cup {c})) <= Cardinality(Comparing)
      /\ Cardinality(FoundBy(K \cup {c})) <= Cardinality(Finding)
      /\ Cardinality(Comparing) \in Nat /\ Cardinality(Finding) \in Nat
  BY <1>2, AllSketches
<1>4. IsFiniteSet(Compared(c)) BY ComparedIs
<1>5. IsFiniteSet(First(Hits(c), c))
  <2>1. IsFiniteSet(Hits(c)) BY SketchSearchable, HitsCounted
  <2> QED BY <2>1, FS_Subset DEF First
<1>6. ASSUME NEW D, D \subseteq Compared(c)
      PROVE  Cardinality(ComparedBy(K)) + Cardinality(D) <= Cardinality(Comparing)
  <2>1. Cardinality(D) <= Cardinality(Compared(c)) /\ Cardinality(D) \in Nat /\ Cardinality(Compared(c)) \in Nat
    BY <1>4, <1>6, FS_Subset, FS_CardinalityType
  <2> QED BY <1>1, <1>3, <2>1
<1>7. ASSUME NEW D, D \subseteq First(Hits(c), c)
      PROVE  Cardinality(FoundBy(K)) + Cardinality(D) <= Cardinality(Finding)
  <2>1. /\ Cardinality(D) <= Cardinality(First(Hits(c), c)) /\ Cardinality(D) \in Nat
        /\ Cardinality(First(Hits(c), c)) \in Nat
    BY <1>5, <1>7, FS_Subset, FS_CardinalityType
  <2> QED BY <1>1, <1>3, <2>1
<1> QED BY <1>1, <1>3, <1>6, <1>7

LEMMA EarlierHits ==
    ASSUME Checked, Sketches, NEW c \in Range(contracts), Present(c), NEW n \in Nat
    PROVE  /\ Earlier(c, 0) = {} /\ IsFiniteSet(Earlier(c, n)) /\ Cardinality(Earlier(c, n)) \in Nat
           /\ n \notin Hits(c) => Earlier(c, n + 1) = Earlier(c, n)
           /\ n \in Hits(c) => /\ Earlier(c, n + 1) = Earlier(c, n) \cup {n}
                               /\ Cardinality(Earlier(c, n + 1)) = Cardinality(Earlier(c, n)) + 1
           /\ {s \in Hits(c) : s <= n} = Earlier(c, n + 1)
           /\ Earlier(c, LineCount(SourceLines(c))) = Hits(c)
           /\ Hits(c) \subseteq Nat /\ IsFiniteSet(Hits(c)) /\ Cardinality(Hits(c)) \in Nat
           /\ Cardinality(Hits(c)) = 0 <=> Hits(c) = {}
           /\ Cardinality(Occurrences(c)) = Cardinality(Hits(c))
           /\ Occurrences(c) = {} <=> Hits(c) = {}
<1>1. /\ Hits(c) \subseteq Nat /\ IsFiniteSet(Hits(c))
      /\ Cardinality(Occurrences(c)) = Cardinality(Hits(c)) /\ (Occurrences(c) = {} <=> Hits(c) = {})
  BY SketchSearchable, HitsCounted
<1>2. Cardinality(Hits(c)) \in Nat /\ (Cardinality(Hits(c)) = 0 <=> Hits(c) = {})
  BY <1>1, FS_CardinalityType, FS_EmptySet
<1>3. IsFiniteSet(Earlier(c, n)) /\ Cardinality(Earlier(c, n)) \in Nat
  <2>1. IsFiniteSet(Earlier(c, n)) BY <1>1, FS_Subset DEF Earlier
  <2> QED BY <2>1, FS_CardinalityType
<1>4. Earlier(c, 0) = {} BY <1>1 DEF Earlier
<1>5. n \notin Hits(c) => Earlier(c, n + 1) = Earlier(c, n) BY <1>1 DEF Earlier
<1>6. n \in Hits(c) => Earlier(c, n + 1) = Earlier(c, n) \cup {n} BY <1>1 DEF Earlier
<1>7. n \in Hits(c) => Cardinality(Earlier(c, n + 1)) = Cardinality(Earlier(c, n)) + 1
  <2>1. n \notin Earlier(c, n) BY DEF Earlier
  <2> QED BY <1>3, <1>6, <2>1, FS_AddElement
<1>8. {s \in Hits(c) : s <= n} = Earlier(c, n + 1) BY <1>1 DEF Earlier
<1>9. Earlier(c, LineCount(SourceLines(c))) = Hits(c)
  <2>1. LineCount(SourceLines(c)) \in Nat BY SketchSearchable
  <2>2. Hits(c) \subseteq 0..(LineCount(SourceLines(c)) - 1) BY DEF Hits, Starts, SourceLines
  <2> DEFINE m == LineCount(SourceLines(c))
  <2> HIDE DEF m
  <2>3. Hits(c) \subseteq 0..(m - 1) /\ m \in Nat BY <2>1, <2>2 DEF m
  <2>4. Earlier(c, m) = Hits(c) BY <2>3 DEF Earlier
  <2> QED BY <2>4 DEF m
<1> QED BY <1>1, <1>2, <1>3, <1>4, <1>5, <1>6, <1>7, <1>8, <1>9

\* A hit ends the search of a sketch that needs one, and no other.
LEMMA SearchedSoFar ==
    ASSUME Checked, Sketches, NEW c \in Range(contracts), Present(c), NEW n \in Nat,
           n < LineCount(SourceLines(c)),
           c.occurrence = "at_least_one" => Earlier(c, n) = {}
    PROVE  /\ 0..n \subseteq Searched(c)
           /\ n \in Hits(c) => Earlier(c, n + 1) \subseteq First(Hits(c), c)
           /\ c.occurrence = "at_least_one" /\ n \in Hits(c) => Searched(c) = 0..n /\ First(Hits(c), c) = {n}
<1> DEFINE m == LineCount(SourceLines(c))
<1>1. m \in Nat /\ Starts(c) = 0..(m - 1) /\ n < m BY SketchSearchable DEF Starts, SourceLines
<1> HIDE DEF m
<1>2. Hits(c) \subseteq Nat BY EarlierHits
<1>3. c.occurrence = "at_least_one" => \A h \in Hits(c) : n <= h BY <1>2 DEF Earlier
<1>4. 0..n \subseteq Starts(c) BY <1>1
<1>5. 0..n \subseteq Searched(c)
  <2> SUFFICES ASSUME NEW s \in 0..n, c.occurrence = "at_least_one", NEW h \in Hits(c) PROVE s <= h
    BY <1>4 DEF Searched
  <2> QED BY <1>2, <1>3
<1>6. n \in Hits(c) => Earlier(c, n + 1) \subseteq First(Hits(c), c)
  <2> SUFFICES ASSUME n \in Hits(c), NEW s \in Earlier(c, n + 1), c.occurrence = "at_least_one", NEW q \in Hits(c)
               PROVE  s <= q
    BY DEF First, Earlier
  <2>1. s \in Nat /\ s < n + 1 /\ q \in Nat /\ n <= q BY <1>2, <1>3 DEF Earlier
  <2> QED BY <2>1
<1>7. ASSUME c.occurrence = "at_least_one", n \in Hits(c) PROVE Searched(c) = 0..n /\ First(Hits(c), c) = {n}
  <2>1. \A s \in Searched(c) : s \in 0..n BY <1>1, <1>7 DEF Searched
  <2>2. \A s \in First(Hits(c), c) : s = n BY <1>2, <1>3, <1>7 DEF First
  <2>3. n \in First(Hits(c), c) BY <1>3, <1>7 DEF First
  <2> QED BY <1>5, <2>1, <2>2, <2>3
<1> QED BY <1>5, <1>6, <1>7

\* A source that has been searched to its end.
LEMMA SearchedAll ==
    ASSUME Checked, Sketches, NEW c \in Range(contracts), Present(c),
           c.occurrence = "at_least_one" => Hits(c) = {}
    PROVE  /\ First(Hits(c), c) = Hits(c)
           /\ Hits(c) # {} => Compared(c) = Decided(c, LineCount(SourceLines(c)))
           /\ Hits(c) = {} => Compared(c) = Decided(c, LineCount(SourceLines(c)))
                                              \cup Scored(c, LineCount(SourceLines(c)))
<1> DEFINE m == LineCount(SourceLines(c))
<1>1. First(Hits(c), c) = Hits(c) BY DEF First
<1>2. m \in Nat /\ Starts(c) = 0..(m - 1) BY SketchSearchable DEF Starts, SourceLines
<1>3. Searched(c) = Starts(c) BY DEF Searched
<1> QED BY <1>1, <1>2, <1>3, ComparedIs

-----------------------------------------------------------------------------
(* The actions of a check *)

Scans(c, step) ==
    /\ Underway /\ outcome = "matching" /\ queue # <<>> /\ scan.step = step
    /\ c = Contract /\ c \in Range(contracts) \ Finished /\ Working(c)
    /\ Finished \in SUBSET Range(contracts)

LEMMA ScanIs ==
    ASSUME CheckInv, NEW step, Matching(step)
    PROVE  Scans(Contract, step)
BY CurrentIs DEF Matching, CheckInv, Scans

LEMMA ScanRecord ==
    ASSUME NEW c, Scanning(c)
    PROVE  /\ scan = [step |-> scan.step, start |-> scan.start, hits |-> scan.hits, best |-> scan.best,
                      score |-> scan.score]
           /\ scan.start \in Nat /\ scan.hits \in Seq(Nat) /\ scan.best \in Nat /\ scan.score \in Nat
BY DEF Scanning

LEMMA BeginSketchKeeps == ASSUME CheckInv, BeginSketch PROVE CheckInv'
<1>1. PICK c : c = Contract OBVIOUS
<1>2. Scans(c, "begin") BY <1>1, ScanIs DEF BeginSketch
<1>3. UNCHANGED <<resolution, sources>> BY DEF BeginSketch
<1>4. scan = NoScan /\ Charged(0, 0)
  <2>1. scan = NoScan BY <1>2 DEF Scans, Working, Scanning
  <2>2. ComparedPart(c) = {} /\ FoundPart(c) = {} BY <2>1 DEF ComparedPart, FoundPart, NoScan
  <2>3. Cardinality({}) = 0 BY FS_EmptySet
  <2> QED BY <1>2, <2>1, <2>2, <2>3 DEF Scans, Working
<1>5. CASE ~Present(c)
  <2> DEFINE d == Diagnostic("missing_file")
  <2>1. Push(d) BY <1>1, <1>5 DEF BeginSketch, Present
  <2>2. d.id = c.id /\ d.kind = "missing_file" /\ d.actual = 0 BY <1>1 DEF Diagnostic
  <2> HIDE DEF d
  <2>3. Kind(c) = "missing_file" /\ ~Holds(c) BY <1>5 DEF Kind, Holds
  <2>4. Evidence(d, c) BY <2>2 DEF Evidence
  <2>5. Right(d, c) BY <2>2, <2>3, <2>4 DEF Right
  <2>6. Paid(usage.comparisons, usage.occurrences)
    <3>1. Cardinality(ComparedBy(Finished)) \in Nat /\ Cardinality(FoundBy(Finished)) \in Nat
      BY <1>2, OneSketchMore DEF Scans, Underway
    <3> QED BY <1>1, <1>4, <1>5, <3>1 DEF Paid, Charged
  <2> QED BY <1>1, <1>2, <1>3, <2>1, <2>3, <2>5, <2>6, PushKeeps DEF Scans
<1>6. CASE Present(c) /\ OverBudget(SourceLines(c), limits.sourceBytes, limits.sourceLines)
  <2>1. Refuse("source") BY <1>1, <1>6 DEF BeginSketch, Present, Source, SourceLines
  <2>2. c \in Range(contracts) BY <1>2 DEF Scans
  <2> QED BY <1>3, <1>6, <2>1, <2>2, RefuseKeeps
<1>7. CASE Present(c) /\ ~OverBudget(SourceLines(c), limits.sourceBytes, limits.sourceLines)
  <2>1. scan' = [scan EXCEPT !.step = "evaluate"] /\ UNCHANGED <<outcome, queue, usage, matched, report>>
    BY <1>1, <1>7 DEF BeginSketch, Present, Source, SourceLines
  <2>2. scan' = [step |-> "evaluate", start |-> 0, hits |-> <<>>, best |-> 0, score |-> 0]
    BY <1>4, <2>1 DEF NoScan
  <2>3. UNCHANGED <<contracts, limits>> BY <1>3 DEF resolution
  <2>4. Checked /\ Sketches /\ c \in Range(contracts) BY <1>2 DEF Scans, Underway
  <2>5. Decided(c, 0) = {} /\ Earlier(c, 0) = {} /\ Cardinality({}) = 0
    BY <1>7, <2>4, DecidedMore, EarlierHits, FS_EmptySet
  <2>6. Decided(c, 0)' = {} /\ Earlier(c, 0)' = {} /\ Present(c)' /\ SourceLines(c)' = SourceLines(c)
    BY <1>3, <1>7, <2>3, <2>5, SameSearch
  <2>7. LineCount(SourceLines(c)) \in Nat BY <1>7, <2>4, SketchSearchable
  <2>8. HitsSoFar(c)'
    <3>1. scan'.start = 0 /\ scan'.hits = <<>> /\ Len(scan'.hits) = 0 /\ DOMAIN (scan'.hits) = {} BY <2>2
    <3>2. Earlier(c, scan.start)' = {} BY <2>6, <3>1 DEF Earlier
    <3> QED BY <2>5, <3>1, <3>2 DEF HitsSoFar
  <2>9. Scanning(c)' BY <2>2, <2>6, <2>7, <2>8 DEF Scanning
  <2>10. ComparedPart(c)' = {} /\ FoundPart(c)' = {}
    <3>1. scan'.step = "evaluate" /\ scan'.start = 0 BY <2>2
    <3>2. ComparedPart(c)' = Decided(c, scan.start)' /\ FoundPart(c)' = Earlier(c, scan.start)'
      BY <3>1 DEF ComparedPart, FoundPart
    <3>3. Decided(c, scan.start)' = Decided(c, 0)' /\ Earlier(c, scan.start)' = Earlier(c, 0)'
      BY <3>1 DEF Decided, Earlier
    <3> QED BY <2>6, <3>2, <3>3
  <2>11. Charged(0, 0)' BY <1>3, <1>4, <2>1, <2>3, SameCharge
  <2>12. Working(c)' BY <2>5, <2>9, <2>10, <2>11 DEF Working
  <2> QED BY <1>1, <1>2, <1>3, <2>1, <2>12, StayKeeps DEF Scans
<1> QED BY <1>5, <1>6, <1>7

LEMMA ChargeMoves ==
    ASSUME UNCHANGED <<contracts, sources, limits, queue>>, NEW K, K = Finished, NEW k, NEW l, NEW b, NEW i, NEW j,
           usage' = [comparisons |-> k, occurrences |-> l, bytes |-> b],
           k = Cardinality(ComparedBy(K)) + i, l = Cardinality(FoundBy(K)) + j,
           k <= limits.comparisons, l <= limits.occurrences
    PROVE  Charged(i, j)'
<1>1. ComparedBy(K)' = ComparedBy(K) /\ FoundBy(K)' = FoundBy(K) BY SameSearch
<1>2. Finished' = K BY DEF Finished
<1>3. ComparedBy(Finished)' = ComparedBy(K)' /\ FoundBy(Finished)' = FoundBy(K)'
  BY <1>2 DEF ComparedBy, FoundBy
<1> QED BY <1>1, <1>3 DEF Charged

\* The search goes on.
LEMMA SearchGoesOn ==
    ASSUME NEW c, Scans(c, "evaluate"), Present(c),
           UNCHANGED <<resolution, outcome, sources, queue, matched, report>>,
           NEW n \in Nat, n <= LineCount(SourceLines(c)), NEW hits \in Seq(Nat),
           scan' = [step |-> "evaluate", start |-> n, hits |-> hits, best |-> scan.best, score |-> scan.score],
           Len(hits) = Cardinality(Earlier(c, n)),
           \A i \in DOMAIN hits : Cardinality({s \in Hits(c) : s <= hits[i]}) = i,
           c.occurrence = "at_least_one" => Earlier(c, n) = {},
           NEW k, NEW l, NEW b, usage' = [comparisons |-> k, occurrences |-> l, bytes |-> b],
           k = Cardinality(ComparedBy(Finished)) + Cardinality(Decided(c, n)),
           l = Cardinality(FoundBy(Finished)) + Cardinality(Earlier(c, n)),
           k <= limits.comparisons, l <= limits.occurrences
    PROVE  CheckInv'
<1>1. UNCHANGED <<contracts, limits>> BY DEF resolution
<1>2. /\ Present(c)' = Present(c) /\ SourceLines(c)' = SourceLines(c) /\ Hits(c)' = Hits(c)
      /\ Decided(c, n)' = Decided(c, n) /\ Earlier(c, n)' = Earlier(c, n)
  BY <1>1, SameSearch
<1>3. scan'.step = "evaluate" /\ scan'.start = n /\ scan'.hits = hits OBVIOUS
<1>4. Earlier(c, scan.start)' = Earlier(c, n) /\ Decided(c, scan.start)' = Decided(c, n)
  BY <1>1, <1>2, <1>3 DEF Earlier, Decided
<1>5. HitsSoFar(c)' BY <1>2, <1>3, <1>4 DEF HitsSoFar
<1>6. scan.best \in Nat /\ scan.score \in Nat BY DEF Scans, Working, Scanning
<1>7. Scanning(c)' BY <1>2, <1>3, <1>5, <1>6 DEF Scanning
<1>8. ComparedPart(c)' = Decided(c, n) /\ FoundPart(c)' = Earlier(c, n)
  BY <1>3, <1>4 DEF ComparedPart, FoundPart
<1>9. PICK i, j : i = Cardinality(Decided(c, n)) /\ j = Cardinality(Earlier(c, n)) OBVIOUS
<1>10. PICK K : K = Finished OBVIOUS
<1>11. Charged(i, j)' BY <1>1, <1>9, <1>10, ChargeMoves
<1>12. Working(c)' BY <1>7, <1>8, <1>9, <1>11 DEF Working
<1> QED BY <1>12, StayKeeps DEF Scans

LEMMA EvaluateKeeps == ASSUME CheckInv, EvaluateAt PROVE CheckInv'
<1>1. PICK c : c = Contract OBVIOUS
<1>2. Scans(c, "evaluate") BY <1>1, ScanIs DEF EvaluateAt
<1>3. UNCHANGED <<resolution, sources>> BY DEF EvaluateAt
<1>4. UNCHANGED <<contracts, limits>> BY <1>3 DEF resolution
<1>5. Checked /\ Sketches /\ c \in Range(contracts) \ Finished /\ Finished \in SUBSET Range(contracts)
  BY <1>2 DEF Scans, Underway
<1>6. Present(c) /\ HitsSoFar(c) /\ scan.step = "evaluate" BY <1>2 DEF Scans, Working, Scanning
<1> DEFINE n == scan.start lines == SnippetLines(c) source == SourceLines(c)
           compared == usage.comparisons + Comparisons(lines, source, n)
           spent == [usage EXCEPT !.comparisons = compared]
           found == [spent EXCEPT !.occurrences = @ + 1]
           on == [scan EXCEPT !.start = @ + 1]
<1>7. /\ scan = [step |-> "evaluate", start |-> n, hits |-> scan.hits, best |-> scan.best, score |-> scan.score]
      /\ n \in Nat /\ scan.hits \in Seq(Nat)
  BY <1>2, <1>6, ScanRecord DEF Scans, Working
<1>8. n < LineCount(source) /\ n + 1 <= LineCount(source) /\ LineCount(source) \in Nat
  <2>1. n < LineCount(source) BY <1>1 DEF EvaluateAt, Source, SourceLines
  <2>2. LineCount(source) \in Nat BY <1>5, <1>6, SketchSearchable
  <2> HIDE DEF source, n
  <2> QED BY <1>7, <2>1, <2>2
<1>9. Expected = lines /\ Source = source BY <1>1 DEF Expected, Source, SnippetLines, SourceLines
<1>10. n \in Hits(c) <=> MatchesAt(lines, source, n)
  <2>1. Starts(c) = 0..(LineCount(source) - 1) BY DEF Starts, SourceLines
  <2>2. n \in Starts(c)
    <3> HIDE DEF source, n
    <3> QED BY <1>7, <1>8, <2>1
  <2> QED BY <2>2 DEF Hits, SnippetLines, SourceLines
<1>11. /\ usage.comparisons = Cardinality(ComparedBy(Finished)) + Cardinality(Decided(c, n))
       /\ usage.occurrences = Cardinality(FoundBy(Finished)) + Cardinality(Earlier(c, n))
       /\ usage.comparisons <= limits.comparisons /\ usage.occurrences <= limits.occurrences
       /\ usage = [comparisons |-> usage.comparisons, occurrences |-> usage.occurrences, bytes |-> usage.bytes]
  <2>1. ComparedPart(c) = Decided(c, n) /\ FoundPart(c) = Earlier(c, n) BY <1>6 DEF ComparedPart, FoundPart
  <2> QED BY <1>2, <2>1 DEF Scans, Working, Charged
<1>12. /\ IsFiniteSet(Decided(c, n)) /\ Cardinality(Decided(c, n)) \in Nat
       /\ Cardinality(Decided(c, n + 1)) = Cardinality(Decided(c, n)) + Comparisons(lines, source, n)
       /\ Comparisons(lines, source, n) \in Nat
  BY <1>5, <1>6, <1>7, DecidedMore, ComparisonsCounted, FS_CardinalityType
<1>13. c.occurrence = "at_least_one" => Earlier(c, n) = {} BY <1>6 DEF HitsSoFar
<1>14. /\ 0..n \subseteq Searched(c)
       /\ n \in Hits(c) => Earlier(c, n + 1) \subseteq First(Hits(c), c)
       /\ c.occurrence = "at_least_one" /\ n \in Hits(c) => Searched(c) = 0..n /\ First(Hits(c), c) = {n}
  BY <1>5, <1>6, <1>7, <1>8, <1>13, SearchedSoFar
<1>15. /\ \A D : D \subseteq Compared(c) =>
             Cardinality(ComparedBy(Finished)) + Cardinality(D) <= Cardinality(Comparing)
       /\ \A D : D \subseteq First(Hits(c), c) =>
             Cardinality(FoundBy(Finished)) + Cardinality(D) <= Cardinality(Finding)
       /\ Cardinality(ComparedBy(Finished)) \in Nat /\ Cardinality(FoundBy(Finished)) \in Nat
       /\ Cardinality(Comparing) \in Nat /\ Cardinality(Finding) \in Nat
  BY <1>5, <1>6, PartsAreAffordable
<1>16. /\ Cardinality(Earlier(c, n)) \in Nat
       /\ n \notin Hits(c) => Earlier(c, n + 1) = Earlier(c, n)
       /\ n \in Hits(c) => Cardinality(Earlier(c, n + 1)) = Cardinality(Earlier(c, n)) + 1
       /\ {s \in Hits(c) : s <= n} = Earlier(c, n + 1)
  BY <1>5, <1>6, <1>7, EarlierHits
<1>17. limits.comparisons \in Nat /\ limits.occurrences \in Nat BY <1>5 DEF Checked
<1>18. n + 1 \in Nat /\ (n + 1) - 1 = n
  <2> HIDE DEF n
  <2> QED BY <1>7
<1>20. /\ spent = [comparisons |-> compared, occurrences |-> usage.occurrences, bytes |-> usage.bytes]
       /\ found = [comparisons |-> compared, occurrences |-> usage.occurrences + 1, bytes |-> usage.bytes]
  <2>1. spent = [comparisons |-> compared, occurrences |-> usage.occurrences, bytes |-> usage.bytes]
    <3> HIDE DEF compared
    <3> QED BY <1>11
  <2> HIDE DEF compared, spent
  <2> QED BY <2>1
<1>21. on = [step |-> "evaluate", start |-> n + 1, hits |-> scan.hits, best |-> scan.best, score |-> scan.score]
  BY <1>7
<1>22. compared = Cardinality(ComparedBy(Finished)) + Cardinality(Decided(c, n + 1))
  <2> HIDE DEF n, lines, source
  <2> QED BY <1>11, <1>12, <1>15
<1>23. CASE compared > limits.comparisons
  <2>1. Refuse("comparisons") BY <1>9, <1>23 DEF EvaluateAt
  <2>2. Decided(c, n + 1) \subseteq Compared(c) BY <1>5, <1>6, <1>14, <1>18, ComparedIs
  <2>3. compared <= Cardinality(Comparing) BY <1>15, <1>22, <2>2
  <2>4. compared \in Nat
    <3> HIDE DEF n, lines, source
    <3> QED BY <1>11, <1>12, <1>15
  <2>5. Cardinality(Comparing) > limits.comparisons
    <3> HIDE DEF compared
    <3> QED BY <1>15, <1>17, <1>23, <2>3, <2>4
  <2> QED BY <1>3, <2>1, <2>5, RefuseKeeps
<1>24. CASE ~(compared > limits.comparisons) /\ ~MatchesAt(lines, source, n)
  <2>1. scan' = on /\ usage' = spent /\ UNCHANGED <<outcome, queue, matched, report>>
    BY <1>9, <1>24 DEF EvaluateAt
  <2>2. Earlier(c, n + 1) = Earlier(c, n) BY <1>10, <1>16, <1>24
  <2>3. compared <= limits.comparisons
    <3>1. compared \in Nat
      <4> HIDE DEF n, lines, source
      <4> QED BY <1>11, <1>12, <1>15
    <3> HIDE DEF compared
    <3> QED BY <1>17, <1>24, <3>1
  <2>4. /\ Len(scan.hits) = Cardinality(Earlier(c, n + 1))
        /\ \A i \in DOMAIN scan.hits : Cardinality({s \in Hits(c) : s <= scan.hits[i]}) = i
        /\ c.occurrence = "at_least_one" => Earlier(c, n + 1) = {}
    BY <1>6, <2>2 DEF HitsSoFar
  <2>5. UNCHANGED <<resolution, outcome, sources, queue, matched, report>> BY <1>3, <2>1
  <2>6. usage.occurrences = Cardinality(FoundBy(Finished)) + Cardinality(Earlier(c, n + 1)) BY <1>11, <2>2
  <2> HIDE DEF compared, spent, on, n, source, lines
  <2>7. scan' = [step |-> "evaluate", start |-> n + 1, hits |-> scan.hits, best |-> scan.best, score |-> scan.score]
    BY <1>21, <2>1
  <2>8. usage' = [comparisons |-> compared, occurrences |-> usage.occurrences, bytes |-> usage.bytes]
    BY <1>20, <2>1
  <2> QED BY <1>2, <1>6, <1>7, <1>8, <1>11, <1>18, <1>22, <2>3, <2>4, <2>5, <2>6, <2>7, <2>8, SearchGoesOn DEF source
<1>25. CASE ~(compared > limits.comparisons) /\ MatchesAt(lines, source, n)
  <2>1. n \in Hits(c) BY <1>10, <1>25
  <2> DEFINE l == usage.occurrences + 1
  <2>2. found.occurrences = l BY <1>20
  <2>3. l = Cardinality(FoundBy(Finished)) + Cardinality(Earlier(c, n + 1)) /\ l \in Nat
    <3> HIDE DEF n
    <3> QED BY <1>11, <1>15, <1>16, <2>1
  <2>4. compared <= limits.comparisons
    <3>1. compared \in Nat
      <4> HIDE DEF n, lines, source
      <4> QED BY <1>11, <1>12, <1>15
    <3> HIDE DEF compared
    <3> QED BY <1>17, <1>25, <3>1
  <2>5. CASE l > limits.occurrences
    <3>1. Refuse("occurrences") BY <1>9, <1>25, <2>2, <2>5 DEF EvaluateAt
    <3>2. l <= Cardinality(Finding) BY <1>14, <1>15, <2>1, <2>3
    <3>3. Cardinality(Finding) > limits.occurrences
      <4> HIDE DEF l
      <4> QED BY <1>15, <1>17, <2>3, <2>5, <3>2
    <3> QED BY <1>3, <3>1, <3>3, RefuseKeeps
  <2>6. CASE ~(l > limits.occurrences) /\ c.occurrence = "at_least_one"
    <3>1. usage' = found /\ Satisfied BY <1>1, <1>9, <1>25, <2>2, <2>6 DEF EvaluateAt
    <3>2. /\ matched' = matched + 1 /\ NextSketch /\ queue' = Tail(queue) /\ UNCHANGED <<outcome, report>>
      BY <3>1 DEF Satisfied, NextSketch
    <3>3. Holds(c) BY <1>5, <1>6, <2>1, <2>6, EarlierHits DEF Holds
    <3>4. ReportedSoFar' BY <1>1, <1>2, <1>3, <1>4, <3>2, <3>3, SatisfiedReports DEF Scans
    <3>5. Paid(compared, l)
      <4>1. Compared(c) = Decided(c, n + 1) BY <1>5, <1>6, <1>14, <1>18, <2>1, <2>6, ComparedIs
      <4>2. Cardinality(First(Hits(c), c)) = 1 /\ Cardinality(Earlier(c, n + 1)) = 1
        <5>1. Cardinality(Earlier(c, n)) = 0 BY <1>13, <2>6, FS_EmptySet
        <5>2. Cardinality({n}) = 1 BY FS_Singleton
        <5>3. First(Hits(c), c) = {n} BY <1>14, <2>1, <2>6
        <5>4. Cardinality(Earlier(c, n + 1)) = Cardinality(Earlier(c, n)) + 1 BY <1>16, <2>1
        <5>5. Cardinality(Earlier(c, n + 1)) = 1 BY <5>1, <5>4
        <5> QED BY <5>2, <5>3, <5>5
      <4> HIDE DEF compared, l, n
      <4> QED BY <1>1, <1>6, <1>22, <2>3, <4>1, <4>2 DEF Paid
    <3>6. l <= limits.occurrences
      <4> HIDE DEF l
      <4> QED BY <1>17, <2>3, <2>6
    <3>7. usage' = [comparisons |-> compared, occurrences |-> l, bytes |-> usage.bytes] BY <1>20, <3>1
    <3> HIDE DEF compared, l, found, spent
    <3> QED BY <1>2, <1>3, <2>4, <3>2, <3>4, <3>5, <3>6, <3>7, AdvanceKeeps DEF Scans
  <2>7. CASE ~(l > limits.occurrences) /\ c.occurrence # "at_least_one"
    <3> DEFINE hits == Append(scan.hits, n)
    <3>1. /\ usage' = found /\ scan' = [on EXCEPT !.hits = Append(@, n)]
          /\ UNCHANGED <<outcome, queue, matched, report>>
      BY <1>1, <1>9, <1>25, <2>2, <2>7 DEF EvaluateAt
    <3>2. scan' = [step |-> "evaluate", start |-> n + 1, hits |-> hits, best |-> scan.best, score |-> scan.score]
      <4> HIDE DEF on, n
      <4> QED BY <1>21, <3>1
    <3>3. usage' = [comparisons |-> compared, occurrences |-> l, bytes |-> usage.bytes] BY <1>20, <3>1
    <3>4. UNCHANGED <<resolution, outcome, sources, queue, matched, report>> BY <1>3, <3>1
    <3>5. l <= limits.occurrences
      <4> HIDE DEF l
      <4> QED BY <1>17, <2>3, <2>7
    <3>6. /\ Len(scan.hits) = Cardinality(Earlier(c, n))
          /\ \A i \in DOMAIN scan.hits : Cardinality({s \in Hits(c) : s <= scan.hits[i]}) = i
      BY <1>6 DEF HitsSoFar
    <3>7. hits \in Seq(Nat) /\ Len(hits) = Cardinality(Earlier(c, n + 1))
          /\ \A i \in DOMAIN hits : Cardinality({s \in Hits(c) : s <= hits[i]}) = i
      <4> DEFINE m == Len(scan.hits)
      <4> HIDE DEF n
      <4>1. m \in Nat /\ DOMAIN scan.hits = 1..m BY <1>7
      <4>2. /\ hits \in Seq(Nat) /\ Len(hits) = m + 1 /\ DOMAIN hits = 1..(m + 1)
            /\ \A i \in 1..m : hits[i] = scan.hits[i]
            /\ hits[m + 1] = n
        BY <1>7
      <4>3. m + 1 = Cardinality(Earlier(c, n + 1)) BY <1>16, <2>1, <3>6
      <4>4. ASSUME NEW i \in 1..(m + 1) PROVE Cardinality({s \in Hits(c) : s <= hits[i]}) = i
        <5>1. CASE i \in 1..m BY <3>6, <4>1, <4>2, <5>1
        <5>2. CASE i = m + 1 BY <1>16, <4>2, <4>3, <5>2
        <5>3. i \in 1..m \/ i = m + 1
          <6> HIDE DEF m
          <6> QED BY <4>1
        <5> QED BY <5>1, <5>2, <5>3
      <4> QED BY <4>2, <4>3, <4>4
    <3> HIDE DEF compared, spent, found, on, n, source, lines, hits, l
    <3>8. c.occurrence = "at_least_one" => Earlier(c, n + 1) = {} BY <2>7
    <3> QED BY <1>2, <1>6, <1>8, <1>18, <1>22, <2>3, <2>4, <3>2, <3>3, <3>4, <3>5, <3>7, <3>8, SearchGoesOn DEF source
  <2> QED BY <2>5, <2>6, <2>7
<1> QED BY <1>23, <1>24, <1>25

LEMMA SettleIs ==
    ASSUME Settle
    PROVE  /\ Len(scan.hits) = 0 =>
                 IF Len(report) + 1 > limits.diagnostics THEN Refuse("diagnostics")
                 ELSE /\ scan' = [NoScan EXCEPT !.step = "candidate"]
                      /\ UNCHANGED <<outcome, queue, usage, matched, report>>
           /\ Len(scan.hits) = 1 => Satisfied /\ UNCHANGED usage
           /\ Len(scan.hits) # 0 /\ Len(scan.hits) # 1 =>
                 Push([Diagnostic("mismatch") EXCEPT
                        !.actual = Len(scan.hits),
                        !.spans = SubSeq(scan.hits, 1, Min({Len(scan.hits), limits.spans}))])
<1> DEFINE none == IF Len(report) + 1 > limits.diagnostics THEN Refuse("diagnostics")
              ELSE /\ scan' = [NoScan EXCEPT !.step = "candidate"]
                   /\ UNCHANGED <<outcome, queue, usage, matched, report>>
           one == Satisfied /\ UNCHANGED usage
           more == Push([Diagnostic("mismatch") EXCEPT
                        !.actual = Len(scan.hits),
                        !.spans = SubSeq(scan.hits, 1, Min({Len(scan.hits), limits.spans}))])
           n == Len(scan.hits)
<1>1. (CASE n = 0 -> none [] n = 1 -> one [] OTHER -> more) BY DEF Settle
<1>2. ~(0 = 1) OBVIOUS
<1> HIDE DEF none, one, more, n
<1>3. n = 0 => none BY <1>1, <1>2
<1>4. n = 1 => one BY <1>1, <1>2
<1>5. n # 0 /\ n # 1 => more BY <1>1, <1>2
<1> QED BY <1>3, <1>4, <1>5 DEF none, one, more, n

LEMMA MinOfTwo ==
    ASSUME NEW i \in Nat, NEW j \in Nat
    PROVE  Min({i, j}) \in {i, j} /\ Min({i, j}) <= i /\ Min({i, j}) <= j /\ Min({i, j}) = Min({j, i})
<1> DEFINE k == IF i <= j THEN i ELSE j
<1>1. k \in {i, j} /\ \A y \in {i, j} : k <= y OBVIOUS
<1>2. \A x \in {i, j} : (\A y \in {i, j} : x <= y) => x = k OBVIOUS
<1> HIDE DEF k
<1>3. Min({i, j}) = k BY <1>1, <1>2 DEF Min
<1>4. {i, j} = {j, i} OBVIOUS
<1> QED BY <1>1, <1>3, <1>4

\* The first occurrences are evidence.
LEMMA SpansAreEvidence ==
    ASSUME Checked, Sketches, NEW c \in Range(contracts), Present(c), NEW hits \in Seq(Nat),
           Len(hits) = Cardinality(Hits(c)),
           \A i \in DOMAIN hits : Cardinality({s \in Hits(c) : s <= hits[i]}) = i,
           NEW d, d.kind = "mismatch", d.spans = SubSeq(hits, 1, Min({Len(hits), limits.spans}))
    PROVE  Evidence(d, c)
<1> DEFINE m == Len(hits) k == Min({m, limits.spans})
<1>1. m \in Nat /\ limits.spans \in Nat BY DEF Checked
<1>2. k \in Nat /\ k <= m /\ k = Min({limits.spans, m})
  <2> HIDE DEF m
  <2> QED BY <1>1, MinOfTwo
<1> HIDE DEF k
<1>3. Len(d.spans) = k /\ DOMAIN d.spans = 1..k /\ \A i \in 1..k : d.spans[i] = hits[i]
  <2>1. d.spans = SubSeq(hits, 1, k) BY DEF k
  <2>2. SubSeq(hits, 1, k) = [i \in 1..k |-> hits[i]] BY <1>2
  <2>3. \A i \in 1..k : hits[i] \in Nat
    <3>1. DOMAIN hits = 1..m /\ \A i \in 1..m : hits[i] \in Nat OBVIOUS
    <3> HIDE DEF m
    <3> QED BY <1>1, <1>2, <3>1
  <2> DEFINE f == [i \in 1..k |-> hits[i]]
  <2>4. f \in [1..k -> Nat] /\ \A i \in 1..k : f[i] = hits[i] BY <2>3
  <2> HIDE DEF f
  <2>5. f \in Seq(Nat) /\ Len(f) = k /\ DOMAIN f = 1..k
    <3>1. k \in Nat /\ DOMAIN f = 1..k BY <1>2, <2>4
    <3>2. f \in Seq(Nat) BY <2>4, <3>1
    <3>3. Len(f) \in Nat /\ DOMAIN f = 1..Len(f) BY <3>2
    <3> QED BY <3>1, <3>2, <3>3
  <2>6. d.spans = f BY <2>1, <2>2 DEF f
  <2> QED BY <2>4, <2>5, <2>6
<1>4. \A i \in DOMAIN d.spans : Cardinality({s \in Hits(c) : s <= d.spans[i]}) = i
  <2> SUFFICES ASSUME NEW i \in 1..k PROVE Cardinality({s \in Hits(c) : s <= d.spans[i]}) = i BY <1>3
  <2>1. i \in DOMAIN hits
    <3>1. DOMAIN hits = 1..m OBVIOUS
    <3> HIDE DEF m
    <3> QED BY <1>1, <1>2, <3>1
  <2> QED BY <1>3, <2>1
<1>5. Len(d.spans) = Min({limits.spans, Cardinality(Hits(c))}) BY <1>2, <1>3
<1> QED BY <1>4, <1>5 DEF Evidence

LEMMA SettleKeeps == ASSUME CheckInv, Settle PROVE CheckInv'
<1>1. PICK c : c = Contract OBVIOUS
<1>2. Scans(c, "evaluate") BY <1>1, ScanIs DEF Settle
<1>3. UNCHANGED <<resolution, sources>> BY DEF Settle
<1>4. UNCHANGED <<contracts, limits>> BY <1>3 DEF resolution
<1>5. Checked /\ Sketches /\ c \in Range(contracts) \ Finished /\ Finished \in SUBSET Range(contracts)
  BY <1>2 DEF Scans, Underway
<1>6. Present(c) /\ HitsSoFar(c) /\ scan.step = "evaluate" BY <1>2 DEF Scans, Working, Scanning
<1> DEFINE n == LineCount(SourceLines(c)) hits == scan.hits
<1>7. n \in Nat /\ hits \in Seq(Nat) BY <1>2, <1>5, <1>6, ScanRecord, SketchSearchable DEF Scans, Working
<1>8. scan.start = n BY <1>1 DEF Settle, Source, SourceLines
<1>9. Earlier(c, scan.start) = Hits(c) BY <1>5, <1>6, <1>7, <1>8, EarlierHits
<1>10. /\ Len(hits) = Cardinality(Hits(c))
       /\ \A i \in DOMAIN hits : Cardinality({s \in Hits(c) : s <= hits[i]}) = i
       /\ c.occurrence = "at_least_one" => Hits(c) = {}
  BY <1>6, <1>9 DEF HitsSoFar
<1>11. /\ Cardinality(Hits(c)) \in Nat /\ (Cardinality(Hits(c)) = 0 <=> Hits(c) = {})
       /\ Cardinality(Occurrences(c)) = Cardinality(Hits(c)) /\ (Occurrences(c) = {} <=> Hits(c) = {})
  BY <1>5, <1>6, <1>7, EarlierHits
<1>12. /\ First(Hits(c), c) = Hits(c)
       /\ Hits(c) # {} => Compared(c) = Decided(c, n)
  BY <1>5, <1>6, <1>10, SearchedAll
<1>13. /\ usage.comparisons = Cardinality(ComparedBy(Finished)) + Cardinality(Decided(c, n))
       /\ usage.occurrences = Cardinality(FoundBy(Finished)) + Cardinality(Hits(c))
       /\ usage.comparisons <= limits.comparisons /\ usage.occurrences <= limits.occurrences
       /\ usage = [comparisons |-> usage.comparisons, occurrences |-> usage.occurrences, bytes |-> usage.bytes]
  <2>1. ComparedPart(c) = Decided(c, n) /\ FoundPart(c) = Hits(c)
    BY <1>6, <1>8, <1>9 DEF ComparedPart, FoundPart
  <2> QED BY <1>2, <2>1 DEF Scans, Working, Charged
<1>14. Hits(c) # {} => Paid(usage.comparisons, usage.occurrences) BY <1>1, <1>6, <1>12, <1>13 DEF Paid
<1>15. CASE Len(hits) = 0
  <2>1. Hits(c) = {} /\ Occurrences(c) = {} BY <1>10, <1>11, <1>15
  <2>2. ~Holds(c) BY <1>10, <1>11, <1>15, <2>1 DEF Holds
  <2>3. CASE Len(report) + 1 > limits.diagnostics
    <3>1. Refuse("diagnostics") BY <1>15, <2>3, SettleIs
    <3>2. Cardinality(Failing) > limits.diagnostics BY <1>1, <1>2, <2>2, <2>3, TooManyFail DEF Scans
    <3> QED BY <1>3, <3>1, <3>2, RefuseKeeps
  <2>4. CASE ~(Len(report) + 1 > limits.diagnostics)
    <3>1. scan' = [NoScan EXCEPT !.step = "candidate"] /\ UNCHANGED <<outcome, queue, usage, matched, report>>
      BY <1>15, <2>4, SettleIs
    <3>2. scan' = [step |-> "candidate", start |-> 0, hits |-> <<>>, best |-> 0, score |-> 0] BY <3>1 DEF NoScan
    <3>3. scan'.step = "candidate" /\ scan'.start = 0 BY <3>2
    <3>4. /\ Present(c)' = Present(c) /\ SourceLines(c)' = SourceLines(c) /\ Hits(c)' = Hits(c)
          /\ Decided(c, n)' = Decided(c, n)
      BY <1>3, <1>4, SameSearch
    <3>5. BestSoFar(c)' BY <3>3 DEF BestSoFar
    <3>6. Scanning(c)' BY <1>6, <1>7, <2>1, <3>2, <3>4, <3>5 DEF Scanning
    <3>7. Decided(c, n) \cup Scored(c, 0) = Decided(c, n) BY <1>5, <1>6, <1>7, BothCounted
    <3>8. ComparedPart(c)' = Decided(c, n) /\ FoundPart(c)' = {}
      <4>1. ComparedPart(c)' = (Decided(c, LineCount(SourceLines(c))) \cup Scored(c, scan.start))'
        BY <3>3 DEF ComparedPart
      <4>2. Decided(c, LineCount(SourceLines(c)))' = Decided(c, n) BY <3>4 DEF Decided
      <4>3. Scored(c, scan.start)' = Scored(c, 0) BY <3>3 DEF Scored
      <4> QED BY <3>3, <3>7, <4>1, <4>2, <4>3 DEF FoundPart
    <3>9. PICK i : i = Cardinality(Decided(c, n)) OBVIOUS
    <3>10. PICK K : K = Finished OBVIOUS
    <3>11. PICK k, l, b : k = usage.comparisons /\ l = usage.occurrences /\ b = usage.bytes OBVIOUS
    <3>12. Charged(i, 0)'
      <4>1. usage' = [comparisons |-> k, occurrences |-> l, bytes |-> b] BY <1>13, <3>1, <3>11
      <4>2. k = Cardinality(ComparedBy(K)) + i BY <1>13, <3>9, <3>10, <3>11
      <4>3. l = Cardinality(FoundBy(K)) + 0 BY <1>10, <1>13, <1>15, <3>10, <3>11
      <4> QED BY <1>3, <1>4, <1>13, <3>1, <3>10, <3>11, <4>1, <4>2, <4>3, ChargeMoves
    <3>13. Cardinality({}) = 0 BY FS_EmptySet
    <3>14. Working(c)' BY <3>6, <3>8, <3>9, <3>12, <3>13 DEF Working
    <3> QED BY <1>1, <1>2, <1>3, <3>1, <3>14, StayKeeps DEF Scans
  <2> QED BY <2>3, <2>4
<1>16. CASE Len(hits) = 1
  <2>1. Satisfied /\ usage' = usage BY <1>16, SettleIs
  <2>2. /\ matched' = matched + 1 /\ NextSketch /\ queue' = Tail(queue) /\ UNCHANGED <<outcome, report>>
    BY <2>1 DEF Satisfied, NextSketch
  <2>3. Hits(c) # {} /\ Cardinality(Occurrences(c)) = 1 BY <1>10, <1>11, <1>16
  <2>4. Holds(c) BY <1>6, <1>10, <2>3 DEF Holds
  <2>5. ReportedSoFar' BY <1>1, <1>2, <1>3, <1>4, <2>2, <2>4, SatisfiedReports DEF Scans
  <2>6. usage' = [comparisons |-> usage.comparisons, occurrences |-> usage.occurrences, bytes |-> usage.bytes]
    BY <1>13, <2>1
  <2> QED BY <1>2, <1>3, <1>13, <1>14, <2>2, <2>3, <2>5, <2>6, AdvanceKeeps DEF Scans
<1>17. CASE Len(hits) # 0 /\ Len(hits) # 1
  <2> DEFINE spans == SubSeq(hits, 1, Min({Len(hits), limits.spans}))
             d == [Diagnostic("mismatch") EXCEPT !.actual = Len(hits), !.spans = spans]
  <2>1. Push(d) BY <1>17, SettleIs
  <2>2. d.id = c.id /\ d.kind = "mismatch" /\ d.actual = Len(hits) /\ d.spans = spans
    <3> HIDE DEF spans, hits
    <3> QED BY <1>1 DEF Diagnostic
  <2> HIDE DEF d
  <2>3. Hits(c) # {} /\ Cardinality(Occurrences(c)) # 1 /\ Occurrences(c) # {} BY <1>10, <1>11, <1>17
  <2>4. ~Holds(c) BY <1>10, <2>3 DEF Holds
  <2>5. Kind(c) = "mismatch" BY <1>6, <2>3 DEF Kind
  <2>6. Evidence(d, c) BY <1>5, <1>6, <1>7, <1>10, <2>2, SpansAreEvidence
  <2>7. Right(d, c) BY <1>10, <1>11, <2>2, <2>5, <2>6 DEF Right
  <2> QED BY <1>1, <1>2, <1>3, <1>14, <2>1, <2>3, <2>4, <2>7, PushKeeps DEF Scans
<1> QED BY <1>15, <1>16, <1>17

LEMMA AgreeingCounts ==
    ASSUME Checked, Sketches, NEW c \in Range(contracts), Present(c), NEW s
    PROVE  Agreeing(c, s) \in Nat
<1>1. IsFiniteSet(DOMAIN SnippetLines(c))
  <2> DEFINE m == Len(SnippetLines(c))
  <2>1. DOMAIN SnippetLines(c) = 1..m /\ m \in Int /\ 1 \in Int BY SketchSearchable
  <2> HIDE DEF m
  <2> QED BY <2>1, FS_Interval
<1>2. IsFiniteSet({i \in DOMAIN SnippetLines(c) : Agrees(SnippetLines(c), SourceLines(c), s, i)})
  BY <1>1, FS_Subset
<1> QED BY <1>2, FS_CardinalityType DEF Agreeing, Score

\* The best start so far stays it, or the present one becomes it.
LEMMA BestIsKept ==
    ASSUME Checked, Sketches, NEW c \in Range(contracts), Present(c), BestSoFar(c),
           NEW n \in Nat, scan.start = n, NEW best, NEW score,
           IF Better(Agreeing(c, n)) THEN best = n /\ score = Agreeing(c, n)
           ELSE best = scan.best /\ score = scan.score
    PROVE  /\ best \in 0..n /\ score = Agreeing(c, best)
           /\ \A s \in 0..n : Agreeing(c, s) < score \/ (Agreeing(c, s) = score /\ s >= best)
<1> DEFINE A(s) == Agreeing(c, s)
<1>1. \A s : A(s) \in Nat BY AgreeingCounts
<1>2. \/ n = 0
      \/ /\ scan.best \in 0..(n - 1) /\ scan.score = A(scan.best)
         /\ \A s \in 0..(n - 1) : A(s) < scan.score \/ (A(s) = scan.score /\ s >= scan.best)
  BY DEF BestSoFar
<1>3. Better(A(n)) <=> n = 0 \/ A(n) > scan.score BY DEF Better
<1> HIDE DEF A
<1>4. CASE Better(A(n))
  <2>1. best = n /\ score = A(n) BY <1>4 DEF A
  <2>2. ASSUME NEW s \in 0..n PROVE A(s) < score \/ (A(s) = score /\ s >= best)
    <3>1. CASE s = n BY <2>1, <3>1
    <3>2. CASE s # n
      <4>1. s \in 0..(n - 1) /\ n # 0 BY <3>2
      <4>2. A(s) <= scan.score /\ scan.score \in Nat /\ A(n) > scan.score BY <1>1, <1>2, <1>3, <1>4, <4>1
      <4> QED BY <1>1, <2>1, <4>2
    <3> QED BY <3>1, <3>2
  <2> QED BY <2>1, <2>2 DEF A
<1>5. CASE ~Better(A(n))
  <2>1. best = scan.best /\ score = scan.score /\ n # 0 /\ ~(A(n) > scan.score) BY <1>3, <1>5 DEF A
  <2>2. /\ best \in 0..(n - 1) /\ score = A(best) /\ score \in Nat
        /\ \A s \in 0..(n - 1) : A(s) < score \/ (A(s) = score /\ s >= best)
    BY <1>1, <1>2, <2>1
  <2>3. ASSUME NEW s \in 0..n PROVE A(s) < score \/ (A(s) = score /\ s >= best)
    <3>1. CASE s = n BY <1>1, <2>1, <2>2, <3>1
    <3>2. CASE s # n
      <4>1. s \in 0..(n - 1) BY <3>2
      <4> QED BY <2>2, <4>1
    <3> QED BY <3>1, <3>2
  <2>4. best \in 0..n BY <2>2
  <2> QED BY <2>2, <2>3, <2>4 DEF A
<1> QED BY <1>4, <1>5

\* What is known while a candidate is searched.
LEMMA CandidateCosts ==
    ASSUME NEW c, Scans(c, "candidate")
    PROVE  /\ Checked /\ Sketches /\ c \in Range(contracts) \ Finished /\ Finished \in SUBSET Range(contracts)
           /\ Present(c) /\ BestSoFar(c) /\ Hits(c) = {} /\ Occurrences(c) = {} /\ ~Holds(c)
           /\ First(Hits(c), c) = {}
           /\ Compared(c) = Decided(c, LineCount(SourceLines(c))) \cup Scored(c, LineCount(SourceLines(c)))
           /\ scan.start \in Nat /\ LineCount(SourceLines(c)) \in Nat
           /\ usage.comparisons = Cardinality(ComparedBy(Finished))
                + Cardinality(Decided(c, LineCount(SourceLines(c))) \cup Scored(c, scan.start))
           /\ usage.occurrences = Cardinality(FoundBy(Finished)) + 0
           /\ Cardinality({}) = 0
           /\ usage.comparisons <= limits.comparisons /\ usage.occurrences <= limits.occurrences
           /\ usage = [comparisons |-> usage.comparisons, occurrences |-> usage.occurrences, bytes |-> usage.bytes]
<1>1. Checked /\ Sketches /\ c \in Range(contracts) \ Finished /\ Finished \in SUBSET Range(contracts)
  BY DEF Scans, Underway
<1>2. scan.step = "candidate" /\ Present(c) /\ BestSoFar(c) /\ Hits(c) = {} BY DEF Scans, Working, Scanning
<1>3. LineCount(SourceLines(c)) \in Nat BY <1>1, <1>2, SketchSearchable
<1>4. Occurrences(c) = {} BY <1>1, <1>2, <1>3, EarlierHits
<1>5. Cardinality({}) = 0 BY FS_EmptySet
<1>6. ~Holds(c) BY <1>4, <1>5 DEF Holds
<1>7. First(Hits(c), c) = {} BY <1>2 DEF First
<1>8. Compared(c) = Decided(c, LineCount(SourceLines(c))) \cup Scored(c, LineCount(SourceLines(c)))
  BY <1>1, <1>2, SearchedAll
<1>9. scan.start \in Nat BY DEF Scans, Working, Scanning
<1>10. /\ ComparedPart(c) = Decided(c, LineCount(SourceLines(c))) \cup Scored(c, scan.start)
       /\ FoundPart(c) = {}
  <2>1. scan.step # "begin" /\ scan.step # "evaluate" BY <1>2
  <2> QED BY <2>1, Zenon DEF ComparedPart, FoundPart
<1>11. Charged(Cardinality(ComparedPart(c)), Cardinality(FoundPart(c))) BY DEF Scans, Working
<1> QED BY <1>1, <1>2, <1>3, <1>4, <1>5, <1>6, <1>7, <1>8, <1>9, <1>10, <1>11 DEF Charged

LEMMA ScoreKeeps == ASSUME CheckInv, ScoreAt PROVE CheckInv'
<1>1. PICK c : c = Contract OBVIOUS
<1>2. Scans(c, "candidate") BY <1>1, ScanIs DEF ScoreAt
<1>3. UNCHANGED <<resolution, sources>> BY DEF ScoreAt
<1>4. UNCHANGED <<contracts, limits>> BY <1>3 DEF resolution
<1> DEFINE n == scan.start N == LineCount(SourceLines(c)) m == Len(SnippetLines(c))
           compared == usage.comparisons + m
           spent == Decided(c, N) \cup Scored(c, n)
           more == Decided(c, N) \cup Scored(c, n + 1)
           A == Cardinality(ComparedBy(Finished))
           on == [scan EXCEPT !.start = @ + 1]
<1>5. /\ Checked /\ Sketches /\ c \in Range(contracts) \ Finished /\ Finished \in SUBSET Range(contracts)
      /\ Present(c) /\ BestSoFar(c) /\ Hits(c) = {}
      /\ Compared(c) = Decided(c, N) \cup Scored(c, N)
      /\ n \in Nat /\ N \in Nat
      /\ usage.comparisons = A + Cardinality(spent)
      /\ usage.occurrences = Cardinality(FoundBy(Finished)) + 0
      /\ Cardinality({}) = 0
      /\ usage.comparisons <= limits.comparisons /\ usage.occurrences <= limits.occurrences
      /\ usage = [comparisons |-> usage.comparisons, occurrences |-> usage.occurrences, bytes |-> usage.bytes]
  BY <1>2, CandidateCosts
<1>6. n < N /\ Source = SourceLines(c) /\ Expected = SnippetLines(c)
  BY <1>1 DEF ScoreAt, Source, Expected, SourceLines, SnippetLines
<1>7. LineCount(Expected) = m /\ m \in Nat BY <1>5, <1>6, SketchSearchable
<1>8. /\ IsFiniteSet(spent) /\ Cardinality(more) = Cardinality(spent) + m
  <2>1. Checked /\ Sketches /\ c \in Range(contracts) /\ Present(c) /\ N \in Nat /\ n \in Nat BY <1>5
  <2> QED BY <2>1, BothCounted, Zenon
<1>9. /\ A \in Nat /\ Cardinality(Comparing) \in Nat
      /\ \A D : D \subseteq Compared(c) => A + Cardinality(D) <= Cardinality(Comparing)
  BY <1>5, PartsAreAffordable
<1>10. Cardinality(spent) \in Nat BY <1>8, FS_CardinalityType
<1>11. more \subseteq Compared(c)
  <2>1. 0..((n + 1) - 1) \subseteq 0..(N - 1)
    <3> HIDE DEF n, N
    <3> QED BY <1>5, <1>6
  <2>2. Scored(c, n + 1) \subseteq Scored(c, N) BY <2>1 DEF Scored
  <2> QED BY <1>5, <2>2
<1>12. compared = A + Cardinality(more) /\ compared \in Nat
  <2> HIDE DEF A, spent, more, m
  <2> QED BY <1>5, <1>7, <1>8, <1>9, <1>10
<1>13. limits.comparisons \in Nat BY <1>5 DEF Checked
<1>14. Score(Expected, Source, scan.start) = Agreeing(c, n) BY <1>6 DEF Agreeing
<1>15. CASE compared > limits.comparisons
  <2>1. Refuse("comparisons") BY <1>7, <1>15 DEF ScoreAt
  <2>2. compared <= Cardinality(Comparing) BY <1>9, <1>11, <1>12
  <2>3. Cardinality(Comparing) > limits.comparisons
    <3> HIDE DEF compared
    <3> QED BY <1>9, <1>12, <1>13, <1>15, <2>2
  <2> QED BY <1>3, <2>1, <2>3, RefuseKeeps
<1>16. CASE ~(compared > limits.comparisons)
  <2> DEFINE best == IF Better(Agreeing(c, n)) THEN n ELSE scan.best
             score == IF Better(Agreeing(c, n)) THEN Agreeing(c, n) ELSE scan.score
  <2>1. /\ usage' = [usage EXCEPT !.comparisons = compared]
        /\ scan' = IF Better(Agreeing(c, n)) THEN [on EXCEPT !.best = n, !.score = Agreeing(c, n)] ELSE on
        /\ UNCHANGED <<outcome, queue, matched, report>>
    BY <1>7, <1>14, <1>16 DEF ScoreAt
  <2>2. usage' = [comparisons |-> compared, occurrences |-> usage.occurrences, bytes |-> usage.bytes]
    <3> HIDE DEF compared
    <3> QED BY <1>5, <2>1
  <2>3. scan = [step |-> "candidate", start |-> n, hits |-> scan.hits, best |-> scan.best, score |-> scan.score]
        /\ scan.hits \in Seq(Nat) /\ scan.best \in Nat /\ scan.score \in Nat
    BY <1>2, ScanRecord DEF Scans, Working
  <2>4. scan' = [step |-> "candidate", start |-> n + 1, hits |-> scan.hits, best |-> best, score |-> score]
    <3>1. on = [step |-> "candidate", start |-> n + 1, hits |-> scan.hits, best |-> scan.best, score |-> scan.score]
      BY <2>3
    <3> HIDE DEF on, n
    <3> QED BY <2>1, <3>1
  <2>5. PICK b, r : b = best /\ r = score OBVIOUS
  <2>6. /\ b \in 0..n /\ r = Agreeing(c, b)
        /\ \A s \in 0..n : Agreeing(c, s) < r \/ (Agreeing(c, s) = r /\ s >= b)
    <3>1. IF Better(Agreeing(c, n)) THEN b = n /\ r = Agreeing(c, n) ELSE b = scan.best /\ r = scan.score BY <2>5
    <3> QED BY <1>5, <3>1, BestIsKept
  <2>7. /\ scan'.step = "candidate" /\ scan'.start = n + 1 /\ scan'.best = b /\ scan'.score = r
        /\ scan' = [step |-> "candidate", start |-> n + 1, hits |-> scan.hits, best |-> b, score |-> r]
    BY <2>4, <2>5
  <2> HIDE DEF best, score
  <2>8. /\ Present(c)' = Present(c) /\ SourceLines(c)' = SourceLines(c) /\ Hits(c)' = Hits(c)
        /\ Decided(c, N)' = Decided(c, N) /\ \A s : Agreeing(c, s)' = Agreeing(c, s)
    BY <1>3, <1>4, SameSearch
  <2>9. PICK i \in Nat : i = n BY <1>5
  <2>10. BestSoFar(c)'
    <3>1. 0..(scan'.start - 1) = 0..i BY <2>7, <2>9
    <3>2. scan'.best \in 0..(scan'.start - 1) BY <2>6, <2>7, <2>9, <3>1
    <3>3. Agreeing(c, scan.best)' = Agreeing(c, b)'
      <4>1. scan'.best = b BY <2>7
      <4> QED BY <4>1 DEF Agreeing
    <3>4. scan'.score = Agreeing(c, scan.best)' BY <2>6, <2>7, <2>8, <3>3
    <3>5. \A s \in 0..(scan'.start - 1) :
             Agreeing(c, s)' < scan'.score \/ (Agreeing(c, s)' = scan'.score /\ s >= scan'.best)
      <4> SUFFICES ASSUME NEW s \in 0..i
                   PROVE  Agreeing(c, s)' < scan'.score \/ (Agreeing(c, s)' = scan'.score /\ s >= scan'.best)
        BY <3>1
      <4>1. Agreeing(c, s)' = Agreeing(c, s) /\ scan'.score = r /\ scan'.best = b BY <2>7, <2>8
      <4>2. Agreeing(c, s) < r \/ (Agreeing(c, s) = r /\ s >= b) BY <2>6, <2>9
      <4> QED BY <4>1, <4>2
    <3> QED BY <3>2, <3>4, <3>5 DEF BestSoFar
  <2>11. Scanning(c)'
    <3>1. i + 1 \in Nat /\ b \in Nat /\ r \in Nat BY <1>5, <2>6, <2>9, AgreeingCounts
    <3>2. n + 1 <= N
      <4> HIDE DEF n, N
      <4> QED BY <1>5, <1>6
    <3>3. scan' \in [step : {"begin", "evaluate", "candidate"}, start : Nat, hits : Seq(Nat), best : Nat, score : Nat]
      BY <2>3, <2>7, <2>9, <3>1
    <3>4. scan'.start <= LineCount(SourceLines(c))' BY <2>7, <2>8, <3>2
    <3> QED BY <1>5, <2>7, <2>8, <2>10, <3>3, <3>4 DEF Scanning
  <2>12. ComparedPart(c)' = more /\ FoundPart(c)' = {}
    <3>1. scan'.step # "begin" /\ scan'.step # "evaluate" BY <2>7
    <3>2. ComparedPart(c)' = (Decided(c, LineCount(SourceLines(c))) \cup Scored(c, scan.start))'
      BY <3>1, Zenon DEF ComparedPart
    <3>3. Decided(c, LineCount(SourceLines(c)))' = Decided(c, N) BY <2>8 DEF Decided
    <3>4. Scored(c, scan.start)' = Scored(c, n + 1) BY <2>7 DEF Scored
    <3> QED BY <3>1, <3>2, <3>3, <3>4 DEF FoundPart
  <2>13. PICK j : j = Cardinality(more) OBVIOUS
  <2>14. PICK K, k, l, y : K = Finished /\ k = compared /\ l = usage.occurrences /\ y = usage.bytes OBVIOUS
  <2>15. Charged(j, 0)'
    <3>1. usage' = [comparisons |-> k, occurrences |-> l, bytes |-> y] BY <2>2, <2>14
    <3>2. k = Cardinality(ComparedBy(K)) + j BY <1>12, <2>13, <2>14
    <3>3. l = Cardinality(FoundBy(K)) + 0 BY <1>5, <2>14
    <3>4. k <= limits.comparisons
      <4> HIDE DEF compared
      <4> QED BY <1>12, <1>13, <1>16, <2>14
    <3>5. l <= limits.occurrences BY <1>5, <2>14
    <3>6. UNCHANGED <<contracts, sources, limits, queue>> BY <1>3, <1>4, <2>1
    <3> HIDE DEF compared
    <3> QED BY <2>14, <3>1, <3>2, <3>3, <3>4, <3>5, <3>6, ChargeMoves
  <2>16. Working(c)' BY <1>5, <2>11, <2>12, <2>13, <2>15 DEF Working
  <2> QED BY <1>1, <1>2, <1>3, <2>1, <2>16, StayKeeps DEF Scans
<1> QED BY <1>15, <1>16

\* The earliest of the best starts is evidence.
LEMMA CandidateIsEvidence ==
    ASSUME Checked, Sketches, NEW c \in Range(contracts), Present(c), Hits(c) = {}, BestSoFar(c),
           scan.start = LineCount(SourceLines(c)), NEW d, d.kind = "not_matched",
           d.candidate =
                IF IsEmptyText(SourceLines(c)) \/ Differences(SnippetLines(c), SourceLines(c), scan.best) = {} THEN <<>>
                ELSE << scan.best,
                        Min({scan.best + LineCount(SnippetLines(c)), LineCount(SourceLines(c))}),
                        Min(Differences(SnippetLines(c), SourceLines(c), scan.best)) - 1 >>
    PROVE  Evidence(d, c)
<1> DEFINE e == SnippetLines(c) f == SourceLines(c) N == LineCount(f) m == Len(e) b == scan.best
           D == Differences(e, f, b)
<1>1. /\ m \in Nat \ {0} /\ DOMAIN e = 1..m /\ LineCount(e) = m /\ N \in Nat
      /\ ~IsEmptyText(f) => N = Len(f) /\ N # 0
      /\ IsEmptyText(f) => N = 0
  BY SketchSearchable
<1>2. Starts(c) = 0..(N - 1) BY DEF Starts, SourceLines
<1>3. ~(d.kind = "mismatch") OBVIOUS
<1>4. CASE IsEmptyText(f)
  <2>1. Starts(c) = {}
    <3> HIDE DEF N
    <3> QED BY <1>1, <1>2, <1>4
  <2>2. d.candidate = <<>> BY <1>4
  <2> QED BY <1>3, <2>1, <2>2 DEF Evidence
<1>5. CASE ~IsEmptyText(f)
  <2>1. N = Len(f) /\ N # 0 BY <1>1, <1>5
  <2>2. /\ b \in 0..(N - 1) /\ scan.score = Agreeing(c, b)
        /\ \A s \in 0..(N - 1) : Agreeing(c, s) < scan.score \/ (Agreeing(c, s) = scan.score /\ s >= b)
    BY <2>1 DEF BestSoFar
  <2>3. D # {} /\ D \subseteq 1..m
    <3>1. D \subseteq 1..m BY <1>1 DEF Differences
    <3>2. ~MatchesAt(e, f, b) BY <1>2, <2>2 DEF Hits, SnippetLines, SourceLines
    <3>3. CASE Fits(e, f, b) BY <3>1, <3>2, <3>3 DEF MatchesAt
    <3>4. CASE ~Fits(e, f, b)
      <4>1. ~(b + m <= N) BY <1>1, <3>4 DEF Fits
      <4>2. ~Agrees(e, f, b, m) BY <2>1, <4>1 DEF Agrees
      <4>3. m \in D
        <5>1. m \in 1..m
          <6> HIDE DEF m
          <6> QED BY <1>1
        <5> QED BY <1>1, <4>2, <5>1 DEF Differences
      <4> QED BY <3>1, <4>3
    <3> QED BY <3>3, <3>4
  <2>4. PICK k \in D : \A y \in D : k <= y
    <3>1. D \in SUBSET Nat
      <4> HIDE DEF D, m
      <4> QED BY <1>1, <2>3
    <3> HIDE DEF D
    <3> QED BY <2>3, <3>1, LeastNatural
  <2>5. k \in 1..m BY <2>3, <2>4
  <2>6. Min(D) = k
    <3>1. \A x \in D : (\A y \in D : x <= y) => x = k
      <4>1. D \subseteq Nat
        <5> HIDE DEF D, m
        <5> QED BY <1>1, <2>3
      <4> HIDE DEF D
      <4> QED BY <2>4, <4>1
    <3> HIDE DEF D
    <3> QED BY <2>4, <3>1 DEF Min
  <2> DEFINE end == Min({b + m, N})
  <2>7. end \in {b + m, N} /\ b < end
    <3>1. b + m \in Nat /\ N \in Nat /\ b < b + m /\ b < N
      <4> HIDE DEF b, m, N
      <4> QED BY <1>1, <2>2
    <3>2. end \in {b + m, N} BY <3>1, MinOfTwo
    <3> HIDE DEF end
    <3> QED BY <3>1, <3>2
  <2>8. d.candidate = <<b, end, k - 1>> BY <1>1, <1>5, <2>3, <2>6
  <2> HIDE DEF end
  <2>9. d.candidate[1] = b /\ d.candidate[2] = end /\ d.candidate[3] + 1 = k
    <3>1. (k - 1) + 1 = k
      <4> HIDE DEF m, D
      <4> QED BY <1>1, <2>5
    <3>2. d.candidate[1] = b /\ d.candidate[2] = end /\ d.candidate[3] = k - 1
      <4> DEFINE t == d.candidate
      <4>1. t = <<b, end, k - 1>> BY <2>8
      <4> HIDE DEF t, b
      <4>2. t[1] = b /\ t[2] = end /\ t[3] = k - 1 BY <4>1
      <4> QED BY <4>2 DEF t
    <3> QED BY <3>1, <3>2
  <2>10. \A i \in 1..(k - 1) : Agrees(e, f, b, i)
    <3> SUFFICES ASSUME NEW i \in 1..(k - 1) PROVE Agrees(e, f, b, i) OBVIOUS
    <3>1. i \in 1..m /\ ~(k <= i)
      <4> HIDE DEF m, D
      <4> QED BY <1>1, <2>5
    <3>2. i \notin D BY <2>4, <3>1
    <3> QED BY <1>1, <3>1, <3>2 DEF Differences
  <2>12. \A s : Score(e, f, s) = Agreeing(c, s) BY DEF Agreeing
  <2>13. \A s \in Starts(c) : \/ Score(e, f, s) < Score(e, f, b)
                              \/ Score(e, f, s) = Score(e, f, b) /\ s >= b
    BY <1>2, <2>2, <2>12
  <2>14. b \in Starts(c) BY <1>2, <2>2
  <2>18. Starts(c) # {} BY <2>14
  <2>15. end \in {b + Len(e), Len(f)} BY <2>1, <2>7
  <2> HIDE DEF D, N, m, b
  <2>16. /\ k \in Differences(e, f, b) BY DEF D
  <2> HIDE DEF e, f
  <2>17. /\ \A s \in Starts(c) :
               \/ Score(e, f, s) < Score(e, f, d.candidate[1])
               \/ Score(e, f, s) = Score(e, f, d.candidate[1]) /\ s >= d.candidate[1]
         /\ d.candidate[1] \in Starts(c) /\ d.candidate[1] < d.candidate[2]
         /\ d.candidate[2] \in {d.candidate[1] + Len(e), Len(f)}
         /\ d.candidate[3] + 1 \in Differences(e, f, d.candidate[1])
         /\ \A i \in 1..((d.candidate[3] + 1) - 1) : Agrees(e, f, d.candidate[1], i)
    BY <2>7, <2>9, <2>10, <2>13, <2>14, <2>15, <2>16
  <2> QED BY <1>3, <2>18, <2>17 DEF Evidence, e, f, SnippetLines, SourceLines
<1> QED BY <1>4, <1>5

LEMMA ExplainKeeps == ASSUME CheckInv, Explain PROVE CheckInv'
<1>1. PICK c : c = Contract OBVIOUS
<1>2. Scans(c, "candidate") BY <1>1, ScanIs DEF Explain
<1>3. UNCHANGED <<resolution, sources>> BY DEF Explain
<1> DEFINE N == LineCount(SourceLines(c))
           candidate ==
                IF IsEmptyText(SourceLines(c)) \/ Differences(SnippetLines(c), SourceLines(c), scan.best) = {} THEN <<>>
                ELSE << scan.best,
                        Min({scan.best + LineCount(SnippetLines(c)), LineCount(SourceLines(c))}),
                        Min(Differences(SnippetLines(c), SourceLines(c), scan.best)) - 1 >>
           d == [Diagnostic("not_matched") EXCEPT !.candidate = candidate]
<1>4. /\ Checked /\ Sketches /\ c \in Range(contracts) \ Finished /\ Finished \in SUBSET Range(contracts)
      /\ Present(c) /\ BestSoFar(c) /\ Hits(c) = {} /\ Occurrences(c) = {} /\ ~Holds(c)
      /\ First(Hits(c), c) = {}
      /\ Compared(c) = Decided(c, N) \cup Scored(c, N)
      /\ usage.comparisons = Cardinality(ComparedBy(Finished)) + Cardinality(Decided(c, N) \cup Scored(c, scan.start))
      /\ usage.occurrences = Cardinality(FoundBy(Finished)) + 0
      /\ Cardinality({}) = 0
  BY <1>2, CandidateCosts
<1>5. scan.start = N /\ Source = SourceLines(c) /\ Expected = SnippetLines(c)
  BY <1>1 DEF Explain, Source, Expected, SourceLines, SnippetLines
<1>6. Paid(usage.comparisons, usage.occurrences) BY <1>1, <1>4, <1>5 DEF Paid
<1>7. Push(d) BY <1>5 DEF Explain
<1>8. d.id = c.id /\ d.kind = "not_matched" /\ d.actual = 0 /\ d.candidate = candidate
  <2> HIDE DEF candidate
  <2> QED BY <1>1 DEF Diagnostic
<1> HIDE DEF d
<1>9. Evidence(d, c) BY <1>4, <1>5, <1>8, CandidateIsEvidence
<1>10. Kind(c) = "not_matched" BY <1>4 DEF Kind
<1>11. Right(d, c) BY <1>8, <1>9, <1>10 DEF Right
<1> QED BY <1>1, <1>2, <1>3, <1>4, <1>6, <1>7, <1>11, PushKeeps DEF Scans

LEMMA ReportKeeps == ASSUME CheckInv, Report PROVE CheckInv'
<1>1. /\ UNCHANGED <<documents, limits, contracts, sources, queue, scan, usage, matched>> /\ queue = <<>>
      /\ outcome = "matching" /\ outcome' = "reported"
  BY DEF Report, resolution
<1>2. Underway BY <1>1 DEF CheckInv
<1>3. Checked' /\ Sketches' BY <1>1, <1>2, SameLimits DEF Underway
<1>4. Queued' BY <1>1, <1>2 DEF Underway, Queued
<1>5. Charged(0, 0)' BY <1>1, <1>2, SameCharge DEF Underway
<1>6. ReportedSoFar BY <1>2 DEF Underway
<1> DEFINE n == Len(report)
<1>7. PICK S : report \in Seq(S) BY <1>6 DEF ReportedSoFar
<1>8. n \in Nat /\ DOMAIN report = 1..n BY <1>7
<1>9. PICK order \in Bijection(1..n, 1..n) :
         /\ report' = [i \in 1..n |-> report[order[i]]]
         /\ \A i, j \in 1..n : i < j => ~(report[order[j]].id < report[order[i]].id)
  <2>1. PICK p \in Bijection(DOMAIN report, DOMAIN report) :
          /\ report' = [i \in DOMAIN report |-> report[p[i]]]
          /\ \A i, j \in DOMAIN report : i < j => ~(report[p[j]].id < report[p[i]].id)
    BY DEF Report, Sorted
  <2> QED BY <1>8, <2>1
<1>10. /\ order \in [1..n -> 1..n] /\ \A i, j \in 1..n : order[i] = order[j] => i = j
       /\ \A k \in 1..n : \E i \in 1..n : order[i] = k
  BY DEF Bijection, Injection, Surjection, IsInjective
<1>11. /\ report' \in Seq(S) /\ DOMAIN report' = 1..n /\ Len(report') = n
       /\ \A i \in 1..n : order[i] \in 1..n /\ report'[i] = report[order[i]]
  <2>1. \A i \in 1..n : order[i] \in 1..n /\ report[order[i]] \in S BY <1>7, <1>8, <1>10
  <2>2. report' \in [1..n -> S] BY <1>9, <2>1
  <2>3. report' \in Seq(S) BY <1>8, <2>2
  <2>4. Len(report') \in Nat /\ DOMAIN report' = 1..Len(report') BY <2>3
  <2>5. DOMAIN report' = 1..n /\ \A i \in 1..n : report'[i] = report[order[i]] BY <1>9
  <2>6. Len(report') = n
    <3>1. PICK f, g : f = report' /\ g = Len(report') OBVIOUS
    <3>2. PICK m : m = n OBVIOUS
    <3>3. g \in Nat /\ m \in Nat /\ 1..g = 1..m BY <1>8, <2>4, <2>5, <3>1, <3>2
    <3>4. g = m BY <3>3
    <3> QED BY <3>1, <3>2, <3>4
  <2> QED BY <2>1, <2>3, <2>5, <2>6
<1> HIDE DEF n
<1>12. Range(report') = Range(report)
  <2>1. \A x : x \in Range(report') <=> \E i \in 1..n : x = report[order[i]] BY <1>11 DEF Range
  <2>2. \A x : x \in Range(report) <=> \E i \in 1..n : x = report[i] BY <1>8 DEF Range
  <2>3. ASSUME NEW x, NEW i \in 1..n, x = report[i] PROVE \E k \in 1..n : x = report[order[k]]
    <3>1. PICK k \in 1..n : order[k] = i BY <1>10
    <3> QED BY <2>3, <3>1
  <2>4. ASSUME NEW x, NEW i \in 1..n, x = report[order[i]] PROVE \E k \in 1..n : x = report[k] BY <1>11, <2>4
  <2> QED BY <2>1, <2>2, <2>3, <2>4
<1>13. Finished' = Finished BY <1>1 DEF Finished
<1>14. FinishedFailing' = FinishedFailing BY <1>1, <1>13, SameSearch DEF FinishedFailing
<1>15. \A d \in Range(report)' : \E c \in FinishedFailing' : Right(d, c)'
  <2> SUFFICES ASSUME NEW d \in Range(report) PROVE \E c \in FinishedFailing : Right(d, c)' BY <1>12, <1>14 DEF Range
  <2>1. PICK c \in FinishedFailing : Right(d, c) BY <1>6 DEF ReportedSoFar
  <2> QED BY <1>1, SameRight, <2>1
<1>16. \A c \in FinishedFailing' : \E i \in DOMAIN report' : report'[i].id = c.id
  <2> SUFFICES ASSUME NEW c \in FinishedFailing PROVE \E i \in 1..n : report'[i].id = c.id BY <1>11, <1>14
  <2>1. PICK k \in 1..n : report[k].id = c.id BY <1>6, <1>8 DEF ReportedSoFar
  <2>2. PICK i \in 1..n : order[i] = k BY <1>10
  <2> QED BY <1>11, <2>1, <2>2
<1>17. \A i, j \in DOMAIN report' : report'[i].id = report'[j].id => i = j
  <2> SUFFICES ASSUME NEW i \in 1..n, NEW j \in 1..n, report'[i].id = report'[j].id PROVE i = j BY <1>11
  <2>1. \A k, l \in 1..n : report[k].id = report[l].id => k = l BY <1>6, <1>8 DEF ReportedSoFar
  <2>2. order[i] = order[j] BY <1>11, <2>1
  <2> QED BY <1>10, <2>2
<1>18. n = Len(report) BY DEF n
<1>19. ReportedSoFar'
  BY <1>1, <1>6, <1>11, <1>13, <1>14, <1>15, <1>16, <1>17, <1>18 DEF ReportedSoFar
<1>20. \A i \in 1..n : report[i].id \in Nat
  <2> SUFFICES ASSUME NEW i \in 1..n PROVE report[i].id \in Nat OBVIOUS
  <2>1. report[i] \in Range(report) BY <1>8 DEF Range
  <2>2. PICK c \in FinishedFailing : Right(report[i], c) BY <1>6, <2>1 DEF ReportedSoFar
  <2>3. c \in Range(contracts) BY DEF FinishedFailing, Finished
  <2>4. c.id \in Nat BY <1>2, <2>3, SketchesAre DEF Underway
  <2> QED BY <2>2, <2>4 DEF Right
<1>21. \A i, j \in DOMAIN report' : i < j => report'[i].id < report'[j].id
  <2> SUFFICES ASSUME NEW i \in 1..n, NEW j \in 1..n, i < j PROVE report'[i].id < report'[j].id BY <1>11
  <2>1. report'[i].id \in Nat /\ report'[j].id \in Nat BY <1>11, <1>20
  <2>2. ~(report'[j].id < report'[i].id) BY <1>9, <1>11
  <2>3. report'[i].id # report'[j].id BY <1>11, <1>17
  <2> QED BY <2>1, <2>2, <2>3
<1>22. Concluded' BY <1>1, <1>3, <1>4, <1>5, <1>19, <1>21 DEF Concluded
<1> QED BY <1>1, <1>22 DEF CheckInv

LEMMA CheckStutters ==
    ASSUME CheckInv, UNCHANGED <<resolution, outcome, matching>> PROVE CheckInv'
<1>1. UNCHANGED <<documents, limits, contracts, declared, sources, queue, scan, usage, matched, report, outcome>>
  BY DEF resolution, matching
<1>2. Checked /\ Sketches => Checked' /\ Sketches' BY <1>1, SameLimits
<1>3. Checked => Checked' BY <1>1 DEF Checked, Parsed
<1>4. CheckInit => CheckInit' BY <1>1 DEF CheckInit
<1>5. Queued => Queued' BY <1>1 DEF Queued
<1>6. ReportedSoFar => ReportedSoFar' BY <1>1, SameReport
<1>7. Charged(0, 0) => Charged(0, 0)' BY <1>1, SameCharge
<1>8. BudgetsAreExact => BudgetsAreExact'
  <2>1. Comparing' = Comparing /\ Finding' = Finding /\ Failing' = Failing BY <1>1, SameSearch
  <2>2. \A c : Present(c)' = Present(c) BY <1>1, SameSearch
  <2> QED BY <1>1, <2>1, <2>2 DEF BudgetsAreExact
<1>9. CASE outcome = "resolving"
  <2>1. Declarations'
    <3>1. \A f : DeclarationOf(f)' = DeclarationOf(f) BY <1>1, PassedPrimed DEF DeclarationOf
    <3>2. Entries("sketches")' = Entries("sketches") BY <1>1, PassedPrimed
    <3> QED BY <1>1, <1>9, <3>1, <3>2 DEF CheckInv, Declarations
  <2>2. ResolutionInv' BY <1>9, StutterKeepsInv DEF CheckInv
  <2> QED BY <1>1, <1>3, <1>4, <1>8, <1>9, <2>1, <2>2 DEF CheckInv
<1>10. CASE outcome = "accepted" BY <1>1, <1>2, <1>4, <1>8, <1>10 DEF CheckInv
<1>11. CASE outcome = "matching"
  <2>1. Underway BY <1>11 DEF CheckInv
  <2>2. ASSUME NEW c \in Range(contracts), queue # <<>>, c = Head(queue) PROVE Working(c)'
    <3>1. Working(c) BY <2>1, <2>2 DEF Underway
    <3>2. /\ Present(c)' = Present(c) /\ SourceLines(c)' = SourceLines(c) /\ Hits(c)' = Hits(c)
          /\ \A s : Agreeing(c, s)' = Agreeing(c, s) /\ Earlier(c, s)' = Earlier(c, s)
          /\ \A k : Decided(c, k)' = Decided(c, k)
      BY <1>1, SameSearch
    <3>3. PICK n : n = scan.start OBVIOUS
    <3>4. Earlier(c, scan.start)' = Earlier(c, scan.start) BY <1>1, <3>2 DEF Earlier
    <3>5. HitsSoFar(c) => HitsSoFar(c)' BY <1>1, <3>2, <3>4 DEF HitsSoFar
    <3>6. Agreeing(c, scan.best)' = Agreeing(c, scan.best) BY <1>1, <3>2 DEF Agreeing
    <3>7. BestSoFar(c) => BestSoFar(c)' BY <1>1, <3>2, <3>6 DEF BestSoFar
    <3>8. Scanning(c)' BY <1>1, <3>1, <3>2, <3>5, <3>7 DEF Working, Scanning
    <3>9. Decided(c, scan.start)' = Decided(c, scan.start) BY <1>1, <3>2 DEF Decided
    <3>10. Decided(c, LineCount(SourceLines(c)))' = Decided(c, LineCount(SourceLines(c))) BY <3>2 DEF Decided
    <3>11. Scored(c, scan.start)' = Scored(c, scan.start) BY <1>1 DEF Scored
    <3>12. ComparedPart(c)' = ComparedPart(c) /\ FoundPart(c)' = FoundPart(c)
      <4>1. FoundPart(c)' = FoundPart(c) BY <1>1, <3>4 DEF FoundPart
      <4>2. scan'.step = scan.step BY <1>1
      <4>3. ComparedPart(c)' = ComparedPart(c)
        <5>1. CASE scan.step = "begin"
          <6>1. ComparedPart(c) = {} BY <5>1 DEF ComparedPart
          <6>2. ComparedPart(c)' = {} BY <4>2, <5>1 DEF ComparedPart
          <6> QED BY <6>1, <6>2
        <5>2. CASE scan.step = "evaluate"
          <6>1. scan.step # "begin" BY <5>2
          <6>2. ComparedPart(c) = Decided(c, scan.start) BY <5>2, <6>1, Zenon DEF ComparedPart
          <6>3. ComparedPart(c)' = Decided(c, scan.start)' BY <4>2, <5>2, <6>1, Zenon DEF ComparedPart
          <6> QED BY <3>9, <6>2, <6>3
        <5>3. CASE scan.step # "begin" /\ scan.step # "evaluate"
          <6>1. ComparedPart(c) = Decided(c, LineCount(SourceLines(c))) \cup Scored(c, scan.start)
            BY <5>3, Zenon DEF ComparedPart
          <6>2. ComparedPart(c)' = Decided(c, LineCount(SourceLines(c)))' \cup Scored(c, scan.start)'
            BY <4>2, <5>3, Zenon DEF ComparedPart
          <6> QED BY <3>10, <3>11, <6>1, <6>2
        <5> QED BY <5>1, <5>2, <5>3
      <4> QED BY <4>1, <4>3
    <3>13. PICK i, j : i = Cardinality(ComparedPart(c)) /\ j = Cardinality(FoundPart(c)) OBVIOUS
    <3>14. Charged(i, j)' BY <1>1, <3>1, <3>13, SameCharge DEF Working
    <3> QED BY <3>8, <3>12, <3>13, <3>14 DEF Working
  <2>3. Underway' BY <1>1, <1>2, <1>5, <1>6, <1>7, <2>1, <2>2 DEF Underway
  <2> QED BY <1>1, <1>8, <1>11, <2>3 DEF CheckInv
<1>12. CASE outcome = "reported"
  <2>1. Concluded' BY <1>1, <1>2, <1>5, <1>6, <1>7, <1>12 DEF CheckInv, Concluded
  <2> QED BY <1>1, <1>12, <2>1 DEF CheckInv
<1>13. CASE outcome \notin {"resolving", "accepted", "matching", "reported"} BY <1>1, <1>8, <1>13 DEF CheckInv
<1> QED BY <1>9, <1>10, <1>11, <1>12, <1>13

\* A report that was concluded is exact.
LEMMA ExactReport == CheckInv => CheckIsExact
<1> SUFFICES ASSUME CheckInv PROVE CheckIsExact OBVIOUS
<1>1. CASE outcome # "reported" BY <1>1 DEF CheckInv, CheckIsExact, VerdictsAreExact
<1>2. CASE outcome = "reported"
  <2>1. Concluded BY <1>2 DEF CheckInv
  <2>2. Checked /\ Sketches /\ ReportedSoFar BY <2>1 DEF Concluded
  <2>3. Finished = Range(contracts) /\ FinishedFailing = Failing
    <3>1. Range(queue) = {} BY <2>1 DEF Concluded, Range
    <3> QED BY <3>1 DEF Finished, FinishedFailing, Failing
  <2>4. /\ \A c, d \in Range(contracts) : c.id = d.id => c = d
        /\ Cardinality(Range(contracts)) = Len(contracts)
    BY <2>2, SketchesAre
  <2>5. \A d \in Range(report) : \E c \in Failing : Right(d, c) BY <2>2, <2>3 DEF ReportedSoFar
  <2>6. ASSUME NEW d \in Range(report), NEW c \in Range(contracts), d.id = c.id PROVE c \in Failing /\ Right(d, c)
    <3>1. PICK e \in Failing : Right(d, e) BY <2>5
    <3>2. e \in Range(contracts) /\ e.id = c.id BY <2>6, <3>1 DEF Failing, Right
    <3> QED BY <2>4, <3>1, <3>2
  <2>7. ASSUME NEW c \in Range(contracts) PROVE Verdict(c)
    <3> DEFINE verdicts == {d \in Range(report) : d.id = c.id}
    <3>1. CASE Holds(c)
      <4>1. verdicts = {} BY <2>6, <3>1 DEF Failing
      <4> QED BY <3>1, <4>1 DEF Verdict
    <3>2. CASE ~Holds(c)
      <4>1. PICK i \in DOMAIN report : report[i].id = c.id BY <2>2, <2>3, <3>2 DEF ReportedSoFar, Failing
      <4>2. report[i] \in verdicts BY <4>1 DEF Range
      <4>3. \A d \in verdicts : d = report[i]
        <5> SUFFICES ASSUME NEW d \in verdicts PROVE d = report[i] OBVIOUS
        <5>1. PICK j \in DOMAIN report : d = report[j] BY DEF Range
        <5>2. i = j BY <2>2, <4>1, <5>1 DEF ReportedSoFar
        <5> QED BY <5>1, <5>2
      <4>4. verdicts = {report[i]} BY <4>2, <4>3
      <4>5. Cardinality(verdicts) = 1 BY <4>4, FS_Singleton
      <4>6. \A d \in verdicts : /\ d.kind = Kind(c)
                                /\ d.actual = IF d.kind = "mismatch" THEN Cardinality(Occurrences(c)) ELSE 0
        BY <2>6 DEF Right
      <4> QED BY <3>2, <4>5, <4>6 DEF Verdict
    <3> QED BY <3>1, <3>2
  <2>8. \A d \in Range(report), c \in Range(contracts) : d.id = c.id => Evidence(d, c) BY <2>6 DEF Right
  <2>9. \A i, j \in DOMAIN report : i < j => report[i].id < report[j].id BY <2>1 DEF Concluded
  <2>10. matched + Len(report) = Len(contracts) BY <2>2, <2>3, <2>4 DEF ReportedSoFar
  <2>11. Cardinality(Failing) <= limits.diagnostics BY <2>2, <2>3 DEF ReportedSoFar
  <2>12. Cardinality(Comparing) <= limits.comparisons /\ Cardinality(Finding) <= limits.occurrences
    <3>1. Comparing = ComparedBy(Finished) /\ Finding = FoundBy(Finished)
      BY <2>3 DEF Comparing, Finding, ComparedBy, FoundBy
    <3>2. Charged(0, 0) BY <2>1 DEF Concluded
    <3>3. Cardinality(Comparing) \in Nat /\ Cardinality(Finding) \in Nat
      <4>1. Range(contracts) \in SUBSET Range(contracts) OBVIOUS
      <4> QED BY <2>2, <4>1, AllSketches
    <3> QED BY <3>1, <3>2, <3>3 DEF Charged
  <2>13. VerdictsAreExact BY <2>7, <2>8, <2>9, <2>10 DEF VerdictsAreExact
  <2>14. BudgetsAreExact BY <1>2, <2>11, <2>12 DEF BudgetsAreExact
  <2> QED BY <2>13, <2>14 DEF CheckIsExact
<1> QED BY <1>1, <1>2

\* Whatever the documents, the sources, the limits and the moment of a
\* cancellation: a check that ends in a report gives each sketch the verdict of a
\* search of its source's text, with exact counts and evidence, each failing sketch
\* once and in the order of the ids; and a check that ends for a budget would have
\* exceeded it (matcher.rs, limits/matching.rs: "Crossing either ceiling is a hard
\* failure rather than a truncated search or a false match result").
THEOREM CheckExact == CheckSpec => []CheckIsExact
<1>1. Checked /\ ResolutionInit /\ CheckInit => CheckInv BY CheckStarts
<1>2. CheckInv /\ [CheckedNext]_<<resolution, outcome, matching>> => CheckInv'
  <2> SUFFICES ASSUME CheckInv, [CheckedNext]_<<resolution, outcome, matching>> PROVE CheckInv' OBVIOUS
  <2> QED BY ResolvingKeeps, GroupsKeep, BeginSketchKeeps, EvaluateKeeps, SettleKeeps, ScoreKeeps, ExplainKeeps,
             ReportKeeps, CheckStutters
          DEF CheckedNext, CheckNext
<1> QED BY <1>1, <1>2, ExactReport, PTL DEF CheckSpec
=============================================================================

---------------------------- MODULE SketchRefresh ----------------------------
(***************************************************************************)
(* Generation in the sketch kit (conkit-sketch/generate.rs and             *)
(* contract/edit.rs): seeds are admitted against the resolved contracts,   *)
(* then the files they target are edited one by one.  The YAML editor may  *)
(* refuse or get the text wrong in any way it likes; what it renders is    *)
(* parsed again and compared before it is returned.                        *)
(***************************************************************************)
EXTENDS SketchResolution

VARIABLES
    fileOf,         \* the contract file that holds each document
    written,        \* <<document, index>> of codes written with an anchor or alias
    seeds,          \* the request's seeds, and how many of them are admitted
    admitted,
    output,         \* the files done, as sequences of documents
    counts          \* SketchGenerationCounts

refreshing == <<fileOf, written, seeds, admitted, output, counts>>

RefreshInit ==
    /\ admitted = 0 /\ output = <<>>
    /\ counts = [refreshed |-> 0, changed |-> 0, documents |-> 0]

ContractFile == Range(fileOf)
DocumentsOf(file) == {d \in DOMAIN documents : fileOf[d] = file}

\* Seeds are admitted one at a time; the map of the admitted ones.
Admitted == {seeds[i] : i \in 1..admitted}
CodeFor(id) == (CHOOSE s \in Admitted : s.id = id).code
Seeded(id) == \E s \in Admitted : s.id = id

Fail(reason) == outcome' = reason /\ UNCHANGED <<admitted, output, counts>>

\* SketchRefreshSeeds::from_input checks the number of seeds before the first one.
BeginSeeds ==
    /\ outcome = "accepted" /\ request # "check"
    /\ IF Len(seeds) > limits.sketches THEN Fail("seed_limit")
       ELSE outcome' = "admitting" /\ UNCHANGED <<admitted, output, counts>>
    /\ UNCHANGED <<resolution, fileOf, written, seeds>>

\* validate_seed: the seed names the place, file and type of its contract.
ValidSeed(seed, contract) ==
    /\ seed.locator = contract.locator
    /\ seed.file = contract.file
    /\ seed.type = contract.type

AdmitSeed ==
    /\ outcome = "admitting" /\ admitted < Len(seeds)
    /\ LET seed == seeds[admitted + 1] IN
       IF \/ Seeded(seed.id)
          \/ ~\E c \in Range(contracts) : c.id = seed.id /\ ValidSeed(seed, c)
         THEN Fail("bad_seed")
       ELSE IF SnippetOverBudget(seed.code) THEN Fail("seed_limit")
       ELSE IF IsEmptyText(NormalLines(seed.code)) THEN Fail("bad_seed")
       ELSE admitted' = admitted + 1 /\ UNCHANGED <<outcome, output, counts>>
    /\ UNCHANGED <<resolution, fileOf, written, seeds>>

Covered == \A c \in Range(contracts) : Seeded(c.id)

EndSeeds ==
    /\ outcome = "admitting" /\ admitted = Len(seeds)
    /\ IF request = "FullRefresh" /\ ~Covered THEN Fail("bad_seed")
       ELSE outcome' = "editing" /\ UNCHANGED <<admitted, output, counts>>
    /\ UNCHANGED <<resolution, fileOf, written, seeds>>

-----------------------------------------------------------------------------
\* The places of the sketches in some documents that a seed targets, and of those
\* whose code it changes.
Targeted(here) == {e \in Entries("sketches") : e[1] \in here /\ Seeded(Entry("sketches", e).id)}
Edited(here) ==
    {e \in Targeted(here) : CodeFor(Entry("sketches", e).id) # Entry("sketches", e).code}

WithCode(sketch) ==
    IF Seeded(sketch.id) THEN [sketch EXCEPT !.code = CodeFor(sketch.id)] ELSE sketch
Refreshed(d) ==
    [documents[d] EXCEPT !.sketches = [i \in DOMAIN @ |-> WithCode(@[i])]]

\* What the editor may render of a document: the right text, a text with an edit
\* lost, with one too many, or with a sketch or an entry lost.
Rendered(d) ==
    LET right == Refreshed(d) IN
    {right, documents[d], [right EXCEPT !.signatures = <<>>]}
    \cup {[right EXCEPT !.sketches = SubSeq(@, 1, Len(@) - 1)]}
    \cup {[right EXCEPT !.sketches[i].code = c] : i \in DOMAIN right.sketches, c \in {<<"a">>, <<>>}}

MatchesShape(now, d) ==
    /\ now.root = documents[d].root /\ now.files = documents[d].files
    /\ now.signatures = documents[d].signatures
    /\ Len(now.sketches) = Len(documents[d].sketches)

\* matches_refresh, field by field.
MatchesRefresh(now, d) ==
    /\ now.root = documents[d].root /\ now.files = documents[d].files
    /\ now.signatures = documents[d].signatures
    /\ Len(now.sketches) = Len(documents[d].sketches)
    /\ \A i \in DOMAIN now.sketches : now.sketches[i] = WithCode(documents[d].sketches[i])

\* SketchContractFile::refresh.  The file is returned as it was read if no code
\* of it changes; an anchored or aliased code that changes is refused.
EditFile ==
    /\ outcome = "editing" /\ \E f \in ContractFile : f \notin DOMAIN output
    /\ LET file == Min({f \in ContractFile : f \notin DOMAIN output})
           here == DocumentsOf(file)
           targeted == \E s \in Admitted : fileOf[s.locator] = file
           changed == {e[1] : e \in Edited(here)}
           done(new) == output' = [f \in DOMAIN output \cup {file} |->
                                      IF f = file THEN new ELSE output[f]]
           counted(rewritten) ==
               [refreshed |-> counts.refreshed + Cardinality(Targeted(here)),
                changed |-> counts.changed + Cardinality(Edited(here)),
                documents |-> counts.documents + Cardinality(rewritten)]
       IN  IF ~targeted
             THEN /\ done([d \in here |-> documents[d]])
                  /\ UNCHANGED <<outcome, admitted, counts>>
           ELSE IF changed = {}
             THEN /\ done([d \in here |-> documents[d]])
                  /\ counts' = counted({})
                  /\ UNCHANGED <<outcome, admitted>>
           ELSE \/ Fail("unsupported")
                \/ /\ Edited(here) \cap written = {}
                   /\ \E e \in here : \E text \in Rendered(e) :
                      LET new == [d \in here |-> IF d = e THEN text ELSE Refreshed(d)] IN
                      IF \A d \in here : MatchesRefresh(new[d], d)
                        THEN /\ done(new)
                             /\ counts' = counted(changed)
                             /\ UNCHANGED <<outcome, admitted>>
                        ELSE Fail("mismatch")
    /\ UNCHANGED <<resolution, fileOf, written, seeds>>

\* The final count guards against a seed that no file took.
Refresh ==
    /\ outcome = "editing" /\ ContractFile \subseteq DOMAIN output
    /\ outcome' = IF counts.refreshed = Len(seeds) THEN "refreshed" ELSE "miscounted"
    /\ UNCHANGED <<resolution, refreshing>>

RefreshNext ==
    BeginSeeds \/ AdmitSeed \/ EndSeeds \/ EditFile \/ Refresh

-----------------------------------------------------------------------------
\* What a caller gets back from a completed generation is the catalog it gave
\* with exactly the seeded codes replaced, whatever the YAML editor did: nothing
\* else differs, no document is lost, the counts say what changed, and a full
\* refresh leaves no sketch with a code no seed gave (SketchContractFile::refresh
\* with matches_refresh; "Generation replaces only a targeted sketch's code field").
\* And the final comparison of counts never fails: every admitted seed is taken by
\* the one file that holds its sketch ("refreshed {} sketches but expected {}").
RefreshIsExact ==
    /\ outcome # "miscounted"
    /\ outcome = "refreshed" =>
           LET after == [d \in DOMAIN documents |-> output[fileOf[d]][d]]
               ids == {e \in Entries("sketches") :
                          \E s \in Range(seeds) : s.id = Entry("sketches", e).id}
               moved == {e \in Entries("sketches") :
                            after[e[1]].sketches[e[2]] # Entry("sketches", e)}
           IN  /\ \A d \in DOMAIN documents :
                     /\ [after[d] EXCEPT !.sketches = documents[d].sketches] = documents[d]
                     /\ DOMAIN after[d].sketches = DOMAIN documents[d].sketches
               /\ moved \subseteq ids
               /\ \A e \in Entries("sketches") : \A s \in Range(seeds) :
                     s.id = Entry("sketches", e).id =>
                         after[e[1]].sketches[e[2]] = [Entry("sketches", e) EXCEPT !.code = s.code]
               /\ request = "FullRefresh" => ids = Entries("sketches")
               /\ \A e \in ids : e \in moved => e \notin written
               /\ counts = [refreshed |-> Len(seeds), changed |-> Cardinality(moved),
                            documents |-> Cardinality({e[1] : e \in moved})]
=============================================================================

------------------------------ MODULE SketchDiff ------------------------------
(***************************************************************************)
(* The semantic diff of two resolved catalogs (conkit-sketch/contract/     *)
(* diff.rs): a merge of two sequences of contracts in the order of their   *)
(* ids, and the digest of the current one.  The digest hashes a sequence   *)
(* of length-prefixed fields; it is modelled by that sequence.             *)
(***************************************************************************)
EXTENDS SketchResolution

VARIABLES
    current, previous,  \* contracts, in the order of their ids
    next,               \* current_index and previous_index
    entries,            \* DiffEntry values so far
    merged              \* the merge is over

diff == <<current, previous, next, entries, merged>>

DiffInit == next = [current |-> 1, previous |-> 1] /\ entries = <<>>

More(side, catalog) == next[side] <= Len(catalog)
Now == current[next.current]
Before == previous[next.previous]

Semantic == {"file", "signature", "type", "occurrence"}
ChangedAsWritten(now, before) ==
    {field \in Semantic \cup {"code"} : now[field] # before[field]}

ChangedFields(now, before) ==
    {field \in Semantic : now[field] # before[field]}
    \cup IF NormalLines(now.code) # NormalLines(before.code) THEN {"code"} ELSE {}

DiffEntry(kind, id, fields) == [kind |-> kind, id |-> id, fields |-> fields]
Merge(added, sides) ==
    /\ entries' = entries \o added
    /\ next' = [s \in DOMAIN next |-> IF s \in sides THEN next[s] + 1 ELSE next[s]]
    /\ UNCHANGED <<current, previous, merged>>

Added ==
    /\ ~merged /\ More("current", current)
    /\ More("previous", previous) => Now.id < Before.id
    /\ Merge(<<DiffEntry("added", Now.id, {})>>, {"current"})

Removed ==
    /\ ~merged /\ More("previous", previous)
    /\ More("current", current) => Before.id < Now.id
    /\ Merge(<<DiffEntry("removed", Before.id, {})>>, {"previous"})

Paired ==
    /\ ~merged /\ More("current", current) /\ More("previous", previous)
    /\ Now.id = Before.id
    /\ LET fields == ChangedFields(Now, Before) IN
       Merge(IF fields = {} THEN <<>> ELSE <<DiffEntry("changed", Now.id, fields)>>,
             {"current", "previous"})

EndDiff ==
    /\ ~merged /\ ~More("current", current) /\ ~More("previous", previous)
    /\ merged' = TRUE
    /\ UNCHANGED <<current, previous, next, entries>>

DiffNext == Added \/ Removed \/ Paired \/ EndDiff

\* write_semantics of one contract, and the digest of a catalog.
Encoded(c) ==
    <<c.id, c.file, c.signature, c.type, c.occurrence, LineCount(NormalLines(c.code))>>
        \o NormalLines(c.code)
Digest(catalog) ==
    <<Len(catalog)>> \o FlattenSeq([i \in DOMAIN catalog |-> Encoded(catalog[i])])

-----------------------------------------------------------------------------
Of(catalog, id) == {c \in Range(catalog) : c.id = id}
Ids(catalog) == {c.id : c \in Range(catalog)}

Named(kind) == {e.id : e \in {f \in Range(entries) : f.kind = kind}}
SameMeaning(c, d) ==
    /\ \A field \in {"file", "signature", "type", "occurrence"} : c[field] = d[field]
    /\ NormalLines(c.code) = NormalLines(d.code)

DiffNamesChanges ==
    merged =>
        /\ Named("added") = Ids(current) \ Ids(previous)
        /\ Named("removed") = Ids(previous) \ Ids(current)
        /\ Named("changed") = {c.id : c \in {d \in Range(current) :
                                 \E p \in Of(previous, d.id) : ~SameMeaning(d, p)}}
        /\ \A i, j \in DOMAIN entries : i < j => entries[i].id < entries[j].id

\* A finished diff names an id exactly if only one side has it or the two sides
\* differ in something else than their place and their line endings, once and in
\* the order of the ids; and the digest, which is computed from other code, tells
\* the two catalogs apart exactly if the diff does (diff_against, changed_fields,
\* write_semantics; a relocation alone is no change).
DiffIsSemantic ==
    /\ DiffNamesChanges
    /\ merged => ((entries = <<>>) <=> (Digest(current) = Digest(previous)))
=============================================================================

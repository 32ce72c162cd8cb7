-------------------------- MODULE ContractReading --------------------------
(***************************************************************************)
(* A command that reads a contracts root, check or the baseline of         *)
(* generate, while others publish a document into it: read_with_budget     *)
(* and read_contract_directory of conkit/catalog/store.rs and the ledger   *)
(* CatalogReadBudget of conkit/catalog.rs.  No lock is taken.  The walk    *)
(* lists the directory, opens one entry after the other and reads each     *)
(* from its handle in pieces; between any two of these steps entries are   *)
(* created, filled, renamed and removed.                                   *)
(*                                                                         *)
(* The root holds the destination of ContractPublication and the           *)
(* temporaries beside it, which are entries like any other: they cost the  *)
(* reader budget and may be gone when it opens them.  A handle belongs to  *)
(* a file, not to a name: it keeps a renamed or removed file as it was.    *)
(***************************************************************************)
EXTENDS ContractPublication, Sequences, FiniteSetsExt

CONSTANTS
    Byte, Text,     \* the bytes of a content, a sequence
    ReadLimits,     \* the budgets a reader may have
    Dest,           \* the destination's name
    MaxDisturbance  \* bound: failures and crashes beside a reader

ASSUME DestIsNoTemporary == Dest \notin Name
ASSUME TextOfContent == \A c \in Content : Text[c] \in Seq(Byte)
ASSUME Budgeted ==
    /\ ReadLimits # {} /\ ReadLimits \subseteq [traversal : Nat, entries : Nat, total : Nat, file : Nat]
    /\ IsFiniteSet(Name)

VARIABLES
    walk,           \* where the reader is, or how it ended
    limits,         \* traversal entries, entries, total bytes, bytes per file
    ledger,         \* what is charged: traversal entries, entries, total bytes
    pending,        \* entries listed and not yet opened
    current,        \* the entry being read
    handle, image,  \* the temporary whose file is open, and the file's bytes
    got,            \* what was read from it
    catalog,        \* the documents read
    since           \* history: what the destination was since the walk began

file == <<current, handle, image, got>>
reader == <<walk, limits, ledger, pending, file, catalog, since>>
allVars == <<vars, reader>>

Refused == {"traversal", "entries", "file", "total"}
Over == {"complete", "vanished", "failed", "killed"} \cup Refused

TextOf(content) == IF content \in Content THEN Text[content] ELSE <<>>
Entries == {n \in Name : tmp[n] # Missing} \cup (IF dest = Missing THEN {} ELSE {Dest})
ReaderAt(phase) == walk = phase
Move(phase) == walk' = phase

-----------------------------------------------------------------------------
ReadInit ==
    /\ Init
    /\ walk \in {"idle", "nobody"}
    /\ walk = "idle" => ~manifest
    /\ limits \in IF walk = "idle" THEN ReadLimits ELSE {CHOOSE l \in ReadLimits : TRUE}
    /\ ledger = [traversal |-> 0, entries |-> 0, total |-> 0]
    /\ pending = {} /\ current = Dest /\ handle = NoName /\ image = <<>> /\ got = <<>>
    /\ catalog = <<>>
    /\ since = {}

\* validate_reserved_namespace: the entries of the root are visited once.
Visited(next) ==
    LET visits == ledger.traversal + Cardinality(Entries) IN
    IF visits > limits.traversal THEN Move("traversal") /\ UNCHANGED ledger
    ELSE Move(next) /\ ledger' = [ledger EXCEPT !.traversal = visits]

BeginRead ==
    /\ ReaderAt("idle")
    /\ Visited("list")
    /\ since' = {dest}
    /\ UNCHANGED <<limits, pending, file, catalog>>

\* sorted_entries: they are visited once more and listed.
List ==
    /\ ReaderAt("list")
    /\ Visited("entry")
    /\ pending' = Entries
    /\ UNCHANGED <<limits, file, catalog, since>>

\* begin_entry, open_regular and the preflight of the length at that moment.
Preflight(length) ==
    IF length > limits.file THEN "file"
    ELSE IF ledger.total + length > limits.total THEN "total"
    ELSE "reading"

OpenEntry ==
    /\ ReaderAt("entry")
    /\ \E e \in pending :
         LET found == IF e = Dest THEN dest ELSE tmp[e] IN
         /\ pending' = pending \ {e} /\ current' = e
         /\ IF ledger.entries = limits.entries
              THEN Move("entries") /\ UNCHANGED <<ledger, handle, image, got>>
              ELSE /\ ledger' = [ledger EXCEPT !.entries = @ + 1]
                   /\ IF found = Missing
                        THEN Move("vanished") /\ UNCHANGED <<handle, image, got>>
                        ELSE /\ Move(Preflight(Len(TextOf(found))))
                             /\ handle' = IF e = Dest THEN NoName ELSE e
                             /\ image' = TextOf(found)
                             /\ got' = <<>>
    /\ UNCHANGED <<limits, catalog, since>>

\* read_limit: one byte more than may be kept, as evidence.
ReadLimit == Min({limits.file, limits.total - ledger.total}) + 1

ReadByName ==
    /\ ReaderAt("reading") /\ Len(got) < ReadLimit
    /\ LET now == IF current = Dest THEN TextOf(dest) ELSE image IN
       /\ Len(got) < Len(now)
       /\ \E n \in (Len(got) + 1)..Min({Len(now), ReadLimit}) :
             got' = got \o SubSeq(now, Len(got) + 1, n)
    /\ UNCHANGED <<walk, limits, ledger, pending, current, handle, image, catalog, since>>
\* read_file: the next piece, which may be short.
ReadPiece ==
    /\ ReaderAt("reading") /\ Len(got) < ReadLimit /\ Len(got) < Len(image)
    /\ \E n \in (Len(got) + 1)..Min({Len(image), ReadLimit}) :
          got' = got \o SubSeq(image, Len(got) + 1, n)
    /\ UNCHANGED <<walk, limits, ledger, pending, current, handle, image, catalog, since>>

\* finish_file: the actual bytes are checked once more and committed.
FinishFile ==
    /\ ReaderAt("reading") /\ (Len(got) = ReadLimit \/ Len(got) >= Len(image))
    /\ LET verdict == Preflight(Len(got)) IN
       IF verdict # "reading"
         THEN Move(verdict) /\ UNCHANGED <<ledger, catalog, handle>>
         ELSE /\ Move("entry")
              /\ ledger' = [ledger EXCEPT !.total = @ + Len(got)]
              /\ catalog' = [e \in DOMAIN catalog \cup {current} |->
                                IF e = current THEN got ELSE catalog[e]]
              /\ handle' = NoName
    /\ UNCHANGED <<limits, pending, current, image, got, since>>

EndRead ==
    /\ ReaderAt("entry") /\ pending = {}
    /\ Move("complete")
    /\ UNCHANGED <<limits, ledger, pending, file, catalog, since>>

\* A failing system call, or a cancellation at a checkpoint.
ReadFails ==
    /\ walk \notin {"idle", "nobody"} \cup Over
    /\ Move("failed")
    /\ UNCHANGED <<limits, ledger, pending, file, catalog, since>>

ReaderStep ==
    /\ BeginRead \/ List \/ OpenEntry \/ ReadPiece \/ FinishFile \/ EndRead \/ ReadFails
    /\ UNCHANGED vars

\* The open file sees what is written to it, until its name goes.
Follow ==
    /\ since' = IF walk \in {"idle", "nobody"} \cup Over THEN since ELSE since \cup {dest'}
    /\ IF handle = NoName THEN UNCHANGED <<handle, image>>
       ELSE IF tmp'[handle] = Missing THEN handle' = NoName /\ UNCHANGED image
       ELSE image' = TextOf(tmp'[handle]) /\ UNCHANGED handle
    /\ UNCHANGED <<limits, ledger, pending, current, got, catalog>>

\* Once a reader is there, few failures and crashes disturb its neighbours.
Undisturbed == walk # "nobody" => failures' + crashes' <= MaxDisturbance

PublisherStep ==
    /\ \E w \in Writer : Step(w) \/ Fault(w) \/ Cancel(w)
    /\ UNCHANGED <<manifest, walk>> /\ Follow /\ Undisturbed

\* The machine of the reader is the machine that loses power.
PowerFails ==
    /\ PowerLoss /\ Undisturbed
    /\ walk' = IF walk = "nobody" THEN "nobody" ELSE "killed"
    /\ UNCHANGED <<manifest, limits, ledger, pending, file, catalog, since>>

ReadNext == ReaderStep \/ PublisherStep \/ PowerFails
ReadSpec == ReadInit /\ [][ReadNext]_allVars

-----------------------------------------------------------------------------
(* Properties *)

\* Reading without the lock is sound for a document that others replace.  A
\* destination that was there all along is read, never found gone; what is read
\* is one complete content, which it held at some moment of the walk, never parts
\* of two; and only a temporary beside it can be gone when it is opened.
ReadIsWhole ==
    /\ walk = "complete" =>
          /\ Missing \notin since => Dest \in DOMAIN catalog
          /\ Dest \in DOMAIN catalog => \E b \in since \cap Content : catalog[Dest] = Text[b]
    /\ walk = "vanished" => current # Dest

\* The ledger is the bytes of the documents read, whatever the files grew by
\* after their lengths were looked at: it is never over its limits, no more than
\* one byte of evidence is ever held beyond them, and a refusal has seen a length
\* or a number of entries that is over.
BytesOf(documents) == UNION {{e} \X DOMAIN documents[e] : e \in DOMAIN documents}
Charged == Cardinality(BytesOf(catalog))
ReadIsBudgeted ==
    /\ ledger.total = Charged /\ Charged <= limits.total
    /\ \A e \in DOMAIN catalog : Len(catalog[e]) <= limits.file
    /\ Cardinality(DOMAIN catalog) <= ledger.entries /\ ledger.entries <= limits.entries
    /\ ledger.traversal <= limits.traversal
    /\ walk = "reading" => Len(got) <= ReadLimit
    /\ walk = "file" => Len(image) > limits.file
    /\ walk = "total" => Len(image) + Charged > limits.total
    /\ walk = "entries" => Cardinality(DOMAIN catalog) = limits.entries

\* A lock-free read gives whole documents, and no more of them than its ledger has
\* paid for, whatever is replaced or grows beside it.
ReadIsExact == ReadIsWhole /\ ReadIsBudgeted
=============================================================================

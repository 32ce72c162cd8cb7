-------------------------- MODULE OwnershipPromise --------------------------
(***************************************************************************)
(* What generation promises about the documents of one contracts root that *)
(* nobody else edits: the documents change only from an owned catalog      *)
(* toward the next one, and whenever no update is pending the ledger owns  *)
(* what generation left on disk.  Processes, locks, reservations, failures *)
(* and recovery are not visible here.                                      *)
(***************************************************************************)
CONSTANTS Path, Document, Missing, Settled

VARIABLES
    owned,      \* the digest the tool owns at each path
    next,       \* the catalog of the pending update, or Settled
    content     \* the document at each path

vars == <<owned, next, content>>

Catalog == [Path -> Document \cup {Missing}]

Init ==
    /\ owned = [p \in Path |-> Missing]
    /\ next = Settled
    /\ content \in Catalog

\* An update never sets out to replace a document the tool does not own:
\* a requested path is empty, owned, or already holds the wanted bytes.
Begin ==
    /\ next = Settled
    /\ next' \in Catalog
    /\ \A p \in Path : next'[p] # Missing => content[p] \in {Missing, owned[p], next'[p]}
    /\ UNCHANGED <<owned, content>>

\* One path moves from the old catalog to the new one.
Publish(p) ==
    /\ next # Settled
    /\ content[p] = owned[p] /\ content[p] # next[p]
    /\ content' = [content EXCEPT ![p] = next[p]]
    /\ UNCHANGED <<owned, next>>

\* The update is settled: the ledger owns what is on disk on its paths.
Settle ==
    /\ next # Settled
    /\ owned' = [p \in Path |-> IF owned[p] = Missing /\ next[p] = Missing
                                  THEN Missing ELSE content[p]]
    /\ next' = Settled
    /\ UNCHANGED content

\* The update is given up before any owned document has changed.
Abandon ==
    /\ next # Settled
    /\ \A p \in Path : owned[p] # Missing => content[p] = owned[p]
    /\ next' = Settled
    /\ UNCHANGED <<owned, content>>

Next == Begin \/ (\E p \in Path : Publish(p)) \/ Settle \/ Abandon

Spec == Init /\ [][Next]_vars
=============================================================================

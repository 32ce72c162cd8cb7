---------------------------- MODULE MCOwnership ----------------------------
(* Small instances of OwnershipReconciliation for TLC, and its mapping to       *)
(* OwnershipPromise.                                                            *)
EXTENDS OwnershipReconciliation, TLC

CONSTANTS d1, d2, foreign, missing, torn, noOne, noPlan, unread, q1, q2

Documents == {d1, d2}

\* Two names whose portable keys differ.
TwoPaths == 1..2
DistinctKeys == [p \in TwoPaths |-> p]
\* One document per name, enough to add, replace, drop and adopt.
SomePlans == {[p \in TwoPaths |-> IF p = 1 THEN d1 ELSE missing],
              [p \in TwoPaths |-> IF p = 2 THEN d1 ELSE missing],
              [p \in TwoPaths |-> d2]}

\* A single name, for the properties about progress.
OnePath == 1..1
OneKey == [p \in OnePath |-> p]
OnePathPlans == [OnePath -> {d1, missing}]

\* Names 1 and 2 differ in letter case only.
ThreePaths == 1..3
SharedKeys == [p \in ThreePaths |-> IF p = 2 THEN 1 ELSE p]
SpellingPlans == {[p \in ThreePaths |-> IF p = 1 THEN d1 ELSE missing],
                  [p \in ThreePaths |-> IF p = 1 THEN missing ELSE d2]}

Symmetry == Permutations({q1, q2})

-----------------------------------------------------------------------------
\* The reconciliation protocol, left alone by users, keeps the promise of
\* OwnershipPromise.
CONSTANT Settled
ASSUME SettledIsNoCatalog == Settled \notin Catalog

\* While an update is pending the ledger still is the old catalog; markers and
\* unfilled reservations are no documents.
LedgerOwned == IF manifest.state = "updating" THEN manifest.before ELSE manifest.after
LedgerNext == IF manifest.state = "updating" THEN manifest.after ELSE Settled
DocumentAt == [p \in Path |-> IF disk[p] \in Document THEN disk[p] ELSE Missing]

Promise == INSTANCE OwnershipPromise
             WITH owned <- LedgerOwned, next <- LedgerNext, content <- DocumentAt

\* Every run of the commands, interleaved, failing and killed anywhere, is a
\* run of the promise: apply, rollback and recovery only move documents from
\* the journal's old catalog to its new one and settle on what is on disk.
KeepsPromise == Promise!Spec
=============================================================================

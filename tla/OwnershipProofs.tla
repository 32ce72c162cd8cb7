-------------------------- MODULE OwnershipProofs --------------------------
(* Proofs about OwnershipReconciliation, for any number of processes, paths *)
(* and documents and any bounds.                                            *)
EXTENDS MCOwnership, TLAPS

Recovering == {"scan", "unreserve"}
Applying == {"reserve", "rollback", "mutate", "verify"}

\* A process past the generation of its documents has documents to write.
PlanKnown ==
    \A q \in Process :
        pc[q] \in {"lock", "reread", "preflight"} \cup Applying => plan[q] # NoPlan

\* What the holder of the lock knows of the journal in each of its phases.
JournalKnown(q) ==
    /\ pc[q] \in Recovering =>
         /\ manifest.state = "updating" /\ generation = manifest.generation
         /\ before = manifest.before /\ after = manifest.after
    /\ pc[q] = "unreserve" => Portable(recovered)
    /\ pc[q] \in {"reread", "preflight"} =>
         manifest.state # "updating" /\ before = manifest.after
    /\ pc[q] = "reread" => generation = manifest.generation
    /\ pc[q] = "preflight" =>
         /\ generation = manifest.generation + 1
         /\ Portable(after) /\ NoCaseChange(before, after)
    /\ pc[q] \in Applying => manifest = Updating(generation, before, after)

\* Nothing is reserved or armed before the journal has been loaded.
Fresh == expect = AllKept /\ armed = FALSE

\* A file is reserved only for a document of the journaled update.
ReservedForOutput(q) ==
    /\ pc[q] = "load" => Fresh
    /\ pc[q] \in Recovering \cup {"preflight"} \cup Applying =>
         \A p \in Path : expect[p] \in {"missing", "reserved"} => after[p] # Missing
    /\ pc[q] = "reserve" => todo \subseteq Owns(after)

ManifestInv ==
    /\ manifest.state = "missing" => manifest = NoManifest
    /\ Loadable(manifest)
HolderInv(q) == JournalKnown(q) /\ ReservedForOutput(q)

LedgerInv ==
    /\ ManifestInv
    /\ PlanKnown
    /\ lock = NoOne => Fresh
    /\ \A q \in Process : lock = q => HolderInv(q)

Inv == TypeOK /\ LedgerInv

-----------------------------------------------------------------------------
(* Lemmas about the parts every action is built from. *)

\* The empty ledger of a root without a manifest is a catalog.
LEMMA NothingIsCatalog == Nothing \in Catalog
BY DEF Nothing, Catalog

\* The bounds are natural numbers.
LEMMA BoundsAreNumbers ==
    MaxGeneration \in Nat /\ MaxEdits \in Nat /\ MaxCrashes \in Nat /\ MaxFailures \in Nat
BY Bounded

\* Dropping the lock resets what belongs to its holder to values of its type.
LEMMA UnlockType ==
    ASSUME Unlock
    PROVE  /\ generation' \in 0..MaxGeneration
           /\ before' \in Catalog /\ after' \in Catalog /\ recovered' \in Catalog
           /\ expect' \in [Path -> {"keep", "missing", "digest", "reserved", "remove"}]
           /\ todo' \subseteq Path /\ armed' \in BOOLEAN /\ touched' \subseteq Path
           /\ lock' = NoOne
<1>1. generation' \in 0..MaxGeneration BY BoundsAreNumbers DEF Unlock
<1>2. before' \in Catalog /\ after' \in Catalog /\ recovered' \in Catalog
  BY NothingIsCatalog DEF Unlock
<1>3. expect' \in [Path -> {"keep", "missing", "digest", "reserved", "remove"}]
  BY DEF Unlock, AllKept
<1>4. todo' \subseteq Path /\ armed' \in BOOLEAN /\ touched' \subseteq Path /\ lock' = NoOne
  BY DEF Unlock
<1> QED BY <1>1, <1>2, <1>3, <1>4

\* The end of a command keeps the types, whatever it does to the files.
LEMMA ExitType ==
    ASSUME TypeOK, NEW q \in Process, Exit(q),
           disk' \in [Path -> Bytes], manifest' \in Manifest, byUser' \subseteq Path,
           edits' \in 0..MaxEdits, crashes' \in 0..MaxCrashes, failures' \in 0..MaxFailures
    PROVE  TypeOK'
<1>1. pc' \in [Process -> Unlocked \cup Locked]
      /\ policy' \in [Process -> {"reject", "adopt"}]
      /\ plan' \in [Process -> Plans \cup {NoPlan}]
      /\ snapshot' \in [Process -> [Path -> Bytes \cup {Unread}]]
  BY DEF TypeOK, Exit, Goto, Unlocked, Idle
<1>2. /\ generation' \in 0..MaxGeneration
      /\ before' \in Catalog /\ after' \in Catalog /\ recovered' \in Catalog
      /\ expect' \in [Path -> {"keep", "missing", "digest", "reserved", "remove"}]
      /\ todo' \subseteq Path /\ armed' \in BOOLEAN /\ touched' \subseteq Path
  <2>1. CASE lock = q
    BY <2>1, UnlockType DEF Exit
  <2>2. CASE lock # q
    BY <2>2 DEF TypeOK, Exit, ledger, cursor
  <2> QED BY <2>1, <2>2
<1>3. lock' \in Process \cup {NoOne} /\ \A r \in Process : pc'[r] \in Locked <=> lock' = r
  BY Sentinels DEF TypeOK, Exit, Unlock, Goto, Locked, ledger, cursor
<1> QED BY <1>1, <1>2, <1>3 DEF TypeOK

\* An error return keeps the types.
LEMMA RejectType ==
    ASSUME TypeOK, NEW q \in Process, Reject(q)
    PROVE  TypeOK'
<1>1. /\ disk' \in [Path -> Bytes] /\ manifest' \in Manifest /\ byUser' \subseteq Path
      /\ edits' \in 0..MaxEdits /\ crashes' \in 0..MaxCrashes /\ failures' \in 0..MaxFailures
  BY DEF Reject, files, bounds, TypeOK
<1> QED BY <1>1, ExitType DEF Reject

\* The steps before the lock is taken keep the types.
LEMMA PrepareType ==
    ASSUME TypeOK, NEW q \in Process, Start(q) \/ Prepare(q)
    PROVE  TypeOK'
<1> USE DEF TypeOK, files, session, ledger, cursor, history, bounds, At, Goto, Unlocked, Locked
<1>1. CASE Start(q) BY <1>1 DEF Start
<1>2. CASE Probe(q) BY <1>2 DEF Probe
<1>3. CASE ReadBaseline(q) BY <1>3 DEF ReadBaseline
<1>4. CASE Generate(q) BY <1>4 DEF Generate, BaselineRead
<1>5. CASE RejectLayout(q) BY <1>5, RejectType DEF RejectLayout
<1>6. CASE Acquire(q) BY <1>6, Sentinels DEF Acquire
<1>7. CASE LockBusy(q) BY <1>7, RejectType DEF LockBusy
<1> QED BY <1>1, <1>2, <1>3, <1>4, <1>5, <1>6, <1>7 DEF Prepare

\* The end of the recovery probe keeps the types.
LEMMA ProceedType ==
    ASSUME TypeOK, NEW q \in Process, lock = q, Proceed(q)
    PROVE  /\ pc' \in [Process -> Unlocked \cup Locked]
           /\ lock' \in Process \cup {NoOne}
           /\ \A r \in Process : pc'[r] \in Locked <=> lock' = r
<1>1. pc' = [pc EXCEPT ![q] = "read"] /\ lock' = NoOne
  BY UnlockType DEF Proceed, Goto
<1>2. pc' \in [Process -> Unlocked \cup Locked]
  BY <1>1 DEF TypeOK, Unlocked
<1>3. ASSUME NEW r \in Process PROVE pc'[r] \in Locked <=> lock' = r
  BY <1>1, Sentinels DEF TypeOK, Locked
<1> QED BY <1>1, <1>2, <1>3

\* The steps of load and recover keep the types.
LEMMA RecoveryType ==
    ASSUME TypeOK, NEW q \in Process, Recovery(q)
    PROVE  TypeOK'
<1> USE DEF TypeOK, files, session, ledger, cursor, history, bounds, At, Goto, Unlocked, Locked
<1>1. CASE LoadUpdating(q)
  BY <1>1 DEF LoadUpdating, Manifest, JournalPaths, Owns
<1>2. CASE LoadSettled(q)
  <2>1. CASE plan[q] = NoPlan
    <3>1. lock = q /\ Proceed(q) BY <1>2, <2>1 DEF LoadSettled
    <3> QED BY <1>2, <3>1, ProceedType, UnlockType DEF LoadSettled, Proceed
  <2>2. CASE plan[q] # NoPlan
    BY <1>2, <2>2 DEF LoadSettled, Reenter, Manifest
  <2> QED BY <2>1, <2>2
<1>3. CASE Scan(q)
  <2>1. PICK p \in todo :
          /\ Reconcilable(p)
          /\ recovered' = [recovered EXCEPT ![p] = Recover(p)]
          /\ expect' = [expect EXCEPT ![p] = IF Reserved(p) THEN "reserved" ELSE "keep"]
          /\ todo' = todo \ {p}
    BY <1>3 DEF Scan
  <2>2. Recover(p) \in Document \cup {Missing}
    BY DEF Recover, Published, Catalog
  <2>3. recovered' \in Catalog
    BY <2>1, <2>2 DEF Catalog
  <2> QED BY <1>3, <2>1, <2>3 DEF Scan
<1>4. CASE ScanConflict(q) BY <1>4, RejectType DEF ScanConflict
<1>5. CASE ScanDone(q)
  <2>1. CASE Portable(recovered)
    BY <1>5, <2>1 DEF ScanDone, ReservedPaths
  <2>2. CASE ~Portable(recovered)
    BY <1>5, <2>2, RejectType DEF ScanDone
  <2> QED BY <2>1, <2>2
<1>6. CASE CheckReservation(q) BY <1>6 DEF CheckReservation
<1>7. CASE ReservationChanged(q) BY <1>7, RejectType DEF ReservationChanged
<1>8. CASE RemoveReservation(q) BY <1>8 DEF RemoveReservation, Bytes
<1>9. CASE CommitRecovery(q)
  <2>1. manifest' \in Manifest
    BY <1>9 DEF CommitRecovery, Committed, Manifest
  <2>2. CASE plan[q] = NoPlan
    <3>1. lock = q /\ Proceed(q) BY <1>9, <2>2 DEF CommitRecovery
    <3> QED BY <1>9, <2>1, <3>1, ProceedType, UnlockType DEF CommitRecovery, Proceed
  <2>3. CASE plan[q] # NoPlan
    BY <1>9, <2>1, <2>3 DEF CommitRecovery, Reenter
  <2> QED BY <2>2, <2>3
<1> QED
  BY <1>1, <1>2, <1>3, <1>4, <1>5, <1>6, <1>7, <1>8, <1>9 DEF Recovery

\* The steps of CatalogReconciliation::new keep the types.
LEMMA AdmissionType ==
    ASSUME TypeOK, PlanKnown, NEW q \in Process, Admission(q)
    PROVE  TypeOK'
<1> USE DEF TypeOK, files, session, ledger, cursor, history, bounds, At, Goto, Unlocked, Locked
<1>1. CASE Reread(q) BY <1>1 DEF Reread
<1>2. CASE BaselineChanged(q) BY <1>2, RejectType DEF BaselineChanged
<1>3. CASE AcceptPlan(q)
  <2>1. plan[q] \in Catalog
    BY <1>3, CatalogPlans DEF AcceptPlan, PlanKnown
  <2>2. generation' \in 0..MaxGeneration
    BY <1>3, BoundsAreNumbers DEF AcceptPlan, Acceptable, NextGeneration
  <2> QED BY <1>3, <2>1, <2>2 DEF AcceptPlan, AllKept, Owns
<1>4. CASE RejectPlan(q) BY <1>4, RejectType DEF RejectPlan
<1>5. CASE Preflight(q) BY <1>5 DEF Preflight, Expectation
<1>6. CASE RejectOutput(q) BY <1>6, RejectType DEF RejectOutput
<1> QED BY <1>1, <1>2, <1>3, <1>4, <1>5, <1>6 DEF Admission

\* Reserving, filling and mutating write only bytes of the model's kinds: a
\* marker needs a document to stand for and a generation above zero.
LEMMA FillBytes ==
    ASSUME Inv, NEW q \in Process, pc[q] = "reserve", NEW p \in todo
    PROVE  Marker(generation, p, after[p]) \in Bytes
<1>1. lock = q /\ HolderInv(q) BY DEF Inv, TypeOK, LedgerInv, Locked
<1>2. manifest = Updating(generation, before, after)
  BY <1>1 DEF HolderInv, JournalKnown, Applying
<1>3. generation \in 1..MaxGeneration
  BY <1>2 DEF Inv, TypeOK, LedgerInv, ManifestInv, Loadable, Updating
<1>4. p \in Path /\ after[p] \in Document
  BY <1>1 DEF Inv, TypeOK, HolderInv, ReservedForOutput, Owns, Catalog
<1> QED BY <1>3, <1>4 DEF Marker, Bytes, Markers

\* The steps of CatalogReconciliation::apply keep the types.
LEMMA ApplyType ==
    ASSUME Inv, NEW q \in Process, Apply(q)
    PROVE  TypeOK'
<1> TypeOK BY DEF Inv
<1> USE DEF TypeOK, files, session, ledger, cursor, history, bounds, At, Goto, Unlocked, Locked
<1>1. CASE Begin(q) BY <1>1 DEF Begin, Updating, Manifest
<1>2. CASE Reserve(q) BY <1>2 DEF Reserve, Bytes
<1>3. CASE Fill(q)
  <2>1. PICK p \in todo :
          /\ disk' = [disk EXCEPT ![p] =
                        IF @ = Torn THEN Marker(generation, p, after[p]) ELSE @]
          /\ expect' = [expect EXCEPT ![p] = "reserved"]
          /\ todo' = todo \ {p}
    BY <1>3 DEF Fill
  <2>2. Marker(generation, p, after[p]) \in Bytes BY <1>3, FillBytes DEF Fill
  <2>3. disk' \in [Path -> Bytes] BY <2>1, <2>2
  <2> QED BY <1>3, <2>1, <2>3 DEF Fill
<1>4. CASE ReserveTaken(q) BY <1>4 DEF ReserveTaken, Rollback, ReservedPaths
<1>5. CASE ReserveDone(q) BY <1>5 DEF ReserveDone
<1>6. CASE CommitRollback(q)
  <2>1. manifest' \in Manifest BY <1>6 DEF CommitRollback, Committed, Manifest
  <2> QED BY <1>6, <2>1, ExitType DEF CommitRollback
<1>7. CASE CheckMutation(q) BY <1>7 DEF CheckMutation
<1>8. CASE RejectMutation(q) BY <1>8, RejectType DEF RejectMutation
<1>9. CASE Mutate(q)
  <2>1. disk' \in [Path -> Bytes] BY <1>9 DEF Mutate, Catalog, Bytes
  <2> QED BY <1>9, <2>1 DEF Mutate
<1>10. CASE UnlinkFails(q) BY <1>10, RejectType DEF UnlinkFails
<1>11. CASE MutateDone(q) BY <1>11 DEF MutateDone, Owns
<1>12. CASE VerifyAfter(q) BY <1>12 DEF VerifyAfter
<1>13. CASE AfterChanged(q) BY <1>13, RejectType DEF AfterChanged
<1>14. CASE Commit(q)
  <2>1. manifest' \in Manifest BY <1>14 DEF Commit, Committed, Manifest
  <2> QED BY <1>14, <2>1, ExitType DEF Commit
<1> QED
  BY <1>1, <1>2, <1>3, <1>4, <1>5, <1>6, <1>7, <1>8, <1>9, <1>10, <1>11, <1>12,
     <1>13, <1>14 DEF Apply

\* Failures and kills keep the types.
LEMMA FailureType ==
    ASSUME TypeOK, NEW q \in Process, Failure(q)
    PROVE  TypeOK'
<1> USE DEF TypeOK, files, session, ledger, cursor, history, bounds, At, Goto, Unlocked, Locked
<1>1. CASE BeginUnsynced(q)
  <2>1. manifest' \in Manifest BY <1>1 DEF BeginUnsynced, Updating, Manifest
  <2>2. failures' \in 0..MaxFailures BY <1>1, BoundsAreNumbers DEF BeginUnsynced
  <2> QED BY <1>1, <2>1, <2>2, ExitType DEF BeginUnsynced
<1>2. CASE FillFails(q)
  <2>1. disk' \in [Path -> Bytes] BY <1>2 DEF FillFails, Bytes
  <2>2. failures' \in 0..MaxFailures BY <1>2, BoundsAreNumbers DEF FillFails
  <2> QED BY <1>2, <2>1, <2>2 DEF FillFails, Rollback, ReservedPaths
<1>3. CASE ReserveCanceled(q)
  <2>1. failures' \in 0..MaxFailures BY <1>3, BoundsAreNumbers DEF ReserveCanceled
  <2> QED BY <1>3, <2>1 DEF ReserveCanceled, Rollback, ReservedPaths
<1>4. CASE Fail(q)
  <2>1. failures' \in 0..MaxFailures BY <1>4, BoundsAreNumbers DEF Fail
  <2> QED BY <1>4, <2>1, ExitType DEF Fail
<1>5. CASE Crash(q)
  <2>1. crashes' \in 0..MaxCrashes BY <1>5, BoundsAreNumbers DEF Crash
  <2> QED BY <1>5, <2>1, ExitType DEF Crash
<1> QED BY <1>1, <1>2, <1>3, <1>4, <1>5 DEF Failure

\* A user edit keeps the types.
LEMMA UserEditType == ASSUME TypeOK, UserEdit PROVE TypeOK'
<1>1. disk' \in [Path -> Bytes] /\ byUser' \subseteq Path /\ touched' \subseteq Path
  BY DEF TypeOK, UserEdit, Bytes
<1>2. edits' \in 0..MaxEdits BY BoundsAreNumbers DEF TypeOK, UserEdit
<1> QED BY <1>1, <1>2 DEF TypeOK, UserEdit, session, ledger, cursor

-----------------------------------------------------------------------------
(* LedgerInv is inductive. *)

\* The end of a command, holding the lock or not.
LEMMA ExitLedger ==
    ASSUME Inv, NEW q \in Process, Exit(q), TypeOK', ManifestInv',
           lock = q \/ manifest' = manifest
    PROVE  LedgerInv'
<1> USE DEF Inv, TypeOK, LedgerInv
<1>1. PlanKnown'
  BY DEF Exit, Goto, PlanKnown, Applying
<1>2. CASE lock = q
  <2>1. lock' = NoOne /\ Fresh' BY <1>2 DEF Exit, Unlock, Fresh, AllKept
  <2> QED BY <1>1, <2>1, Sentinels
<1>3. CASE lock # q
  <2>1. UNCHANGED <<lock, ledger, cursor, touched, manifest>> BY <1>3 DEF Exit
  <2>2. ASSUME NEW r \in Process, lock' = r PROVE HolderInv(r)'
    <3>1. pc'[r] = pc[r] BY <1>3, <2>1, <2>2 DEF Exit, Goto
    <3> QED
      BY <2>1, <2>2, <3>1 DEF HolderInv, JournalKnown, ReservedForOutput, Fresh, ledger, cursor
  <2>3. lock' = NoOne => Fresh' BY <2>1 DEF Fresh, cursor
  <2> QED BY <1>1, <2>2, <2>3
<1> QED BY <1>2, <1>3

\* An error return keeps the ledger invariant.
LEMMA RejectLedger ==
    ASSUME Inv, NEW q \in Process, Reject(q), TypeOK'
    PROVE  LedgerInv'
<1>1. manifest' = manifest /\ ManifestInv'
  BY DEF Reject, files, Inv, LedgerInv, ManifestInv
<1> QED BY <1>1, ExitLedger DEF Reject

\* A step of a process that does not hold the lock and leaves it alone.
LEMMA OutsideLedger ==
    ASSUME Inv, NEW q \in Process, lock # q, NEW phase, Goto(q, phase),
           UNCHANGED <<manifest, lock, ledger, cursor>>, PlanKnown'
    PROVE  LedgerInv'
<1> USE DEF Inv, TypeOK, LedgerInv
<1>1. ManifestInv' BY DEF ManifestInv
<1>2. lock' = NoOne => Fresh' BY DEF Fresh, cursor
<1>3. ASSUME NEW r \in Process, lock' = r PROVE HolderInv(r)'
  <2>1. pc'[r] = pc[r] BY <1>3 DEF Goto
  <2> QED
    BY <1>3, <2>1 DEF HolderInv, JournalKnown, ReservedForOutput, Fresh, ledger, cursor
<1> QED BY <1>1, <1>2, <1>3

\* The steps before the lock is taken keep the ledger invariant.
LEMMA PrepareLedger ==
    ASSUME Inv, NEW q \in Process, Start(q) \/ Prepare(q), TypeOK'
    PROVE  LedgerInv'
<1> USE DEF Inv, TypeOK, LedgerInv, files, session, ledger, cursor, At, Locked
<1>1. CASE Start(q)
  <2>1. PlanKnown' BY <1>1 DEF Start, Goto, PlanKnown, Applying
  <2> QED BY <1>1, <2>1, OutsideLedger DEF Start
<1>2. CASE Probe(q)
  <2>1. PlanKnown' BY <1>2 DEF Probe, Goto, PlanKnown, Applying
  <2> QED BY <1>2, <2>1, OutsideLedger DEF Probe
<1>3. CASE ReadBaseline(q)
  <2>1. PlanKnown' /\ Goto(q, "read") BY <1>3 DEF ReadBaseline, Goto, PlanKnown, Applying
  <2> QED BY <1>3, <2>1, OutsideLedger DEF ReadBaseline
<1>4. CASE Generate(q)
  <2>1. PlanKnown' BY <1>4, Sentinels DEF Generate, Goto, PlanKnown, Applying
  <2> QED BY <1>4, <2>1, OutsideLedger DEF Generate, BaselineRead
<1>5. CASE RejectLayout(q) BY <1>5, RejectLedger DEF RejectLayout
<1>6. CASE Acquire(q)
  <2>1. ManifestInv' /\ PlanKnown'
    BY <1>6 DEF Acquire, Goto, ManifestInv, PlanKnown, Applying
  <2>2. lock' = q /\ pc'[q] = "load" /\ Fresh'
    BY <1>6 DEF Acquire, Goto, Fresh
  <2>3. HolderInv(q)'
    BY <2>2 DEF HolderInv, JournalKnown, ReservedForOutput, Recovering, Applying
  <2> QED BY <2>1, <2>2, <2>3, Sentinels
<1>7. CASE LockBusy(q) BY <1>7, RejectLedger DEF LockBusy
<1> QED BY <1>1, <1>2, <1>3, <1>4, <1>5, <1>6, <1>7 DEF Prepare

\* A step of the process that holds the lock and keeps it.
LEMMA HolderLedger ==
    ASSUME NEW q \in Process, lock' = q, HolderInv(q)', ManifestInv', PlanKnown'
    PROVE  LedgerInv'
BY Sentinels DEF LedgerInv

\* Dropping the lock to read the baseline.
LEMMA ProceedLedger ==
    ASSUME Inv, NEW q \in Process, lock = q, Proceed(q), ManifestInv',
           UNCHANGED plan, plan[q] = NoPlan
    PROVE  LedgerInv'
<1> USE DEF Inv, TypeOK, LedgerInv
<1>1. PlanKnown' BY DEF Proceed, Goto, PlanKnown, Applying
<1>2. lock' = NoOne /\ Fresh' BY DEF Proceed, Unlock, Fresh, AllKept
<1> QED BY <1>1, <1>2, Sentinels

\* Going on to compare the catalog with the baseline.
LEMMA ReenterLedger ==
    ASSUME Inv, NEW q \in Process, lock = q, NEW owned, Reenter(q, owned), ManifestInv',
           UNCHANGED plan, plan[q] # NoPlan, manifest'.state # "updating",
           owned = manifest'.after, generation' = manifest'.generation
    PROVE  LedgerInv'
<1> USE DEF Inv, TypeOK
<1>1. PlanKnown' BY DEF Reenter, Goto, LedgerInv, PlanKnown, Applying
<1>2. lock' = q /\ pc'[q] = "reread" /\ before' = manifest'.after
  BY DEF Reenter, Goto
<1>3. HolderInv(q)'
  BY <1>2 DEF HolderInv, JournalKnown, ReservedForOutput, Recovering, Applying
<1> QED BY <1>1, <1>2, <1>3, HolderLedger

\* The empty catalog is portable and has no spelling to change.
LEMMA NothingIsPortable == Portable(Nothing) /\ NoCaseChange(Nothing, Nothing)
BY DEF Portable, NoCaseChange, Owns, Nothing

\* A preflighted update makes a loadable journal.
LEMMA BeginManifest ==
    ASSUME Inv, NEW q \in Process, HolderInv(q), pc[q] = "preflight",
           manifest' = Updating(generation, before, after)
    PROVE  ManifestInv'
<1>1. Portable(before)
  BY NothingIsPortable
  DEF Inv, LedgerInv, ManifestInv, HolderInv, JournalKnown, Loadable, NoManifest
<1>2. generation > 0 /\ Portable(after) /\ NoCaseChange(before, after)
  BY DEF Inv, TypeOK, Manifest, HolderInv, JournalKnown
<1> QED BY <1>1, <1>2 DEF ManifestInv, Loadable, Updating, Portable, NoCaseChange, Owns

\* The steps of load and recover keep the ledger invariant.
LEMMA RecoveryLedger ==
    ASSUME Inv, NEW q \in Process, Recovery(q), TypeOK'
    PROVE  LedgerInv'
<1> USE DEF Inv, files, session, ledger, cursor, At
<1>1. ASSUME pc[q] \in Locked PROVE lock = q /\ HolderInv(q)
  BY <1>1 DEF TypeOK, LedgerInv
<1>2. CASE LoadUpdating(q)
  <2>1. lock = q /\ HolderInv(q) BY <1>1, <1>2 DEF LoadUpdating, Locked
  <2>2. ManifestInv' /\ PlanKnown'
    BY <1>2 DEF LoadUpdating, Goto, ManifestInv, PlanKnown, LedgerInv, TypeOK, Applying
  <2>3. pc'[q] = "scan" /\ lock' = q /\ Fresh
    BY <1>2, <2>1 DEF LoadUpdating, Goto, TypeOK, HolderInv, ReservedForOutput
  <2>4. HolderInv(q)'
    BY <1>2, <2>3 DEF LoadUpdating, HolderInv, JournalKnown, ReservedForOutput, Recovering,
                      Applying, Fresh, AllKept
  <2> QED BY <2>2, <2>3, <2>4, HolderLedger
<1>3. CASE LoadSettled(q)
  <2>1. lock = q /\ HolderInv(q) BY <1>1, <1>3 DEF LoadSettled, Locked
  <2>2. ManifestInv' /\ UNCHANGED <<manifest, plan>>
    BY <1>3 DEF LoadSettled, ManifestInv, LedgerInv
  <2>3. CASE plan[q] = NoPlan
    BY <1>3, <2>1, <2>2, <2>3, ProceedLedger DEF LoadSettled
  <2>4. CASE plan[q] # NoPlan
    BY <1>3, <2>1, <2>2, <2>4, ReenterLedger DEF LoadSettled
  <2> QED BY <2>3, <2>4
<1>4. CASE Scan(q)
  <2>1. lock = q /\ HolderInv(q) BY <1>1, <1>4 DEF Scan, Locked
  <2>2. ManifestInv' /\ PlanKnown' /\ lock' = q /\ pc'[q] = "scan"
    BY <1>4, <2>1 DEF Scan, ManifestInv, PlanKnown, LedgerInv
  <2>3. JournalKnown(q)'
    BY <1>4, <2>1, <2>2 DEF Scan, HolderInv, JournalKnown, Recovering, Applying
  <2>4. \A p \in Path : expect'[p] \in {"missing", "reserved"} => after'[p] # Missing
    BY <1>4, <2>1 DEF Scan, HolderInv, ReservedForOutput, Recovering, Reserved, TypeOK
  <2>5. ReservedForOutput(q)' BY <2>2, <2>4 DEF ReservedForOutput
  <2> QED BY <2>2, <2>3, <2>5, HolderLedger DEF HolderInv
<1>5. CASE ScanConflict(q) BY <1>5, RejectLedger DEF ScanConflict
<1>6. CASE ScanDone(q)
  <2>1. CASE Portable(recovered)
    <3>1. lock = q /\ HolderInv(q) BY <1>1, <1>6 DEF ScanDone, Locked
    <3>2. ManifestInv' /\ PlanKnown' /\ lock' = q /\ pc'[q] = "unreserve"
      BY <1>6, <2>1, <3>1 DEF ScanDone, Goto, ManifestInv, PlanKnown, LedgerInv, TypeOK, Applying
    <3>3. JournalKnown(q)'
      BY <1>6, <2>1, <3>1, <3>2 DEF ScanDone, HolderInv, JournalKnown, Recovering, Applying, Portable, Owns
    <3>4. ReservedForOutput(q)'
      BY <1>6, <2>1, <3>1, <3>2 DEF ScanDone, HolderInv, ReservedForOutput, Recovering
    <3> QED BY <3>2, <3>3, <3>4, HolderLedger DEF HolderInv
  <2>2. CASE ~Portable(recovered) BY <1>6, <2>2, RejectLedger DEF ScanDone
  <2> QED BY <2>1, <2>2
<1>7. CASE CheckReservation(q)
  <2>1. lock = q /\ HolderInv(q) BY <1>1, <1>7 DEF CheckReservation, Locked
  <2>2. ManifestInv' /\ PlanKnown' /\ lock' = q /\ pc' = pc
    BY <1>7, <2>1 DEF CheckReservation, ManifestInv, PlanKnown, LedgerInv
  <2>3. HolderInv(q)'
    BY <1>7, <2>1, <2>2 DEF CheckReservation, HolderInv, JournalKnown, ReservedForOutput, Recovering,
                            Applying, Portable, Owns
  <2> QED BY <2>2, <2>3, HolderLedger
<1>8. CASE ReservationChanged(q) BY <1>8, RejectLedger DEF ReservationChanged
<1>9. CASE RemoveReservation(q)
  <2>1. lock = q /\ HolderInv(q) BY <1>1, <1>9 DEF RemoveReservation, Locked
  <2>2. ManifestInv' /\ PlanKnown' /\ lock' = q /\ pc' = pc
    BY <1>9, <2>1 DEF RemoveReservation, ManifestInv, PlanKnown, LedgerInv
  <2>3. HolderInv(q)'
    BY <1>9, <2>1, <2>2 DEF RemoveReservation, HolderInv, JournalKnown, ReservedForOutput, Recovering,
                            Applying, Portable, Owns
  <2> QED BY <2>2, <2>3, HolderLedger
<1>10. CASE CommitRecovery(q)
  <2>1. lock = q /\ HolderInv(q) BY <1>1, <1>10 DEF CommitRecovery, Locked
  <2>2. Portable(recovered) /\ generation = manifest.generation /\ manifest.state = "updating"
    BY <1>10, <2>1 DEF CommitRecovery, HolderInv, JournalKnown, Recovering
  <2>3. manifest' = Committed(generation, recovered) /\ UNCHANGED plan
    BY <1>10 DEF CommitRecovery
  <2>4. ManifestInv'
    BY <2>2, <2>3 DEF ManifestInv, LedgerInv, Loadable, Committed, Portable, NoCaseChange, Owns
  <2>5. CASE plan[q] = NoPlan
    BY <1>10, <2>1, <2>3, <2>4, <2>5, ProceedLedger DEF CommitRecovery
  <2>6. CASE plan[q] # NoPlan
    <3>1. /\ manifest'.state # "updating" /\ recovered = manifest'.after
          /\ generation = manifest'.generation
      BY <2>3 DEF Committed
    <3> QED BY <1>10, <2>1, <2>3, <2>4, <2>6, <3>1, ReenterLedger DEF CommitRecovery
  <2> QED BY <2>5, <2>6
<1> QED
  BY <1>2, <1>3, <1>4, <1>5, <1>6, <1>7, <1>8, <1>9, <1>10 DEF Recovery

\* The steps of CatalogReconciliation::new keep the ledger invariant.
LEMMA AdmissionLedger ==
    ASSUME Inv, NEW q \in Process, Admission(q), TypeOK'
    PROVE  LedgerInv'
<1> USE DEF Inv, files, session, ledger, cursor, At
<1>1. ASSUME pc[q] \in Locked PROVE lock = q /\ HolderInv(q)
  BY <1>1 DEF TypeOK, LedgerInv
<1>2. CASE Reread(q)
  <2>1. lock = q /\ HolderInv(q) BY <1>1, <1>2 DEF Reread, Locked
  <2>2. ManifestInv' /\ PlanKnown' /\ lock' = q
    BY <1>2, <2>1 DEF Reread, Goto, Rollback, ManifestInv, PlanKnown, LedgerInv, TypeOK, Applying
  <2>3. HolderInv(q)'
    BY <1>2, <2>1, <2>2 DEF Reread, HolderInv, JournalKnown, ReservedForOutput,
                            Recovering, Applying, Portable, NoCaseChange, Owns
  <2> QED BY <2>2, <2>3, HolderLedger
<1>3. CASE BaselineChanged(q) BY <1>3, RejectLedger DEF BaselineChanged
<1>4. CASE AcceptPlan(q)
  <2>1. lock = q /\ HolderInv(q) BY <1>1, <1>4 DEF AcceptPlan, Locked
  <2>2. ManifestInv' /\ PlanKnown' /\ lock' = q /\ pc'[q] = "preflight"
    BY <1>4, <2>1 DEF AcceptPlan, Goto, ManifestInv, PlanKnown, LedgerInv, TypeOK, Applying
  <2>3. JournalKnown(q)'
    BY <1>4, <2>1, <2>2 DEF AcceptPlan, Acceptable, NextGeneration, HolderInv, JournalKnown,
                            Recovering, Applying, Portable, NoCaseChange, Owns
  <2>4. ReservedForOutput(q)'
    BY <1>4, <2>2 DEF AcceptPlan, ReservedForOutput, AllKept
  <2> QED BY <2>2, <2>3, <2>4, HolderLedger DEF HolderInv
<1>5. CASE RejectPlan(q) BY <1>5, RejectLedger DEF RejectPlan
<1>6. CASE Preflight(q)
  <2>1. lock = q /\ HolderInv(q) BY <1>1, <1>6 DEF Preflight, Locked
  <2>2. ManifestInv' /\ PlanKnown' /\ lock' = q /\ pc'[q] = "preflight"
    BY <1>6, <2>1 DEF Preflight, ManifestInv, PlanKnown, LedgerInv
  <2>3. JournalKnown(q)'
    BY <1>6, <2>1, <2>2 DEF Preflight, HolderInv, JournalKnown, Recovering, Applying, Portable,
                            NoCaseChange, Owns
  <2>4. \A p \in Path : expect'[p] \in {"missing", "reserved"} => after'[p] # Missing
    BY <1>6, <2>1 DEF Preflight, Expectation, HolderInv, ReservedForOutput, TypeOK
  <2> QED BY <2>2, <2>3, <2>4, HolderLedger DEF HolderInv, ReservedForOutput
<1>7. CASE RejectOutput(q) BY <1>7, RejectLedger DEF RejectOutput
<1> QED BY <1>2, <1>3, <1>4, <1>5, <1>6, <1>7 DEF Admission

\* The steps of CatalogReconciliation::apply keep the ledger invariant.
LEMMA ApplyLedger ==
    ASSUME Inv, NEW q \in Process, Apply(q), TypeOK'
    PROVE  LedgerInv'
<1> USE DEF Inv, files, session, ledger, cursor, At
<1>1. ASSUME pc[q] \in Locked PROVE lock = q /\ HolderInv(q)
  BY <1>1 DEF TypeOK, LedgerInv
<1>2. CASE Begin(q)
  <2>1. lock = q /\ HolderInv(q) BY <1>1, <1>2 DEF Begin, Locked
  <2>2. PlanKnown' /\ lock' = q /\ pc'[q] = "reserve"
    BY <1>2, <2>1 DEF Begin, Goto, PlanKnown, LedgerInv, TypeOK, Applying
  <2>3. ManifestInv'
    BY <1>2, <2>1, BeginManifest DEF Begin
  <2>4. JournalKnown(q)'
    BY <1>2, <2>2 DEF Begin, JournalKnown, Recovering, Applying, Updating
  <2>5. ReservedForOutput(q)'
    BY <1>2, <2>1, <2>2 DEF Begin, HolderInv, ReservedForOutput, Owns, TypeOK
  <2> QED BY <2>2, <2>3, <2>4, <2>5, HolderLedger DEF HolderInv
<1>3. CASE Reserve(q)
  <2>1. lock = q /\ HolderInv(q) BY <1>1, <1>3 DEF Reserve, Locked
  <2>2. ManifestInv' /\ PlanKnown' /\ lock' = q
    BY <1>3, <2>1 DEF Reserve, Goto, Rollback, ManifestInv, PlanKnown, LedgerInv, TypeOK, Applying
  <2>3. HolderInv(q)'
    BY <1>3, <2>1, <2>2 DEF Reserve, HolderInv, JournalKnown, ReservedForOutput,
                            Recovering, Applying, Portable, NoCaseChange, Owns
  <2> QED BY <2>2, <2>3, HolderLedger
<1>4. CASE Fill(q)
  <2>1. lock = q /\ HolderInv(q) BY <1>1, <1>4 DEF Fill, Locked
  <2>2. ManifestInv' /\ PlanKnown' /\ lock' = q /\ pc'[q] = "reserve"
    BY <1>4, <2>1 DEF Fill, ManifestInv, PlanKnown, LedgerInv
  <2>3. JournalKnown(q)'
    BY <1>4, <2>1, <2>2 DEF Fill, HolderInv, JournalKnown, Recovering, Applying
  <2>4. ReservedForOutput(q)'
    BY <1>4, <2>1, <2>2 DEF Fill, HolderInv, ReservedForOutput, Owns, TypeOK, Applying
  <2> QED BY <2>2, <2>3, <2>4, HolderLedger DEF HolderInv
<1>5. CASE ReserveTaken(q)
  <2>1. lock = q /\ HolderInv(q) BY <1>1, <1>5 DEF ReserveTaken, Locked
  <2>2. ManifestInv' /\ PlanKnown' /\ lock' = q
    BY <1>5, <2>1 DEF ReserveTaken, Goto, Rollback, ManifestInv, PlanKnown, LedgerInv, TypeOK, Applying
  <2>3. HolderInv(q)'
    BY <1>5, <2>1, <2>2 DEF ReserveTaken, Goto, Rollback, TypeOK, HolderInv, JournalKnown, ReservedForOutput,
                            Recovering, Applying, Portable, NoCaseChange, Owns
  <2> QED BY <2>2, <2>3, HolderLedger
<1>6. CASE ReserveDone(q)
  <2>1. lock = q /\ HolderInv(q) BY <1>1, <1>6 DEF ReserveDone, Locked
  <2>2. ManifestInv' /\ PlanKnown' /\ lock' = q
    BY <1>6, <2>1 DEF ReserveDone, Goto, Rollback, ManifestInv, PlanKnown, LedgerInv, TypeOK, Applying
  <2>3. HolderInv(q)'
    BY <1>6, <2>1, <2>2 DEF ReserveDone, Goto, TypeOK, HolderInv, JournalKnown, ReservedForOutput,
                            Recovering, Applying, Portable, NoCaseChange, Owns
  <2> QED BY <2>2, <2>3, HolderLedger
<1>7. CASE CommitRollback(q)
  <2>1. lock = q /\ HolderInv(q) BY <1>1, <1>7 DEF CommitRollback, Locked
  <2>2. manifest = Updating(generation, before, after)
    BY <1>7, <2>1 DEF CommitRollback, HolderInv, JournalKnown, Applying
  <2>3. ManifestInv'
    BY <1>7, <2>2 DEF CommitRollback, LedgerInv, ManifestInv, Loadable, Updating, Committed,
                      Portable, NoCaseChange, Owns
  <2> QED BY <1>7, <2>1, <2>3, ExitLedger DEF CommitRollback
<1>8. CASE CheckMutation(q)
  <2>1. lock = q /\ HolderInv(q) BY <1>1, <1>8 DEF CheckMutation, Locked
  <2>2. ManifestInv' /\ PlanKnown' /\ lock' = q
    BY <1>8, <2>1 DEF CheckMutation, Goto, Rollback, ManifestInv, PlanKnown, LedgerInv, TypeOK, Applying
  <2>3. HolderInv(q)'
    BY <1>8, <2>1, <2>2 DEF CheckMutation, HolderInv, JournalKnown, ReservedForOutput,
                            Recovering, Applying, Portable, NoCaseChange, Owns
  <2> QED BY <2>2, <2>3, HolderLedger
<1>9. CASE RejectMutation(q) BY <1>9, RejectLedger DEF RejectMutation
<1>10. CASE Mutate(q)
  <2>1. lock = q /\ HolderInv(q) BY <1>1, <1>10 DEF Mutate, Locked
  <2>2. ManifestInv' /\ PlanKnown' /\ lock' = q
    BY <1>10, <2>1 DEF Mutate, Goto, Rollback, ManifestInv, PlanKnown, LedgerInv, TypeOK, Applying
  <2>3. HolderInv(q)'
    BY <1>10, <2>1, <2>2 DEF Mutate, HolderInv, JournalKnown, ReservedForOutput,
                            Recovering, Applying, Portable, NoCaseChange, Owns
  <2> QED BY <2>2, <2>3, HolderLedger
<1>11. CASE UnlinkFails(q) BY <1>11, RejectLedger DEF UnlinkFails
<1>12. CASE MutateDone(q)
  <2>1. lock = q /\ HolderInv(q) BY <1>1, <1>12 DEF MutateDone, Locked
  <2>2. ManifestInv' /\ PlanKnown' /\ lock' = q
    BY <1>12, <2>1 DEF MutateDone, Goto, Rollback, ManifestInv, PlanKnown, LedgerInv, TypeOK, Applying
  <2>3. HolderInv(q)'
    BY <1>12, <2>1, <2>2 DEF MutateDone, Goto, TypeOK, HolderInv, JournalKnown, ReservedForOutput,
                            Recovering, Applying, Portable, NoCaseChange, Owns
  <2> QED BY <2>2, <2>3, HolderLedger
<1>13. CASE VerifyAfter(q)
  <2>1. lock = q /\ HolderInv(q) BY <1>1, <1>13 DEF VerifyAfter, Locked
  <2>2. ManifestInv' /\ PlanKnown' /\ lock' = q
    BY <1>13, <2>1 DEF VerifyAfter, Goto, Rollback, ManifestInv, PlanKnown, LedgerInv, TypeOK, Applying
  <2>3. HolderInv(q)'
    BY <1>13, <2>1, <2>2 DEF VerifyAfter, HolderInv, JournalKnown, ReservedForOutput,
                            Recovering, Applying, Portable, NoCaseChange, Owns
  <2> QED BY <2>2, <2>3, HolderLedger
<1>14. CASE AfterChanged(q) BY <1>14, RejectLedger DEF AfterChanged
<1>15. CASE Commit(q)
  <2>1. lock = q /\ HolderInv(q) BY <1>1, <1>15 DEF Commit, Locked
  <2>2. manifest = Updating(generation, before, after)
    BY <1>15, <2>1 DEF Commit, HolderInv, JournalKnown, Applying
  <2>3. ManifestInv'
    BY <1>15, <2>2 DEF Commit, LedgerInv, ManifestInv, Loadable, Updating, Committed,
                       Portable, NoCaseChange, Owns
  <2> QED BY <1>15, <2>1, <2>3, ExitLedger DEF Commit
<1> QED
  BY <1>2, <1>3, <1>4, <1>5, <1>6, <1>7, <1>8, <1>9, <1>10, <1>11, <1>12, <1>13, <1>14,
     <1>15 DEF Apply

\* Failures and kills keep the ledger invariant.
LEMMA FailureLedger ==
    ASSUME Inv, NEW q \in Process, Failure(q), TypeOK'
    PROVE  LedgerInv'
<1> USE DEF Inv, files, session, ledger, cursor, At
<1>1. ASSUME pc[q] \in Locked PROVE lock = q /\ HolderInv(q)
  BY <1>1 DEF TypeOK, LedgerInv
<1>2. CASE BeginUnsynced(q)
  <2>1. lock = q /\ HolderInv(q) BY <1>1, <1>2 DEF BeginUnsynced, Locked
  <2>2. ManifestInv' BY <1>2, <2>1, BeginManifest DEF BeginUnsynced
  <2> QED BY <1>2, <2>1, <2>2, ExitLedger DEF BeginUnsynced
<1>3. CASE FillFails(q)
  <2>1. lock = q /\ HolderInv(q) BY <1>1, <1>3 DEF FillFails, Locked
  <2>2. ManifestInv' /\ PlanKnown' /\ lock' = q
    BY <1>3, <2>1 DEF FillFails, Goto, Rollback, ManifestInv, PlanKnown, LedgerInv, TypeOK, Applying
  <2>3. HolderInv(q)'
    BY <1>3, <2>1, <2>2 DEF FillFails, Goto, Rollback, TypeOK, HolderInv, JournalKnown, ReservedForOutput,
                            Recovering, Applying, Portable, NoCaseChange, Owns
  <2> QED BY <2>2, <2>3, HolderLedger
<1>4. CASE ReserveCanceled(q)
  <2>1. lock = q /\ HolderInv(q) BY <1>1, <1>4 DEF ReserveCanceled, Locked
  <2>2. ManifestInv' /\ PlanKnown' /\ lock' = q
    BY <1>4, <2>1 DEF ReserveCanceled, Goto, Rollback, ManifestInv, PlanKnown, LedgerInv, TypeOK, Applying
  <2>3. HolderInv(q)'
    BY <1>4, <2>1, <2>2 DEF ReserveCanceled, Goto, Rollback, TypeOK, HolderInv, JournalKnown, ReservedForOutput,
                            Recovering, Applying, Portable, NoCaseChange, Owns
  <2> QED BY <2>2, <2>3, HolderLedger
<1>5. CASE Fail(q)
  <2>1. manifest' = manifest /\ ManifestInv' BY <1>5 DEF Fail, LedgerInv, ManifestInv
  <2> QED BY <1>5, <2>1, ExitLedger DEF Fail
<1>6. CASE Crash(q)
  <2>1. manifest' = manifest /\ ManifestInv' BY <1>6 DEF Crash, LedgerInv, ManifestInv
  <2> QED BY <1>6, <2>1, ExitLedger DEF Crash
<1> QED BY <1>2, <1>3, <1>4, <1>5, <1>6 DEF Failure

\* A user edit keeps the ledger invariant: it changes no journal.
LEMMA UserEditLedger == ASSUME Inv, UserEdit PROVE LedgerInv'
<1>1. UNCHANGED <<manifest, lock, pc, plan, generation, before, after, recovered, expect, todo, armed>>
  BY DEF UserEdit, session, ledger, cursor
<1> QED
  BY <1>1 DEF Inv, LedgerInv, ManifestInv, PlanKnown, HolderInv, JournalKnown, ReservedForOutput,
              Fresh

-----------------------------------------------------------------------------
(* The theorems. *)

\* The invariant holds before any command has run.
LEMMA InitInv == Init => Inv
<1> SUFFICES ASSUME Init PROVE Inv OBVIOUS
<1>1. TypeOK
  <2>1. /\ manifest \in Manifest /\ generation \in 0..MaxGeneration
        /\ before \in Catalog /\ after \in Catalog /\ recovered \in Catalog
    BY NothingIsCatalog, BoundsAreNumbers DEF Init, Manifest, NoManifest
  <2>2. edits \in 0..MaxEdits /\ crashes \in 0..MaxCrashes /\ failures \in 0..MaxFailures
    BY BoundsAreNumbers DEF Init
  <2>3. disk \in [Path -> Bytes] /\ byUser \subseteq Path /\ touched \subseteq Path
    BY DEF Init, Bytes
  <2>4. /\ policy \in [Process -> {"reject", "adopt"}]
        /\ plan \in [Process -> Plans \cup {NoPlan}]
        /\ snapshot \in [Process -> [Path -> Bytes \cup {Unread}]]
        /\ expect \in [Path -> {"keep", "missing", "digest", "reserved", "remove"}]
        /\ todo \subseteq Path /\ armed \in BOOLEAN
    BY DEF Init, Idle, AllKept
  <2>5. /\ pc \in [Process -> Unlocked \cup Locked] /\ lock \in Process \cup {NoOne}
        /\ \A q \in Process : pc[q] \in Locked <=> lock = q
    BY Sentinels DEF Init, Unlocked, Locked
  <2> QED BY <2>1, <2>2, <2>3, <2>4, <2>5 DEF TypeOK
<1>2. LedgerInv
  BY Sentinels
  DEF Init, LedgerInv, ManifestInv, Loadable, NoManifest, PlanKnown, Applying, Fresh, HolderInv
<1> QED BY <1>1, <1>2 DEF Inv

\* Every step keeps the invariant.
LEMMA NextInv == Inv /\ [Next]_vars => Inv'
<1> SUFFICES ASSUME Inv, [Next]_vars PROVE Inv' OBVIOUS
<1>1. ASSUME NEW q \in Process, Start(q) \/ Step(q) \/ Failure(q) PROVE Inv'
  <2>1. CASE Start(q) \/ Prepare(q) BY <2>1, PrepareType, PrepareLedger DEF Inv
  <2>2. CASE Recovery(q) BY <2>2, RecoveryType, RecoveryLedger DEF Inv
  <2>3. CASE Admission(q) BY <2>3, AdmissionType, AdmissionLedger DEF Inv, LedgerInv
  <2>4. CASE Apply(q) BY <2>4, ApplyType, ApplyLedger DEF Inv
  <2>5. CASE Failure(q) BY <2>5, FailureType, FailureLedger DEF Inv
  <2> QED BY <1>1, <2>1, <2>2, <2>3, <2>4, <2>5 DEF Step
<1>2. CASE UserEdit BY <1>2, UserEditType, UserEditLedger DEF Inv
<1>3. CASE UNCHANGED vars
  BY <1>3 DEF vars, files, session, ledger, cursor, history, bounds, Inv, TypeOK, LedgerInv,
              ManifestInv, PlanKnown, HolderInv, JournalKnown, ReservedForOutput, Fresh
<1> QED BY <1>1, <1>2, <1>3 DEF Next

\* The strengthening that both theorems below rest on: the types, the journal
\* on disk, and what the holder of the lock knows of it at every phase.
THEOREM InvHolds == Spec => []Inv
BY InitInv, NextInv, PTL DEF Spec

\* Types, and exclusion: exactly the process that holds the lock is in a phase
\* that reads under it or writes to the contracts root.
THEOREM TypeCorrect == Spec => []TypeOK
<1>1. Inv => TypeOK BY DEF Inv
<1> QED BY InvHolds, <1>1, PTL

\* Every journal the tool saves, whether it begins, commits, rolls back or
\* recovers an update, passes the validation of the next load.
THEOREM JournalLoads == Spec => []JournalAlwaysLoads
<1>1. Inv => JournalAlwaysLoads BY DEF Inv, LedgerInv, ManifestInv, JournalAlwaysLoads
<1> QED BY InvHolds, <1>1, PTL
-----------------------------------------------------------------------------
(* What the program may write, and what is on disk between its writes: the  *)
(* action properties and the disk properties.                               *)

Affected == Owns(before) \cup Owns(after)

\* A path about to be changed holds the bytes that were checked, unless a user
\* has changed it since the check; and only journaled paths are ever due.
WriteKnown(q) ==
    /\ armed => todo # {} /\ pc[q] \in {"unreserve", "rollback", "reserve", "mutate"}
    /\ pc[q] \in {"unreserve", "rollback"} =>
         /\ todo \subseteq Owns(after)
         /\ armed => \A p \in todo : First(p, todo) => Reserved(p) \/ p \in touched
    /\ pc[q] = "reserve" /\ armed =>
         \A p \in todo : First(p, todo) => disk[p] = Torn \/ p \in touched
    /\ pc[q] \in {"preflight", "reserve", "mutate"} =>
         \A p \in Path : expect[p] # "keep" => p \in Affected
    /\ pc[q] \in {"preflight", "mutate"} => todo \subseteq Affected
    /\ pc[q] = "mutate" /\ armed =>
         \A p \in todo : Turn(p) => Expected(p) \/ p \in touched

WriteInv == \A q \in Process : lock = q => WriteKnown(q)

\* The order of a catalog and the order of mutations have one first element.
LEMMA FirstIsUnique ==
    ASSUME NEW S \in SUBSET Path, NEW p \in S, NEW r \in S, First(p, S), First(r, S)
    PROVE  p = r
BY NumberedPaths DEF First

\* Two paths are never both the next mutation.
LEMMA TurnIsUnique ==
    ASSUME todo \subseteq Path, NEW p \in todo, NEW r \in todo, Turn(p), Turn(r)
    PROVE  p = r
BY NumberedPaths DEF Turn

\* The end of a command, and steps of a process that does not hold the lock.
LEMMA ExitWrite ==
    ASSUME Inv, WriteInv, NEW q \in Process, Exit(q), lock = q \/ UNCHANGED disk
    PROVE  WriteInv'
<1>1. CASE lock = q
  BY <1>1, Sentinels DEF Exit, Unlock, WriteInv
<1>2. CASE lock # q
  <2>1. UNCHANGED <<lock, ledger, cursor, touched, disk>> BY <1>2 DEF Exit
  <2>2. ASSUME NEW r \in Process, lock' = r PROVE WriteKnown(r)'
    <3>1. pc'[r] = pc[r] /\ lock = r
      BY <1>2, <2>1, <2>2 DEF Exit, Goto, Inv, TypeOK
    <3> QED
      BY <2>1, <3>1 DEF WriteInv, WriteKnown, First, Turn, Reserved, Expected, Affected, Owns,
                        ledger, cursor
  <2> QED BY <2>2 DEF WriteInv
<1> QED BY <1>1, <1>2

\* A step of a process that does not hold the lock and leaves it alone.
LEMMA OutsideWrite ==
    ASSUME Inv, WriteInv, NEW q \in Process, lock # q, NEW phase, Goto(q, phase),
           UNCHANGED <<disk, lock, ledger, cursor, touched>>
    PROVE  WriteInv'
<1>1. ASSUME NEW r \in Process, lock' = r PROVE WriteKnown(r)'
  <2>1. pc'[r] = pc[r] /\ lock = r BY <1>1 DEF Goto, Inv, TypeOK
  <2> QED
    BY <2>1 DEF WriteInv, WriteKnown, First, Turn, Reserved, Expected, Affected, Owns,
                ledger, cursor
<1> QED BY <1>1 DEF WriteInv

\* The steps before the lock is taken keep the write invariant.
LEMMA PrepareWrite ==
    ASSUME Inv, WriteInv, NEW q \in Process, Start(q) \/ Prepare(q)
    PROVE  WriteInv'
<1> USE DEF files, session, ledger, cursor, history, At, Locked
<1> TypeOK BY DEF Inv
<1>1. CASE Start(q) BY <1>1, OutsideWrite DEF Start, TypeOK
<1>2. CASE Probe(q) BY <1>2, OutsideWrite DEF Probe, TypeOK
<1>3. CASE ReadBaseline(q)
  <2>1. Goto(q, "read") BY <1>3 DEF ReadBaseline, Goto, TypeOK
  <2> QED BY <1>3, <2>1, OutsideWrite DEF ReadBaseline, TypeOK
<1>4. CASE Generate(q) BY <1>4, OutsideWrite DEF Generate, BaselineRead, TypeOK
<1>5. CASE RejectLayout(q) BY <1>5, ExitWrite DEF RejectLayout, Reject
<1>6. CASE Acquire(q)
  <2>1. lock' = q /\ pc'[q] = "load" /\ armed' = FALSE
    BY <1>6 DEF Acquire, Goto, TypeOK, Inv, LedgerInv, Fresh
  <2> QED BY <2>1 DEF WriteInv, WriteKnown
<1>7. CASE LockBusy(q) BY <1>7, ExitWrite DEF LockBusy, Reject
<1> QED BY <1>1, <1>2, <1>3, <1>4, <1>5, <1>6, <1>7 DEF Prepare

\* The steps of load and recover keep the write invariant.
LEMMA RecoveryWrite ==
    ASSUME Inv, WriteInv, NEW q \in Process, Recovery(q)
    PROVE  WriteInv'
<1> USE DEF files, session, ledger, cursor, history, At
<1> TypeOK BY DEF Inv
<1>1. ASSUME pc[q] \in Locked PROVE lock = q /\ WriteKnown(q) /\ HolderInv(q)
  BY <1>1 DEF Inv, TypeOK, LedgerInv, WriteInv
<1>2. CASE LoadUpdating(q)
  <2>1. lock' = q /\ pc'[q] = "scan" /\ armed' = FALSE
    BY <1>1, <1>2 DEF LoadUpdating, Locked, Goto, TypeOK, WriteKnown
  <2> QED BY <2>1 DEF WriteInv, WriteKnown
<1>3. CASE LoadSettled(q)
  <2>1. lock = q /\ armed = FALSE BY <1>1, <1>3 DEF LoadSettled, Locked, TypeOK, WriteKnown
  <2>2. CASE plan[q] = NoPlan
    BY <1>3, <2>2, Sentinels DEF LoadSettled, Proceed, Unlock, WriteInv
  <2>3. CASE plan[q] # NoPlan
    <3>1. lock' = q /\ pc'[q] = "reread" /\ armed' = FALSE
      BY <1>3, <2>1, <2>3 DEF LoadSettled, Reenter, Goto, TypeOK
    <3> QED BY <3>1 DEF WriteInv, WriteKnown
  <2> QED BY <2>2, <2>3
<1>4. CASE Scan(q)
  <2>1. lock' = q /\ pc'[q] = "scan" /\ armed' = FALSE
    BY <1>1, <1>4 DEF Scan, Locked, TypeOK, WriteKnown
  <2> QED BY <2>1 DEF WriteInv, WriteKnown
<1>5. CASE ScanConflict(q) BY <1>5, ExitWrite DEF ScanConflict, Reject
<1>6. CASE ScanDone(q)
  <2>1. CASE Portable(recovered)
    <3>1. lock = q /\ WriteKnown(q) /\ HolderInv(q) BY <1>1, <1>6 DEF ScanDone, Locked
    <3>2. lock' = q /\ pc'[q] = "unreserve" /\ armed' = FALSE
      BY <1>6, <2>1, <3>1 DEF ScanDone, Goto, TypeOK, WriteKnown
    <3>3. todo' \subseteq Owns(after)'
      BY <1>6, <2>1, <3>1 DEF ScanDone, ReservedPaths, HolderInv, ReservedForOutput, Recovering, Owns
    <3> QED BY <3>2, <3>3 DEF WriteInv, WriteKnown
  <2>2. CASE ~Portable(recovered) BY <1>6, <2>2, ExitWrite DEF ScanDone, Reject
  <2> QED BY <2>1, <2>2
<1>7. CASE CheckReservation(q)
  <2>1. lock = q /\ WriteKnown(q) BY <1>1, <1>7 DEF CheckReservation, Locked
  <2>2. PICK p \in todo :
          /\ First(p, todo)
          /\ \/ Reserved(p) /\ armed' = TRUE /\ todo' = todo
             \/ disk[p] = Missing /\ armed' = FALSE /\ todo' = todo \ {p}
    BY <1>7 DEF CheckReservation
  <2>3. lock' = q /\ pc' = pc /\ UNCHANGED <<disk, generation, before, after>>
    BY <1>7, <2>1 DEF CheckReservation
  <2>4. CASE armed' = TRUE
    <3>1. Reserved(p) /\ todo' = todo BY <2>2, <2>4
    <3>2. \A r \in todo : First(r, todo) => r = p
      BY <2>2, FirstIsUnique DEF TypeOK
    <3>3. \A r \in todo' : First(r, todo') => Reserved(r)'
      BY <2>3, <3>1, <3>2 DEF Reserved
    <3> QED BY <1>7, <2>1, <2>3, <3>1, <3>3 DEF CheckReservation, WriteInv, WriteKnown, Owns
  <2>5. CASE armed' = FALSE
    BY <1>7, <2>1, <2>2, <2>3, <2>5 DEF CheckReservation, WriteInv, WriteKnown, Owns
  <2> QED BY <2>2, <2>4, <2>5
<1>8. CASE ReservationChanged(q) BY <1>8, ExitWrite DEF ReservationChanged, Reject
<1>9. CASE RemoveReservation(q)
  <2>1. lock = q /\ WriteKnown(q) BY <1>1, <1>9 DEF RemoveReservation, Locked
  <2>2. /\ lock' = q /\ pc' = pc /\ armed' = FALSE
        /\ todo' \subseteq todo /\ UNCHANGED after
    BY <1>9, <2>1 DEF RemoveReservation
  <2> QED BY <1>9, <2>1, <2>2 DEF RemoveReservation, WriteInv, WriteKnown, Owns
<1>10. CASE CommitRecovery(q)
  <2>1. lock = q /\ armed = FALSE
    BY <1>1, <1>10 DEF CommitRecovery, Locked, TypeOK, WriteKnown
  <2>2. CASE plan[q] = NoPlan
    BY <1>10, <2>2, Sentinels DEF CommitRecovery, Proceed, Unlock, WriteInv
  <2>3. CASE plan[q] # NoPlan
    <3>1. lock' = q /\ pc'[q] = "reread" /\ armed' = FALSE
      BY <1>10, <2>1, <2>3 DEF CommitRecovery, Reenter, Goto, TypeOK
    <3> QED BY <3>1 DEF WriteInv, WriteKnown
  <2> QED BY <2>2, <2>3
<1> QED
  BY <1>2, <1>3, <1>4, <1>5, <1>6, <1>7, <1>8, <1>9, <1>10 DEF Recovery

\* Rollback visits only paths the update reserved for its own outputs.
LEMMA RollbackTodo ==
    ASSUME NEW q \in Process, pc[q] = "reserve", HolderInv(q), Rollback(q), UNCHANGED after
    PROVE  (todo \subseteq Owns(after))'
BY DEF Rollback, ReservedPaths, HolderInv, ReservedForOutput, Applying, Owns

\* The steps of CatalogReconciliation::new keep the write invariant.
LEMMA AdmissionWrite ==
    ASSUME Inv, WriteInv, NEW q \in Process, Admission(q), TypeOK'
    PROVE  WriteInv'
<1> USE DEF files, session, ledger, cursor, history, At
<1> TypeOK BY DEF Inv
<1>1. ASSUME pc[q] \in Locked PROVE lock = q /\ WriteKnown(q)
  BY <1>1 DEF Inv, TypeOK, LedgerInv, WriteInv
<1>2. CASE Reread(q)
  <2>1. lock' = q /\ pc'[q] = "reread" /\ armed' = FALSE
    BY <1>1, <1>2 DEF Reread, Locked, TypeOK, WriteKnown
  <2> QED BY <2>1 DEF WriteInv, WriteKnown
<1>3. CASE BaselineChanged(q) BY <1>3, ExitWrite DEF BaselineChanged, Reject
<1>4. CASE AcceptPlan(q)
  <2>1. lock' = q /\ pc'[q] = "preflight" /\ armed' = FALSE
    BY <1>1, <1>4 DEF AcceptPlan, Locked, Goto, TypeOK, WriteKnown
  <2>2. (todo \subseteq Affected)' /\ \A p \in Path : expect'[p] = "keep"
    BY <1>4 DEF AcceptPlan, Affected, Owns, AllKept
  <2> QED BY <2>1, <2>2 DEF WriteInv, WriteKnown
<1>5. CASE RejectPlan(q) BY <1>5, ExitWrite DEF RejectPlan, Reject
<1>6. CASE Preflight(q)
  <2>1. lock = q /\ WriteKnown(q) BY <1>1, <1>6 DEF Preflight, Locked
  <2>2. lock' = q /\ pc'[q] = "preflight" /\ armed' = FALSE
    BY <1>6, <2>1 DEF Preflight, TypeOK, WriteKnown
  <2>3. Affected' = Affected BY <1>6 DEF Preflight, Affected, Owns
  <2>4. todo \subseteq Affected /\ todo' \subseteq todo BY <1>6, <2>1 DEF Preflight, WriteKnown
  <2>5. \A p \in Path : expect'[p] # "keep" => p \in Affected
    BY <1>6, <2>1, <2>4 DEF Preflight, WriteKnown, TypeOK
  <2> QED BY <2>2, <2>3, <2>4, <2>5 DEF WriteInv, WriteKnown
<1>7. CASE RejectOutput(q) BY <1>7, ExitWrite DEF RejectOutput, Reject
<1> QED BY <1>2, <1>3, <1>4, <1>5, <1>6, <1>7 DEF Admission

\* The steps of CatalogReconciliation::apply keep the write invariant.
LEMMA ApplyWrite ==
    ASSUME Inv, WriteInv, NEW q \in Process, Apply(q), TypeOK'
    PROVE  WriteInv'
<1> USE DEF files, session, ledger, cursor, history, At
<1> TypeOK BY DEF Inv
<1>1. ASSUME pc[q] \in Locked PROVE lock = q /\ WriteKnown(q) /\ HolderInv(q)
  BY <1>1 DEF Inv, TypeOK, LedgerInv, WriteInv
<1>2. CASE Begin(q)
  <2>1. lock = q /\ WriteKnown(q) BY <1>1, <1>2 DEF Begin, Locked
  <2>2. lock' = q /\ pc'[q] = "reserve" /\ armed' = FALSE
    BY <1>2, <2>1 DEF Begin, Goto, TypeOK, WriteKnown
  <2>3. (\A p \in Path : expect[p] # "keep" => p \in Affected)'
    BY <1>2, <2>1 DEF Begin, WriteKnown, Affected, Owns
  <2> QED BY <2>2, <2>3 DEF WriteInv, WriteKnown
<1>3. CASE Reserve(q)
  <2>1. lock = q /\ WriteKnown(q) BY <1>1, <1>3 DEF Reserve, Locked
  <2>2. PICK p \in todo : First(p, todo) /\ disk' = [disk EXCEPT ![p] = Torn]
    BY <1>3 DEF Reserve
  <2>3. lock' = q /\ pc' = pc /\ todo' = todo /\ disk'[p] = Torn
    BY <1>3, <2>1, <2>2 DEF Reserve, TypeOK
  <2>4. \A r \in todo : First(r, todo) => r = p
    BY <2>2, FirstIsUnique DEF TypeOK
  <2>5. \A r \in todo' : First(r, todo') => disk'[r] = Torn
    BY <2>3, <2>4
  <2>6. (\A r \in Path : expect[r] # "keep" => r \in Affected)'
    BY <1>3, <2>1 DEF Reserve, WriteKnown, Affected, Owns
  <2> QED BY <1>3, <2>2, <2>3, <2>5, <2>6 DEF Reserve, WriteInv, WriteKnown
<1>4. CASE Fill(q)
  <2>1. lock = q /\ WriteKnown(q) /\ HolderInv(q) BY <1>1, <1>4 DEF Fill, Locked
  <2>2. lock' = q /\ pc'[q] = "reserve" /\ armed' = FALSE
    BY <1>4, <2>1 DEF Fill
  <2>3. todo \subseteq Affected
    BY <1>4, <2>1 DEF Fill, HolderInv, ReservedForOutput, Affected
  <2>4. (\A r \in Path : expect[r] # "keep" => r \in Affected)'
    BY <1>4, <2>1, <2>3 DEF Fill, WriteKnown, Affected, Owns, TypeOK
  <2> QED BY <2>2, <2>4 DEF WriteInv, WriteKnown
<1>5. CASE ReserveTaken(q)
  <2>1. lock = q /\ HolderInv(q) BY <1>1, <1>5 DEF ReserveTaken, Locked
  <2>2. lock' = q /\ pc'[q] = "rollback" /\ armed' = FALSE
    BY <1>5, <2>1 DEF ReserveTaken, Rollback, Goto, TypeOK
  <2>3. (todo \subseteq Owns(after))'
    BY <1>5, <2>1, RollbackTodo DEF ReserveTaken
  <2> QED BY <2>2, <2>3 DEF WriteInv, WriteKnown
<1>6. CASE ReserveDone(q)
  <2>1. lock = q /\ WriteKnown(q) BY <1>1, <1>6 DEF ReserveDone, Locked
  <2>2. lock' = q /\ pc'[q] = "mutate" /\ armed' = FALSE
    BY <1>6, <2>1 DEF ReserveDone, Goto, TypeOK, WriteKnown
  <2>3. /\ (\A r \in Path : expect[r] # "keep" => r \in Affected)'
        /\ (todo \subseteq Affected)'
    BY <1>6, <2>1 DEF ReserveDone, WriteKnown, Affected, Owns
  <2> QED BY <2>2, <2>3 DEF WriteInv, WriteKnown
<1>7. CASE CommitRollback(q) BY <1>7, ExitWrite DEF CommitRollback, Reject
<1>8. CASE CheckMutation(q)
  <2>1. lock = q /\ WriteKnown(q) BY <1>1, <1>8 DEF CheckMutation, Locked
  <2>2. PICK p \in todo :
          /\ Turn(p)
          /\ \/ Expected(p) /\ armed' = TRUE /\ todo' = todo
             \/ AlreadyRemoved(p) /\ armed' = FALSE /\ todo' = todo \ {p}
    BY <1>8 DEF CheckMutation
  <2>3. /\ lock' = q /\ pc' = pc
        /\ UNCHANGED <<disk, generation, before, after, expect>>
    BY <1>8, <2>1 DEF CheckMutation
  <2>4. (\A r \in Path : expect[r] # "keep" => r \in Affected)' /\ (todo \subseteq Affected)'
    BY <1>8, <2>1, <2>2, <2>3 DEF CheckMutation, WriteKnown, Affected, Owns
  <2>5. CASE armed' = TRUE
    <3>1. Expected(p) /\ todo' = todo BY <2>2, <2>5
    <3>2. \A r \in todo : Turn(r) => r = p BY <2>2, TurnIsUnique DEF TypeOK
    <3>3. \A r \in todo' : Turn(r)' => Expected(r)'
      BY <2>3, <3>1, <3>2 DEF Turn, Expected, Reserved
    <3> QED BY <1>8, <2>2, <2>3, <2>4, <3>1, <3>3 DEF CheckMutation, WriteInv, WriteKnown
  <2>6. CASE armed' = FALSE
    BY <1>8, <2>3, <2>4, <2>6 DEF CheckMutation, WriteInv, WriteKnown
  <2> QED BY <2>2, <2>5, <2>6
<1>9. CASE RejectMutation(q) BY <1>9, ExitWrite DEF RejectMutation, Reject
<1>10. CASE Mutate(q)
  <2>1. lock = q /\ WriteKnown(q) BY <1>1, <1>10 DEF Mutate, Locked
  <2>2. lock' = q /\ pc'[q] = "mutate" /\ armed' = FALSE BY <1>10, <2>1 DEF Mutate
  <2>3. (\A r \in Path : expect[r] # "keep" => r \in Affected)' /\ (todo \subseteq Affected)'
    BY <1>10, <2>1 DEF Mutate, WriteKnown, Affected, Owns
  <2> QED BY <2>2, <2>3 DEF WriteInv, WriteKnown
<1>11. CASE UnlinkFails(q) BY <1>11, ExitWrite DEF UnlinkFails, Reject
<1>12. CASE MutateDone(q)
  <2>1. lock' = q /\ pc'[q] = "verify" /\ armed' = FALSE
    BY <1>1, <1>12 DEF MutateDone, Locked, Goto, TypeOK, WriteKnown
  <2> QED BY <2>1 DEF WriteInv, WriteKnown
<1>13. CASE VerifyAfter(q)
  <2>1. lock' = q /\ pc'[q] = "verify" /\ armed' = FALSE
    BY <1>1, <1>13 DEF VerifyAfter, Locked, TypeOK, WriteKnown
  <2> QED BY <2>1 DEF WriteInv, WriteKnown
<1>14. CASE AfterChanged(q) BY <1>14, ExitWrite DEF AfterChanged, Reject
<1>15. CASE Commit(q) BY <1>15, ExitWrite DEF Commit, Reject
<1> QED
  BY <1>2, <1>3, <1>4, <1>5, <1>6, <1>7, <1>8, <1>9, <1>10, <1>11, <1>12, <1>13, <1>14,
     <1>15 DEF Apply

\* Failures and kills keep the write invariant.
LEMMA FailureWrite ==
    ASSUME Inv, WriteInv, NEW q \in Process, Failure(q), TypeOK'
    PROVE  WriteInv'
<1> USE DEF files, session, ledger, cursor, history, At
<1> TypeOK BY DEF Inv
<1>1. ASSUME pc[q] \in Locked PROVE lock = q /\ HolderInv(q)
  BY <1>1 DEF Inv, TypeOK, LedgerInv
<1>2. CASE BeginUnsynced(q) BY <1>2, ExitWrite DEF BeginUnsynced
<1>3. CASE FillFails(q)
  <2>1. lock = q /\ HolderInv(q) BY <1>1, <1>3 DEF FillFails, Locked
  <2>2. lock' = q /\ pc'[q] = "rollback" /\ armed' = FALSE
    BY <1>3, <2>1 DEF FillFails, Rollback, Goto, TypeOK
  <2>3. (todo \subseteq Owns(after))' BY <1>3, <2>1, RollbackTodo DEF FillFails
  <2> QED BY <2>2, <2>3 DEF WriteInv, WriteKnown
<1>4. CASE ReserveCanceled(q)
  <2>1. lock = q /\ HolderInv(q) BY <1>1, <1>4 DEF ReserveCanceled, Locked
  <2>2. lock' = q /\ pc'[q] = "rollback" /\ armed' = FALSE
    BY <1>4, <2>1 DEF ReserveCanceled, Rollback, Goto, TypeOK
  <2>3. (todo \subseteq Owns(after))' BY <1>4, <2>1, RollbackTodo DEF ReserveCanceled
  <2> QED BY <2>2, <2>3 DEF WriteInv, WriteKnown
<1>5. CASE Fail(q) BY <1>5, ExitWrite DEF Fail
<1>6. CASE Crash(q) BY <1>6, ExitWrite DEF Crash
<1> QED BY <1>2, <1>3, <1>4, <1>5, <1>6 DEF Failure

\* A user's change of a path under check is remembered in touched.
LEMMA UserEditWrite == ASSUME Inv, WriteInv, UserEdit PROVE WriteInv'
<1>1. PICK p \in Path, b \in Document \cup {Foreign, Missing} :
        /\ disk' = [disk EXCEPT ![p] = b]
        /\ touched' = IF lock = NoOne THEN {} ELSE touched \cup {p}
  BY DEF UserEdit
<1>2. UNCHANGED <<lock, pc, generation, before, after, recovered, expect, todo, armed>>
  BY DEF UserEdit, session, ledger, cursor
<1>3. ASSUME NEW q \in Process, lock' = q PROVE WriteKnown(q)'
  <2>1. lock = q /\ WriteKnown(q) /\ touched' = touched \cup {p}
    BY <1>1, <1>2, <1>3, Sentinels DEF WriteInv
  <2>2. \A r \in Path \ {p} : disk'[r] = disk[r]
    BY <1>1 DEF Inv, TypeOK
  <2>3. \A r \in todo : \/ r \in touched'
                        \/ /\ disk'[r] = disk[r] /\ (Reserved(r)' <=> Reserved(r))
                           /\ (Expected(r)' <=> Expected(r))
    BY <1>2, <2>1, <2>2 DEF Inv, TypeOK, Reserved, Expected
  <2>4. \A r \in todo : (Turn(r)' <=> Turn(r)) /\ (First(r, todo)' <=> First(r, todo))
    BY <1>2 DEF Turn, First
  <2> QED BY <1>2, <2>1, <2>3, <2>4 DEF WriteKnown, Affected, Owns
<1> QED BY <1>3 DEF WriteInv

\* Every step keeps the write invariant.
LEMMA NextWrite == Inv /\ WriteInv /\ [Next]_vars => WriteInv'
<1> SUFFICES ASSUME Inv, WriteInv, [Next]_vars PROVE WriteInv' OBVIOUS
<1>1. TypeOK' BY NextInv DEF Inv
<1>2. ASSUME NEW q \in Process, Start(q) \/ Step(q) \/ Failure(q) PROVE WriteInv'
  BY <1>1, <1>2, PrepareWrite, RecoveryWrite, AdmissionWrite, ApplyWrite, FailureWrite DEF Step
<1>3. CASE UserEdit BY <1>3, UserEditWrite
<1>4. CASE UNCHANGED vars
  BY <1>4 DEF vars, files, session, ledger, cursor, history, bounds, WriteInv, WriteKnown, First,
              Turn, Reserved, Expected, Affected, Owns
<1> QED BY <1>2, <1>3, <1>4 DEF Next

\* What the holder has verified and is about to write or remove: the invariant
\* the action properties below follow from.
THEOREM WriteInvHolds == Spec => [](Inv /\ WriteInv)
<1>1. Init => Inv /\ WriteInv
  BY InitInv, Sentinels DEF Init, WriteInv
<1>2. Inv /\ WriteInv /\ [Next]_vars => (Inv /\ WriteInv)' BY NextInv, NextWrite
<1> QED BY <1>1, <1>2, PTL DEF Spec

-----------------------------------------------------------------------------
(* The action properties. *)

\* The five kinds of step that write to the contracts root.
LEMMA WritesAreJournaled ==
    ASSUME Inv, WriteInv, NEW q \in Process, Step(q) \/ Failure(q), NEW p \in Path,
           disk'[p] # disk[p]
    PROVE  JournaledBytes(p) \/ p \in touched
<1> USE DEF files, At
<1> TypeOK BY DEF Inv
<1>1. ASSUME pc[q] \in Locked PROVE WriteKnown(q) /\ HolderInv(q)
  BY <1>1 DEF Inv, TypeOK, LedgerInv, WriteInv
<1>2. CASE RemoveReservation(q)
  <2>1. WriteKnown(q) /\ JournalKnown(q)
    BY <1>1, <1>2 DEF RemoveReservation, Locked, HolderInv
  <2>2. p \in todo /\ First(p, todo) BY <1>2 DEF RemoveReservation
  <2>3. p \in Owns(after) /\ (Reserved(p) \/ p \in touched)
    BY <1>2, <2>1, <2>2 DEF RemoveReservation, WriteKnown
  <2>4. /\ manifest.state = "updating" /\ generation = manifest.generation
        /\ after = manifest.after
    BY <1>2, <2>1 DEF RemoveReservation, JournalKnown, Recovering, Applying, Updating
  <2> QED BY <2>3, <2>4 DEF JournaledBytes, JournalPaths, Reserved
<1>3. CASE Reserve(q)
  <2>1. HolderInv(q) /\ pc[q] = "reserve" BY <1>1, <1>3 DEF Reserve, Locked
  <2>2. disk[p] = Missing /\ p \in todo BY <1>3 DEF Reserve
  <2>3. p \in Owns(after) /\ manifest = Updating(generation, before, after)
    BY <2>1, <2>2 DEF HolderInv, JournalKnown, ReservedForOutput, Applying
  <2> QED BY <2>2, <2>3 DEF JournaledBytes, JournalPaths, Updating
<1>4. CASE Fill(q)
  <2>1. HolderInv(q) /\ pc[q] = "reserve" BY <1>1, <1>4 DEF Fill, Locked
  <2>2. disk[p] = Torn /\ p \in todo BY <1>4 DEF Fill
  <2>3. p \in Owns(after) /\ manifest = Updating(generation, before, after)
    BY <2>1, <2>2 DEF HolderInv, JournalKnown, ReservedForOutput, Applying
  <2> QED BY <2>2, <2>3 DEF JournaledBytes, JournalPaths, Updating
<1>5. CASE FillFails(q)
  <2>1. HolderInv(q) /\ WriteKnown(q) /\ pc[q] = "reserve" /\ armed
    BY <1>1, <1>5 DEF FillFails, Locked
  <2>2. First(p, todo) /\ p \in todo
    <3>1. PICK r \in todo :
            First(r, todo) /\ disk' \in {disk, [disk EXCEPT ![r] = Missing]}
      BY <1>5 DEF FillFails
    <3>2. p = r BY <3>1 DEF TypeOK
    <3> QED BY <3>1, <3>2
  <2>3. disk[p] = Torn \/ p \in touched BY <2>1, <2>2 DEF WriteKnown
  <2>4. p \in Owns(after) /\ manifest = Updating(generation, before, after)
    BY <2>1, <2>2 DEF HolderInv, JournalKnown, ReservedForOutput, Applying
  <2> QED BY <2>3, <2>4 DEF JournaledBytes, JournalPaths, Updating
<1>6. CASE Mutate(q)
  <2>1. HolderInv(q) /\ WriteKnown(q) /\ pc[q] = "mutate" /\ armed
    BY <1>1, <1>6 DEF Mutate, Locked
  <2>2. Turn(p) /\ p \in todo BY <1>6 DEF Mutate
  <2>3. p \in Affected /\ (Expected(p) \/ p \in touched)
    BY <2>1, <2>2 DEF WriteKnown
  <2>4. manifest = Updating(generation, before, after)
    BY <2>1 DEF HolderInv, JournalKnown, Applying
  <2> QED BY <2>3, <2>4 DEF JournaledBytes, JournalPaths, Updating, Affected, Expected, Reserved
<1>7. CASE UNCHANGED disk BY <1>7
<1>8. \/ RemoveReservation(q) \/ Reserve(q) \/ Fill(q) \/ FillFails(q) \/ Mutate(q)
      \/ UNCHANGED disk
  BY DEF Step, Prepare, Recovery, Admission, Apply, Failure, Reject, Probe, ReadBaseline, Generate,
         RejectLayout, Acquire, LockBusy, LoadUpdating, LoadSettled, Scan, ScanConflict, ScanDone,
         CheckReservation, ReservationChanged, CommitRecovery, Reread, BaselineChanged, AcceptPlan,
         RejectPlan, Preflight, RejectOutput, Begin, ReserveTaken, ReserveDone, CommitRollback,
         CheckMutation, RejectMutation, UnlinkFails, MutateDone, VerifyAfter, AfterChanged, Commit,
         BeginUnsynced, ReserveCanceled, Fail, Crash
<1> QED BY <1>2, <1>3, <1>4, <1>5, <1>6, <1>7, <1>8

\* No command ever replaces or removes bytes its journal does not name, for
\* any number of commands, kills, failures and edits, outside the window the
\* file system leaves between a digest check and the change it permits.
THEOREM NoForeignByteReplaced == Spec => OnlyJournaledBytesReplaced
<1> DEFINE Safe == edits' = edits =>
      \A p \in Path : disk'[p] # disk[p] => JournaledBytes(p) \/ p \in touched
<1>1. Inv /\ WriteInv /\ [Next]_vars => [Safe]_vars
  <2> SUFFICES ASSUME Inv, WriteInv, Next PROVE Safe
    OBVIOUS
  <2>1. ASSUME NEW q \in Process, Start(q) PROVE Safe
    BY <2>1 DEF Start, files
  <2>2. ASSUME NEW q \in Process, Step(q) \/ Failure(q) PROVE Safe
    BY <2>2, WritesAreJournaled
  <2>3. CASE UserEdit BY <2>3 DEF UserEdit, Inv, TypeOK
  <2> QED BY <2>1, <2>2, <2>3 DEF Next
<1> QED BY WriteInvHolds, <1>1, PTL DEF Spec, OnlyJournaledBytesReplaced

\* A generation number is given to one update only, and no update is journaled
\* over a pending one: the marker of a reservation identifies its update.
THEOREM OneUpdatePerGeneration == Spec => GenerationNamesOneUpdate
<1> DEFINE Named ==
      IF manifest'.state = "updating" /\ manifest' # manifest
        THEN manifest.state # "updating" /\ manifest'.generation = manifest.generation + 1
        ELSE manifest'.generation = manifest.generation
<1>1. Inv /\ [Next]_vars => [Named]_vars
  <2> SUFFICES ASSUME Inv, Next PROVE Named
    OBVIOUS
  <2> USE DEF files, At
  <2>1. ASSUME NEW q \in Process, pc[q] \in Locked PROVE JournalKnown(q)
    BY <2>1 DEF Inv, TypeOK, LedgerInv, HolderInv
  <2>2. ASSUME NEW q \in Process, CommitRecovery(q) PROVE Named
    BY <2>1, <2>2 DEF CommitRecovery, Committed, JournalKnown, Recovering, Locked
  <2>3. ASSUME NEW q \in Process, Begin(q) \/ BeginUnsynced(q) PROVE Named
    BY <2>1, <2>3 DEF Begin, BeginUnsynced, Updating, JournalKnown, Locked
  <2>4. ASSUME NEW q \in Process, CommitRollback(q) \/ Commit(q) PROVE Named
    BY <2>1, <2>4 DEF CommitRollback, Commit, Committed, Updating, JournalKnown, Applying, Locked
  <2>5. CASE UNCHANGED manifest BY <2>5
  <2>6. \/ \E q \in Process : \/ CommitRecovery(q) \/ Begin(q) \/ BeginUnsynced(q)
                              \/ CommitRollback(q) \/ Commit(q)
        \/ UNCHANGED manifest
    BY DEF Next, Start, Step, Prepare, Recovery, Admission, Apply, Failure, Reject, Probe,
           ReadBaseline, Generate, RejectLayout, Acquire, LockBusy, LoadUpdating, LoadSettled, Scan,
           ScanConflict, ScanDone, CheckReservation, ReservationChanged, RemoveReservation, Reread,
           BaselineChanged, AcceptPlan, RejectPlan, Preflight, RejectOutput, Reserve, Fill, FillFails,
           ReserveTaken, ReserveDone, CheckMutation, RejectMutation, Mutate, UnlinkFails, MutateDone,
           VerifyAfter, AfterChanged, ReserveCanceled, Fail, Crash, UserEdit
  <2> QED BY <2>2, <2>3, <2>4, <2>5, <2>6
<1> QED BY InvHolds, <1>1, PTL DEF Spec, GenerationNamesOneUpdate

-----------------------------------------------------------------------------
(* What is on disk *)

\* A user was the last to set the bytes, or a reservation died half-filled.
Excused(p) == p \in byUser \/ disk[p] = Torn

\* Between updates: the ledger of the last journal is what is on disk.
AsOwned(p) == disk[p] = manifest.after[p] \/ Excused(p)

\* During an update: the bytes of either catalog, or the marker of a
\* reservation, which stands where the old catalog owned nothing.
AsJournaled(p) ==
    \/ Excused(p)
    \/ disk[p] \in {manifest.before[p], manifest.after[p]}
    \/ /\ manifest.before[p] = Missing /\ manifest.after[p] # Missing
       /\ disk[p] = Marker(manifest.generation, p, manifest.after[p])

DiskAgrees ==
    /\ manifest.state # "updating" => \A p \in Path : AsOwned(p)
    /\ manifest.state = "updating" => \A p \in Path : AsJournaled(p)

\* A path may be emptied without loss: the old catalog owns nothing there, or
\* a user has set its bytes.
Expendable(p) == before[p] = Missing \/ p \in byUser

\* What the holder of the lock knows of the disk in each of its phases.
DiskKnown(q) ==
    /\ pc[q] = "load" => recovered = Nothing
    /\ pc[q] \in Recovering \cup {"preflight", "reserve", "rollback"} =>
         \A p \in Path : expect[p] \in {"missing", "reserved"} => Expendable(p)
    /\ pc[q] \in Recovering =>
         \A p \in Path : expect[p] = "reserved" => recovered[p] = before[p]
    /\ pc[q] = "scan" =>
         \A p \in Path \ todo : \/ disk[p] = recovered[p] \/ Excused(p)
                                \/ expect[p] = "reserved"
    /\ pc[q] \in {"unreserve", "rollback"} => todo \subseteq ReservedPaths
    /\ pc[q] = "unreserve" =>
         \A p \in Path \ todo : disk[p] = recovered[p] \/ Excused(p)
    /\ pc[q] = "reserve" =>
         /\ \A p \in todo : expect[p] = "missing"
         /\ \A p \in Path : disk[p] = before[p] \/ expect[p] = "reserved" \/ Excused(p)
    /\ pc[q] = "rollback" =>
         \A p \in Path \ todo : disk[p] = before[p] \/ Excused(p)
    /\ pc[q] = "preflight" =>
         \A p \in Path \ todo :
             after[p] = Missing /\ expect[p] # "remove" => disk[p] = Missing \/ Excused(p)
    /\ pc[q] = "reserve" =>
         \A p \in Path :
             after[p] = Missing /\ expect[p] # "remove" => disk[p] = Missing \/ Excused(p)
    /\ pc[q] = "mutate" =>
         \A p \in Path \ todo : after[p] = Missing => disk[p] = Missing \/ Excused(p)
    /\ pc[q] = "verify" =>
         \A p \in Path \ todo : disk[p] = after[p] \/ Excused(p)

DiskInv ==
    /\ DiskAgrees
    /\ lock = NoOne => recovered = Nothing
    /\ \A q \in Process : lock = q => DiskKnown(q)

-----------------------------------------------------------------------------
(* Lemmas about the parts every action is built from. *)

\* A marker is neither a document nor one of the other kinds of bytes.
LEMMA MarkerIsNoDocument ==
    ASSUME NEW g \in 1..MaxGeneration, NEW p \in Path, NEW d \in Document
    PROVE  Marker(g, p, d) \notin Document \cup {Foreign, Missing, Torn}
BY DistinctBytes DEF Marker, Markers

\* Steps that write no file and no journal.
LEMMA QuietAgrees ==
    ASSUME DiskAgrees, UNCHANGED <<disk, manifest, byUser>> PROVE DiskAgrees'
BY DEF DiskAgrees, AsOwned, AsJournaled, Excused

\* A step after which the holder of the lock is known to know the disk.
LEMMA HolderDisk ==
    ASSUME NEW q \in Process, lock' = q, DiskAgrees', DiskKnown(q)'
    PROVE  DiskInv'
BY Sentinels DEF DiskInv

\* The end of a command, holding the lock or not.
LEMMA ExitDisk ==
    ASSUME Inv, DiskInv, NEW q \in Process, Exit(q), DiskAgrees',
           lock = q \/ UNCHANGED <<disk, byUser>>
    PROVE  DiskInv'
<1>1. CASE lock = q
  BY <1>1, Sentinels DEF Exit, Unlock, DiskInv
<1>2. CASE lock # q
  <2>1. UNCHANGED <<lock, ledger, cursor, disk, byUser>> BY <1>2 DEF Exit
  <2>2. ASSUME NEW r \in Process, lock' = r PROVE DiskKnown(r)'
    <3>1. pc'[r] = pc[r] /\ lock = r
      BY <1>2, <2>1, <2>2 DEF Exit, Goto, Inv, TypeOK
    <3> QED
      BY <2>1, <3>1 DEF DiskInv, DiskKnown, Excused, Expendable, ReservedPaths, ledger, cursor
  <2> QED BY <2>1, <2>2 DEF DiskInv, ledger
<1> QED BY <1>1, <1>2

\* An error return leaves the disk and the journal alone.
LEMMA RejectDisk ==
    ASSUME Inv, DiskInv, NEW q \in Process, Reject(q) PROVE DiskInv'
<1>1. DiskAgrees' BY QuietAgrees DEF Reject, files, DiskInv
<1> QED BY <1>1, ExitDisk DEF Reject, files

\* A step of a process that does not hold the lock and leaves it alone.
LEMMA OutsideDisk ==
    ASSUME Inv, DiskInv, NEW q \in Process, lock # q, NEW phase, Goto(q, phase),
           UNCHANGED <<files, lock, ledger, cursor, byUser>>
    PROVE  DiskInv'
<1>1. DiskAgrees' BY QuietAgrees DEF files, DiskInv
<1>2. ASSUME NEW r \in Process, lock' = r PROVE DiskKnown(r)'
  <2>1. pc'[r] = pc[r] /\ lock = r BY <1>2 DEF Goto, Inv, TypeOK
  <2> QED
    BY <2>1 DEF DiskInv, DiskKnown, Excused, Expendable, ReservedPaths, files, ledger, cursor
<1> QED BY <1>1, <1>2 DEF DiskInv, ledger

\* The steps before the lock is taken.
LEMMA PrepareDisk ==
    ASSUME Inv, DiskInv, NEW q \in Process, Start(q) \/ Prepare(q)
    PROVE  DiskInv'
<1> USE DEF session, history, At, Locked
<1> TypeOK BY DEF Inv
<1>1. CASE Start(q) BY <1>1, OutsideDisk DEF Start, TypeOK
<1>2. CASE Probe(q) BY <1>2, OutsideDisk DEF Probe, TypeOK
<1>3. CASE ReadBaseline(q)
  <2>1. Goto(q, "read") BY <1>3 DEF ReadBaseline, Goto, TypeOK
  <2> QED BY <1>3, <2>1, OutsideDisk DEF ReadBaseline, TypeOK
<1>4. CASE Generate(q) BY <1>4, OutsideDisk DEF Generate, BaselineRead, TypeOK
<1>5. CASE RejectLayout(q) BY <1>5, RejectDisk DEF RejectLayout
<1>6. CASE Acquire(q)
  <2>1. lock' = q /\ pc'[q] = "load" /\ recovered' = Nothing
    BY <1>6 DEF Acquire, Goto, TypeOK, DiskInv, ledger
  <2>2. DiskAgrees' BY <1>6, QuietAgrees DEF Acquire, files, DiskInv
  <2>3. DiskKnown(q)' BY <2>1 DEF DiskKnown, Recovering
  <2> QED BY <2>1, <2>2, <2>3, HolderDisk
<1>7. CASE LockBusy(q) BY <1>7, RejectDisk DEF LockBusy
<1> QED BY <1>1, <1>2, <1>3, <1>4, <1>5, <1>6, <1>7 DEF Prepare

-----------------------------------------------------------------------------
(* Recovery. *)

\* Recovery that ends without documents to write drops the lock.
LEMMA ProceedDisk ==
    ASSUME NEW q \in Process, Proceed(q), DiskAgrees'
    PROVE  DiskInv'
BY Sentinels DEF Proceed, Unlock, DiskInv

\* Recovery that ends with documents to write starts the comparison.
LEMMA ReenterDisk ==
    ASSUME Inv, NEW q \in Process, lock = q, NEW owned, Reenter(q, owned), DiskAgrees'
    PROVE  DiskInv'
<1>1. lock' = q /\ pc'[q] = "reread" BY DEF Reenter, Goto, Inv, TypeOK
<1>2. DiskKnown(q)' BY <1>1 DEF DiskKnown, Recovering
<1> QED BY <1>1, <1>2, HolderDisk

\* The journal is loaded: paths outside it hold nothing of the tool's.
LEMMA LoadDisk ==
    ASSUME Inv, DiskInv, NEW q \in Process, LoadUpdating(q)
    PROVE  DiskInv'
<1> USE DEF At, session, cursor, history, files
<1>1. lock = q /\ HolderInv(q) /\ DiskKnown(q)
  BY DEF LoadUpdating, Inv, TypeOK, LedgerInv, DiskInv, Locked
<1>2. lock' = q /\ pc'[q] = "scan" /\ recovered' = Nothing /\ UNCHANGED <<files, byUser>>
  BY <1>1 DEF LoadUpdating, Goto, Inv, TypeOK, DiskKnown
<1>3. \A p \in Path : expect'[p] = "keep"
  BY <1>1 DEF LoadUpdating, HolderInv, ReservedForOutput, Fresh, AllKept
<1>4. ASSUME NEW p \in Path, p \notin todo' PROVE disk'[p] = recovered'[p] \/ Excused(p)'
  <2>1. manifest.before[p] = Missing /\ manifest.after[p] = Missing
    BY <1>4 DEF LoadUpdating, JournalPaths, Owns
  <2>2. AsJournaled(p) BY DEF LoadUpdating, DiskInv, DiskAgrees
  <2> QED BY <1>2, <2>1, <2>2 DEF AsJournaled, Excused, Nothing
<1>5. DiskKnown(q)' BY <1>2, <1>3, <1>4 DEF DiskKnown, Recovering
<1>6. DiskAgrees' BY <1>2, QuietAgrees DEF DiskInv
<1> QED BY <1>2, <1>5, <1>6, HolderDisk

\* One journaled path is classified; what recovery will own there is what the
\* disk holds, or will hold once the reservation has been removed.
LEMMA ScanDisk ==
    ASSUME Inv, DiskInv, NEW q \in Process, Scan(q)
    PROVE  DiskInv'
<1> USE DEF At, session, cursor, history, files
<1>1. lock = q /\ HolderInv(q) /\ DiskKnown(q)
  BY DEF Scan, Inv, TypeOK, LedgerInv, DiskInv, Locked
<1>2. PICK p \in todo :
        /\ Reconcilable(p)
        /\ recovered' = [recovered EXCEPT ![p] = Recover(p)]
        /\ expect' = [expect EXCEPT ![p] = IF Reserved(p) THEN "reserved" ELSE "keep"]
        /\ todo' = todo \ {p}
  BY DEF Scan
<1>3. /\ lock' = q /\ pc'[q] = "scan" /\ pc[q] = "scan"
      /\ UNCHANGED <<disk, manifest, byUser, generation, before, after>>
  BY <1>1 DEF Scan
<1>4. /\ manifest.state = "updating" /\ generation = manifest.generation
      /\ before = manifest.before /\ after = manifest.after
  BY <1>1, <1>3 DEF HolderInv, JournalKnown, Recovering
<1>5. p \in Path /\ AsJournaled(p)
  BY <1>4 DEF DiskInv, DiskAgrees, Inv, TypeOK
<1>6. recovered'[p] = Recover(p) /\ expect'[p] = IF Reserved(p) THEN "reserved" ELSE "keep"
  BY <1>2, <1>5 DEF Inv, TypeOK, Catalog
<1>7. Reserved(p) => ~Published(p) /\ Expendable(p)
  <2> SUFFICES ASSUME Reserved(p) PROVE ~Published(p) /\ Expendable(p) OBVIOUS
  <2>1. generation \in 1..MaxGeneration /\ after[p] \in Document
    BY <1>4, <1>5 DEF Reserved, Inv, TypeOK, LedgerInv, ManifestInv, Loadable, Catalog
  <2>2. disk[p] \notin Document \cup {Foreign, Missing, Torn}
    BY <1>5, <2>1, MarkerIsNoDocument DEF Reserved
  <2>3. before[p] \in Document \cup {Missing} BY <1>5 DEF Inv, TypeOK, Catalog
  <2> QED BY <1>4, <1>5, <2>1, <2>2, <2>3 DEF AsJournaled, Excused, Published, Expendable
<1>8. Reserved(p) \/ disk[p] = recovered'[p] \/ Excused(p)
  <2>1. CASE Published(p) BY <1>6, <2>1 DEF Recover
  <2>2. CASE ~Published(p) /\ ~Reserved(p)
    BY <1>2, <1>4, <1>5, <1>6, <2>2 DEF Recover, Reconcilable, AsJournaled, Excused
  <2> QED BY <2>1, <2>2
<1>9. ASSUME NEW r \in Path, r # p
      PROVE  expect'[r] = expect[r] /\ recovered'[r] = recovered[r] /\ (r \in todo' <=> r \in todo)
  BY <1>2, <1>9 DEF Inv, TypeOK, Catalog
<1>10. \A r \in Path : expect'[r] \in {"missing", "reserved"} => Expendable(r)'
  BY <1>1, <1>3, <1>6, <1>7, <1>9 DEF DiskKnown, Recovering, Expendable
<1>11. \A r \in Path : expect'[r] = "reserved" => recovered'[r] = before'[r]
  BY <1>1, <1>3, <1>6, <1>7, <1>9 DEF DiskKnown, Recovering, Recover
<1>12. \A r \in Path \ todo' : \/ disk'[r] = recovered'[r] \/ Excused(r)'
                               \/ expect'[r] = "reserved"
  BY <1>1, <1>3, <1>6, <1>8, <1>9 DEF DiskKnown, Excused
<1>13. DiskKnown(q)' BY <1>3, <1>10, <1>11, <1>12 DEF DiskKnown, Recovering
<1>14. DiskAgrees' BY <1>3, QuietAgrees DEF DiskInv
<1> QED BY <1>3, <1>13, <1>14, HolderDisk

\* Removing reservations, for recovery and for rollback.
LEMMA UnreserveDisk ==
    ASSUME Inv, DiskInv, NEW q \in Process, CheckReservation(q) \/ RemoveReservation(q)
    PROVE  DiskInv'
<1> USE DEF session, ledger
<1>1. lock = q /\ HolderInv(q) /\ DiskKnown(q)
  BY DEF CheckReservation, RemoveReservation, Inv, TypeOK, LedgerInv, DiskInv, Locked
<1>2. PICK p \in todo :
        \/ disk' = disk /\ todo' = todo
        \/ disk'[p] = Missing /\ disk' = [disk EXCEPT ![p] = Missing] /\ todo' = todo \ {p}
  <2>1. CASE CheckReservation(q)
    BY <2>1 DEF CheckReservation, files, Inv, TypeOK
  <2>2. CASE RemoveReservation(q) BY <2>2 DEF RemoveReservation, Inv, TypeOK
  <2> QED BY <2>1, <2>2
<1>3. /\ lock' = q /\ pc' = pc /\ pc[q] \in {"unreserve", "rollback"}
      /\ UNCHANGED <<manifest, byUser, generation, before, after, recovered, expect>>
  BY <1>1 DEF CheckReservation, RemoveReservation, files, history
<1>4. /\ manifest.state = "updating" /\ generation = manifest.generation
      /\ before = manifest.before /\ after = manifest.after
  BY <1>1, <1>3 DEF HolderInv, JournalKnown, Recovering, Applying, Updating
<1>5. p \in Path /\ expect[p] = "reserved" /\ Expendable(p)
  BY <1>1, <1>3 DEF DiskKnown, ReservedPaths, Recovering
<1>6. \A r \in Path \ {p} : disk'[r] = disk[r] BY <1>2 DEF Inv, TypeOK
<1>7. DiskAgrees'
  <2>1. ASSUME NEW r \in Path PROVE AsJournaled(r)'
    <3>1. AsJournaled(r) BY <1>4 DEF DiskInv, DiskAgrees
    <3>2. CASE disk'[r] = disk[r] BY <1>3, <3>1, <3>2 DEF AsJournaled, Excused
    <3>3. CASE r = p /\ disk'[p] = Missing
      BY <1>3, <1>4, <1>5, <3>3 DEF AsJournaled, Excused, Expendable
    <3> QED BY <1>2, <1>6, <3>2, <3>3
  <2> QED BY <1>3, <1>4, <2>1 DEF DiskAgrees
<1>8. (todo \subseteq ReservedPaths)'
  BY <1>1, <1>2, <1>3 DEF DiskKnown, ReservedPaths
<1>9. pc[q] = "unreserve" => \A r \in Path \ todo' : (disk[r] = recovered[r] \/ Excused(r))'
  BY <1>1, <1>2, <1>3, <1>5, <1>6 DEF DiskKnown, Excused, Expendable, Recovering
<1>10. pc[q] = "rollback" => \A r \in Path \ todo' : (disk[r] = before[r] \/ Excused(r))'
  BY <1>1, <1>2, <1>3, <1>5, <1>6 DEF DiskKnown, Excused, Expendable
<1>11. DiskKnown(q)'
  BY <1>1, <1>3, <1>8, <1>9, <1>10 DEF DiskKnown, Recovering, Expendable
<1> QED BY <1>3, <1>7, <1>11, HolderDisk

\* The steps of load and recover.
LEMMA RecoveryDisk ==
    ASSUME Inv, DiskInv, NEW q \in Process, Recovery(q)
    PROVE  DiskInv'
<1> USE DEF At, session, history
<1>1. ASSUME pc[q] \in Locked PROVE lock = q /\ HolderInv(q) /\ DiskKnown(q)
  BY <1>1 DEF Inv, TypeOK, LedgerInv, DiskInv
<1>2. CASE LoadUpdating(q) BY <1>2, LoadDisk
<1>3. CASE LoadSettled(q)
  <2>1. lock = q BY <1>1, <1>3 DEF LoadSettled, Locked
  <2>2. DiskAgrees' BY <1>3, QuietAgrees DEF LoadSettled, files, DiskInv
  <2> QED BY <1>3, <2>1, <2>2, ProceedDisk, ReenterDisk DEF LoadSettled
<1>4. CASE Scan(q) BY <1>4, ScanDisk
<1>5. CASE ScanConflict(q) BY <1>5, RejectDisk DEF ScanConflict
<1>6. CASE ScanDone(q)
  <2>1. CASE Portable(recovered)
    <3>1. lock = q /\ DiskKnown(q) /\ pc[q] = "scan" /\ todo = {}
      BY <1>1, <1>6 DEF ScanDone, Locked
    <3>2. /\ lock' = q /\ pc'[q] = "unreserve" /\ todo' = ReservedPaths
          /\ UNCHANGED <<disk, manifest, byUser, before, recovered, expect>>
      BY <1>6, <2>1, <3>1 DEF ScanDone, Goto, Inv, TypeOK, files, ledger
    <3>3. DiskKnown(q)'
      BY <3>1, <3>2 DEF DiskKnown, Recovering, Expendable, Excused, ReservedPaths
    <3>4. DiskAgrees' BY <3>2, QuietAgrees DEF DiskInv
    <3> QED BY <3>2, <3>3, <3>4, HolderDisk
  <2>2. CASE ~Portable(recovered) BY <1>6, <2>2, RejectDisk DEF ScanDone
  <2> QED BY <2>1, <2>2
<1>7. CASE CheckReservation(q) BY <1>7, UnreserveDisk
<1>8. CASE ReservationChanged(q) BY <1>8, RejectDisk DEF ReservationChanged
<1>9. CASE RemoveReservation(q) BY <1>9, UnreserveDisk
<1>10. CASE CommitRecovery(q)
  <2>1. lock = q /\ DiskKnown(q) /\ pc[q] = "unreserve" /\ todo = {}
    BY <1>1, <1>10 DEF CommitRecovery, Locked
  <2>2. manifest' = Committed(generation, recovered) /\ UNCHANGED <<disk, byUser>>
    BY <1>10 DEF CommitRecovery
  <2>3. DiskAgrees'
    BY <2>1, <2>2 DEF DiskKnown, DiskAgrees, AsOwned, Excused, Committed
  <2> QED BY <1>10, <2>1, <2>3, ProceedDisk, ReenterDisk DEF CommitRecovery
<1> QED
  BY <1>2, <1>3, <1>4, <1>5, <1>6, <1>7, <1>8, <1>9, <1>10 DEF Recovery

-----------------------------------------------------------------------------
(* Admission, application and rollback. *)

\* The steps of CatalogReconciliation::new.
LEMMA AdmissionDisk ==
    ASSUME Inv, DiskInv, NEW q \in Process, Admission(q)
    PROVE  DiskInv'
<1> USE DEF At, files, session, history
<1>1. ASSUME pc[q] \in Locked PROVE lock = q /\ HolderInv(q) /\ DiskKnown(q)
  BY <1>1 DEF Inv, TypeOK, LedgerInv, DiskInv
<1>2. CASE Reread(q)
  <2>1. lock' = q /\ pc'[q] = "reread" BY <1>1, <1>2 DEF Reread, Locked
  <2>2. DiskKnown(q)' BY <2>1 DEF DiskKnown, Recovering
  <2>3. DiskAgrees' BY <1>2, QuietAgrees DEF Reread, DiskInv
  <2> QED BY <2>1, <2>2, <2>3, HolderDisk
<1>3. CASE BaselineChanged(q) BY <1>3, RejectDisk DEF BaselineChanged
<1>4. CASE AcceptPlan(q)
  <2>1. lock = q /\ HolderInv(q) BY <1>1, <1>4 DEF AcceptPlan, Locked
  <2>2. /\ lock' = q /\ pc'[q] = "preflight" /\ expect' = AllKept
        /\ todo' = (Owns(before) \cup Owns(after))'
        /\ UNCHANGED <<disk, manifest, byUser, before>>
    BY <1>4, <2>1 DEF AcceptPlan, Goto, Inv, TypeOK, Owns
  <2>3. manifest.state # "updating" /\ before = manifest.after
    BY <1>4, <2>1 DEF AcceptPlan, HolderInv, JournalKnown
  <2>4. ASSUME NEW p \in Path \ todo' PROVE disk'[p] = Missing \/ Excused(p)'
    BY <2>2, <2>3, <2>4 DEF DiskInv, DiskAgrees, AsOwned, Excused, Owns
  <2>5. DiskKnown(q)' BY <2>2, <2>4 DEF DiskKnown, Recovering, AllKept
  <2>6. DiskAgrees' BY <2>2, QuietAgrees DEF DiskInv
  <2> QED BY <2>2, <2>5, <2>6, HolderDisk
<1>5. CASE RejectPlan(q) BY <1>5, RejectDisk DEF RejectPlan
<1>6. CASE Preflight(q)
  <2>1. lock = q /\ HolderInv(q) /\ DiskKnown(q) BY <1>1, <1>6 DEF Preflight, Locked
  <2>2. PICK p \in todo :
          /\ expect' = [expect EXCEPT ![p] = Expectation(p)]
          /\ todo' = todo \ {p}
    BY <1>6 DEF Preflight
  <2>3. /\ lock' = q /\ pc'[q] = "preflight" /\ pc[q] = "preflight"
        /\ UNCHANGED <<disk, manifest, byUser, before, after>>
    BY <1>6, <2>1 DEF Preflight, ledger
  <2>4. manifest.state # "updating" /\ before = manifest.after
    BY <2>1, <2>3 DEF HolderInv, JournalKnown
  <2>5. p \in Path /\ expect'[p] = Expectation(p) /\ AsOwned(p)
    BY <2>2, <2>4 DEF DiskInv, DiskAgrees, Inv, TypeOK
  <2>6. expect'[p] \in {"missing", "reserved"} => Expendable(p)
    BY <2>4, <2>5, DistinctBytes DEF Expectation, AsOwned, Excused, Expendable
  <2>7. after[p] = Missing /\ expect'[p] # "remove" => disk[p] = Missing
    BY <2>5 DEF Expectation
  <2>8. ASSUME NEW r \in Path, r # p
        PROVE  expect'[r] = expect[r] /\ (r \in todo' <=> r \in todo)
    BY <2>2, <2>8 DEF Inv, TypeOK
  <2>9. \A r \in Path : expect'[r] \in {"missing", "reserved"} => Expendable(r)'
    BY <2>1, <2>3, <2>6, <2>8 DEF DiskKnown, Expendable
  <2>10. \A r \in Path \ todo' :
            after'[r] = Missing /\ expect'[r] # "remove" => disk'[r] = Missing \/ Excused(r)'
    BY <2>1, <2>3, <2>7, <2>8 DEF DiskKnown, Excused
  <2>11. DiskKnown(q)' BY <2>3, <2>9, <2>10 DEF DiskKnown, Recovering
  <2>12. DiskAgrees' BY <2>3, QuietAgrees DEF DiskInv
  <2> QED BY <2>3, <2>11, <2>12, HolderDisk
<1>7. CASE RejectOutput(q) BY <1>7, RejectDisk DEF RejectOutput
<1> QED BY <1>2, <1>3, <1>4, <1>5, <1>6, <1>7 DEF Admission

\* The update is journaled: the settled disk is the old catalog of the journal.
LEMMA BegunAgrees ==
    ASSUME Inv, DiskInv, NEW q \in Process, lock = q, pc[q] = "preflight",
           manifest' = Updating(generation, before, after), UNCHANGED <<disk, byUser>>
    PROVE  DiskAgrees' /\ \A p \in Path : disk[p] = before[p] \/ Excused(p)
<1>1. manifest.state # "updating" /\ before = manifest.after
  BY DEF Inv, LedgerInv, HolderInv, JournalKnown
<1>2. \A p \in Path : disk[p] = before[p] \/ Excused(p)
  BY <1>1 DEF DiskInv, DiskAgrees, AsOwned
<1> QED BY <1>2 DEF DiskAgrees, AsJournaled, Excused, Updating

\* Creating, filling and removing the file of a reservation: a path the old
\* catalog does not own changes among what an update may leave there.
LEMMA ReserveDisk ==
    ASSUME Inv, DiskInv, NEW q \in Process, pc[q] = "reserve", NEW p \in todo,
           UNCHANGED <<manifest, byUser>>,
           \/ disk' = disk
           \/ disk[p] = Missing /\ disk' = [disk EXCEPT ![p] = Torn]
           \/ disk[p] = Torn /\ disk' = [disk EXCEPT ![p] = Marker(generation, p, after[p])]
           \/ disk' = [disk EXCEPT ![p] = Missing]
    PROVE  /\ DiskAgrees'
           /\ \A r \in Path : disk'[r] = before[r] \/ expect[r] = "reserved" \/ r = p \/ Excused(r)'
           /\ disk'[p] = Marker(generation, p, after[p]) \/ disk'[p] = before[p] \/ Excused(p)'
           /\ \A r \in Path : after[r] = Missing => disk'[r] = disk[r]
<1>1. lock = q /\ HolderInv(q) /\ DiskKnown(q)
  BY DEF Inv, TypeOK, LedgerInv, DiskInv, Locked
<1>2. manifest = Updating(generation, before, after)
  BY <1>1 DEF HolderInv, JournalKnown, Applying
<1>3. p \in Path /\ after[p] # Missing /\ Expendable(p) /\ expect[p] = "missing"
  BY <1>1 DEF HolderInv, ReservedForOutput, DiskKnown, Owns
<1>4. \A r \in Path \ {p} : disk'[r] = disk[r] BY DEF Inv, TypeOK
<1>5. \/ disk'[p] = disk[p] \/ disk'[p] = Torn \/ disk'[p] = Missing
      \/ disk'[p] = Marker(generation, p, after[p])
  BY <1>3 DEF Inv, TypeOK
<1>6. disk[p] = before[p] \/ Excused(p) BY <1>1, <1>3 DEF DiskKnown
<1>7. disk'[p] = Marker(generation, p, after[p]) \/ disk'[p] = before[p] \/ Excused(p)'
  BY <1>3, <1>5, <1>6 DEF Excused, Expendable
<1>8. DiskAgrees'
  <2>1. ASSUME NEW r \in Path PROVE AsJournaled(r)'
    <3>1. AsJournaled(r) BY <1>2 DEF DiskInv, DiskAgrees, Updating
    <3>2. CASE disk'[r] = disk[r] BY <3>1, <3>2 DEF AsJournaled, Excused
    <3>3. CASE r = p
      BY <1>2, <1>3, <1>7, <3>3 DEF AsJournaled, Excused, Updating, Expendable
    <3> QED BY <1>4, <3>2, <3>3
  <2> QED BY <1>2, <2>1 DEF DiskAgrees, Updating
<1>9. \A r \in Path : disk'[r] = before[r] \/ expect[r] = "reserved" \/ r = p \/ Excused(r)'
  BY <1>1, <1>4 DEF DiskKnown, Excused
<1> QED BY <1>3, <1>4, <1>7, <1>8, <1>9

\* Rollback starts: the reserved paths are due, the others hold the old bytes.
LEMMA RollbackDisk ==
    ASSUME Inv, DiskInv, NEW q \in Process, lock = q, lock' = q, pc[q] = "reserve", Rollback(q),
           DiskAgrees', UNCHANGED <<before, expect, byUser>>,
           \A p \in Path : disk'[p] = before[p] \/ expect[p] = "reserved" \/ Excused(p)'
    PROVE  DiskInv'
<1>1. DiskKnown(q) BY DEF DiskInv
<1>2. pc'[q] = "rollback" /\ todo' = ReservedPaths /\ ReservedPaths' = ReservedPaths
  BY DEF Rollback, Goto, Inv, TypeOK, ReservedPaths
<1>3. DiskKnown(q)' BY <1>1, <1>2 DEF DiskKnown, Recovering, Expendable, ReservedPaths
<1> QED BY <1>3, HolderDisk

\* One owned output is replaced or removed; the disk has the new bytes.
LEMMA MutateDisk ==
    ASSUME Inv, DiskInv, NEW q \in Process, Mutate(q) PROVE DiskInv'
<1> USE DEF At
<1>1. lock = q /\ HolderInv(q) /\ DiskKnown(q)
  BY DEF Mutate, Inv, TypeOK, LedgerInv, DiskInv, Locked
<1>2. PICK p \in todo :
        /\ disk' = [disk EXCEPT ![p] = after[p]]
        /\ todo' = todo \ {p} /\ byUser' = byUser \ {p}
  BY DEF Mutate
<1>3. /\ lock' = q /\ pc'[q] = "mutate" /\ pc[q] = "mutate"
      /\ UNCHANGED <<manifest, after>> /\ manifest = Updating(generation, before, after)
  BY <1>1 DEF Mutate, ledger, HolderInv, JournalKnown, Applying
<1>4. p \in Path /\ disk'[p] = after[p] BY <1>2 DEF Inv, TypeOK
<1>5. ASSUME NEW r \in Path, r # p
      PROVE  disk'[r] = disk[r] /\ (Excused(r)' <=> Excused(r)) /\ (r \in todo' <=> r \in todo)
  BY <1>2, <1>5 DEF Inv, TypeOK, Excused
<1>6. DiskAgrees'
  <2>1. ASSUME NEW r \in Path PROVE AsJournaled(r)'
    <3>1. AsJournaled(r) BY <1>3 DEF DiskInv, DiskAgrees, Updating
    <3>2. CASE r = p BY <1>3, <1>4, <3>2 DEF AsJournaled, Updating
    <3>3. CASE r # p BY <1>3, <1>5, <3>1, <3>3 DEF AsJournaled
    <3> QED BY <3>2, <3>3
  <2> QED BY <1>3, <2>1 DEF DiskAgrees, Updating
<1>7. DiskKnown(q)' BY <1>1, <1>3, <1>4, <1>5 DEF DiskKnown, Recovering
<1> QED BY <1>3, <1>6, <1>7, HolderDisk

\* The steps of CatalogReconciliation::apply.
LEMMA ApplyDisk ==
    ASSUME Inv, DiskInv, NEW q \in Process, Apply(q)
    PROVE  DiskInv'
<1> USE DEF At, session, history
<1>1. ASSUME pc[q] \in Locked PROVE lock = q /\ HolderInv(q) /\ DiskKnown(q)
  BY <1>1 DEF Inv, TypeOK, LedgerInv, DiskInv
<1>2. CASE Begin(q)
  <2>1. lock = q /\ DiskKnown(q) /\ pc[q] = "preflight" /\ todo = {}
    BY <1>1, <1>2 DEF Begin, Locked
  <2>2. /\ lock' = q /\ pc'[q] = "reserve" /\ todo' = {p \in Path : expect[p] = "missing"}
        /\ UNCHANGED <<disk, byUser, before, after, expect>>
    BY <1>2, <2>1 DEF Begin, Goto, Inv, TypeOK, ledger
  <2>3. DiskAgrees' /\ \A p \in Path : disk[p] = before[p] \/ Excused(p)
    BY <1>2, <2>1, <2>2, BegunAgrees DEF Begin
  <2>4. DiskKnown(q)'
    BY <2>1, <2>2, <2>3 DEF DiskKnown, Recovering, Expendable, Excused
  <2> QED BY <2>2, <2>3, <2>4, HolderDisk
<1>3. CASE Reserve(q)
  <2>1. lock = q /\ DiskKnown(q) /\ pc[q] = "reserve" BY <1>1, <1>3 DEF Reserve, Locked
  <2>2. PICK p \in todo : disk[p] = Missing /\ disk' = [disk EXCEPT ![p] = Torn]
    BY <1>3 DEF Reserve
  <2>3. /\ lock' = q /\ pc' = pc
        /\ UNCHANGED <<manifest, byUser, before, after, expect, todo>>
    BY <1>3, <2>1 DEF Reserve, ledger
  <2>4. /\ DiskAgrees'
        /\ \A r \in Path : disk'[r] = before[r] \/ expect[r] = "reserved" \/ r = p \/ Excused(r)'
        /\ \A r \in Path : after[r] = Missing => disk'[r] = disk[r]
    BY <2>1, <2>2, <2>3, ReserveDisk
  <2>5. Excused(p)' BY <2>2 DEF Excused, Inv, TypeOK
  <2>6. DiskKnown(q)'
    BY <2>1, <2>3, <2>4, <2>5 DEF DiskKnown, Recovering, Expendable, Excused
  <2> QED BY <2>3, <2>4, <2>6, HolderDisk
<1>4. CASE Fill(q)
  <2>1. lock = q /\ DiskKnown(q) /\ pc[q] = "reserve" BY <1>1, <1>4 DEF Fill, Locked
  <2>2. PICK p \in todo :
          /\ disk' = [disk EXCEPT ![p] =
                        IF @ = Torn THEN Marker(generation, p, after[p]) ELSE @]
          /\ expect' = [expect EXCEPT ![p] = "reserved"]
          /\ todo' = todo \ {p}
    BY <1>4 DEF Fill
  <2>3. /\ lock' = q /\ pc' = pc
        /\ UNCHANGED <<manifest, byUser, before, after>>
    BY <1>4, <2>1 DEF Fill, ledger
  <2>4. \/ disk' = disk
        \/ disk[p] = Torn /\ disk' = [disk EXCEPT ![p] = Marker(generation, p, after[p])]
    BY <2>2 DEF Inv, TypeOK
  <2>5. /\ DiskAgrees'
        /\ \A r \in Path : disk'[r] = before[r] \/ expect[r] = "reserved" \/ r = p \/ Excused(r)'
        /\ \A r \in Path : after[r] = Missing => disk'[r] = disk[r]
    BY <2>1, <2>3, <2>4, ReserveDisk
  <2>6. p \in Path /\ expect[p] = "missing" /\ expect'[p] = "reserved"
        /\ \A r \in Path \ {p} : expect'[r] = expect[r]
    BY <2>1, <2>2 DEF Inv, TypeOK, DiskKnown
  <2>7. \A r \in Path : expect'[r] \in {"missing", "reserved"} => Expendable(r)'
    BY <2>1, <2>3, <2>6 DEF DiskKnown, Expendable
  <2>8. /\ \A r \in todo' : expect'[r] = "missing"
        /\ \A r \in Path : disk'[r] = before'[r] \/ expect'[r] = "reserved" \/ Excused(r)'
    BY <2>1, <2>2, <2>3, <2>5, <2>6 DEF DiskKnown, Inv, TypeOK
  <2>9. \A r \in Path :
            after'[r] = Missing /\ expect'[r] # "remove" => disk'[r] = Missing \/ Excused(r)'
    BY <2>1, <2>3, <2>5, <2>6 DEF DiskKnown, Excused
  <2>10. DiskKnown(q)' BY <2>1, <2>3, <2>7, <2>8, <2>9 DEF DiskKnown, Recovering
  <2> QED BY <2>3, <2>5, <2>10, HolderDisk
<1>5. CASE ReserveTaken(q)
  <2>1. lock = q /\ DiskKnown(q) BY <1>1, <1>5 DEF ReserveTaken, Locked
  <2>2. DiskAgrees' BY <1>5, QuietAgrees DEF ReserveTaken, files, DiskInv
  <2> QED BY <1>5, <2>1, <2>2, RollbackDisk DEF ReserveTaken, files, ledger, DiskKnown, Excused
<1>6. CASE ReserveDone(q)
  <2>1. lock = q /\ DiskKnown(q) /\ pc[q] = "reserve" /\ todo = {}
    BY <1>1, <1>6 DEF ReserveDone, Locked
  <2>2. /\ lock' = q /\ pc'[q] = "mutate" /\ todo' = {p \in Path : expect[p] # "keep"}
        /\ UNCHANGED <<disk, manifest, byUser, after>>
    BY <1>6, <2>1 DEF ReserveDone, Goto, Inv, TypeOK, files, ledger
  <2>3. DiskKnown(q)' BY <2>1, <2>2 DEF DiskKnown, Recovering, Excused
  <2>4. DiskAgrees' BY <2>2, QuietAgrees DEF DiskInv
  <2> QED BY <2>2, <2>3, <2>4, HolderDisk
<1>7. CASE CommitRollback(q)
  <2>1. lock = q /\ DiskKnown(q) /\ pc[q] = "rollback" /\ todo = {}
    BY <1>1, <1>7 DEF CommitRollback, Locked
  <2>2. DiskAgrees'
    BY <1>7, <2>1 DEF CommitRollback, DiskKnown, DiskAgrees, AsOwned, Excused, Committed
  <2> QED BY <1>7, <2>1, <2>2, ExitDisk DEF CommitRollback
<1>8. CASE CheckMutation(q)
  <2>1. lock = q /\ DiskKnown(q) /\ HolderInv(q) /\ pc[q] = "mutate"
    BY <1>1, <1>8 DEF CheckMutation, Locked
  <2>2. PICK p \in todo : todo' = todo \/ (disk[p] = Missing /\ todo' = todo \ {p})
    BY <1>8 DEF CheckMutation, AlreadyRemoved
  <2>3. lock' = q /\ pc' = pc /\ UNCHANGED <<disk, manifest, byUser, after>>
    BY <1>8, <2>1 DEF CheckMutation, files, ledger
  <2>4. DiskKnown(q)' BY <2>1, <2>2, <2>3 DEF DiskKnown, Recovering, Excused
  <2>5. DiskAgrees' BY <2>3, QuietAgrees DEF DiskInv
  <2> QED BY <2>3, <2>4, <2>5, HolderDisk
<1>9. CASE RejectMutation(q) BY <1>9, RejectDisk DEF RejectMutation
<1>10. CASE Mutate(q) BY <1>10, MutateDisk
<1>11. CASE UnlinkFails(q) BY <1>11, RejectDisk DEF UnlinkFails
<1>12. CASE MutateDone(q)
  <2>1. lock = q /\ DiskKnown(q) /\ pc[q] = "mutate" /\ todo = {}
    BY <1>1, <1>12 DEF MutateDone, Locked
  <2>2. /\ lock' = q /\ pc'[q] = "verify" /\ todo' = Owns(after)
        /\ UNCHANGED <<disk, manifest, byUser, after>>
    BY <1>12, <2>1 DEF MutateDone, Goto, Inv, TypeOK, files, ledger
  <2>3. DiskKnown(q)' BY <2>1, <2>2 DEF DiskKnown, Recovering, Excused, Owns
  <2>4. DiskAgrees' BY <2>2, QuietAgrees DEF DiskInv
  <2> QED BY <2>2, <2>3, <2>4, HolderDisk
<1>13. CASE VerifyAfter(q)
  <2>1. lock = q /\ DiskKnown(q) /\ pc[q] = "verify"
    BY <1>1, <1>13 DEF VerifyAfter, Locked
  <2>2. PICK p \in todo : disk[p] = after[p] /\ todo' = todo \ {p}
    BY <1>13 DEF VerifyAfter
  <2>3. lock' = q /\ pc' = pc /\ UNCHANGED <<disk, manifest, byUser, after>>
    BY <1>13, <2>1 DEF VerifyAfter, files, ledger
  <2>4. DiskKnown(q)' BY <2>1, <2>2, <2>3 DEF DiskKnown, Recovering, Excused
  <2>5. DiskAgrees' BY <2>3, QuietAgrees DEF DiskInv
  <2> QED BY <2>3, <2>4, <2>5, HolderDisk
<1>14. CASE AfterChanged(q) BY <1>14, RejectDisk DEF AfterChanged
<1>15. CASE Commit(q)
  <2>1. lock = q /\ DiskKnown(q) /\ pc[q] = "verify" /\ todo = {}
    BY <1>1, <1>15 DEF Commit, Locked
  <2>2. DiskAgrees'
    BY <1>15, <2>1 DEF Commit, DiskKnown, DiskAgrees, AsOwned, Excused, Committed
  <2> QED BY <1>15, <2>1, <2>2, ExitDisk DEF Commit
<1> QED
  BY <1>2, <1>3, <1>4, <1>5, <1>6, <1>7, <1>8, <1>9, <1>10, <1>11, <1>12, <1>13, <1>14,
     <1>15 DEF Apply

-----------------------------------------------------------------------------
(* Failures, kills and users. *)

\* A command that fails or is killed leaves what its journal describes.
LEMMA FailureDisk ==
    ASSUME Inv, DiskInv, NEW q \in Process, Failure(q)
    PROVE  DiskInv'
<1> USE DEF At, session, history
<1>1. ASSUME pc[q] \in Locked PROVE lock = q /\ HolderInv(q) /\ DiskKnown(q)
  BY <1>1 DEF Inv, TypeOK, LedgerInv, DiskInv
<1>2. CASE BeginUnsynced(q)
  <2>1. lock = q /\ pc[q] = "preflight" BY <1>1, <1>2 DEF BeginUnsynced, Locked
  <2>2. DiskAgrees' BY <1>2, <2>1, BegunAgrees DEF BeginUnsynced
  <2> QED BY <1>2, <2>1, <2>2, ExitDisk DEF BeginUnsynced
<1>3. CASE FillFails(q)
  <2>1. lock = q /\ DiskKnown(q) /\ pc[q] = "reserve" BY <1>1, <1>3 DEF FillFails, Locked
  <2>2. PICK p \in todo : disk' = disk \/ disk' = [disk EXCEPT ![p] = Missing]
    BY <1>3 DEF FillFails
  <2>3. lock' = q /\ Rollback(q) /\ UNCHANGED <<manifest, byUser, before, after, expect>>
    BY <1>3, <2>1 DEF FillFails, ledger
  <2>4. /\ DiskAgrees'
        /\ \A r \in Path : disk'[r] = before[r] \/ expect[r] = "reserved" \/ r = p \/ Excused(r)'
    BY <2>1, <2>2, <2>3, ReserveDisk
  <2>5. disk'[p] = before[p] \/ Excused(p)'
    <3>1. p \in Path /\ expect[p] = "missing" /\ Expendable(p)
      BY <2>1 DEF DiskKnown, Inv, TypeOK
    <3>2. disk'[p] = disk[p] \/ disk'[p] = Missing BY <2>2, <3>1 DEF Inv, TypeOK
    <3> QED BY <2>1, <2>3, <3>1, <3>2 DEF DiskKnown, Excused, Expendable
  <2> QED BY <2>1, <2>3, <2>4, <2>5, RollbackDisk
<1>4. CASE ReserveCanceled(q)
  <2>1. lock = q /\ DiskKnown(q) BY <1>1, <1>4 DEF ReserveCanceled, Locked
  <2>2. DiskAgrees' BY <1>4, QuietAgrees DEF ReserveCanceled, files, DiskInv
  <2> QED BY <1>4, <2>1, <2>2, RollbackDisk DEF ReserveCanceled, files, ledger, DiskKnown, Excused
<1>5. CASE Fail(q)
  <2>1. DiskAgrees' BY <1>5, QuietAgrees DEF Fail, files, DiskInv
  <2> QED BY <1>5, <2>1, ExitDisk DEF Fail, files
<1>6. CASE Crash(q)
  <2>1. DiskAgrees' BY <1>6, QuietAgrees DEF Crash, files, DiskInv
  <2> QED BY <1>6, <2>1, ExitDisk DEF Crash, files
<1> QED BY <1>2, <1>3, <1>4, <1>5, <1>6 DEF Failure

\* A user's change excuses the path it is made at.
LEMMA UserEditDisk == ASSUME Inv, DiskInv, UserEdit PROVE DiskInv'
<1>1. PICK p \in Path, b \in Document \cup {Foreign, Missing} :
        disk' = [disk EXCEPT ![p] = b] /\ byUser' = byUser \cup {p}
  BY DEF UserEdit
<1>2. UNCHANGED <<manifest, lock, pc, before, after, recovered, expect, todo>>
  BY DEF UserEdit, ledger, cursor
<1>3. \A r \in Path : Excused(r)' \/ (disk'[r] = disk[r] /\ ~Excused(r))
  BY <1>1 DEF Inv, TypeOK, Excused
<1>4. DiskAgrees' BY <1>2, <1>3 DEF DiskInv, DiskAgrees, AsOwned, AsJournaled
<1>5. ASSUME NEW q \in Process, lock' = q PROVE DiskKnown(q)'
  <2>1. DiskKnown(q) BY <1>2, <1>5 DEF DiskInv
  <2>2. \A r \in Path : Expendable(r) => Expendable(r)' BY <1>1, <1>2 DEF Expendable
  <2> QED BY <1>2, <1>3, <2>1, <2>2 DEF DiskKnown, ReservedPaths
<1> QED BY <1>2, <1>4, <1>5 DEF DiskInv

\* Every step keeps the agreement of disk, journal and what the holder knows.
LEMMA NextDisk == Inv /\ DiskInv /\ [Next]_vars => DiskInv'
<1> SUFFICES ASSUME Inv, DiskInv, [Next]_vars PROVE DiskInv' OBVIOUS
<1>1. ASSUME NEW q \in Process, Start(q) \/ Step(q) \/ Failure(q) PROVE DiskInv'
  BY <1>1, PrepareDisk, RecoveryDisk, AdmissionDisk, ApplyDisk, FailureDisk DEF Step
<1>2. CASE UserEdit BY <1>2, UserEditDisk
<1>3. CASE UNCHANGED vars
  BY <1>3 DEF vars, files, ledger, cursor, history, DiskInv, DiskAgrees, AsOwned, AsJournaled,
              DiskKnown, Excused, Expendable, ReservedPaths
<1> QED BY <1>1, <1>2, <1>3 DEF Next

\* A fresh root owns nothing and has no files but its user's.
LEMMA InitDisk == Init => DiskInv
BY Sentinels DEF Init, DiskInv, DiskAgrees, AsOwned, Excused, NoManifest, Nothing

\* The invariant the theorems about the disk follow from.
THEOREM DiskInvHolds == Spec => [](Inv /\ DiskInv)
<1>1. Init => Inv /\ DiskInv BY InitInv, InitDisk
<1>2. Inv /\ DiskInv /\ [Next]_vars => (Inv /\ DiskInv)' BY NextInv, NextDisk
<1> QED BY <1>1, <1>2, PTL DEF Spec

\* While no update is pending, the ledger is what is on disk: after a commit, a
\* rollback or a recovery of whatever mixture of two catalogs was left behind.
THEOREM SettledLedgerIsTrue == Spec => []OwnershipMatchesDisk
<1>1. DiskInv => OwnershipMatchesDisk
  BY DEF DiskInv, DiskAgrees, AsOwned, Excused, OwnershipMatchesDisk
<1> QED BY DiskInvHolds, <1>1, PTL

\* From wherever an update was left, the next command can resolve it.
THEOREM PendingUpdateResolvable == Spec => []InterruptedUpdateIsRecoverable
<1>1. DiskInv => InterruptedUpdateIsRecoverable
  BY DEF DiskInv, DiskAgrees, AsJournaled, Excused, CanReconcile, InterruptedUpdateIsRecoverable,
         JournalPaths, Owns
<1> QED BY DiskInvHolds, <1>1, PTL

-----------------------------------------------------------------------------
(* No update is begun from a stale baseline. *)

\* What the holder has compared with its baseline is unchanged, but for users.
Compared(q) ==
    /\ pc[q] = "reread" =>
         \A p \in Path \ todo : disk[p] = snapshot[q][p] \/ p \in touched
    /\ pc[q] = "preflight" =>
         \A p \in Path : disk[p] = snapshot[q][p] \/ p \in touched
BaselineInv == \A q \in Process : lock = q => Compared(q)

\* Steps that change neither the comparison nor what is compared.
LEMMA QuietBaseline ==
    ASSUME Inv, BaselineInv, NEW q \in Process,
           \A r \in Process \ {q} : pc'[r] = pc[r] /\ snapshot'[r] = snapshot[r],
           lock' = q => pc'[q] \notin {"reread", "preflight"},
           \/ lock' = NoOne \/ lock' = q
           \/ lock # q /\ UNCHANGED <<lock, disk, touched, todo>>
    PROVE  BaselineInv'
<1>1. ASSUME NEW r \in Process, lock' = r PROVE Compared(r)'
  <2>1. CASE r = q BY <1>1, <2>1 DEF Compared
  <2>2. CASE r # q BY <1>1, <2>2, Sentinels DEF BaselineInv, Compared
  <2> QED BY <2>1, <2>2
<1> QED BY <1>1 DEF BaselineInv

\* The end of a command forgets what was compared.
LEMMA ExitBaseline ==
    ASSUME Inv, BaselineInv, NEW q \in Process, Exit(q), lock = q \/ UNCHANGED disk
    PROVE  BaselineInv'
<1>1. \A r \in Process \ {q} : pc'[r] = pc[r] /\ snapshot'[r] = snapshot[r]
  BY DEF Exit, Goto, Inv, TypeOK
<1>2. lock' = NoOne \/ (lock # q /\ UNCHANGED <<lock, disk, touched, todo>>)
  BY DEF Exit, Unlock, cursor
<1>3. lock' # q BY <1>2, Sentinels
<1> QED BY <1>1, <1>2, <1>3, QuietBaseline

\* The steps before the lock is taken: a baseline is read without the lock.
LEMMA PrepareBaseline ==
    ASSUME Inv, BaselineInv, NEW q \in Process, Start(q) \/ Prepare(q)
    PROVE  BaselineInv'
<1> USE DEF files, session, cursor, history, At, Goto, Inv, TypeOK, Locked
<1>1. CASE Start(q) BY <1>1, QuietBaseline DEF Start
<1>2. CASE Probe(q) BY <1>2, QuietBaseline DEF Probe
<1>3. CASE ReadBaseline(q) BY <1>3, QuietBaseline DEF ReadBaseline
<1>4. CASE Generate(q) BY <1>4, QuietBaseline DEF Generate, BaselineRead
<1>5. CASE RejectLayout(q) BY <1>5, ExitBaseline DEF RejectLayout, Reject
<1>6. CASE Acquire(q) BY <1>6, QuietBaseline DEF Acquire
<1>7. CASE LockBusy(q) BY <1>7, ExitBaseline DEF LockBusy, Reject
<1> QED BY <1>1, <1>2, <1>3, <1>4, <1>5, <1>6, <1>7 DEF Prepare

\* A locked phase in which nothing is compared, or the end of recovery.
LEMMA RecoveryBaseline ==
    ASSUME Inv, BaselineInv, NEW q \in Process, Recovery(q)
    PROVE  BaselineInv'
<1> USE DEF At, session, Inv, TypeOK
<1>1. ASSUME pc[q] \in Locked PROVE lock = q BY <1>1
<1>2. ASSUME NEW owned, lock = q, Reenter(q, owned), UNCHANGED session PROVE BaselineInv'
  <2>1. lock' = q /\ pc'[q] = "reread" /\ todo' = Path BY <1>2 DEF Reenter, Goto
  <2>2. ASSUME NEW r \in Process, lock' = r PROVE Compared(r)'
    BY <2>1, <2>2 DEF Compared
  <2> QED BY <2>2 DEF BaselineInv
<1>3. CASE LoadUpdating(q)
  BY <1>1, <1>3, QuietBaseline DEF LoadUpdating, Locked, Goto
<1>4. CASE LoadSettled(q)
  <2>1. lock = q BY <1>1, <1>4 DEF LoadSettled, Locked
  <2>2. CASE plan[q] = NoPlan
    BY <1>4, <2>2, Sentinels DEF LoadSettled, Proceed, Unlock, BaselineInv
  <2>3. CASE plan[q] # NoPlan BY <1>2, <1>4, <2>1, <2>3 DEF LoadSettled
  <2> QED BY <2>2, <2>3
<1>5. CASE Scan(q) BY <1>1, <1>5, QuietBaseline DEF Scan, Locked
<1>6. CASE ScanConflict(q) BY <1>6, ExitBaseline DEF ScanConflict, Reject, files
<1>7. CASE ScanDone(q)
  <2>1. CASE Portable(recovered)
    BY <1>1, <1>7, <2>1, QuietBaseline DEF ScanDone, Locked, Goto
  <2>2. CASE ~Portable(recovered)
    BY <1>7, <2>2, ExitBaseline DEF ScanDone, Reject, files
  <2> QED BY <2>1, <2>2
<1>8. CASE CheckReservation(q) BY <1>1, <1>8, QuietBaseline DEF CheckReservation, Locked
<1>9. CASE ReservationChanged(q)
  BY <1>9, ExitBaseline DEF ReservationChanged, Reject, files
<1>10. CASE RemoveReservation(q) BY <1>1, <1>10, QuietBaseline DEF RemoveReservation, Locked
<1>11. CASE CommitRecovery(q)
  <2>1. lock = q BY <1>1, <1>11 DEF CommitRecovery, Locked
  <2>2. CASE plan[q] = NoPlan
    BY <1>11, <2>2, Sentinels DEF CommitRecovery, Proceed, Unlock, BaselineInv
  <2>3. CASE plan[q] # NoPlan BY <1>2, <1>11, <2>1, <2>3 DEF CommitRecovery
  <2> QED BY <2>2, <2>3
<1> QED
  BY <1>3, <1>4, <1>5, <1>6, <1>7, <1>8, <1>9, <1>10, <1>11 DEF Recovery

\* The comparison itself, and the phases that follow it.
LEMMA AdmissionBaseline ==
    ASSUME Inv, BaselineInv, NEW q \in Process, Admission(q)
    PROVE  BaselineInv'
<1> USE DEF At, files, session, Inv, TypeOK
<1>1. ASSUME pc[q] \in Locked PROVE lock = q /\ Compared(q) BY <1>1 DEF BaselineInv
<1>2. CASE Reread(q)
  <2>1. lock = q /\ Compared(q) /\ pc[q] = "reread" BY <1>1, <1>2 DEF Reread, Locked
  <2>2. PICK p \in todo :
          SameAsBaseline(q, p) /\ todo' = todo \ {p} /\ touched' = touched \ {p}
    BY <1>2 DEF Reread
  <2>3. lock' = q /\ pc' = pc /\ UNCHANGED <<disk, snapshot>> BY <1>2, <2>1 DEF Reread
  <2>4. Compared(q)' BY <2>1, <2>2, <2>3 DEF Compared, SameAsBaseline
  <2> QED BY <2>3, <2>4 DEF BaselineInv
<1>3. CASE BaselineChanged(q) BY <1>3, ExitBaseline DEF BaselineChanged, Reject
<1>4. CASE AcceptPlan(q)
  <2>1. lock = q /\ Compared(q) /\ pc[q] = "reread" /\ todo = {}
    BY <1>1, <1>4 DEF AcceptPlan, Locked
  <2>2. lock' = q /\ pc'[q] = "preflight" /\ UNCHANGED <<disk, snapshot, touched>>
    BY <1>4, <2>1 DEF AcceptPlan, Goto, history
  <2>3. Compared(q)' BY <2>1, <2>2 DEF Compared
  <2> QED BY <2>2, <2>3 DEF BaselineInv
<1>5. CASE RejectPlan(q) BY <1>5, ExitBaseline DEF RejectPlan, Reject
<1>6. CASE Preflight(q)
  <2>1. lock = q /\ Compared(q) /\ pc[q] = "preflight" BY <1>1, <1>6 DEF Preflight, Locked
  <2>2. lock' = q /\ pc' = pc /\ UNCHANGED <<disk, snapshot, touched>>
    BY <1>6, <2>1 DEF Preflight, history
  <2>3. Compared(q)' BY <2>1, <2>2 DEF Compared
  <2> QED BY <2>2, <2>3 DEF BaselineInv
<1>7. CASE RejectOutput(q) BY <1>7, ExitBaseline DEF RejectOutput, Reject
<1> QED BY <1>2, <1>3, <1>4, <1>5, <1>6, <1>7 DEF Admission

\* Once the update is journaled, nothing is compared any more.
LEMMA ApplyBaseline ==
    ASSUME Inv, BaselineInv, NEW q \in Process, Apply(q) \/ Failure(q)
    PROVE  BaselineInv'
<1> USE DEF At, Goto, files, session, Inv, TypeOK
<1>1. ASSUME pc[q] \in Locked PROVE lock = q BY <1>1
<1>2. CASE Begin(q) BY <1>1, <1>2, QuietBaseline DEF Begin, Locked
<1>3. CASE Reserve(q) BY <1>1, <1>3, QuietBaseline DEF Reserve, Locked
<1>4. CASE Fill(q) BY <1>1, <1>4, QuietBaseline DEF Fill, Locked
<1>5. CASE ReserveTaken(q) BY <1>1, <1>5, QuietBaseline DEF ReserveTaken, Rollback, Locked
<1>6. CASE ReserveDone(q) BY <1>1, <1>6, QuietBaseline DEF ReserveDone, Locked
<1>7. CASE CommitRollback(q) BY <1>7, ExitBaseline DEF CommitRollback
<1>8. CASE CheckMutation(q) BY <1>1, <1>8, QuietBaseline DEF CheckMutation, Locked
<1>9. CASE RejectMutation(q) BY <1>9, ExitBaseline DEF RejectMutation, Reject
<1>10. CASE Mutate(q) BY <1>1, <1>10, QuietBaseline DEF Mutate, Locked
<1>11. CASE UnlinkFails(q) BY <1>11, ExitBaseline DEF UnlinkFails, Reject
<1>12. CASE MutateDone(q) BY <1>1, <1>12, QuietBaseline DEF MutateDone, Locked
<1>13. CASE VerifyAfter(q) BY <1>1, <1>13, QuietBaseline DEF VerifyAfter, Locked
<1>14. CASE AfterChanged(q) BY <1>14, ExitBaseline DEF AfterChanged, Reject
<1>15. CASE Commit(q) BY <1>15, ExitBaseline DEF Commit
<1>16. CASE BeginUnsynced(q) BY <1>16, ExitBaseline DEF BeginUnsynced
<1>17. CASE FillFails(q) BY <1>1, <1>17, QuietBaseline DEF FillFails, Rollback, Locked
<1>18. CASE ReserveCanceled(q) BY <1>1, <1>18, QuietBaseline DEF ReserveCanceled, Rollback, Locked
<1>19. CASE Fail(q) BY <1>19, ExitBaseline DEF Fail
<1>20. CASE Crash(q) BY <1>20, ExitBaseline DEF Crash
<1> QED
  BY <1>2, <1>3, <1>4, <1>5, <1>6, <1>7, <1>8, <1>9, <1>10, <1>11, <1>12, <1>13, <1>14,
     <1>15, <1>16, <1>17, <1>18, <1>19, <1>20 DEF Apply, Failure

\* A user's change of a compared path is remembered in touched.
LEMMA UserEditBaseline == ASSUME Inv, BaselineInv, UserEdit PROVE BaselineInv'
<1>1. PICK p \in Path, b \in Document \cup {Foreign, Missing} :
        /\ disk' = [disk EXCEPT ![p] = b]
        /\ touched' = IF lock = NoOne THEN {} ELSE touched \cup {p}
  BY DEF UserEdit
<1>2. UNCHANGED <<lock, pc, snapshot, todo>> BY DEF UserEdit, session, cursor
<1>3. ASSUME NEW q \in Process, lock' = q PROVE Compared(q)'
  <2>1. Compared(q) /\ touched' = touched \cup {p}
    BY <1>1, <1>2, <1>3, Sentinels DEF BaselineInv
  <2>2. \A r \in Path \ {p} : disk'[r] = disk[r] BY <1>1 DEF Inv, TypeOK
  <2> QED BY <1>2, <2>1, <2>2 DEF Compared
<1> QED BY <1>3 DEF BaselineInv

\* Every step keeps the comparison.
LEMMA NextBaseline == Inv /\ BaselineInv /\ [Next]_vars => BaselineInv'
<1> SUFFICES ASSUME Inv, BaselineInv, [Next]_vars PROVE BaselineInv' OBVIOUS
<1>1. ASSUME NEW q \in Process, Start(q) \/ Step(q) \/ Failure(q) PROVE BaselineInv'
  BY <1>1, PrepareBaseline, RecoveryBaseline, AdmissionBaseline, ApplyBaseline DEF Step
<1>2. CASE UserEdit BY <1>2, UserEditBaseline
<1>3. CASE UNCHANGED vars
  BY <1>3 DEF vars, files, session, cursor, history, BaselineInv, Compared
<1> QED BY <1>1, <1>2, <1>3 DEF Next

\* An update is journaled only over the catalog its documents were generated
\* from: whatever other commands wrote between the reading of the baseline and
\* the lock, and whatever users did before the comparison, refuses it.
THEOREM BaselineIsCurrent == Spec => NoStaleGeneration
<1> DEFINE Current ==
      \A q \in Process : Journaled(q) =>
         \A p \in Path : disk[p] = snapshot[q][p] \/ p \in touched
<1>1. Init => BaselineInv BY Sentinels DEF Init, BaselineInv
<1>2. Inv /\ BaselineInv /\ [Next]_vars => [Current]_vars
  <2> SUFFICES ASSUME Inv, BaselineInv, Next, NEW q \in Process, Journaled(q)
               PROVE  \A p \in Path : disk[p] = snapshot[q][p] \/ p \in touched
    OBVIOUS
  <2>1. manifest' # manifest /\ manifest'.state = "updating" /\ lock = q BY DEF Journaled
  <2>2. \E r \in Process : Begin(r) \/ BeginUnsynced(r)
    BY <2>1
    DEF Next, Start, Step, Prepare, Recovery, Admission, Apply, Failure, Reject, Probe, files,
        ReadBaseline, Generate, RejectLayout, Acquire, LockBusy, LoadUpdating, LoadSettled, Scan,
        ScanConflict, ScanDone, CheckReservation, ReservationChanged, RemoveReservation, Reread,
        BaselineChanged, AcceptPlan, RejectPlan, Preflight, RejectOutput, Reserve, Fill, FillFails,
        ReserveTaken, ReserveDone, CheckMutation, RejectMutation, Mutate, UnlinkFails, MutateDone,
        VerifyAfter, AfterChanged, ReserveCanceled, Fail, Crash, UserEdit, CommitRecovery,
        CommitRollback, Commit, Committed
  <2>3. pc[q] = "preflight"
    BY <2>1, <2>2 DEF Begin, BeginUnsynced, At, Inv, TypeOK, Locked
  <2> QED BY <2>1, <2>3 DEF BaselineInv, Compared
<1>3. Inv /\ BaselineInv /\ [Next]_vars => (Inv /\ BaselineInv)' BY NextInv, NextBaseline
<1> QED BY InitInv, <1>1, <1>2, <1>3, PTL DEF Spec, NoStaleGeneration

-----------------------------------------------------------------------------
(* The promise: left alone by users, every step of the protocol is a step  *)
(* of OwnershipPromise or is not visible in it, for any number of commands, *)
(* kills and failures.                                                      *)

\* The old catalog owns nothing where a file is reserved, and something else
\* than the new catalog where a file is replaced or removed.
Justified(p) ==
    /\ expect[p] \in {"missing", "reserved"} => before[p] = Missing /\ after[p] # Missing
    /\ expect[p] \in {"digest", "remove"} => before[p] # Missing /\ before[p] # after[p]

\* A document the tool owns is on disk.
Kept(owned, p) == owned[p] # Missing => disk[p] = owned[p]
\* A document only the old catalog owns is to be removed.
Dropped(p) == before[p] # Missing /\ after[p] = Missing

ExactlyKnown(q) ==
    /\ pc[q] = "scan" => todo \subseteq JournalPaths
    /\ pc[q] \in {"scan", "unreserve"} =>
         \A p \in Path :
             recovered[p] = IF p \in JournalPaths /\ (pc[q] = "scan" => p \notin todo)
                              THEN DocumentAt[p] ELSE Missing
    /\ pc[q] = "preflight" =>
         \A p \in Path \ todo :
             /\ after[p] # Missing => disk[p] \in {Missing, before[p], after[p]}
             /\ Justified(p)
             /\ Dropped(p) => expect[p] = "remove"
    /\ pc[q] \in {"reserve", "rollback", "mutate"} => \A p \in Path : Justified(p)
    /\ pc[q] \in {"reserve", "rollback"} => \A p \in Path : Kept(before, p)
    /\ pc[q] = "reserve" =>
         \A p \in Path : Dropped(p) => expect[p] = "remove"
    /\ pc[q] \in {"mutate", "verify"} =>
         \A p \in Path \ todo : Dropped(p) => disk[p] = Missing
    /\ pc[q] = "verify" => \A p \in Path \ todo : Kept(after, p)

\* What is on disk where the tool owns something, when nobody else edits.
LedgerKept ==
    /\ manifest.state # "updating" => \A p \in Path : Kept(manifest.after, p)
    /\ manifest.state = "updating" =>
         \A p \in Path : manifest.before[p] # Missing =>
                             disk[p] \in {manifest.before[p], manifest.after[p]}
ExactInv ==
    /\ touched = {}
    /\ LedgerKept
    /\ \A q \in Process : lock = q => ExactlyKnown(q)

FullInv == Inv /\ WriteInv /\ DiskInv /\ ExactInv

\* A step the promise does not see.
Invisible == UNCHANGED <<LedgerOwned, LedgerNext, DocumentAt>>

-----------------------------------------------------------------------------
(* Lemmas about the parts every action is built from. *)

\* A document on disk is visible in the promise, anything else is no document.
LEMMA DocumentOnDisk ==
    ASSUME Inv, NEW p \in Path
    PROVE  /\ disk[p] \in Document \cup {Missing} => DocumentAt[p] = disk[p]
           /\ disk[p] \notin Document => DocumentAt[p] = Missing
           /\ DocumentAt[p] \in Document \cup {Missing}
BY DEF DocumentAt

\* Steps that write neither a file nor the journal.
LEMMA QuietKept ==
    ASSUME UNCHANGED <<disk, manifest>>
    PROVE  (LedgerKept => LedgerKept') /\ Invisible
BY DEF LedgerKept, Kept, Invisible, LedgerOwned, LedgerNext, DocumentAt

\* A step after which the holder of the lock is known to know the disk.
LEMMA HolderExact ==
    ASSUME NEW q \in Process, lock' = q, touched' = {}, LedgerKept', ExactlyKnown(q)'
    PROVE  ExactInv'
BY Sentinels DEF ExactInv

\* The end of a command, holding the lock or not.
LEMMA ExitExact ==
    ASSUME FullInv, NEW q \in Process, Exit(q), LedgerKept', lock = q \/ UNCHANGED files
    PROVE  ExactInv'
<1>1. CASE lock = q
  BY <1>1, Sentinels DEF Exit, Unlock, ExactInv
<1>2. CASE lock # q
  <2>1. UNCHANGED <<lock, ledger, cursor, touched, files>> BY <1>2 DEF Exit
  <2>2. ASSUME NEW r \in Process, lock' = r PROVE ExactlyKnown(r)'
    <3>1. pc'[r] = pc[r] /\ lock = r
      BY <1>2, <2>1, <2>2 DEF Exit, Goto, FullInv, Inv, TypeOK
    <3>2. JournalPaths' = JournalPaths /\ DocumentAt' = DocumentAt
      BY <2>1 DEF JournalPaths, Owns, DocumentAt, files
    <3> QED
      BY <2>1, <3>1, <3>2 DEF FullInv, ExactInv, ExactlyKnown, Justified, Kept, Dropped,
                              files, ledger, cursor
  <2> QED BY <2>1, <2>2 DEF FullInv, ExactInv
<1> QED BY <1>1, <1>2

\* An error return leaves the disk and the journal alone.
LEMMA RejectExact ==
    ASSUME FullInv, NEW q \in Process, Reject(q) PROVE ExactInv' /\ Invisible
BY QuietKept, ExitExact DEF Reject, files, FullInv, ExactInv

\* A step of a process that does not hold the lock and leaves it alone.
LEMMA OutsideExact ==
    ASSUME FullInv, NEW q \in Process, lock # q, NEW phase, Goto(q, phase),
           UNCHANGED <<files, lock, ledger, cursor, touched>>
    PROVE  ExactInv' /\ Invisible
<1>1. LedgerKept' /\ Invisible BY QuietKept DEF files, FullInv, ExactInv
<1>2. ASSUME NEW r \in Process, lock' = r PROVE ExactlyKnown(r)'
  <2>1. pc'[r] = pc[r] /\ lock = r BY <1>2 DEF Goto, FullInv, Inv, TypeOK
  <2>2. JournalPaths' = JournalPaths /\ DocumentAt' = DocumentAt
    BY DEF JournalPaths, Owns, DocumentAt, files
  <2> QED
    BY <2>1, <2>2 DEF FullInv, ExactInv, ExactlyKnown, Justified, Kept, Dropped,
                      files, ledger, cursor
<1> QED BY <1>1, <1>2 DEF FullInv, ExactInv

\* The steps before the lock is taken are invisible.
LEMMA PrepareExact ==
    ASSUME FullInv, NEW q \in Process, Start(q) \/ Prepare(q)
    PROVE  ExactInv' /\ Invisible
<1> USE DEF session, history, At, Locked
<1> TypeOK BY DEF FullInv, Inv
<1>1. CASE Start(q) BY <1>1, OutsideExact DEF Start, TypeOK
<1>2. CASE Probe(q) BY <1>2, OutsideExact DEF Probe, TypeOK
<1>3. CASE ReadBaseline(q)
  <2>1. Goto(q, "read") BY <1>3 DEF ReadBaseline, Goto, TypeOK
  <2> QED BY <1>3, <2>1, OutsideExact DEF ReadBaseline, TypeOK
<1>4. CASE Generate(q) BY <1>4, OutsideExact DEF Generate, BaselineRead, TypeOK
<1>5. CASE RejectLayout(q) BY <1>5, RejectExact DEF RejectLayout
<1>6. CASE Acquire(q)
  <2>1. lock' = q /\ pc'[q] = "load" /\ touched' = {}
    BY <1>6 DEF Acquire, Goto, TypeOK, FullInv, ExactInv
  <2>2. LedgerKept' /\ Invisible BY <1>6, QuietKept DEF Acquire, files, FullInv, ExactInv
  <2>3. ExactlyKnown(q)' BY <2>1 DEF ExactlyKnown
  <2> QED BY <2>1, <2>2, <2>3, HolderExact
<1>7. CASE LockBusy(q) BY <1>7, RejectExact DEF LockBusy
<1> QED BY <1>1, <1>2, <1>3, <1>4, <1>5, <1>6, <1>7 DEF Prepare

-----------------------------------------------------------------------------
(* Recovery. *)

\* The end of recovery, with documents to write or without.
LEMMA RecoveredExact ==
    ASSUME FullInv, NEW q \in Process, lock = q, LedgerKept',
           Proceed(q) \/ \E owned : Reenter(q, owned)
    PROVE  ExactInv'
<1>1. CASE Proceed(q) BY <1>1, Sentinels DEF Proceed, Unlock, ExactInv
<1>2. CASE \E owned : Reenter(q, owned)
  <2>1. lock' = q /\ pc'[q] = "reread" /\ touched' = {}
    BY <1>2 DEF Reenter, Goto, FullInv, ExactInv, Inv, TypeOK
  <2>2. ExactlyKnown(q)' BY <2>1 DEF ExactlyKnown
  <2> QED BY <2>1, <2>2, HolderExact
<1> QED BY <1>1, <1>2

\* What recovery decides for a path is the document that is on disk there.
LEMMA ScanExact ==
    ASSUME FullInv, NEW q \in Process, Scan(q)
    PROVE  ExactInv' /\ Invisible
<1> USE DEF At, session, cursor, history, files
<1>1. lock = q /\ HolderInv(q) /\ ExactlyKnown(q) /\ pc[q] = "scan"
  BY DEF Scan, FullInv, Inv, TypeOK, LedgerInv, ExactInv, Locked
<1>2. PICK p \in todo :
        /\ Reconcilable(p)
        /\ recovered' = [recovered EXCEPT ![p] = Recover(p)]
        /\ todo' = todo \ {p}
  BY DEF Scan
<1>3. lock' = q /\ pc' = pc /\ touched' = {} /\ UNCHANGED <<disk, manifest>>
  BY <1>1 DEF Scan, FullInv, ExactInv
<1>4. /\ manifest.state = "updating" /\ generation = manifest.generation
      /\ before = manifest.before /\ after = manifest.after
  BY <1>1 DEF HolderInv, JournalKnown, Recovering
<1>5. JournalPaths' = JournalPaths /\ DocumentAt' = DocumentAt
  BY <1>3 DEF JournalPaths, Owns, DocumentAt
<1>6. Reserved(p) => disk[p] \notin Document \cup {Missing}
  <2>1. Reserved(p) => generation \in 1..MaxGeneration /\ p \in Path /\ after[p] \in Document
    BY <1>4 DEF Reserved, FullInv, Inv, TypeOK, LedgerInv, ManifestInv, Loadable, Catalog
  <2> QED BY <2>1, MarkerIsNoDocument DEF Reserved
<1>7. before[p] # Missing => disk[p] \in {before[p], after[p]}
  BY <1>4 DEF FullInv, ExactInv, LedgerKept, Inv, TypeOK
<1>8. before[p] \in Document \cup {Missing} /\ after[p] \in Document \cup {Missing} /\ p \in Path
  BY DEF FullInv, Inv, TypeOK, Catalog
<1>9. Recover(p) = DocumentAt[p]
  <2>1. CASE Published(p)
    BY <1>8, <2>1, DocumentOnDisk DEF FullInv, Published, Recover
  <2>2. CASE Reserved(p)
    <3>1. ~Published(p) /\ before[p] = Missing
      BY <1>6, <1>7, <1>8, <2>2 DEF Published
    <3> QED BY <1>6, <1>8, <2>2, <3>1, DocumentOnDisk DEF FullInv, Recover
  <2>3. CASE disk[p] = Missing
    BY <1>6, <1>7, <1>8, <2>3, DocumentOnDisk DEF FullInv, Recover, Published
  <2> QED BY <1>2, <2>1, <2>2, <2>3 DEF Reconcilable
<1>10. p \in JournalPaths /\ todo' \subseteq JournalPaths
  BY <1>1, <1>2 DEF ExactlyKnown
<1>11. \A r \in Path \ {p} : recovered'[r] = recovered[r]
  BY <1>2 DEF FullInv, Inv, TypeOK, Catalog
<1>12. recovered'[p] = DocumentAt[p]
  BY <1>2, <1>8, <1>9 DEF FullInv, Inv, TypeOK, Catalog
<1>13. ExactlyKnown(q)'
  BY <1>1, <1>2, <1>3, <1>5, <1>8, <1>10, <1>11, <1>12 DEF ExactlyKnown
<1>14. LedgerKept' /\ Invisible BY <1>3, QuietKept DEF FullInv, ExactInv
<1> QED BY <1>3, <1>13, <1>14, HolderExact

\* Unlinking a verified reservation is invisible: a marker is no document.
LEMMA UnreserveExact ==
    ASSUME FullInv, NEW q \in Process, CheckReservation(q) \/ RemoveReservation(q)
    PROVE  ExactInv' /\ Invisible
<1> USE DEF session, ledger, At
<1>1. /\ lock = q /\ HolderInv(q) /\ ExactlyKnown(q) /\ WriteKnown(q)
      /\ pc[q] \in {"unreserve", "rollback"}
  BY DEF CheckReservation, RemoveReservation, FullInv, Inv, TypeOK, LedgerInv, ExactInv, WriteInv,
         Locked
<1>2. /\ lock' = q /\ pc' = pc /\ touched' = {}
      /\ UNCHANGED <<manifest, generation, before, after, recovered, expect>>
  BY <1>1 DEF CheckReservation, RemoveReservation, files, history, FullInv, ExactInv
<1>3. /\ manifest.state = "updating" /\ generation = manifest.generation
      /\ before = manifest.before /\ after = manifest.after
  BY <1>1 DEF HolderInv, JournalKnown, Recovering, Applying, Updating
<1>4. CASE disk' = disk
  <2>1. JournalPaths' = JournalPaths /\ DocumentAt' = DocumentAt
    BY <1>2, <1>4 DEF JournalPaths, Owns, DocumentAt
  <2>2. ExactlyKnown(q)'
    BY <1>1, <1>2, <1>4, <2>1 DEF ExactlyKnown, Justified, Kept
  <2>3. LedgerKept' /\ Invisible BY <1>2, <1>4, QuietKept DEF FullInv, ExactInv
  <2> QED BY <1>2, <2>2, <2>3, HolderExact
<1>5. CASE RemoveReservation(q)
  <2>1. PICK p \in todo : First(p, todo) /\ disk' = [disk EXCEPT ![p] = Missing]
    BY <1>5 DEF RemoveReservation
  <2>2. p \in Path /\ Reserved(p)
    BY <1>1, <1>5, <2>1 DEF RemoveReservation, WriteKnown, FullInv, ExactInv, Inv, TypeOK
  <2>3. disk[p] \notin Document \cup {Missing}
    <3>1. generation \in 1..MaxGeneration /\ after[p] \in Document
      BY <1>3, <2>2 DEF Reserved, FullInv, Inv, TypeOK, LedgerInv, ManifestInv, Loadable, Catalog
    <3> QED BY <2>2, <3>1, MarkerIsNoDocument DEF Reserved
  <2>4. manifest.before[p] = Missing
    <3>1. manifest.before[p] \in Document \cup {Missing}
          /\ manifest.after[p] \in Document \cup {Missing}
      BY <2>2 DEF FullInv, Inv, TypeOK, Manifest, Catalog
    <3> QED BY <1>3, <2>2, <2>3, <3>1 DEF FullInv, ExactInv, LedgerKept
  <2>5. disk'[p] = Missing /\ \A r \in Path \ {p} : disk'[r] = disk[r]
    BY <2>1, <2>2 DEF FullInv, Inv, TypeOK
  <2>6. DocumentAt' = DocumentAt
    BY <2>3, <2>5, DistinctBytes DEF DocumentAt
  <2>7. LedgerKept' BY <1>2, <1>3, <2>4, <2>5 DEF LedgerKept, FullInv, ExactInv
  <2>8. Invisible BY <1>2, <2>6 DEF Invisible, LedgerOwned, LedgerNext
  <2>9. JournalPaths' = JournalPaths BY <1>2 DEF JournalPaths, Owns
  <2>10. ExactlyKnown(q)'
    BY <1>1, <1>2, <1>3, <2>4, <2>5, <2>6, <2>9 DEF ExactlyKnown, Justified, Kept
  <2> QED BY <1>2, <2>7, <2>8, <2>10, HolderExact
<1> QED BY <1>4, <1>5 DEF CheckReservation, files

\* Recovery settles the update: the ledger owns the documents on disk.
LEMMA CommitRecoveryExact ==
    ASSUME FullInv, NEW q \in Process, CommitRecovery(q)
    PROVE  ExactInv' /\ Promise!Settle
<1> USE DEF At, session
<1>1. /\ lock = q /\ HolderInv(q) /\ ExactlyKnown(q)
      /\ pc[q] = "unreserve" /\ todo = {}
  BY DEF CommitRecovery, FullInv, Inv, TypeOK, LedgerInv, ExactInv, Locked
<1>2. manifest' = Committed(generation, recovered) /\ disk' = disk
  BY DEF CommitRecovery
<1>3. manifest.state = "updating" /\ manifest.after \in Catalog
  BY <1>1 DEF HolderInv, JournalKnown, Recovering, FullInv, Inv, TypeOK, Manifest
<1>4. \A p \in Path : recovered[p] = IF p \in JournalPaths THEN DocumentAt[p] ELSE Missing
  BY <1>1 DEF ExactlyKnown
<1>5. LedgerKept'
  BY <1>2, <1>4 DEF LedgerKept, Kept, Committed, DocumentAt
<1>6. Promise!Settle
  <2>1. LedgerNext # Settled /\ LedgerNext' = Settled
    BY <1>2, <1>3, SettledIsNoCatalog DEF LedgerNext, Committed
  <2>2. LedgerOwned = manifest.before /\ LedgerNext = manifest.after /\ LedgerOwned' = recovered
    BY <1>2, <1>3 DEF LedgerOwned, LedgerNext, Committed
  <2>3. recovered = [p \in Path |-> recovered[p]] BY DEF FullInv, Inv, TypeOK, Catalog
  <2>4. \A p \in Path : p \in JournalPaths <=>
                          ~(manifest.before[p] = Missing /\ manifest.after[p] = Missing)
    BY DEF JournalPaths, Owns
  <2>5. recovered = [p \in Path |-> IF manifest.before[p] = Missing /\ manifest.after[p] = Missing
                                      THEN Missing ELSE DocumentAt[p]]
    BY <1>4, <2>3, <2>4
  <2>6. DocumentAt' = DocumentAt BY <1>2 DEF DocumentAt
  <2> QED BY <2>1, <2>2, <2>5, <2>6 DEF Promise!Settle
<1>7. Proceed(q) \/ \E owned : Reenter(q, owned) BY DEF CommitRecovery
<1> QED BY <1>1, <1>5, <1>6, <1>7, RecoveredExact

\* The steps of load and recover: only the last is visible.
LEMMA RecoveryExact ==
    ASSUME FullInv, NEW q \in Process, Recovery(q)
    PROVE  ExactInv' /\ (Invisible \/ Promise!Settle)
<1> USE DEF At, session, history
<1>1. ASSUME pc[q] \in Locked PROVE lock = q /\ HolderInv(q) /\ ExactlyKnown(q) /\ DiskKnown(q)
  BY <1>1 DEF FullInv, Inv, TypeOK, LedgerInv, DiskInv, ExactInv
<1>2. CASE LoadUpdating(q)
  <2>1. lock = q /\ DiskKnown(q) /\ pc[q] = "load" BY <1>1, <1>2 DEF LoadUpdating, Locked
  <2>2. /\ lock' = q /\ pc'[q] = "scan" /\ touched' = {} /\ recovered' = Nothing
        /\ todo' = JournalPaths /\ UNCHANGED <<disk, manifest>>
    BY <1>2, <2>1 DEF LoadUpdating, Goto, FullInv, ExactInv, Inv, TypeOK, DiskKnown, files
  <2>3. JournalPaths' = JournalPaths BY <2>2 DEF JournalPaths, Owns
  <2>4. ExactlyKnown(q)' BY <2>2, <2>3 DEF ExactlyKnown, Nothing
  <2>5. LedgerKept' /\ Invisible BY <2>2, QuietKept DEF FullInv, ExactInv
  <2> QED BY <2>2, <2>4, <2>5, HolderExact
<1>3. CASE LoadSettled(q)
  <2>1. lock = q BY <1>1, <1>3 DEF LoadSettled, Locked
  <2>2. LedgerKept' /\ Invisible BY <1>3, QuietKept DEF LoadSettled, files, FullInv, ExactInv
  <2>3. Proceed(q) \/ \E owned : Reenter(q, owned) BY <1>3 DEF LoadSettled
  <2> QED BY <2>1, <2>2, <2>3, RecoveredExact
<1>4. CASE Scan(q) BY <1>4, ScanExact
<1>5. CASE ScanConflict(q) BY <1>5, RejectExact DEF ScanConflict
<1>6. CASE ScanDone(q)
  <2>1. CASE Portable(recovered)
    <3>1. lock = q /\ ExactlyKnown(q) /\ pc[q] = "scan" /\ todo = {}
      BY <1>1, <1>6 DEF ScanDone, Locked
    <3>2. /\ lock' = q /\ pc'[q] = "unreserve" /\ touched' = {}
          /\ UNCHANGED <<disk, manifest, recovered>>
      BY <1>6, <2>1, <3>1 DEF ScanDone, Goto, FullInv, ExactInv, Inv, TypeOK, files, ledger
    <3>3. JournalPaths' = JournalPaths /\ DocumentAt' = DocumentAt
      BY <3>2 DEF JournalPaths, Owns, DocumentAt
    <3>4. ExactlyKnown(q)' BY <3>1, <3>2, <3>3 DEF ExactlyKnown
    <3>5. LedgerKept' /\ Invisible BY <3>2, QuietKept DEF FullInv, ExactInv
    <3> QED BY <3>2, <3>4, <3>5, HolderExact
  <2>2. CASE ~Portable(recovered) BY <1>6, <2>2, RejectExact DEF ScanDone
  <2> QED BY <2>1, <2>2
<1>7. CASE CheckReservation(q) BY <1>7, UnreserveExact
<1>8. CASE ReservationChanged(q) BY <1>8, RejectExact DEF ReservationChanged
<1>9. CASE RemoveReservation(q) BY <1>9, UnreserveExact
<1>10. CASE CommitRecovery(q) BY <1>10, CommitRecoveryExact
<1> QED
  BY <1>2, <1>3, <1>4, <1>5, <1>6, <1>7, <1>8, <1>9, <1>10 DEF Recovery

-----------------------------------------------------------------------------
(* Admission, application and rollback. *)

\* The steps of CatalogReconciliation::new write nothing.
LEMMA AdmissionExact ==
    ASSUME FullInv, NEW q \in Process, Admission(q)
    PROVE  ExactInv' /\ Invisible
<1> USE DEF At, files, session
<1>1. ASSUME pc[q] \in Locked PROVE lock = q /\ HolderInv(q) /\ ExactlyKnown(q)
  BY <1>1 DEF FullInv, Inv, TypeOK, LedgerInv, ExactInv
<1>2. CASE Reread(q)
  <2>1. lock' = q /\ pc'[q] = "reread" /\ touched' = {}
    BY <1>1, <1>2 DEF Reread, Locked, FullInv, ExactInv
  <2>2. ExactlyKnown(q)' BY <2>1 DEF ExactlyKnown
  <2>3. LedgerKept' /\ Invisible BY <1>2, QuietKept DEF Reread, FullInv, ExactInv
  <2> QED BY <2>1, <2>2, <2>3, HolderExact
<1>3. CASE BaselineChanged(q) BY <1>3, RejectExact DEF BaselineChanged
<1>4. CASE AcceptPlan(q)
  <2>1. /\ lock' = q /\ pc'[q] = "preflight" /\ expect' = AllKept /\ touched' = {}
        /\ todo' = (Owns(before) \cup Owns(after))' /\ UNCHANGED <<disk, manifest>>
    BY <1>1, <1>4 DEF AcceptPlan, Goto, Locked, FullInv, ExactInv, Inv, TypeOK, Owns, history
  <2>2. ExactlyKnown(q)'
    BY <2>1 DEF ExactlyKnown, Justified, Dropped, AllKept, Owns
  <2>3. LedgerKept' /\ Invisible BY <2>1, QuietKept DEF FullInv, ExactInv
  <2> QED BY <2>1, <2>2, <2>3, HolderExact
<1>5. CASE RejectPlan(q) BY <1>5, RejectExact DEF RejectPlan
<1>6. CASE Preflight(q)
  <2>1. lock = q /\ HolderInv(q) /\ ExactlyKnown(q) /\ pc[q] = "preflight"
    BY <1>1, <1>6 DEF Preflight, Locked
  <2>2. PICK p \in todo :
          /\ Admitted(q, p)
          /\ expect' = [expect EXCEPT ![p] = Expectation(p)]
          /\ todo' = todo \ {p}
    BY <1>6 DEF Preflight
  <2>3. /\ lock' = q /\ pc'[q] = "preflight" /\ touched' = {}
        /\ UNCHANGED <<disk, manifest, before, after>>
    BY <1>6, <2>1 DEF Preflight, ledger, history, FullInv, ExactInv
  <2>4. manifest.state # "updating" /\ before = manifest.after
    BY <2>1 DEF HolderInv, JournalKnown
  <2>5. p \in Path /\ expect'[p] = Expectation(p) /\ Kept(before, p)
    BY <2>2, <2>4 DEF FullInv, ExactInv, LedgerKept, Kept, Inv, TypeOK
  <2>6. disk[p] \in {Missing, before[p], after[p]} BY <2>2 DEF Admitted
  <2>7. Justified(p)' /\ (Dropped(p) => expect'[p] = "remove")
    BY <2>2, <2>3, <2>5 DEF Justified, Dropped, Expectation, Kept, Admitted
  <2>8. ASSUME NEW r \in Path, r # p
        PROVE  expect'[r] = expect[r] /\ (r \in todo' <=> r \in todo)
    BY <2>2, <2>8 DEF FullInv, Inv, TypeOK
  <2>9. ExactlyKnown(q)'
    BY <2>1, <2>3, <2>6, <2>7, <2>8 DEF ExactlyKnown, Justified, Dropped
  <2>10. LedgerKept' /\ Invisible BY <2>3, QuietKept DEF FullInv, ExactInv
  <2> QED BY <2>3, <2>9, <2>10, HolderExact
<1>7. CASE RejectOutput(q) BY <1>7, RejectExact DEF RejectOutput
<1> QED BY <1>2, <1>3, <1>4, <1>5, <1>6, <1>7 DEF Admission

\* Journaling the update begins it: nothing unowned is to be replaced.
LEMMA BegunExact ==
    ASSUME FullInv, NEW q \in Process, lock = q, pc[q] = "preflight", todo = {},
           manifest' = Updating(generation, before, after), disk' = disk
    PROVE  /\ Promise!Begin /\ LedgerKept'
           /\ \A p \in Path : Kept(before, p) /\ Justified(p) /\ (Dropped(p) => expect[p] = "remove")
<1>1. HolderInv(q) /\ ExactlyKnown(q) BY DEF FullInv, Inv, LedgerInv, ExactInv
<1>2. manifest.state # "updating" /\ before = manifest.after
  BY <1>1 DEF HolderInv, JournalKnown
<1>3. \A p \in Path : Kept(before, p) BY <1>2 DEF FullInv, ExactInv, LedgerKept
<1>4. LedgerKept' BY <1>3 DEF LedgerKept, Kept, Updating
<1>5. LedgerOwned = before /\ LedgerNext = Settled /\ LedgerOwned' = before /\ LedgerNext' = after
  BY <1>2 DEF LedgerOwned, LedgerNext, Updating
<1>6. DocumentAt' = DocumentAt BY DEF DocumentAt
<1>7. \A p \in Path : after[p] # Missing => DocumentAt[p] \in {Missing, before[p], after[p]}
  BY <1>1 DEF ExactlyKnown, DocumentAt
<1>8. after \in Promise!Catalog BY DEF Promise!Catalog, FullInv, Inv, TypeOK, Catalog
<1>9. Promise!Begin BY <1>5, <1>6, <1>7, <1>8 DEF Promise!Begin
<1> QED BY <1>1, <1>3, <1>4, <1>9 DEF ExactlyKnown

\* A reservation is invisible while its file is created, filled or removed.
LEMMA ReserveExact ==
    ASSUME FullInv, NEW q \in Process, pc[q] = "reserve", NEW p \in todo, manifest' = manifest,
           \/ disk' = disk
           \/ /\ disk[p] \in {Missing, Torn}
              /\ \E b \in {Missing, Torn, Marker(generation, p, after[p])} :
                    disk' = [disk EXCEPT ![p] = b]
    PROVE  /\ LedgerKept' /\ Invisible
           /\ \A r \in Path : before[r] # Missing => disk'[r] = disk[r]
<1>1. lock = q /\ HolderInv(q) /\ ExactlyKnown(q) /\ DiskKnown(q)
  BY DEF FullInv, Inv, TypeOK, LedgerInv, DiskInv, ExactInv, Locked
<1>2. manifest = Updating(generation, before, after)
  BY <1>1 DEF HolderInv, JournalKnown, Applying
<1>3. p \in Path /\ before[p] = Missing /\ after[p] \in Document
  BY <1>1 DEF ExactlyKnown, Justified, DiskKnown, FullInv, Inv, TypeOK, Catalog
<1>4. generation \in 1..MaxGeneration
  BY <1>2 DEF FullInv, Inv, TypeOK, LedgerInv, ManifestInv, Loadable, Updating
<1>5. \A r \in Path \ {p} : disk'[r] = disk[r] BY DEF FullInv, Inv, TypeOK
<1>6. disk'[p] = disk[p] \/ (disk[p] \notin Document /\ disk'[p] \notin Document)
  BY <1>3, <1>4, MarkerIsNoDocument, DistinctBytes DEF FullInv, Inv, TypeOK
<1>7. DocumentAt' = DocumentAt BY <1>5, <1>6 DEF DocumentAt
<1>8. Invisible BY <1>7 DEF Invisible, LedgerOwned, LedgerNext
<1>9. \A r \in Path : before[r] # Missing => disk'[r] = disk[r] BY <1>3, <1>5
<1>10. LedgerKept' BY <1>2, <1>9 DEF LedgerKept, FullInv, ExactInv, Updating
<1> QED BY <1>8, <1>9, <1>10

\* Rollback starts with every owned document in place.
LEMMA RollbackExact ==
    ASSUME FullInv, NEW q \in Process, lock' = q, lock = q, pc[q] = "reserve", Rollback(q),
           touched' = {}, LedgerKept', UNCHANGED <<before, after, expect>>,
           \A r \in Path : before[r] # Missing => disk'[r] = disk[r]
    PROVE  ExactInv'
<1>1. ExactlyKnown(q) BY DEF FullInv, ExactInv
<1>2. pc'[q] = "rollback" BY DEF Rollback, Goto, FullInv, Inv, TypeOK
<1>3. ExactlyKnown(q)' BY <1>1, <1>2 DEF ExactlyKnown, Justified, Kept
<1> QED BY <1>3, HolderExact

\* One output of the new catalog is published or one stale file removed: what
\* was verified is still on disk, and it is what the old catalog owned there.
LEMMA MutateExact ==
    ASSUME FullInv, NEW q \in Process, Mutate(q)
    PROVE  ExactInv' /\ \E p \in Path : Promise!Publish(p)
<1> USE DEF At
<1>1. /\ lock = q /\ HolderInv(q) /\ ExactlyKnown(q) /\ WriteKnown(q)
      /\ pc[q] = "mutate" /\ armed
  BY DEF Mutate, FullInv, Inv, TypeOK, LedgerInv, ExactInv, WriteInv, Locked
<1>2. PICK p \in todo :
        Turn(p) /\ disk' = [disk EXCEPT ![p] = after[p]] /\ todo' = todo \ {p}
  BY DEF Mutate
<1>3. /\ lock' = q /\ pc' = pc /\ touched' = {} /\ UNCHANGED <<manifest, before, after, expect>>
      /\ manifest = Updating(generation, before, after)
  BY <1>1 DEF Mutate, ledger, FullInv, ExactInv, HolderInv, JournalKnown, Applying
<1>4. p \in Path /\ Expected(p) /\ Justified(p)
  BY <1>1, <1>2 DEF WriteKnown, ExactlyKnown, FullInv, ExactInv, Inv, TypeOK
<1>5. disk'[p] = after[p] /\ \A r \in Path \ {p} : disk'[r] = disk[r]
  BY <1>2, <1>4 DEF FullInv, Inv, TypeOK
<1>6. /\ before[p] \in Document \cup {Missing} /\ after[p] \in Document \cup {Missing}
  BY <1>4 DEF FullInv, Inv, TypeOK, Catalog
<1>7. DocumentAt[p] = before[p] /\ before[p] # after[p]
  <2>1. CASE expect[p] = "reserved"
    <3>1. disk[p] = Marker(generation, p, after[p]) /\ before[p] = Missing /\ after[p] \in Document
      BY <1>4, <1>6, <2>1 DEF Expected, Reserved, Justified
    <3>2. generation \in 1..MaxGeneration
      BY <1>3 DEF FullInv, Inv, TypeOK, LedgerInv, ManifestInv, Loadable, Updating
    <3>3. disk[p] \notin Document BY <1>4, <3>1, <3>2, MarkerIsNoDocument
    <3>4. before[p] # after[p] BY <3>1, DistinctBytes
    <3>5. DocumentAt[p] = Missing BY <1>4, <3>3, DocumentOnDisk DEF FullInv
    <3> QED BY <3>1, <3>4, <3>5
  <2>2. CASE expect[p] \in {"digest", "remove"}
    BY <1>4, <1>6, <2>2, DocumentOnDisk DEF FullInv, Expected, Justified
  <2> QED BY <1>4, <2>1, <2>2 DEF Expected
<1>8. \E r \in Path : Promise!Publish(r)
  <2>1. /\ LedgerOwned = before /\ LedgerNext = after
        /\ LedgerOwned' = LedgerOwned /\ LedgerNext' = LedgerNext
    BY <1>3 DEF LedgerOwned, LedgerNext, Updating
  <2>2. LedgerNext # Settled
    BY <2>1, SettledIsNoCatalog DEF FullInv, Inv, TypeOK
  <2>3. DocumentAt' = [DocumentAt EXCEPT ![p] = after[p]]
    <3>1. DocumentAt = [r \in Path |-> DocumentAt[r]]
          /\ DocumentAt' = [r \in Path |-> IF disk'[r] \in Document THEN disk'[r] ELSE Missing]
      BY DEF DocumentAt
    <3>2. \A r \in Path : DocumentAt'[r] = IF r = p THEN after[p] ELSE DocumentAt[r]
      BY <1>5, <1>6 DEF DocumentAt
    <3> QED BY <3>1, <3>2
  <2> QED BY <1>4, <1>7, <2>1, <2>2, <2>3 DEF Promise!Publish
<1>9. LedgerKept'
  BY <1>3, <1>5 DEF LedgerKept, FullInv, ExactInv, Updating
<1>10. ExactlyKnown(q)'
  BY <1>1, <1>2, <1>3, <1>5 DEF ExactlyKnown, Justified, Dropped
<1> QED BY <1>3, <1>8, <1>9, <1>10, HolderExact

\* The update is committed: every affected path holds its new bytes.
LEMMA CommitExact ==
    ASSUME FullInv, NEW q \in Process, Commit(q)
    PROVE  ExactInv' /\ Promise!Settle
<1> USE DEF At
<1>1. /\ lock = q /\ HolderInv(q) /\ ExactlyKnown(q) /\ pc[q] = "verify" /\ todo = {}
  BY DEF Commit, FullInv, Inv, TypeOK, LedgerInv, ExactInv, Locked
<1>2. manifest' = Committed(generation, after) /\ disk' = disk /\ Exit(q)
  BY DEF Commit
<1>3. manifest = Updating(generation, before, after)
  BY <1>1 DEF HolderInv, JournalKnown, Applying
<1>4. before \in Catalog /\ after \in Catalog BY DEF FullInv, Inv, TypeOK
<1>5. LedgerKept' BY <1>1, <1>2 DEF LedgerKept, Kept, Committed, ExactlyKnown
<1>6. Promise!Settle
  <2>1. LedgerNext = after /\ LedgerOwned = before /\ LedgerNext' = Settled /\ LedgerOwned' = after
    BY <1>2, <1>3 DEF LedgerNext, LedgerOwned, Updating, Committed
  <2>2. after # Settled BY <1>4, SettledIsNoCatalog
  <2>3. \A p \in Path : after[p] = IF before[p] = Missing /\ after[p] = Missing
                                     THEN Missing ELSE DocumentAt[p]
    BY <1>1, <1>4 DEF ExactlyKnown, Kept, Dropped, DocumentAt, Catalog
  <2>4. after = [p \in Path |-> after[p]] BY <1>4 DEF Catalog
  <2>5. after = [p \in Path |-> IF before[p] = Missing /\ after[p] = Missing
                                  THEN Missing ELSE DocumentAt[p]]
    BY <2>3, <2>4
  <2>6. DocumentAt' = DocumentAt BY <1>2 DEF DocumentAt
  <2> QED BY <2>1, <2>2, <2>5, <2>6 DEF Promise!Settle
<1> QED BY <1>1, <1>2, <1>5, <1>6, ExitExact

\* The update is rolled back: every document the tool owns is still in place.
LEMMA CommitRollbackExact ==
    ASSUME FullInv, NEW q \in Process, CommitRollback(q)
    PROVE  ExactInv' /\ Promise!Abandon
<1> USE DEF At
<1>1. /\ lock = q /\ HolderInv(q) /\ ExactlyKnown(q) /\ pc[q] = "rollback"
  BY DEF CommitRollback, FullInv, Inv, TypeOK, LedgerInv, ExactInv, Locked
<1>2. manifest' = Committed(generation, before) /\ disk' = disk /\ Exit(q)
  BY DEF CommitRollback
<1>3. manifest = Updating(generation, before, after)
  BY <1>1 DEF HolderInv, JournalKnown, Applying
<1>4. before \in Catalog /\ after \in Catalog BY DEF FullInv, Inv, TypeOK
<1>5. LedgerKept' BY <1>1, <1>2 DEF LedgerKept, Kept, Committed, ExactlyKnown
<1>6. Promise!Abandon
  <2>1. LedgerNext = after /\ LedgerOwned = before /\ LedgerNext' = Settled /\ LedgerOwned' = before
    BY <1>2, <1>3 DEF LedgerNext, LedgerOwned, Updating, Committed
  <2>2. after # Settled BY <1>4, SettledIsNoCatalog
  <2>3. \A p \in Path : before[p] # Missing => DocumentAt[p] = before[p]
    BY <1>1, <1>4 DEF ExactlyKnown, Kept, DocumentAt, Catalog
  <2>4. DocumentAt' = DocumentAt BY <1>2 DEF DocumentAt
  <2> QED BY <2>1, <2>2, <2>3, <2>4 DEF Promise!Abandon
<1> QED BY <1>1, <1>2, <1>5, <1>6, ExitExact

\* The steps of CatalogReconciliation::apply.
LEMMA ApplyExact ==
    ASSUME FullInv, NEW q \in Process, Apply(q)
    PROVE  ExactInv' /\ (Invisible \/ Promise!Next)
<1> USE DEF At, session, history
<1>1. ASSUME pc[q] \in Locked PROVE lock = q /\ HolderInv(q) /\ ExactlyKnown(q) /\ touched = {}
  BY <1>1 DEF FullInv, Inv, TypeOK, LedgerInv, ExactInv
<1>2. CASE Begin(q)
  <2>1. lock = q /\ ExactlyKnown(q) /\ pc[q] = "preflight" /\ todo = {}
    BY <1>1, <1>2 DEF Begin, Locked
  <2>2. /\ lock' = q /\ pc'[q] = "reserve" /\ touched' = {}
        /\ UNCHANGED <<disk, before, after, expect>>
    BY <1>1, <1>2, <2>1 DEF Begin, Goto, FullInv, Inv, TypeOK, ExactInv, ledger
  <2>3. /\ Promise!Begin /\ LedgerKept'
        /\ \A p \in Path : Kept(before, p) /\ Justified(p) /\ (Dropped(p) => expect[p] = "remove")
    BY <1>2, <2>1, BegunExact DEF Begin
  <2>4. ExactlyKnown(q)' BY <2>2, <2>3 DEF ExactlyKnown, Kept, Justified, Dropped
  <2> QED BY <2>2, <2>3, <2>4, HolderExact DEF Promise!Next
<1>3. CASE Reserve(q)
  <2>1. lock = q /\ ExactlyKnown(q) /\ pc[q] = "reserve" BY <1>1, <1>3 DEF Reserve, Locked
  <2>2. PICK p \in todo : disk[p] = Missing /\ disk' = [disk EXCEPT ![p] = Torn]
    BY <1>3 DEF Reserve
  <2>3. /\ lock' = q /\ pc' = pc /\ touched' = {}
        /\ UNCHANGED <<manifest, before, after, expect, todo>>
    BY <1>3, <2>1 DEF Reserve, ledger, FullInv, ExactInv
  <2>4. /\ LedgerKept' /\ Invisible /\ \A r \in Path : before[r] # Missing => disk'[r] = disk[r]
    BY <2>1, <2>2, <2>3, ReserveExact
  <2>5. ExactlyKnown(q)' BY <2>1, <2>3, <2>4 DEF ExactlyKnown, Kept, Justified, Dropped
  <2> QED BY <2>3, <2>4, <2>5, HolderExact
<1>4. CASE Fill(q)
  <2>1. lock = q /\ ExactlyKnown(q) /\ HolderInv(q) /\ DiskKnown(q) /\ pc[q] = "reserve"
    BY <1>1, <1>4 DEF Fill, Locked, FullInv, DiskInv
  <2>2. PICK p \in todo :
          /\ disk' = [disk EXCEPT ![p] =
                        IF @ = Torn THEN Marker(generation, p, after[p]) ELSE @]
          /\ expect' = [expect EXCEPT ![p] = "reserved"]
    BY <1>4 DEF Fill
  <2>3. lock' = q /\ pc' = pc /\ touched' = {} /\ UNCHANGED <<manifest, before, after>>
    BY <1>4, <2>1 DEF Fill, ledger, FullInv, ExactInv
  <2>4. \/ disk' = disk
        \/ disk[p] = Torn /\ disk' = [disk EXCEPT ![p] = Marker(generation, p, after[p])]
    BY <2>2 DEF FullInv, Inv, TypeOK
  <2>5. /\ LedgerKept' /\ Invisible /\ \A r \in Path : before[r] # Missing => disk'[r] = disk[r]
    BY <2>1, <2>3, <2>4, ReserveExact
  <2>6. p \in Path /\ before[p] = Missing /\ after[p] # Missing /\ expect'[p] = "reserved"
        /\ \A r \in Path \ {p} : expect'[r] = expect[r]
    BY <2>1, <2>2 DEF FullInv, Inv, TypeOK, DiskKnown, ExactlyKnown, Justified
  <2>7. ExactlyKnown(q)' BY <2>1, <2>3, <2>5, <2>6 DEF ExactlyKnown, Kept, Justified, Dropped
  <2> QED BY <2>3, <2>5, <2>7, HolderExact
<1>5. CASE ReserveTaken(q)
  <2>1. lock = q BY <1>1, <1>5 DEF ReserveTaken, Locked
  <2>2. LedgerKept' /\ Invisible BY <1>5, QuietKept DEF ReserveTaken, files, FullInv, ExactInv
  <2> QED BY <1>5, <2>1, <2>2, RollbackExact DEF ReserveTaken, files, ledger, FullInv, ExactInv
<1>6. CASE ReserveDone(q)
  <2>1. lock = q /\ ExactlyKnown(q) /\ pc[q] = "reserve" BY <1>1, <1>6 DEF ReserveDone, Locked
  <2>2. /\ lock' = q /\ pc'[q] = "mutate" /\ todo' = {p \in Path : expect[p] # "keep"}
        /\ touched' = {} /\ UNCHANGED <<disk, manifest, before, after, expect>>
    BY <1>6, <2>1 DEF ReserveDone, Goto, FullInv, ExactInv, Inv, TypeOK, files, ledger
  <2>3. ExactlyKnown(q)' BY <2>1, <2>2 DEF ExactlyKnown, Justified, Dropped
  <2>4. LedgerKept' /\ Invisible BY <2>2, QuietKept DEF FullInv, ExactInv
  <2> QED BY <2>2, <2>3, <2>4, HolderExact
<1>7. CASE CommitRollback(q) BY <1>7, CommitRollbackExact DEF Promise!Next
<1>8. CASE CheckMutation(q)
  <2>1. lock = q /\ ExactlyKnown(q) /\ pc[q] = "mutate" BY <1>1, <1>8 DEF CheckMutation, Locked
  <2>2. PICK p \in todo : todo' = todo \/ (disk[p] = Missing /\ todo' = todo \ {p})
    BY <1>8 DEF CheckMutation, AlreadyRemoved
  <2>3. /\ lock' = q /\ pc' = pc /\ touched' = {}
        /\ UNCHANGED <<disk, manifest, before, after, expect>>
    BY <1>8, <2>1 DEF CheckMutation, files, ledger, FullInv, ExactInv
  <2>4. ExactlyKnown(q)' BY <2>1, <2>2, <2>3 DEF ExactlyKnown, Justified, Dropped
  <2>5. LedgerKept' /\ Invisible BY <2>3, QuietKept DEF FullInv, ExactInv
  <2> QED BY <2>3, <2>4, <2>5, HolderExact
<1>9. CASE RejectMutation(q) BY <1>9, RejectExact DEF RejectMutation
<1>10. CASE Mutate(q) BY <1>10, MutateExact DEF Promise!Next
<1>11. CASE UnlinkFails(q) BY <1>11, RejectExact DEF UnlinkFails
<1>12. CASE MutateDone(q)
  <2>1. lock = q /\ ExactlyKnown(q) /\ pc[q] = "mutate" /\ todo = {}
    BY <1>1, <1>12 DEF MutateDone, Locked
  <2>2. /\ lock' = q /\ pc'[q] = "verify" /\ todo' = Owns(after) /\ touched' = {}
        /\ UNCHANGED <<disk, manifest, before, after>>
    BY <1>12, <2>1 DEF MutateDone, Goto, FullInv, ExactInv, Inv, TypeOK, files, ledger
  <2>3. ExactlyKnown(q)' BY <2>1, <2>2 DEF ExactlyKnown, Kept, Dropped, Owns
  <2>4. LedgerKept' /\ Invisible BY <2>2, QuietKept DEF FullInv, ExactInv
  <2> QED BY <2>2, <2>3, <2>4, HolderExact
<1>13. CASE VerifyAfter(q)
  <2>1. lock = q /\ ExactlyKnown(q) /\ pc[q] = "verify" BY <1>1, <1>13 DEF VerifyAfter, Locked
  <2>2. PICK p \in todo : disk[p] = after[p] /\ todo' = todo \ {p} BY <1>13 DEF VerifyAfter
  <2>3. /\ lock' = q /\ pc' = pc /\ touched' = {} /\ UNCHANGED <<disk, manifest, before, after>>
    BY <1>13, <2>1 DEF VerifyAfter, files, ledger, FullInv, ExactInv
  <2>4. ExactlyKnown(q)' BY <2>1, <2>2, <2>3 DEF ExactlyKnown, Kept, Dropped
  <2>5. LedgerKept' /\ Invisible BY <2>3, QuietKept DEF FullInv, ExactInv
  <2> QED BY <2>3, <2>4, <2>5, HolderExact
<1>14. CASE AfterChanged(q) BY <1>14, RejectExact DEF AfterChanged
<1>15. CASE Commit(q) BY <1>15, CommitExact DEF Promise!Next
<1> QED
  BY <1>2, <1>3, <1>4, <1>5, <1>6, <1>7, <1>8, <1>9, <1>10, <1>11, <1>12, <1>13, <1>14,
     <1>15 DEF Apply

\* Failures and kills are invisible, unless they strike when the update has
\* just been journaled.
LEMMA FailureExact ==
    ASSUME FullInv, NEW q \in Process, Failure(q)
    PROVE  ExactInv' /\ (Invisible \/ Promise!Next)
<1> USE DEF At, session, history
<1>1. ASSUME pc[q] \in Locked PROVE lock = q /\ WriteKnown(q) /\ ExactlyKnown(q)
  BY <1>1 DEF FullInv, Inv, TypeOK, WriteInv, ExactInv
<1>2. CASE BeginUnsynced(q)
  <2>1. lock = q /\ pc[q] = "preflight" /\ todo = {} BY <1>1, <1>2 DEF BeginUnsynced, Locked
  <2>2. Promise!Begin /\ LedgerKept' BY <1>2, <2>1, BegunExact DEF BeginUnsynced
  <2> QED BY <1>2, <2>1, <2>2, ExitExact DEF BeginUnsynced, Promise!Next
<1>3. CASE FillFails(q)
  <2>1. lock = q /\ WriteKnown(q) /\ pc[q] = "reserve" /\ armed
    BY <1>1, <1>3 DEF FillFails, Locked
  <2>2. PICK p \in todo :
          First(p, todo) /\ disk' \in {disk, [disk EXCEPT ![p] = Missing]}
    BY <1>3 DEF FillFails
  <2>3. disk[p] = Torn BY <2>1, <2>2 DEF WriteKnown, FullInv, ExactInv
  <2>4. /\ lock' = q /\ Rollback(q) /\ touched' = {}
        /\ UNCHANGED <<manifest, before, after, expect>>
    BY <1>3, <2>1 DEF FillFails, ledger, FullInv, ExactInv
  <2>5. /\ LedgerKept' /\ Invisible /\ \A r \in Path : before[r] # Missing => disk'[r] = disk[r]
    BY <2>1, <2>2, <2>3, <2>4, ReserveExact
  <2> QED BY <2>1, <2>4, <2>5, RollbackExact
<1>4. CASE ReserveCanceled(q)
  <2>1. lock = q BY <1>1, <1>4 DEF ReserveCanceled, Locked
  <2>2. LedgerKept' /\ Invisible BY <1>4, QuietKept DEF ReserveCanceled, files, FullInv, ExactInv
  <2> QED BY <1>4, <2>1, <2>2, RollbackExact DEF ReserveCanceled, files, ledger, FullInv, ExactInv
<1>5. CASE Fail(q)
  <2>1. LedgerKept' /\ Invisible BY <1>5, QuietKept DEF Fail, files, FullInv, ExactInv
  <2> QED BY <1>5, <2>1, ExitExact DEF Fail
<1>6. CASE Crash(q)
  <2>1. LedgerKept' /\ Invisible BY <1>6, QuietKept DEF Crash, files, FullInv, ExactInv
  <2> QED BY <1>6, <2>1, ExitExact DEF Crash
<1> QED BY <1>2, <1>3, <1>4, <1>5, <1>6 DEF Failure

-----------------------------------------------------------------------------
(* The refinement. *)

\* Initial states map to initial states.
LEMMA InitRefines == Init => FullInv /\ Promise!Init
<1> SUFFICES ASSUME Init PROVE FullInv /\ Promise!Init OBVIOUS
<1>1. Inv /\ DiskInv /\ WriteInv BY InitInv, InitDisk, Sentinels DEF Init, WriteInv
<1>2. ExactInv
  BY Sentinels DEF Init, ExactInv, LedgerKept, Kept, NoManifest, Nothing
<1>3. Promise!Init
  BY DEF Init, Promise!Init, Promise!Catalog, LedgerOwned, LedgerNext, DocumentAt, NoManifest,
         Nothing
<1> QED BY <1>1, <1>2, <1>3 DEF FullInv

\* Every step maps to a step of the promise or to no step at all.
LEMMA NextRefines ==
    ASSUME MaxEdits = 0, FullInv, [Next]_vars
    PROVE  FullInv' /\ [Promise!Next]_(Promise!vars)
<1>1. Inv' /\ WriteInv' /\ DiskInv' BY NextInv, NextWrite, NextDisk DEF FullInv
<1>2. ASSUME Invisible PROVE UNCHANGED Promise!vars
  BY <1>2 DEF Invisible, Promise!vars
<1>3. ASSUME NEW q \in Process, Start(q) \/ Step(q) \/ Failure(q)
      PROVE  ExactInv' /\ (Invisible \/ Promise!Next)
  <2>1. CASE Start(q) \/ Prepare(q) BY <2>1, PrepareExact
  <2>2. CASE Recovery(q) BY <2>2, RecoveryExact DEF Promise!Next
  <2>3. CASE Admission(q) BY <2>3, AdmissionExact
  <2>4. CASE Apply(q) BY <2>4, ApplyExact
  <2>5. CASE Failure(q) BY <2>5, FailureExact
  <2> QED BY <1>3, <2>1, <2>2, <2>3, <2>4, <2>5 DEF Step
<1>4. ~UserEdit BY DEF UserEdit, FullInv, Inv, TypeOK
<1>5. CASE UNCHANGED vars
  <2>1. LedgerKept' /\ Invisible BY <1>5, QuietKept DEF vars, files, FullInv, ExactInv
  <2>2. JournalPaths' = JournalPaths /\ DocumentAt' = DocumentAt
    BY <1>5 DEF vars, files, JournalPaths, Owns, DocumentAt
  <2>3. ExactInv'
    BY <1>5, <2>1, <2>2 DEF vars, files, ledger, cursor, history, FullInv, ExactInv, ExactlyKnown,
                            Justified, Kept, Dropped
  <2> QED BY <1>1, <1>2, <2>1, <2>3 DEF FullInv
<1> QED BY <1>1, <1>2, <1>3, <1>4, <1>5 DEF Next, FullInv

\* The protocol implements the promise: with no user at work, every behaviour
\* of the commands, however they interleave, fail and are killed, is one in
\* which documents move only from the owned catalog to the next one and the
\* ledger settles on what is on disk.
THEOREM ProtocolKeepsPromise == MaxEdits = 0 => (Spec => KeepsPromise)
<1> SUFFICES ASSUME MaxEdits = 0 PROVE Spec => KeepsPromise OBVIOUS
<1>1. Init => FullInv /\ Promise!Init BY InitRefines
<1>2. FullInv /\ [Next]_vars => FullInv' /\ [Promise!Next]_(Promise!vars)
  BY NextRefines
<1> QED BY <1>1, <1>2, PTL DEF Spec, KeepsPromise, Promise!Spec
=============================================================================

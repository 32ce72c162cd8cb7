---------------------- MODULE OwnershipReconciliation ----------------------
(***************************************************************************)
(* The generation commands of the conkit CLI writing one contracts root:   *)
(* conkit/catalog/reconciliation.rs (lock, recovery, preflight, apply and  *)
(* rollback), conkit/catalog/ownership.rs (the ownership journal) and the  *)
(* parts of conkit/catalog/store.rs and conkit/command/generate.rs that    *)
(* drive them.  Several processes may run the command on one root, a user  *)
(* may edit the root at any moment, and any process may fail or be killed  *)
(* between two file-system steps.                                          *)
(*                                                                         *)
(* A document is identified with its SHA-256 digest.  An owned catalog is  *)
(* a function from every path to the digest the tool owns there, Missing   *)
(* where it owns nothing; the files on disk are a function of the same     *)
(* shape, so "the disk agrees with the ledger at p" is an equality.        *)
(***************************************************************************)
EXTENDS Naturals

CONSTANTS
    Process,        \* generate commands that may run at the same time
    Path,           \* direct-root document names; numbers, in CatalogPath order
    CaseKey,        \* the portable (ASCII-lowercase) key of a path
    Document,       \* bytes that parse as a combined document
    Foreign,        \* bytes a user may leave that are no document
    Missing,        \* no file
    Torn,           \* a file created but not completely written
    Plans,          \* the catalogs the domain kits may generate
    NoOne, NoPlan, Unread,
    MaxGeneration,  \* stands for u64::MAX, where checked_add fails
    MaxEdits,       \* bound: user edits
    MaxCrashes,     \* bound: processes killed
    MaxFailures     \* bound: cancellations, exhausted budgets and I/O errors

VARIABLES
    disk,           \* the bytes at each path
    manifest,       \* the ownership journal, generated-files.json
    lock,           \* the process that holds the lock on generation.lock
    pc, policy, plan, snapshot,           \* of each process
    generation, before, after, recovered, \* of the process that holds the lock
    expect, todo, armed,                  \* of the process that holds the lock
    byUser,         \* history: paths whose bytes the user was the last to set
    touched,        \* history: paths a user changed since the holder compared
                    \* them with the baseline or verified them before a change
    edits, crashes, failures

files == <<disk, manifest>>
session == <<policy, plan, snapshot>>
ledger == <<generation, before, after, recovered>>
cursor == <<expect, todo, armed>>
history == <<byUser, touched>>
bounds == <<edits, crashes, failures>>
vars == <<files, lock, pc, session, ledger, cursor, history, bounds>>

-----------------------------------------------------------------------------
Catalog == [Path -> Document \cup {Missing}]
Nothing == [p \in Path |-> Missing]

\* ReservationMarker: version, generation, path and digest of the output.
Marker(g, p, d) == [generation |-> g, path |-> p, document |-> d]
Markers == [generation : 1..MaxGeneration, path : Path, document : Document]
Bytes == Document \cup Markers \cup {Foreign, Missing, Torn}

Committed(g, owned) ==
    [state |-> "committed", generation |-> g, before |-> owned, after |-> owned]
LostOldCatalog(g, old, new) ==
    [state |-> "updating", generation |-> g, before |-> new, after |-> new]
Updating(g, old, new) ==
    [state |-> "updating", generation |-> g, before |-> old, after |-> new]
NoManifest ==
    [state |-> "missing", generation |-> 0, before |-> Nothing, after |-> Nothing]
Manifest == [state : {"missing", "committed", "updating"},
             generation : 0..MaxGeneration, before : Catalog, after : Catalog]

ASSUME NumberedPaths == Path \subseteq Nat
ASSUME Bounded == {MaxGeneration, MaxEdits, MaxCrashes, MaxFailures} \subseteq Nat
ASSUME CatalogPlans == Plans \subseteq Catalog
ASSUME DistinctBytes ==
    /\ Missing \notin Document /\ Torn \notin Document /\ Foreign \notin Document
    /\ Missing # Torn /\ Foreign \notin {Missing, Torn}
    /\ Markers \cap (Document \cup {Foreign, Missing, Torn}) = {}
ASSUME Sentinels == NoOne \notin Process /\ NoPlan \notin Plans /\ Unread \notin Bytes

Owns(catalog) == {p \in Path : catalog[p] # Missing}
JournalPaths == Owns(manifest.before) \cup Owns(manifest.after)

\* OwnedCatalog::validate: no two owned spellings share a portable key.
Portable(catalog) ==
    \A p, r \in Owns(catalog) : CaseKey[p] = CaseKey[r] => p = r
\* OwnedCatalog::validate_transition: no spelling is replaced by a variant.
NoCaseChange(old, new) ==
    \A p \in Owns(old), r \in Owns(new) : CaseKey[p] = CaseKey[r] => p = r

\* OwnershipManifest::validate, which every load and every save runs.
Loadable(m) ==
    m.state # "missing" => /\ m.generation > 0
                           /\ Portable(m.before) /\ Portable(m.after)
                           /\ NoCaseChange(m.before, m.after)

Unlocked == {"idle", "probe", "relock", "read", "lock"}
Locked == {"load", "scan", "unreserve", "reread", "preflight",
           "reserve", "rollback", "mutate", "verify"}

\* Catalog entries are visited in path order.
First(p, S) == p \in S /\ \A r \in S : p <= r
\* Mutations: every requested output in path order, then the stale files.
Turn(p) ==
    /\ p \in todo
    /\ \A r \in todo \ {p} :
         \/ after[p] # Missing /\ after[r] = Missing
         \/ (after[p] = Missing <=> after[r] = Missing) /\ p < r

Idle == [p \in Path |-> Unread]
AllKept == [p \in Path |-> "keep"]

-----------------------------------------------------------------------------
Init ==
    /\ disk \in [Path -> Document \cup {Missing}]
    /\ manifest = NoManifest
    /\ lock = NoOne
    /\ pc = [q \in Process |-> "idle"]
    /\ policy = [q \in Process |-> "reject"]
    /\ plan = [q \in Process |-> NoPlan]
    /\ snapshot = [q \in Process |-> Idle]
    /\ generation = 0 /\ before = Nothing /\ after = Nothing /\ recovered = Nothing
    /\ expect = AllKept /\ todo = {} /\ armed = FALSE
    /\ byUser = {p \in Path : disk[p] # Missing} /\ touched = {}
    /\ edits = 0 /\ crashes = 0 /\ failures = 0

At(q, phase) == pc[q] = phase
Goto(q, phase) == pc' = [pc EXCEPT ![q] = phase]

\* Dropping the GenerationLock and the reconciliation it guards.
Unlock ==
    /\ lock' = NoOne
    /\ generation' = 0 /\ before' = Nothing /\ after' = Nothing /\ recovered' = Nothing
    /\ expect' = AllKept /\ todo' = {} /\ armed' = FALSE
    /\ touched' = {}

\* The command ends, successfully or with an error, and drops what it holds.
Exit(q) ==
    /\ Goto(q, "idle")
    /\ policy' = [policy EXCEPT ![q] = "reject"]
    /\ plan' = [plan EXCEPT ![q] = NoPlan]
    /\ snapshot' = [snapshot EXCEPT ![q] = Idle]
    /\ IF lock = q THEN Unlock ELSE UNCHANGED <<lock, ledger, cursor, touched>>

\* An error return that leaves the contracts root as it is.
Reject(q) == Exit(q) /\ UNCHANGED <<files, byUser, bounds>>

-----------------------------------------------------------------------------
(* ContractGeneration::run up to write_generated_with_budget *)

Start(q) ==
    /\ At(q, "idle")
    /\ \E y \in {"reject", "adopt"} : policy' = [policy EXCEPT ![q] = y]
    /\ Goto(q, "probe")
    /\ UNCHANGED <<files, lock, plan, snapshot, ledger, cursor, history, bounds>>

\* The recovery probe loads the manifest before it takes the lock.
Probe(q) ==
    /\ At(q, "probe")
    /\ Goto(q, IF manifest.state = "updating" THEN "relock" ELSE "read")
    /\ UNCHANGED <<files, lock, session, ledger, cursor, history, bounds>>

\* The baseline catalog is read file by file, without the lock.
ReadBaseline(q) ==
    /\ At(q, "read")
    /\ \E p \in Path :
         /\ First(p, {r \in Path : snapshot[q][r] = Unread})
         /\ snapshot' = [snapshot EXCEPT ![q][p] = disk[p]]
    /\ UNCHANGED <<files, lock, pc, policy, plan, ledger, cursor, history, bounds>>

BaselineRead(q) ==
    At(q, "read") /\ \A p \in Path : snapshot[q][p] # Unread
\* ContractLayout::load accepts a baseline of well-formed documents.
WellFormed(q) == \A p \in Path : snapshot[q][p] \in Document \cup {Missing}

\* The domain kits compute the documents to write from that baseline.
Generate(q) ==
    /\ BaselineRead(q) /\ WellFormed(q)
    /\ \E c \in Plans : plan' = [plan EXCEPT ![q] = c]
    /\ Goto(q, "lock")
    /\ UNCHANGED <<files, lock, policy, snapshot, ledger, cursor, history, bounds>>

RejectLayout(q) == BaselineRead(q) /\ ~WellFormed(q) /\ Reject(q)

-----------------------------------------------------------------------------
(* GenerationLock::acquire and OwnershipDocument::load, recover *)

Acquire(q) ==
    /\ pc[q] \in {"relock", "lock"} /\ lock = NoOne
    /\ lock' = q
    /\ Goto(q, "load")
    /\ UNCHANGED <<files, session, ledger, cursor, history, bounds>>

WaitForLock(q) ==
    pc[q] \in {"relock", "lock"} /\ lock # NoOne /\ UNCHANGED vars

\* try_lock never waits: GenerationInProgress.
LockBusy(q) ==
    /\ pc[q] \in {"relock", "lock"} /\ lock # NoOne
    /\ Reject(q)

\* Recovery before the baseline is over; the lock is dropped.
Proceed(q) == Goto(q, "read") /\ Unlock
\* Recovery at the start of a write is over; the catalog is read again.
Reenter(q, owned) ==
    /\ Goto(q, "reread")
    /\ before' = owned /\ todo' = Path
    /\ UNCHANGED <<lock, after, recovered, expect, armed, touched>>

LoadUpdating(q) ==
    /\ At(q, "load") /\ manifest.state = "updating"
    /\ generation' = manifest.generation
    /\ before' = manifest.before /\ after' = manifest.after
    /\ todo' = JournalPaths
    /\ Goto(q, "scan")
    /\ UNCHANGED <<files, lock, session, recovered, expect, armed, history, bounds>>

LoadSettled(q) ==
    /\ At(q, "load") /\ manifest.state # "updating"
    /\ IF plan[q] = NoPlan
         THEN Proceed(q)
         ELSE Reenter(q, manifest.after) /\ generation' = manifest.generation
    /\ UNCHANGED <<files, session, byUser, bounds>>

\* What recover_updating decides for one journaled path.
Published(p) == disk[p] # Missing /\ disk[p] \in {before[p], after[p]}
Reserved(p) == after[p] # Missing /\ disk[p] = Marker(generation, p, after[p])
ForgetMarkers(p) == Published(p) \/ disk[p] = Missing
Reconcilable(p) == Published(p) \/ Reserved(p) \/ disk[p] = Missing
RecoverForward(p) ==
    IF Published(p) THEN disk[p] ELSE after[p]
Recover(p) ==
    IF Published(p) THEN disk[p]
    ELSE IF Reserved(p) THEN before[p]
    ELSE IF before[p] # Missing THEN after[p] ELSE Missing

Scan(q) ==
    /\ At(q, "scan")
    /\ \E p \in todo :
         /\ First(p, todo) /\ Reconcilable(p)
         /\ recovered' = [recovered EXCEPT ![p] = Recover(p)]
         /\ expect' = [expect EXCEPT ![p] = IF Reserved(p) THEN "reserved" ELSE "keep"]
         /\ todo' = todo \ {p}
    /\ UNCHANGED <<files, lock, pc, session, generation, before, after, armed, history, bounds>>

\* GeneratedOwnershipRecoveryConflict: bytes of neither journal state.
ScanConflict(q) ==
    /\ At(q, "scan")
    /\ \E p \in todo : First(p, todo) /\ ~Reconcilable(p)
    /\ Reject(q)

ReservedPaths == {p \in Path : expect[p] = "reserved"}

ScanDone(q) ==
    /\ At(q, "scan") /\ todo = {}
    /\ IF Portable(recovered)
         THEN /\ Goto(q, "unreserve")
              /\ todo' = ReservedPaths
              /\ UNCHANGED <<files, lock, session, ledger, expect, armed, history, bounds>>
         ELSE Reject(q)

\* Reservation::remove_if_unchanged, for recovery and for rollback: the file
\* is compared with its marker in one step and unlinked in the next.
CheckReservation(q) ==
    /\ pc[q] \in {"unreserve", "rollback"} /\ ~armed
    /\ \E p \in todo :
         /\ First(p, todo)
         /\ \/ Reserved(p) /\ armed' = TRUE /\ todo' = todo
            \/ disk[p] = Missing /\ armed' = FALSE /\ todo' = todo \ {p}
         /\ touched' = touched \ {p}
    /\ UNCHANGED <<files, lock, pc, session, ledger, expect, byUser, bounds>>

ReservationChanged(q) ==
    /\ pc[q] \in {"unreserve", "rollback"} /\ ~armed
    /\ \E p \in todo : First(p, todo) /\ ~Reserved(p) /\ disk[p] # Missing
    /\ Reject(q)

RemoveReservation(q) ==
    /\ pc[q] \in {"unreserve", "rollback"} /\ armed
    /\ \E p \in todo :
         /\ First(p, todo) /\ disk[p] # Missing
         /\ disk' = [disk EXCEPT ![p] = Missing]
         /\ todo' = todo \ {p} /\ armed' = FALSE
    /\ UNCHANGED <<manifest, lock, pc, session, ledger, expect, history, bounds>>

CommitRecovery(q) ==
    /\ At(q, "unreserve") /\ todo = {}
    /\ manifest' = Committed(generation, recovered)
    /\ IF plan[q] = NoPlan
         THEN Proceed(q)
         ELSE Reenter(q, recovered) /\ UNCHANGED generation
    /\ UNCHANGED <<disk, session, byUser, bounds>>

-----------------------------------------------------------------------------
(* CatalogReconciliation::new: baseline comparison, validation, preflight *)

AssumeSame(q, p) == TRUE
SameAsBaseline(q, p) == disk[p] = snapshot[q][p]

Reread(q) ==
    /\ At(q, "reread")
    /\ \E p \in todo :
         /\ First(p, todo) /\ SameAsBaseline(q, p)
         /\ todo' = todo \ {p} /\ touched' = touched \ {p}
    /\ UNCHANGED <<files, lock, pc, session, ledger, expect, armed, byUser, bounds>>

\* GenerationInputChanged.
BaselineChanged(q) ==
    /\ At(q, "reread")
    /\ \E p \in todo : First(p, todo) /\ ~SameAsBaseline(q, p)
    /\ Reject(q)

\* No host entry spells a requested path with other letter case.
HostSpellingsAgree(new) ==
    \A p \in Owns(new), r \in Path :
        disk[r] # Missing /\ CaseKey[p] = CaseKey[r] => p = r

AcceptAnyCase(q) ==
    Portable(plan[q]) /\ HostSpellingsAgree(plan[q]) /\ generation < MaxGeneration
AcceptOverflow(q) ==
    Portable(plan[q]) /\ NoCaseChange(before, plan[q]) /\ HostSpellingsAgree(plan[q])
Acceptable(q) ==
    /\ Portable(plan[q])
    /\ NoCaseChange(before, plan[q])
    /\ HostSpellingsAgree(plan[q])
    /\ generation < MaxGeneration

SameGeneration == generation
NextGeneration == generation + 1

AcceptPlan(q) ==
    /\ At(q, "reread") /\ todo = {} /\ Acceptable(q)
    /\ generation' = NextGeneration
    /\ after' = plan[q]
    /\ expect' = AllKept
    /\ todo' = Owns(before) \cup Owns(plan[q])
    /\ Goto(q, "preflight")
    /\ UNCHANGED <<files, lock, session, before, recovered, armed, history, bounds>>

RejectPlan(q) == At(q, "reread") /\ todo = {} /\ ~Acceptable(q) /\ Reject(q)

\* What one destination must hold for the update to go on.
AdoptAnything(q, p) ==
    \/ disk[p] \in {Missing, before[p]}
    \/ before[p] = Missing /\ policy[q] = "adopt"
Admitted(q, p) ==
    \/ disk[p] = Missing
    \/ before[p] # Missing /\ disk[p] = before[p]
    \/ before[p] = Missing /\ policy[q] = "adopt" /\ disk[p] = after[p]

Expectation(p) ==
    IF disk[p] = after[p] THEN "keep"
    ELSE IF after[p] = Missing THEN "remove"
    ELSE IF disk[p] = Missing THEN "missing" ELSE "digest"

Preflight(q) ==
    /\ At(q, "preflight")
    /\ \E p \in todo :
         /\ Turn(p) /\ Admitted(q, p)
         /\ expect' = [expect EXCEPT ![p] = Expectation(p)]
         /\ todo' = todo \ {p}
    /\ UNCHANGED <<files, lock, pc, session, ledger, armed, history, bounds>>

\* ModifiedGeneratedOutput and UnownedGeneratedOutput.
RejectOutput(q) ==
    /\ At(q, "preflight")
    /\ \E p \in todo : Turn(p) /\ ~Admitted(q, p)
    /\ Reject(q)

-----------------------------------------------------------------------------
(* CatalogReconciliation::apply *)

Begin(q) ==
    /\ At(q, "preflight") /\ todo = {}
    /\ manifest' = Updating(generation, before, after)
    /\ Goto(q, "reserve")
    /\ todo' = {p \in Path : expect[p] = "missing"}
    /\ UNCHANGED <<disk, lock, session, ledger, expect, armed, history, bounds>>

\* The rename succeeds and synchronizing the directory fails: apply returns
\* the error without a rollback.
BeginUnsynced(q) ==
    /\ At(q, "preflight") /\ todo = {} /\ failures < MaxFailures
    /\ manifest' = Updating(generation, before, after)
    /\ failures' = failures + 1
    /\ Exit(q)
    /\ UNCHANGED <<disk, byUser, edits, crashes>>

\* write_new_synced creates the name exclusively in one step and fills it in
\* the next.
Reserve(q) ==
    /\ At(q, "reserve") /\ ~armed
    /\ \E p \in todo :
         /\ First(p, todo) /\ disk[p] = Missing
         /\ disk' = [disk EXCEPT ![p] = Torn]
         /\ touched' = touched \ {p}
    /\ armed' = TRUE
    /\ UNCHANGED <<manifest, lock, pc, session, ledger, expect, todo, byUser, bounds>>

\* The handle keeps writing to the created file: a user's replacement stays.
Fill(q) ==
    /\ At(q, "reserve") /\ armed
    /\ \E p \in todo :
         /\ First(p, todo)
         /\ disk' = [disk EXCEPT ![p] =
                       IF @ = Torn THEN Marker(generation, p, after[p]) ELSE @]
         /\ expect' = [expect EXCEPT ![p] = "reserved"]
         /\ todo' = todo \ {p}
    /\ armed' = FALSE
    /\ UNCHANGED <<manifest, lock, pc, session, ledger, history, bounds>>

Rollback(q) ==
    /\ Goto(q, "rollback")
    /\ todo' = ReservedPaths
    /\ armed' = FALSE

\* The created file is removed again, or that fails too.
FillFails(q) ==
    /\ At(q, "reserve") /\ armed /\ failures < MaxFailures
    /\ \E p \in todo :
         /\ First(p, todo)
         /\ disk' \in {disk, [disk EXCEPT ![p] = Missing]}
    /\ failures' = failures + 1
    /\ Rollback(q)
    /\ UNCHANGED <<manifest, lock, session, ledger, expect, history, edits, crashes>>

ReserveTaken(q) ==
    /\ At(q, "reserve") /\ ~armed
    /\ \E p \in todo : First(p, todo) /\ disk[p] # Missing
    /\ Rollback(q)
    /\ UNCHANGED <<files, lock, session, ledger, expect, history, bounds>>

ReserveCanceled(q) ==
    /\ At(q, "reserve") /\ ~armed /\ failures < MaxFailures
    /\ failures' = failures + 1
    /\ Rollback(q)
    /\ UNCHANGED <<files, lock, session, ledger, expect, history, edits, crashes>>

CommitRollback(q) ==
    /\ At(q, "rollback") /\ todo = {}
    /\ manifest' = Committed(generation, before)
    /\ Exit(q)
    /\ UNCHANGED <<disk, byUser, bounds>>

ReserveDone(q) ==
    /\ At(q, "reserve") /\ todo = {}
    /\ Goto(q, "mutate")
    /\ todo' = {p \in Path : expect[p] # "keep"}
    /\ UNCHANGED <<files, lock, session, ledger, expect, armed, history, bounds>>

\* GeneratedOutput::verify and the digest check of remove_owned.
Unverified(p) == expect[p] # "missing"
Expected(p) ==
    CASE expect[p] = "reserved" -> Reserved(p)
      [] expect[p] \in {"digest", "remove"} -> disk[p] = before[p]
      [] OTHER -> FALSE
AlreadyRemoved(p) == expect[p] = "remove" /\ disk[p] = Missing

CheckMutation(q) ==
    /\ At(q, "mutate") /\ ~armed
    /\ \E p \in todo :
         /\ Turn(p)
         /\ \/ Expected(p) /\ armed' = TRUE /\ todo' = todo
            \/ AlreadyRemoved(p) /\ armed' = FALSE /\ todo' = todo \ {p}
         /\ touched' = touched \ {p}
    /\ UNCHANGED <<files, lock, pc, session, ledger, expect, byUser, bounds>>

RejectMutation(q) ==
    /\ At(q, "mutate") /\ ~armed
    /\ \E p \in todo : Turn(p) /\ ~Expected(p) /\ ~AlreadyRemoved(p)
    /\ Reject(q)

\* atomic_write over a verified output, or remove_file of a stale one.
Mutate(q) ==
    /\ At(q, "mutate") /\ armed
    /\ \E p \in todo :
         /\ Turn(p) /\ (after[p] = Missing => disk[p] # Missing)
         /\ disk' = [disk EXCEPT ![p] = after[p]]
         /\ todo' = todo \ {p} /\ byUser' = byUser \ {p}
    /\ armed' = FALSE
    /\ UNCHANGED <<manifest, lock, pc, session, ledger, expect, touched, bounds>>

\* remove_file finds that a user has just unlinked the name.
UnlinkFails(q) ==
    /\ pc[q] \in {"unreserve", "rollback", "mutate"} /\ armed
    /\ \E p \in todo :
         /\ IF At(q, "mutate") THEN Turn(p) /\ after[p] = Missing ELSE First(p, todo)
         /\ disk[p] = Missing
    /\ Reject(q)

MutateDone(q) ==
    /\ At(q, "mutate") /\ todo = {}
    /\ Goto(q, "verify")
    /\ todo' = Owns(after)
    /\ UNCHANGED <<files, lock, session, ledger, expect, armed, history, bounds>>

VerifyAfter(q) ==
    /\ At(q, "verify")
    /\ \E p \in todo :
         /\ First(p, todo) /\ disk[p] = after[p]
         /\ todo' = todo \ {p}
    /\ UNCHANGED <<files, lock, pc, session, ledger, expect, armed, history, bounds>>

AfterChanged(q) ==
    /\ At(q, "verify")
    /\ \E p \in todo : First(p, todo) /\ disk[p] # after[p]
    /\ Reject(q)

Commit(q) ==
    /\ At(q, "verify") /\ todo = {}
    /\ manifest' = Committed(generation, after)
    /\ Exit(q)
    /\ UNCHANGED <<disk, byUser, bounds>>

-----------------------------------------------------------------------------
(* Errors, kills and the user *)

\* Cancellation, an exhausted budget or an I/O error anywhere but in
\* reserve_outputs ends the command where it stands.
Fail(q) ==
    /\ pc[q] \notin {"idle", "reserve"} /\ failures < MaxFailures
    /\ failures' = failures + 1
    /\ Exit(q)
    /\ UNCHANGED <<files, byUser, edits, crashes>>

\* The process is killed; the operating system drops its file lock.
Crash(q) ==
    /\ pc[q] # "idle" /\ crashes < MaxCrashes
    /\ crashes' = crashes + 1
    /\ Exit(q)
    /\ UNCHANGED <<files, byUser, edits, failures>>

\* A user replaces, creates or deletes a document in the contracts root.
UserEdit ==
    /\ edits < MaxEdits
    /\ \E p \in Path, b \in Document \cup {Foreign, Missing} :
         /\ b # disk[p]
         /\ disk' = [disk EXCEPT ![p] = b]
         /\ byUser' = byUser \cup {p}
         /\ touched' = IF lock = NoOne THEN {} ELSE touched \cup {p}
    /\ edits' = edits + 1
    /\ UNCHANGED <<manifest, lock, pc, session, ledger, cursor, crashes, failures>>

\* The steps the program takes by itself.
Prepare(q) ==
    \/ Probe(q) \/ ReadBaseline(q) \/ Generate(q) \/ RejectLayout(q)
    \/ Acquire(q) \/ LockBusy(q)
Recovery(q) ==
    \/ LoadUpdating(q) \/ LoadSettled(q)
    \/ Scan(q) \/ ScanConflict(q) \/ ScanDone(q)
    \/ CheckReservation(q) \/ ReservationChanged(q) \/ RemoveReservation(q)
    \/ CommitRecovery(q)
Admission(q) ==
    \/ Reread(q) \/ BaselineChanged(q) \/ AcceptPlan(q) \/ RejectPlan(q)
    \/ Preflight(q) \/ RejectOutput(q)
Apply(q) ==
    \/ Begin(q) \/ Reserve(q) \/ Fill(q) \/ ReserveTaken(q) \/ ReserveDone(q)
    \/ CommitRollback(q) \/ CheckMutation(q) \/ RejectMutation(q) \/ Mutate(q)
    \/ UnlinkFails(q) \/ MutateDone(q) \/ VerifyAfter(q) \/ AfterChanged(q)
    \/ Commit(q)
Step(q) == Prepare(q) \/ Recovery(q) \/ Admission(q) \/ Apply(q)
Failure(q) ==
    \/ BeginUnsynced(q) \/ FillFails(q) \/ ReserveCanceled(q) \/ Fail(q) \/ Crash(q)

Next == (\E q \in Process : Start(q) \/ Step(q) \/ Failure(q)) \/ UserEdit

Spec == Init /\ [][Next]_vars

\* The scheduler runs every live command; commands keep being issued.
LiveSpec ==
    /\ Spec
    /\ \A q \in Process : WF_vars(Step(q)) /\ WF_vars(Start(q))

-----------------------------------------------------------------------------
(* Properties *)

\* Every variable keeps to its values; the lock is held exactly by the one
\* process in a locked phase.
TypeOK ==
    /\ disk \in [Path -> Bytes]
    /\ manifest \in Manifest
    /\ lock \in Process \cup {NoOne}
    /\ pc \in [Process -> Unlocked \cup Locked]
    /\ policy \in [Process -> {"reject", "adopt"}]
    /\ plan \in [Process -> Plans \cup {NoPlan}]
    /\ snapshot \in [Process -> [Path -> Bytes \cup {Unread}]]
    /\ generation \in 0..MaxGeneration
    /\ before \in Catalog /\ after \in Catalog /\ recovered \in Catalog
    /\ expect \in [Path -> {"keep", "missing", "digest", "reserved", "remove"}]
    /\ todo \subseteq Path /\ armed \in BOOLEAN
    /\ byUser \subseteq Path /\ touched \subseteq Path
    /\ edits \in 0..MaxEdits /\ crashes \in 0..MaxCrashes /\ failures \in 0..MaxFailures
    /\ \A q \in Process : pc[q] \in Locked <=> lock = q

\* The tool never saves a journal that its own loader would refuse: neither a
\* transition nor a catalog recovered from a mixture of two generations has two
\* spellings of one portable path, and no saved generation is zero.
JournalAlwaysLoads == Loadable(manifest)

\* While no update is pending, the ledger owns exactly the documents that are
\* on disk, wherever the user was not the last to set the bytes.  A file left by
\* a reservation whose creation and cleanup both failed stays unowned.
OwnershipMatchesDisk ==
    manifest.state # "updating" =>
        \A p \in Path : disk[p] = manifest.after[p] \/ p \in byUser \/ disk[p] = Torn

\* A pending update can be resolved by the next command, from whatever point
\* it was left at, unless a user has put bytes of their own on a journaled path
\* or the process died while it was filling a reservation.
CanReconcile(p) ==
    \/ disk[p] \in {Missing, manifest.before[p], manifest.after[p]}
    \/ disk[p] = Marker(manifest.generation, p, manifest.after[p])
InterruptedUpdateIsRecoverable ==
    manifest.state = "updating" =>
        \A p \in JournalPaths : CanReconcile(p) \/ p \in byUser \/ disk[p] = Torn

\* A step of the program replaces or removes bytes at a path only when an
\* update naming that path is already journaled and the bytes are the ones the
\* journal knows (the old digest, this generation's marker, its own unfilled
\* reservation) or no file at all, the one exception being a user's change in
\* the window between the digest check and the rename or unlink.
JournaledBytes(p) ==
    /\ manifest.state = "updating" /\ p \in JournalPaths
    /\ \/ disk[p] \in {Missing, Torn, manifest.before[p]}
       \/ disk[p] = Marker(manifest.generation, p, manifest.after[p])
OnlyJournaledBytesReplaced ==
    [][edits' = edits =>
         \A p \in Path : disk'[p] # disk[p] => JournaledBytes(p) \/ p \in touched]_vars

\* When an update is journaled, the root still is the catalog the documents
\* were generated from, but for changes a user made after it was compared.
Journaled(q) == manifest'.state = "updating" /\ manifest'.generation # manifest.generation /\ lock = q
NoStaleGeneration ==
    [][\A q \in Process : Journaled(q) =>
         \A p \in Path : disk[p] = snapshot[q][p] \/ p \in touched]_vars

\* The generation grows by exactly one when an update is journaled, never
\* otherwise, and no update is journaled over a pending one: a marker names one
\* update for good.
GenerationNamesOneUpdate ==
    [][IF manifest'.state = "updating" /\ manifest' # manifest
         THEN manifest.state # "updating" /\ manifest'.generation = manifest.generation + 1
         ELSE manifest'.generation = manifest.generation]_vars

\* "so an exhausted or canceled forward operation cannot strand digest-bound
\* reservation markers" (conkit/ARCHITECTURE.md:315-316): no marker is left
\* behind by a command that has ended.
NoStrandedMarker == lock = NoOne => \A p \in Path : disk[p] \notin Markers

\* "a locked, digest-backed, recoverable journal" (conkit/ARCHITECTURE.md:379-380):
\* what a killed command leaves on disk, recovery can reconcile.
JournalIsRecoverable ==
    manifest.state = "updating" /\ lock = NoOne =>
        \A p \in JournalPaths : CanReconcile(p)

\* Every command ends: no wait for a lock and no recovery that never returns.
CommandsEnd == \A q \in Process : pc[q] # "idle" ~> pc[q] = "idle"

\* An interrupted update is eventually resolved by the commands that follow,
\* unless a path holds bytes the journal does not know.
InterruptedUpdateResolves ==
    manifest.state = "updating" ~>
        (manifest.state # "updating" \/ \E p \in JournalPaths : ~CanReconcile(p))
=============================================================================

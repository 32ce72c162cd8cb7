------------------------ MODULE ContractPublication ------------------------
(***************************************************************************)
(* Atomic replacement of one file of a contracts root:                     *)
(* conkit/catalog/store.rs, ContractPublication (create, publish, abort,   *)
(* drop) and the removal of abandoned manifest temporaries.  Each writer   *)
(* is a command that holds the generation lock while it publishes; it may  *)
(* be canceled, see any system call fail, unwind, or be killed, and the    *)
(* machine may lose power.                                                 *)
(*                                                                         *)
(* A file is created empty (Torn), written, and synchronized.  After a     *)
(* power loss a file that was not synchronized may be Torn, and a rename   *)
(* whose directory was not synchronized may be undone.                     *)
(***************************************************************************)
EXTENDS Naturals

CONSTANTS
    Writer,         \* commands
    Name,           \* the temporary names one publication may try
    Content,        \* complete bytes of the destination
    Torn,           \* an incompletely written file
    Missing,        \* no file
    NoName, NoOne,
    MaxFailures,    \* bound: failing system calls, unwindings and cancellations
    MaxCrashes      \* bound: killed processes and power losses

ASSUME DistinctBytes == {Torn, Missing} \cap Content = {} /\ Torn # Missing
ASSUME Sentinels == NoName \notin Name /\ NoOne \notin Writer
ASSUME Bounded == {MaxFailures, MaxCrashes} \subseteq Nat

VARIABLES
    manifest,           \* the destination is the ownership manifest
    dest, destSafe,     \* the destination's bytes; their data is synchronized
    durable,            \* the destination as of the last directory synchronization
    tmp, safe,          \* the temporaries: bytes; their data is synchronized
    lock,               \* the holder of generation.lock
    pc, bytes, temp, tried, canceled,   \* of each writer
    outcome,            \* what publish returned to each writer
    replaced,           \* history: the writer's rename has taken place
    failures, crashes

directory == <<dest, destSafe, durable>>
temporaries == <<tmp, safe>>
publication == <<bytes, temp, tried>>
result == <<outcome, replaced>>
bounds == <<failures, crashes>>
vars == <<manifest, directory, temporaries, lock, pc, publication, canceled, result, bounds>>

Open == {"writing", "written", "prepared"}
Phases == {"idle", "clean", "create"} \cup Open \cup {"renamed", "abort", "unlock"}
Outcomes == {"none", "published", "unsynced", "failed", "uncleaned", "unwound"}

-----------------------------------------------------------------------------
Init ==
    /\ manifest \in BOOLEAN
    /\ dest \in Content \cup {Missing} /\ destSafe = TRUE /\ durable = dest
    /\ tmp = [n \in Name |-> Missing] /\ safe = [n \in Name |-> FALSE]
    /\ lock = NoOne
    /\ pc = [w \in Writer |-> "idle"]
    /\ bytes \in [Writer -> Content]
    /\ temp = [w \in Writer |-> NoName]
    /\ tried = [w \in Writer |-> {}]
    /\ canceled = [w \in Writer |-> FALSE]
    /\ outcome = [w \in Writer |-> "none"]
    /\ replaced = [w \in Writer |-> FALSE]
    /\ failures = 0 /\ crashes = 0

At(w, phase) == pc[w] = phase
Goto(w, phase) == pc' = [pc EXCEPT ![w] = phase]
Fails == failures < MaxFailures /\ failures' = failures + 1 /\ UNCHANGED crashes

AnyLock == TRUE
LockFree == lock = NoOne

\* A command takes the generation lock and starts a new publication.
Acquire(w) ==
    /\ At(w, "idle") /\ LockFree
    /\ lock' = w
    /\ \E b \in Content : bytes' = [bytes EXCEPT ![w] = b]
    /\ temp' = [temp EXCEPT ![w] = NoName]
    /\ tried' = [tried EXCEPT ![w] = {}]
    /\ canceled' = [canceled EXCEPT ![w] = FALSE]
    /\ outcome' = [outcome EXCEPT ![w] = "none"]
    /\ replaced' = [replaced EXCEPT ![w] = FALSE]
    /\ Goto(w, "clean")
    /\ UNCHANGED <<directory, temporaries, bounds>>

\* remove_abandoned_manifest_temporaries: every entry with the manifest's
\* temporary prefix; document temporaries have another prefix and stay.
Abandoned == {n \in Name : manifest /\ tmp[n] # Missing}

Clean(w) ==
    /\ At(w, "clean") /\ ~canceled[w]
    /\ \E n \in Abandoned : tmp' = [tmp EXCEPT ![n] = Missing]
    /\ UNCHANGED <<directory, safe, lock, pc, publication, canceled, result, bounds>>

Cleaned(w) ==
    /\ At(w, "clean") /\ Abandoned = {} /\ ~canceled[w]
    /\ Goto(w, "create")
    /\ UNCHANGED <<directory, temporaries, lock, publication, canceled, result, bounds>>

\* An error before there is a temporary.
Refuse(w) ==
    /\ outcome' = [outcome EXCEPT ![w] = "failed"]
    /\ Goto(w, "unlock")
    /\ UNCHANGED <<directory, temporaries, lock, publication, canceled, replaced>>

Create(w) ==
    /\ At(w, "create") /\ ~canceled[w]
    /\ \E n \in Name \ tried[w] :
         IF tmp[n] = Missing
           THEN /\ tmp' = [tmp EXCEPT ![n] = Torn] /\ safe' = [safe EXCEPT ![n] = FALSE]
                /\ temp' = [temp EXCEPT ![w] = n]
                /\ Goto(w, "writing")
                /\ UNCHANGED tried
           ELSE /\ tried' = [tried EXCEPT ![w] = @ \cup {n}]
                /\ UNCHANGED <<temporaries, temp, pc>>
    /\ UNCHANGED <<directory, lock, bytes, canceled, result, bounds>>

CreateExhausted(w) ==
    /\ At(w, "create") /\ ~canceled[w] /\ tried[w] = Name
    /\ Refuse(w) /\ UNCHANGED bounds

CreateCanceled(w) ==
    /\ pc[w] \in {"clean", "create"} /\ canceled[w]
    /\ Refuse(w) /\ UNCHANGED bounds

CreateFails(w) == pc[w] \in {"clean", "create"} /\ Fails /\ Refuse(w)

\* write_and_prepare: chunks with a checkpoint before each, flush, sync, close.
Write(w) ==
    /\ At(w, "writing") /\ ~canceled[w]
    /\ tmp' = [tmp EXCEPT ![temp[w]] = bytes[w]]
    /\ Goto(w, "written")
    /\ UNCHANGED <<directory, safe, lock, publication, canceled, result, bounds>>

FlushOnly(w) ==
    /\ At(w, "written") /\ ~canceled[w]
    /\ Goto(w, "prepared")
    /\ UNCHANGED <<directory, temporaries, lock, publication, canceled, result, bounds>>
Prepare(w) ==
    /\ At(w, "written") /\ ~canceled[w]
    /\ safe' = [safe EXCEPT ![temp[w]] = TRUE]
    /\ Goto(w, "prepared")
    /\ UNCHANGED <<directory, tmp, lock, publication, canceled, result, bounds>>

\* Every error before the rename goes through abort.
Interrupt(w) ==
    /\ pc[w] \in Open /\ canceled[w]
    /\ Goto(w, "abort")
    /\ UNCHANGED <<directory, temporaries, lock, publication, canceled, result, bounds>>

StepFails(w) ==
    /\ pc[w] \in Open /\ Fails
    /\ Goto(w, "abort")
    /\ UNCHANGED <<directory, temporaries, lock, publication, canceled, result>>

Rename(w) ==
    /\ At(w, "prepared") /\ ~canceled[w] /\ tmp[temp[w]] # Missing
    /\ dest' = tmp[temp[w]] /\ destSafe' = safe[temp[w]]
    /\ tmp' = [tmp EXCEPT ![temp[w]] = Missing]
    /\ replaced' = [replaced EXCEPT ![w] = TRUE]
    /\ Goto(w, "renamed")
    /\ UNCHANGED <<durable, safe, lock, publication, canceled, outcome, bounds>>

\* The last step of publish: its result is definitive.
CheckpointAfterRename(w) ==
    /\ At(w, "renamed")
    /\ durable' = dest
    /\ outcome' = [outcome EXCEPT ![w] = IF canceled[w] THEN "failed" ELSE "published"]
    /\ Goto(w, "unlock")
    /\ UNCHANGED <<dest, destSafe, temporaries, lock, publication, canceled, replaced, bounds>>
SyncParent(w) ==
    /\ At(w, "renamed")
    /\ durable' = dest
    /\ outcome' = [outcome EXCEPT ![w] = "published"]
    /\ Goto(w, "unlock")
    /\ UNCHANGED <<dest, destSafe, temporaries, lock, publication, canceled, replaced, bounds>>

SyncParentFails(w) ==
    /\ At(w, "renamed") /\ Fails
    /\ outcome' = [outcome EXCEPT ![w] = "unsynced"]
    /\ Goto(w, "unlock")
    /\ UNCHANGED <<directory, temporaries, lock, publication, canceled, replaced>>

\* abort: the temporary is removed; that it was already gone is no error.
Abort(w) ==
    /\ At(w, "abort")
    /\ tmp' = [tmp EXCEPT ![temp[w]] = Missing]
    /\ outcome' = [outcome EXCEPT ![w] = "failed"]
    /\ Goto(w, "unlock")
    /\ UNCHANGED <<directory, safe, lock, publication, canceled, replaced, bounds>>

\* cleanup_failure: both errors are reported.
AbortFails(w) ==
    /\ At(w, "abort") /\ Fails
    /\ outcome' = [outcome EXCEPT ![w] = "uncleaned"]
    /\ Goto(w, "unlock")
    /\ UNCHANGED <<directory, temporaries, lock, publication, canceled, replaced>>

\* Drop while the state is Writing or Prepared: best-effort removal.
Drop(w) ==
    /\ pc[w] \in Open /\ Fails
    /\ tmp' \in {tmp, [tmp EXCEPT ![temp[w]] = Missing]}
    /\ outcome' = [outcome EXCEPT ![w] = "unwound"]
    /\ Goto(w, "unlock")
    /\ UNCHANGED <<directory, safe, lock, publication, canceled, replaced>>

Release(w) ==
    /\ At(w, "unlock")
    /\ lock' = NoOne
    /\ Goto(w, "idle")
    /\ UNCHANGED <<directory, temporaries, publication, canceled, result, bounds>>

\* Another thread requests cancellation at any moment.
Cancel(w) ==
    /\ pc[w] \notin {"idle", "unlock"} /\ ~canceled[w] /\ Fails
    /\ canceled' = [canceled EXCEPT ![w] = TRUE]
    /\ UNCHANGED <<directory, temporaries, lock, pc, publication, result>>

\* The process is killed; the operating system drops its lock.
Kill(w) ==
    /\ pc[w] # "idle" /\ crashes < MaxCrashes
    /\ crashes' = crashes + 1
    /\ Goto(w, "idle") /\ lock' = IF lock = w THEN NoOne ELSE lock
    /\ outcome' = [outcome EXCEPT ![w] = "none"]
    /\ UNCHANGED <<directory, temporaries, publication, canceled, replaced, failures>>

\* What a power loss may leave at a temporary name: nothing, the file, what is
\* left of an unsynchronized file, or a file whose rename was undone.
AfterLoss(n) ==
    {Missing, IF tmp[n] # Missing /\ ~safe[n] THEN Torn ELSE tmp[n]}
        \cup {dest : w \in {w \in Writer : At(w, "renamed") /\ temp[w] = n}}

PowerLoss ==
    /\ crashes < MaxCrashes
    /\ crashes' = crashes + 1
    /\ dest' \in {durable, IF destSafe THEN dest ELSE Torn}
    /\ durable' = dest' /\ destSafe' = TRUE
    /\ tmp' \in {left \in [Name -> Content \cup {Torn, Missing}] :
                   \A n \in Name : left[n] \in AfterLoss(n)}
    /\ lock' = NoOne
    /\ pc' = [w \in Writer |-> "idle"]
    /\ outcome' = [w \in Writer |-> "none"]
    /\ UNCHANGED <<safe, publication, canceled, replaced, failures>>

Step(w) ==
    \/ Acquire(w) \/ Clean(w) \/ Cleaned(w)
    \/ Create(w) \/ CreateExhausted(w) \/ CreateCanceled(w)
    \/ Write(w) \/ Prepare(w) \/ Interrupt(w) \/ Rename(w) \/ SyncParent(w)
    \/ Abort(w) \/ Release(w)
Fault(w) ==
    \/ CreateFails(w) \/ StepFails(w) \/ SyncParentFails(w) \/ AbortFails(w)
    \/ Drop(w) \/ Kill(w)

Next ==
    /\ (\E w \in Writer : Step(w) \/ Fault(w) \/ Cancel(w)) \/ PowerLoss
    /\ UNCHANGED manifest

Spec == Init /\ [][Next]_vars

-----------------------------------------------------------------------------
(* Properties *)

\* Every variable keeps to its values.
TypeOK ==
    /\ manifest \in BOOLEAN
    /\ dest \in Content \cup {Torn, Missing} /\ durable \in Content \cup {Missing}
    /\ destSafe \in BOOLEAN
    /\ tmp \in [Name -> Content \cup {Torn, Missing}] /\ safe \in [Name -> BOOLEAN]
    /\ lock \in Writer \cup {NoOne}
    /\ pc \in [Writer -> Phases]
    /\ bytes \in [Writer -> Content]
    /\ temp \in [Writer -> Name \cup {NoName}]
    /\ tried \in [Writer -> SUBSET Name]
    /\ canceled \in [Writer -> BOOLEAN] /\ replaced \in [Writer -> BOOLEAN]
    /\ outcome \in [Writer -> Outcomes]
    /\ failures \in 0..MaxFailures /\ crashes \in 0..MaxCrashes

\* Nobody ever finds a partly written destination, and a power loss never
\* leaves one: the destination is absent or holds complete bytes, and so does
\* what the disk would hold after a crash.
AllOrNothing == dest # Torn /\ durable # Torn /\ destSafe

\* What publish returns is what happened.  Success: the destination was replaced
\* by these bytes and will survive a power loss.  Failure: the destination was
\* not touched and no temporary is left, unless the error reports that too.  A
\* cancellation that arrives after the rename cannot change the answer.
ResultIsTruthful ==
    \A w \in Writer :
        /\ At(w, "unlock") /\ outcome[w] = "published" =>
             replaced[w] /\ dest = bytes[w] /\ durable = bytes[w]
        /\ outcome[w] \in {"failed", "uncleaned", "unwound"} => ~replaced[w]
        /\ At(w, "unlock") /\ outcome[w] = "failed" /\ temp[w] # NoName =>
             tmp[temp[w]] = Missing

\* Every temporary in the directory is accounted for.  The removal of abandoned
\* ones, and a collision of names, never take the one of a publication that is
\* still writing, and its bytes are its own; and those killed commands left are
\* gone once a later command publishes the manifest: they cannot pile up.
TemporariesAreAccounted ==
    /\ \A w \in Writer :
          /\ pc[w] \in Open => tmp[temp[w]] # Missing
          /\ pc[w] \in {"written", "prepared"} => tmp[temp[w]] = bytes[w]
    /\ manifest /\ (\E w \in Writer : pc[w] \in Open) =>
          \A n \in Name : tmp[n] # Missing =>
              \E w \in Writer : pc[w] \in Open /\ temp[w] = n
=============================================================================

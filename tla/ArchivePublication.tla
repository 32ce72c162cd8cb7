------------------------- MODULE ArchivePublication -------------------------
(***************************************************************************)
(* Archive commands publishing into one directory at the same time stamp:  *)
(* conkit/archive/publication.rs.  Nothing is locked.  A command picks the *)
(* first free archive name, fills a sibling temporary, links it to the     *)
(* archive name (a hard link never replaces an entry) and removes the      *)
(* temporary; it cleans up after cancellation and failure, and once more   *)
(* when the publication is dropped.                                        *)
(*                                                                         *)
(* Each command creates at most one file; a directory entry names the      *)
(* command whose file it is, so a link makes two names for one file.       *)
(***************************************************************************)
EXTENDS Naturals

CONSTANTS
    Process,        \* archive commands
    Pid,            \* their process identifiers; equal in two containers, say
    Free, Foreign,  \* no entry; a file of somebody else
    NoName,
    MaxCollision,   \* stands for MAX_ARCHIVE_NAME_COLLISIONS
    MaxTemporary,   \* stands for u16::MAX
    MaxFailures,    \* bound: failing system calls and cancellations
    MaxKills        \* bound: killed commands

Archives == {<<c>> : c \in 0..MaxCollision - 1}
Temporaries == {<<c, Pid[q], k>> : c \in 0..MaxCollision - 1, q \in Process, k \in 0..MaxTemporary}
Names == Archives \cup Temporaries

ASSUME Bounds == {MaxCollision, MaxTemporary, MaxFailures, MaxKills} \subseteq Nat
ASSUME Entries == Free # Foreign /\ {Free, Foreign} \cap Process = {} /\ NoName \notin Names

VARIABLES
    dir,            \* the owner of the file at each name
    data,           \* the file of each command: none, torn, written, synced
    pc, archive, temp,
    collision,      \* the next suffix a command tries
    state,          \* PublicationState: Open, Closed, Cleaned
    canceled, outcome,
    failures, kills

place == <<archive, temp, collision>>
bounds == <<failures, kills>>
vars == <<dir, data, pc, place, state, canceled, outcome, bounds>>

-----------------------------------------------------------------------------
Init ==
    /\ \E taken \in SUBSET Archives :
         dir = [n \in Names |-> IF n \in taken THEN Foreign ELSE Free]
    /\ data = [q \in Process |-> "none"]
    /\ pc = [q \in Process |-> "name"]
    /\ archive = [q \in Process |-> NoName] /\ temp = [q \in Process |-> NoName]
    /\ collision = [q \in Process |-> 0]
    /\ state = [q \in Process |-> "none"]
    /\ canceled = [q \in Process |-> FALSE]
    /\ outcome = [q \in Process |-> "none"]
    /\ failures = 0 /\ kills = 0

At(q, phase) == pc[q] = phase
Goto(q, phase) == pc' = [pc EXCEPT ![q] = phase]
Holds(q, n) == dir' = [dir EXCEPT ![n] = q]
Frees(n) == dir' = [dir EXCEPT ![n] = Free]
Fails == failures < MaxFailures /\ failures' = failures + 1 /\ UNCHANGED kills

\* The command ends with an answer and drops its publication.
Answer(q, reply) ==
    /\ outcome' = [outcome EXCEPT ![q] = reply]
    /\ Goto(q, "drop")

RetrySameName(q) ==
    /\ At(q, "name") /\ ~canceled[q] /\ collision[q] < MaxCollision
    /\ IF dir[<<collision[q]>>] # Free
         THEN UNCHANGED <<archive, collision, pc>>
         ELSE /\ archive' = [archive EXCEPT ![q] = <<collision[q]>>]
              /\ collision' = [collision EXCEPT ![q] = 0]
              /\ Goto(q, "create")
    /\ UNCHANGED <<dir, data, temp, state, canceled, outcome, bounds>>
\* next_available_path: the first archive name that does not exist.
NextName(q) ==
    /\ At(q, "name") /\ ~canceled[q] /\ collision[q] < MaxCollision
    /\ IF dir[<<collision[q]>>] # Free
         THEN collision' = [collision EXCEPT ![q] = @ + 1] /\ UNCHANGED <<archive, pc>>
         ELSE /\ archive' = [archive EXCEPT ![q] = <<collision[q]>>]
              /\ collision' = [collision EXCEPT ![q] = 0]
              /\ Goto(q, "create")
    /\ UNCHANGED <<dir, data, temp, state, canceled, outcome, bounds>>

\* ArchiveNameExhausted, or a cancellation before there is a temporary.
Refuse(q) ==
    /\ \/ At(q, "name") /\ collision[q] = MaxCollision
       \/ pc[q] \in {"name", "create", "temporary"} /\ canceled[q]
       \/ At(q, "temporary") /\ collision[q] > MaxTemporary
    /\ Answer(q, "failed")
    /\ UNCHANGED <<dir, data, place, state, canceled, bounds>>

\* create checks the destination again.
Recheck(q) ==
    /\ At(q, "create") /\ ~canceled[q]
    /\ IF dir[archive[q]] # Free
         THEN Answer(q, "failed")
         ELSE Goto(q, "temporary") /\ UNCHANGED outcome
    /\ UNCHANGED <<dir, data, place, state, canceled, bounds>>

Temporary(q) == <<archive[q][1], Pid[q], collision[q]>>

OpenTemporary(q) ==
    /\ At(q, "temporary") /\ ~canceled[q] /\ collision[q] <= MaxTemporary
    /\ IF dir[Temporary(q)] # Free
         THEN /\ collision' = [collision EXCEPT ![q] = @ + 1]
              /\ UNCHANGED <<dir, data, temp, state, pc>>
         ELSE /\ Holds(q, Temporary(q)) /\ data' = [data EXCEPT ![q] = "torn"]
              /\ temp' = [temp EXCEPT ![q] = Temporary(q)]
              /\ state' = [state EXCEPT ![q] = "open"]
              /\ Goto(q, "write")
              /\ UNCHANGED collision
    /\ UNCHANGED <<archive, canceled, outcome, bounds>>

OpenFails(q) ==
    /\ pc[q] \in {"name", "create", "temporary"} /\ Fails
    /\ Answer(q, "failed")
    /\ UNCHANGED <<dir, data, place, state, canceled>>

\* write_and_sync, with a checkpoint before every chunk and before the sync.
Write(q) ==
    /\ At(q, "write") /\ ~canceled[q]
    /\ data' = [data EXCEPT ![q] = "written"]
    /\ Goto(q, "sync")
    /\ UNCHANGED <<dir, place, state, canceled, outcome, bounds>>

\* sync_all succeeds and the handle is closed.
Sync(q) ==
    /\ At(q, "sync") /\ ~canceled[q]
    /\ data' = [data EXCEPT ![q] = "synced"]
    /\ state' = [state EXCEPT ![q] = "closed"]
    /\ Goto(q, "link")
    /\ UNCHANGED <<dir, place, canceled, outcome, bounds>>

\* Cancellation seen at a checkpoint, or a failing write, sync or link: the
\* handle is closed and the temporary is to be removed.
Interrupt(q) ==
    /\ pc[q] \in {"write", "sync", "link"}
    /\ \/ canceled[q] /\ UNCHANGED bounds
       \/ Fails
    /\ state' = [state EXCEPT ![q] = "closed"]
    /\ Goto(q, "cleanup")
    /\ UNCHANGED <<dir, data, place, canceled, outcome>>

\* hard_link: an existing entry is never replaced.
Link(q) ==
    /\ At(q, "link") /\ ~canceled[q]
    /\ IF dir[archive[q]] = Free
         THEN Holds(dir[temp[q]], archive[q]) /\ Goto(q, "linked")
         ELSE Goto(q, "cleanup") /\ UNCHANGED dir
    /\ UNCHANGED <<data, place, state, canceled, outcome, bounds>>

RemoveUnmarked(q) ==
    /\ At(q, "linked") /\ dir[temp[q]] # Free
    /\ Frees(temp[q])
    /\ Answer(q, "published")
    /\ UNCHANGED <<data, place, state, canceled, bounds>>
\* The temporary is removed and the state becomes Cleaned.
RemoveTemporary(q) ==
    /\ At(q, "linked") /\ dir[temp[q]] # Free
    /\ Frees(temp[q])
    /\ state' = [state EXCEPT ![q] = "cleaned"]
    /\ Answer(q, "published")
    /\ UNCHANGED <<data, place, canceled, bounds>>

RemoveFails(q) ==
    /\ At(q, "linked") /\ Fails
    /\ Goto(q, "withdraw")
    /\ UNCHANGED <<dir, data, place, state, canceled, outcome>>

KeepArchive(q) ==
    /\ At(q, "withdraw")
    /\ Answer(q, "withdrawn")
    /\ UNCHANGED <<dir, data, place, state, canceled, bounds>>
\* The archive is taken back when its temporary cannot be removed.
Withdraw(q) ==
    /\ At(q, "withdraw") /\ dir[archive[q]] # Free
    /\ Frees(archive[q])
    /\ Answer(q, "withdrawn")
    /\ UNCHANGED <<data, place, state, canceled, bounds>>

WithdrawFails(q) ==
    /\ At(q, "withdraw") /\ Fails
    /\ Answer(q, "uncleaned")
    /\ UNCHANGED <<dir, data, place, state, canceled>>

\* cleanup_after_write, cleanup_after_cancellation, cleanup_after_publication.
Cleanup(q) ==
    /\ At(q, "cleanup") /\ dir[temp[q]] # Free
    /\ Frees(temp[q])
    /\ state' = [state EXCEPT ![q] = "cleaned"]
    /\ Answer(q, "failed")
    /\ UNCHANGED <<data, place, canceled, bounds>>

CleanupFails(q) ==
    /\ At(q, "cleanup") /\ Fails
    /\ Answer(q, "uncleaned")
    /\ UNCHANGED <<dir, data, place, state, canceled>>

\* Drop: one more best-effort removal unless the state is Cleaned.
Drop(q) ==
    /\ At(q, "drop")
    /\ IF state[q] \in {"open", "closed"}
         THEN \/ Frees(temp[q]) /\ UNCHANGED bounds
              \/ UNCHANGED dir /\ Fails
         ELSE UNCHANGED <<dir, bounds>>
    /\ state' = [state EXCEPT ![q] = "cleaned"]
    /\ Goto(q, "done")
    /\ UNCHANGED <<data, place, canceled, outcome>>

\* A signal requests cancellation at any moment.
Cancel(q) ==
    /\ pc[q] # "done" /\ ~canceled[q] /\ Fails
    /\ canceled' = [canceled EXCEPT ![q] = TRUE]
    /\ UNCHANGED <<dir, data, pc, place, state, outcome>>

Kill(q) ==
    /\ pc[q] # "done" /\ kills < MaxKills /\ kills' = kills + 1
    /\ outcome' = [outcome EXCEPT ![q] = "killed"]
    /\ Goto(q, "done")
    /\ UNCHANGED <<dir, data, place, state, canceled, failures>>

Step(q) ==
    \/ NextName(q) \/ Refuse(q) \/ Recheck(q) \/ OpenTemporary(q)
    \/ Write(q) \/ Sync(q) \/ Interrupt(q) \/ Link(q)
    \/ RemoveTemporary(q) \/ Withdraw(q) \/ Cleanup(q) \/ Drop(q)
Fault(q) ==
    \/ OpenFails(q) \/ RemoveFails(q) \/ WithdrawFails(q) \/ CleanupFails(q)
    \/ Cancel(q) \/ Kill(q)
AllDone == (\A q \in Process : At(q, "done")) /\ UNCHANGED vars

Next == (\E q \in Process : Step(q) \/ Fault(q)) \/ AllDone

Spec == Init /\ [][Next]_vars
LiveSpec == Spec /\ \A q \in Process : WF_vars(Step(q))

-----------------------------------------------------------------------------
(* Properties *)

\* A file under an archive name is never replaced, and only the command that
\* published it takes it away again.  No command ever removes or takes over the
\* temporary of another one, even when both have one process identifier and both
\* drop what they cleaned.  (hard_link in publish, PublicationState in drop)
NoClobber ==
    [][/\ \A a \in Archives : dir[a] # Free /\ dir'[a] # dir[a] =>
            /\ dir'[a] = Free /\ dir[a] \in Process /\ At(dir[a], "withdraw")
       /\ \A t \in Temporaries : dir[t] # Free /\ dir'[t] # dir[t] =>
            \E q \in Process : dir[t] = q /\ temp[q] = t /\ pc'[q] # pc[q]]_vars

\* The answer is what happened: a published archive is there under its name,
\* nobody else's, with the temporary gone; after a plain failure neither an
\* archive nor a temporary of the command is left, whatever raced with it; an
\* archive whose temporary cannot be removed is taken back; and whatever is found
\* under an archive name is complete, whoever is killed when.
Entry(q) == {n \in Names : dir[n] = q}
AnswerIsTruthful ==
    /\ \A a \in Archives, q \in Process : dir[a] = q => data[q] = "synced"
    /\ \A q \in Process : At(q, "done") =>
          /\ outcome[q] = "published" => Entry(q) = {archive[q]}
          /\ outcome[q] = "withdrawn" => Entry(q) \cap Archives = {}
          /\ outcome[q] = "failed" => Entry(q) = {}

\* Every archive command ends.
PublicationEnds == \A q \in Process : <>At(q, "done")
=============================================================================

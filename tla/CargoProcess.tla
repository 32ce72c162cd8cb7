---------------------------- MODULE CargoProcess ----------------------------
(***************************************************************************)
(* One Cargo process of a compiler extraction: conkit/compiler/process.rs  *)
(* and the usage it shares (conkit/compiler/limits.rs).  The main thread   *)
(* polls the child, two reader threads empty its pipes within a budget,    *)
(* and a deadline, a cancellation or a failing system call may come at any *)
(* moment; then the process group is killed, reaped and the readers are    *)
(* drained.  The child exits, writes or hangs as it likes, and something   *)
(* that left its process group may keep a pipe open.                       *)
(***************************************************************************)
EXTENDS Naturals

CONSTANTS
    Limit,          \* stands for stdout_bytes and stderr_bytes
    Used,           \* what earlier processes of the extraction wrote
    MaxOutput,      \* bound: what the child writes to each pipe
    Outsiders,      \* the streams a process outside the group may keep open
    PipeSize,       \* what a pipe holds before a write blocks
    MaxEvidence,    \* stands for cleanup_evidence_bytes
    MaxFaults       \* bound: failing system calls

Stream == {"stdout", "stderr"}

ASSUME Bounds ==
    /\ {Limit, PipeSize, MaxEvidence, MaxFaults} \subseteq Nat
    /\ Used \in [Stream -> 0..Limit] /\ MaxOutput \in [Stream -> Nat]
    /\ Outsiders \subseteq Stream

VARIABLES
    pc,             \* where the main thread is
    outcome,        \* the primary error, or "ok"
    room, evidence, \* what is left of the evidence budget; something was noted
    tree,           \* the process works on a temporary tree
    terminated,     \* a kill has succeeded
    group,          \* the reap still goes through the process group
    reaped,         \* what reap returned
    reader,         \* what each reader thread does or has returned
    exceeded,       \* BoundedPipe::exceeded
    usage,          \* CompilerUsage: bytes of each stream
    child,          \* none, running, exited, reaped
    status,         \* its exit status
    dying,          \* it was killed
    written, read,  \* bytes through each pipe
    holder,         \* somebody outside the group keeps the pipe open
    canceled, expired, overdue,     \* cancellation, deadline, cleanup deadline
    faults

main == <<outcome, room, evidence, tree, terminated, group, reaped>>
pipes == <<reader, exceeded, usage, read>>
process == <<child, status, dying, written, holder>>
clock == <<canceled, expired, overdue>>
vars == <<pc, main, pipes, process, clock, faults>>

-----------------------------------------------------------------------------
\* room stands for what earlier processes have left of the evidence budget.
Prepared ==
    /\ outcome = "none" /\ room = MaxEvidence /\ evidence = FALSE
    /\ terminated = FALSE /\ group = TRUE /\ reaped = FALSE
    /\ reader = [s \in Stream |-> "none"]
    /\ exceeded = [s \in Stream |-> FALSE]
    /\ usage = Used
    /\ child = "none" /\ status = "none" /\ dying = FALSE
    /\ written = [s \in Stream |-> 0] /\ read = [s \in Stream |-> 0]
    /\ holder = [s \in Stream |-> s \in Outsiders]
    /\ canceled = FALSE /\ expired = FALSE /\ overdue = FALSE
    /\ faults = 0
Init == pc = "spawn" /\ tree \in BOOLEAN /\ Prepared

Fault == faults < MaxFaults /\ faults' = faults + 1
NoFault == UNCHANGED faults
\* A call on a child that was reaped may fail too: nothing is left to act on.
Refused == Fault \/ (child = "reaped" /\ NoFault)

\* CompilerUsage::checkpoint.
Stop == IF canceled THEN "canceled" ELSE IF expired THEN "timeout" ELSE "none"

Goto(step) == pc' = step /\ UNCHANGED main
\* fail: the primary error is kept while the child is cleaned up.
Fail(error) ==
    /\ pc' = "kill" /\ outcome' = error
    /\ UNCHANGED <<room, evidence, tree, terminated, group, reaped>>
\* One or more notes, as far as the budget goes.
Note ==
    /\ room' = IF room = 0 THEN 0 ELSE room - 1
    /\ evidence' = (evidence \/ room > 0)

Running(s) == reader[s] \in {"turn", "reading", "accounting"}
Finished == \A s \in Stream : ~Running(s)

(* The main thread *)

\* spawn: a checkpoint, then the child; both readers are started next.
Spawn ==
    /\ pc = "spawn"
    /\ \/ /\ Stop = "none" /\ NoFault
          /\ child' = "running" /\ Goto("stdout")
       \/ /\ Stop # "none" /\ NoFault
          /\ pc' = "done" /\ outcome' = Stop
          /\ UNCHANGED <<child, room, evidence, tree, terminated, group, reaped>>
       \/ /\ Stop = "none" /\ Fault
          /\ pc' = "done" /\ outcome' = "spawn"
          /\ UNCHANGED <<child, room, evidence, tree, terminated, group, reaped>>
    /\ UNCHANGED <<pipes, status, dying, written, holder, clock>>

StartReader(s) ==
    /\ pc = s
    /\ \/ /\ NoFault
          /\ reader' = [reader EXCEPT ![s] = "turn"]
          /\ Goto(IF s = "stdout" THEN "stderr" ELSE "check")
       \/ Fault /\ Fail("reader") /\ UNCHANGED reader
    /\ UNCHANGED <<exceeded, usage, read, process, clock>>

\* monitor, one turn: checkpoint, ...
Check ==
    /\ pc = "check" /\ NoFault
    /\ IF Stop = "none" THEN Goto("limits") ELSE Fail(Stop)
    /\ UNCHANGED <<pipes, process, clock>>

\* ... the output limits, ...
CheckLimits ==
    /\ pc = "limits" /\ NoFault
    /\ IF \E s \in Stream : exceeded[s] THEN Fail("limit") ELSE Goto("wait")
    /\ UNCHANGED <<pipes, process, clock>>

\* ... the child, ...
TryWait ==
    /\ pc = "wait"
    /\ \/ child = "exited" /\ child' = "reaped" /\ Goto("readers") /\ NoFault
       \/ child = "running" /\ Goto("scan") /\ NoFault /\ UNCHANGED child
       \/ Fault /\ Fail("wait") /\ UNCHANGED child
    /\ UNCHANGED <<pipes, status, dying, written, holder, clock>>

\* ... and the temporary tree, which may have grown too large.
Scan ==
    /\ pc = "scan"
    /\ \/ Goto("check") /\ NoFault
       \/ tree /\ Stop # "none" /\ Fail(Stop) /\ NoFault
       \/ tree /\ Fault /\ Fail("tree")
    /\ UNCHANGED <<pipes, process, clock>>

\* complete waits for the readers of an exited child, at most to the deadline.
AwaitReaders ==
    /\ pc = "readers" /\ NoFault
    /\ \/ Finished /\ Goto("final")
       \/ ~Finished /\ Stop # "none" /\ Fail(Stop)
    /\ UNCHANGED <<pipes, process, clock>>

\* The last checkpoint beats a completed status.
FinalCheck ==
    /\ pc = "final" /\ NoFault
    /\ IF Stop = "none" THEN Goto("finish") ELSE Fail(Stop)
    /\ UNCHANGED <<pipes, process, clock>>

Ended(result) == pc' = "done" /\ outcome' = result

KeepPartial ==
    /\ pc = "finish" /\ NoFault
    /\ pc' = "inspect" /\ UNCHANGED main
    /\ UNCHANGED <<pipes, process, clock>>
\* finish_preserving_failure: broken output fails a process, whose own failure
\* is the primary one.
Finish ==
    /\ pc = "finish" /\ NoFault
    /\ LET broken == {s \in Stream : reader[s] # "complete"}
       IN \/ broken = {} /\ Goto("inspect")
          \/ /\ broken # {}
             /\ IF status # "success"
                  THEN Ended("cargo") /\ Note
                  ELSE /\ Ended(reader[IF "stdout" \in broken THEN "stdout" ELSE "stderr"])
                       /\ UNCHANGED <<room, evidence>>
             /\ UNCHANGED <<tree, terminated, group, reaped>>
    /\ UNCHANGED <<pipes, process, clock>>

\* inspect_after_completion, if there is a tree, and execute's look at the status.
Inspect ==
    /\ pc = "inspect"
    /\ \/ /\ tree => Stop = "none"
          /\ Ended(IF status = "success" THEN "ok" ELSE "cargo") /\ NoFault
       \/ tree /\ Stop # "none" /\ Ended(Stop) /\ NoFault
       \/ tree /\ Fault /\ Ended("tree")
    /\ UNCHANGED <<room, evidence, tree, terminated, group, reaped, pipes, process, clock>>

(* Cleanup after a failure *)

\* The process group is killed; a group that is gone counts as terminated.
KillGroup ==
    /\ pc = "kill" /\ group
    /\ \/ /\ NoFault
          /\ terminated' = TRUE /\ dying' = TRUE /\ overdue' = FALSE
          /\ pc' = "reap" /\ UNCHANGED <<room, evidence, group>>
       \/ /\ Refused
          /\ group' = FALSE /\ Note
          /\ UNCHANGED <<pc, terminated, dying, overdue>>
    /\ UNCHANGED <<outcome, tree, reaped, pipes, child, status, written, holder, canceled, expired>>

\* Then the leader alone.
KillLeader ==
    /\ pc = "kill" /\ ~group
    /\ pc' = "reap" /\ overdue' = FALSE
    /\ \/ /\ NoFault
          /\ terminated' = TRUE /\ dying' = TRUE /\ UNCHANGED <<room, evidence>>
       \/ Refused /\ Note /\ UNCHANGED <<terminated, dying>>
    /\ UNCHANGED <<outcome, tree, group, reaped, pipes, child, status, written, holder, canceled, expired>>

Gone == child \in {"exited", "reaped"}
Reaps == child' = "reaped" /\ reaped' = TRUE /\ pc' = "drain"

WaitAnyway ==
    /\ pc = "reap" /\ NoFault
    /\ \/ Gone /\ Reaps /\ overdue' = FALSE /\ UNCHANGED <<room, evidence>>
       \/ ~Gone /\ (canceled \/ overdue) /\ pc' = "block" /\ UNCHANGED <<child, reaped, room, evidence, overdue>>
    /\ UNCHANGED <<outcome, tree, terminated, group, pipes, status, dying, written, holder, canceled, expired>>
\* reap polls until the cleanup deadline or a cancellation; a blocking wait
\* follows only if something was killed.
Reap ==
    /\ pc = "reap" /\ NoFault
    /\ \/ Gone /\ Reaps /\ overdue' = FALSE /\ UNCHANGED <<room, evidence>>
       \/ /\ ~Gone /\ (canceled \/ overdue) /\ terminated
          /\ pc' = "block"
          /\ IF group /\ ~canceled THEN Note ELSE UNCHANGED <<room, evidence>>
          /\ UNCHANGED <<child, reaped, overdue>>
       \/ /\ ~Gone /\ (canceled \/ overdue) /\ ~terminated
          /\ pc' = "drain" /\ Note /\ overdue' = FALSE
          /\ UNCHANGED <<child, reaped>>
    /\ UNCHANGED <<outcome, tree, terminated, group, pipes, status, dying, written, holder, canceled, expired>>

ReapFails ==
    /\ pc = "reap" /\ Refused
    /\ Note
    /\ pc' = IF terminated THEN "block" ELSE "drain"
    /\ overdue' = IF terminated THEN overdue ELSE FALSE
    /\ UNCHANGED <<outcome, tree, terminated, group, reaped, pipes, process, canceled, expired>>

\* The blocking wait for a killed child.
Block ==
    /\ pc = "block"
    /\ \/ Gone /\ Reaps /\ NoFault /\ UNCHANGED <<room, evidence>>
       \/ Refused /\ Note /\ pc' = "drain" /\ UNCHANGED <<child, reaped>>
    /\ overdue' = FALSE
    /\ UNCHANGED <<outcome, tree, terminated, group, pipes, status, dying, written, holder, canceled, expired>>

DrainSilently ==
    /\ pc = "drain" /\ NoFault
    /\ \/ reaped /\ Finished
       \/ ~reaped
       \/ reaped /\ ~Finished /\ overdue
    /\ pc' = "done" /\ UNCHANGED <<room, evidence>>
    /\ UNCHANGED <<outcome, tree, terminated, group, reaped, pipes, process, clock>>
\* drain_readers: the readers of a reaped child are joined once they finish
\* within the cleanup time; otherwise they are left behind, and that is noted.
Drain ==
    /\ pc = "drain" /\ NoFault
    /\ \/ /\ reaped /\ Finished
          /\ IF \E s \in Stream : reader[s] \notin {"none", "complete"}
               THEN Note ELSE UNCHANGED <<room, evidence>>
       \/ ~reaped /\ Note
       \/ reaped /\ ~Finished /\ overdue /\ Note
    /\ pc' = "done"
    /\ UNCHANGED <<outcome, tree, terminated, group, reaped, pipes, process, clock>>

(* A reader thread *)

Return(s, result) == reader' = [reader EXCEPT ![s] = result]
Available(s) == written[s] - read[s]
Writers(s) == child = "running" \/ holder[s]

\* The checkpoint before each read.
Turn(s) ==
    /\ reader[s] = "turn" /\ NoFault
    /\ Return(s, IF Stop = "none" THEN "reading" ELSE Stop)
    /\ UNCHANGED <<pc, main, exceeded, usage, read, process, clock>>

\* A byte, the end of the pipe, or an error; until then the read blocks, and a
\* blocked reader sees no stop.
Read(s) ==
    /\ reader[s] = "reading"
    /\ \/ /\ Available(s) > 0 /\ NoFault
          /\ read' = [read EXCEPT ![s] = @ + 1] /\ Return(s, "accounting")
       \/ /\ Available(s) = 0 /\ ~Writers(s) /\ NoFault
          /\ Return(s, "complete") /\ UNCHANGED read
       \/ Fault /\ Return(s, "read") /\ UNCHANGED read
    /\ UNCHANGED <<pc, main, exceeded, usage, process, clock>>

\* account_output: a checkpoint, then the limit over the sum of all processes.
Account(s) ==
    /\ reader[s] = "accounting" /\ NoFault
    /\ IF Stop # "none"
         THEN Return(s, Stop) /\ UNCHANGED <<exceeded, usage>>
         ELSE /\ usage' = [usage EXCEPT ![s] = @ + 1]
              /\ exceeded' = [exceeded EXCEPT ![s] = usage'[s] > Limit]
              /\ Return(s, IF usage'[s] > Limit THEN "limit" ELSE "turn")
    /\ UNCHANGED <<pc, main, read, process, clock>>

(* The child and the clock *)

\* A write needs a pipe with room, which is there before the reader starts; once
\* the reader has returned or was not started the write fails.
Open(s) == Running(s) \/ (reader[s] = "none" /\ pc \in Stream)
Write(s) ==
    /\ child = "running" /\ ~dying /\ written[s] < MaxOutput[s]
    /\ Open(s) /\ Available(s) < PipeSize
    /\ written' = [written EXCEPT ![s] = @ + 1]
    /\ UNCHANGED <<pc, main, pipes, child, status, dying, holder, clock, faults>>

Exit ==
    /\ child = "running"
    /\ child' = "exited"
    /\ status' \in IF dying THEN {"killed"} ELSE {"success", "failure"}
    /\ UNCHANGED <<pc, main, pipes, dying, written, holder, clock, faults>>
Die == dying /\ Exit

LetGo(s) ==
    /\ holder[s]
    /\ holder' = [holder EXCEPT ![s] = FALSE]
    /\ UNCHANGED <<pc, main, pipes, child, status, dying, written, clock, faults>>

Cancel ==
    /\ ~canceled /\ canceled' = TRUE
    /\ UNCHANGED <<pc, main, pipes, process, expired, overdue, faults>>
Deadline ==
    /\ ~expired /\ expired' = TRUE
    /\ UNCHANGED <<pc, main, pipes, process, canceled, overdue, faults>>
CleanupDeadline ==
    /\ pc \in {"reap", "drain"} /\ ~overdue /\ overdue' = TRUE
    /\ UNCHANGED <<pc, main, pipes, process, canceled, expired, faults>>

Main ==
    \/ Spawn \/ (\E s \in Stream : StartReader(s))
    \/ Check \/ CheckLimits \/ TryWait \/ Scan \/ AwaitReaders \/ FinalCheck
    \/ Finish \/ Inspect \/ KillGroup \/ KillLeader \/ Reap \/ Block \/ Drain
Reader(s) == Turn(s) \/ Read(s) \/ Account(s)
Environment ==
    \/ (\E s \in Stream : Write(s) \/ LetGo(s))
    \/ Exit \/ Cancel \/ Deadline \/ CleanupDeadline \/ ReapFails
Done == pc = "done" /\ UNCHANGED vars

Next == Main \/ (\E s \in Stream : Reader(s)) \/ Environment \/ Done

Spec == Init /\ [][Next]_vars

\* Threads run, time passes, and a killed process dies.  A child need not exit
\* and nobody need let go of a pipe.
LiveSpec ==
    /\ Spec
    /\ WF_vars(Main) /\ \A s \in Stream : WF_vars(Reader(s))
    /\ WF_vars(Deadline) /\ WF_vars(CleanupDeadline) /\ WF_vars(Die)

-----------------------------------------------------------------------------
(* Properties *)

\* A process succeeds only if it exited with success, was reaped, and all it
\* wrote was read within the budget of the whole extraction.  A failure is told in
\* full: if a reader stopped for a cancellation or the deadline, the process is not
\* reported as failed by Cargo on the strength of its cut output; and a child that is
\* left unreaped, or a reader left unjoined, is noted in the evidence unless the
\* evidence budget is spent.
OutcomeIsTruthful ==
    /\ outcome = "ok" =>
          /\ status = "success" /\ child = "reaped"
          /\ \A s \in Stream : reader[s] = "complete" /\ read[s] = written[s] /\ usage[s] <= Limit
    /\ pc = "done" =>
          /\ (\E s \in Stream : reader[s] \in {"canceled", "timeout"}) => outcome \notin {"ok", "cargo"}
          /\ child \in {"running", "exited"} \/ ~Finished => evidence \/ room = 0

\* Whatever the child does and whoever keeps its pipes open, the main thread
\* ends: nothing waits without bound for what was not killed.
ProcessEnds == <>(pc = "done")
=============================================================================

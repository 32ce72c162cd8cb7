-------------------------- MODULE CargoProcessProofs --------------------------
(***************************************************************************)
(* For any budgets, any output of the child, any failing calls and at any  *)
(* moment of a cancellation or a deadline: the outcome of a Cargo process  *)
(* is what happened to it.  Then, for any answers of Cargo, any documents,  *)
(* edits and limits: what an extraction hands over is of the snapshot.     *)
(***************************************************************************)
EXTENDS CompilerExtraction, FiniteSetTheorems, TLAPS

Waiting == {"spawn", "stdout", "stderr", "check", "limits", "wait", "scan"}
Completing == {"readers", "final", "finish", "inspect"}
Cleaning == {"kill", "reap", "block", "drain"}
Errors == {"canceled", "timeout", "limit", "reader", "wait", "tree", "spawn", "read"}
Interrupted == {"canceled", "timeout"}

\* What a reader thread does or has returned.
Returns == {"none", "turn", "reading", "accounting", "complete", "canceled", "timeout", "limit",
            "read"}

TypeOK ==
    /\ pc \in Waiting \cup Completing \cup Cleaning \cup {"done"}
    /\ outcome \in Errors \cup {"none", "ok", "cargo"}
    /\ room \in Nat /\ evidence \in BOOLEAN /\ tree \in BOOLEAN
    /\ terminated \in BOOLEAN /\ group \in BOOLEAN /\ reaped \in BOOLEAN
    /\ reader \in [Stream -> Returns]
    /\ usage \in [Stream -> Nat]
    /\ child \in {"none", "running", "exited", "reaped"}
    /\ status \in {"none", "success", "failure", "killed"} /\ dying \in BOOLEAN
    /\ written \in [Stream -> Nat] /\ read \in [Stream -> Nat] /\ holder \in [Stream -> BOOLEAN]
    /\ canceled \in BOOLEAN /\ expired \in BOOLEAN /\ overdue \in BOOLEAN

\* What a reader that has returned tells: a complete reader has read all there
\* will ever be, within the budget; one that stopped, why.
ReaderTold(s) ==
    /\ reader[s] = "complete" =>
          child \in {"exited", "reaped"} /\ ~holder[s] /\ read[s] = written[s]
    /\ reader[s] # "limit" => usage[s] <= Limit
    /\ reader[s] \in Interrupted => canceled \/ expired
    /\ child = "none" => reader[s] = "none"

\* What the main thread knows of the child and of its readers.
MainKnows ==
    /\ reaped => child = "reaped"
    /\ pc = "spawn" => child = "none"
    /\ pc \notin {"spawn", "done"} => child # "none"
    /\ pc = "stdout" => reader["stdout"] = "none" /\ reader["stderr"] = "none"
    /\ pc = "stderr" => reader["stderr"] = "none"
    /\ pc \in Completing => child = "reaped"
    /\ pc \in {"final", "finish", "inspect"} => Finished
    /\ pc \in {"finish", "inspect"} => \A s \in Stream : reader[s] \notin Interrupted
    /\ pc = "inspect" => \A s \in Stream : reader[s] = "complete"
    /\ pc \in Waiting \cup Completing => outcome = "none"
    /\ pc \in Cleaning => outcome \in Errors

\* What has been reported.
Reported ==
    /\ outcome = "ok" =>
          /\ pc = "done" /\ status = "success" /\ child = "reaped"
          /\ \A s \in Stream : reader[s] = "complete"
    /\ outcome = "cargo" =>
          /\ pc = "done" /\ child = "reaped" /\ Finished
          /\ \A s \in Stream : reader[s] \notin Interrupted
    /\ pc = "done" =>
          \/ child \in {"none", "reaped"} /\ Finished
          \/ evidence \/ room = 0

IInv == TypeOK /\ (\A s \in Stream : ReaderTold(s)) /\ MainKnows /\ Reported

-----------------------------------------------------------------------------
\* After a note there is evidence, or its budget is spent.
LEMMA NoteKept ==
    ASSUME room \in Nat, evidence \in BOOLEAN, Note
    PROVE  room' \in Nat /\ evidence' \in BOOLEAN /\ (evidence' \/ room' = 0)
<1>1. CASE room = 0
  <2>1. room' = 0 BY <1>1 DEF Note
  <2>2. evidence' \in BOOLEAN BY Zenon DEF Note
  <2> QED BY <2>1, <2>2
<1>2. CASE room # 0
  <2>1. room' \in Nat BY <1>2 DEF Note
  <2>2. room > 0 BY <1>2
  <2>3. evidence' = TRUE BY <2>2, Zenon DEF Note
  <2> QED BY <2>1, <2>3
<1> QED BY <1>1, <1>2

\* What a reader that did not complete has returned is an error.
LEMMA BrokenIsError ==
    ASSUME IInv, Finished, NEW s \in Stream, reader[s] # "complete", reader[s] # "none"
    PROVE  reader[s] \in Errors
BY DEF IInv, TypeOK, Returns, Finished, Running, Errors

\* A step that notes something, or nothing, keeps their types.
LEMMA NotesType ==
    ASSUME IInv, Note \/ UNCHANGED <<room, evidence>>
    PROVE  room' \in Nat /\ evidence' \in BOOLEAN
BY NoteKept DEF IInv, TypeOK

\* A step of the cleanup disturbs only what the cleanup decides.
LEMMA CleanupType ==
    ASSUME IInv, Note \/ UNCHANGED <<room, evidence>>,
           UNCHANGED <<outcome, tree, pipes, status, written, holder, canceled, expired>>,
           pc' \in Waiting \cup Completing \cup Cleaning \cup {"done"},
           child' \in {"none", "running", "exited", "reaped"},
           terminated' \in BOOLEAN, group' \in BOOLEAN, reaped' \in BOOLEAN,
           dying' \in BOOLEAN, overdue' \in BOOLEAN
    PROVE  TypeOK'
<1>1. room' \in Nat /\ evidence' \in BOOLEAN BY NotesType
<1>2. outcome' \in Errors \cup {"none", "ok", "cargo"} /\ tree' \in BOOLEAN BY DEF IInv, TypeOK
<1>3. reader' \in [Stream -> Returns] /\ usage' \in [Stream -> Nat] /\ read' \in [Stream -> Nat]
  BY DEF IInv, TypeOK, pipes
<1>4. /\ status' \in {"none", "success", "failure", "killed"}
      /\ written' \in [Stream -> Nat] /\ holder' \in [Stream -> BOOLEAN]
      /\ canceled' \in BOOLEAN /\ expired' \in BOOLEAN
  BY DEF IInv, TypeOK
<1> QED BY <1>1, <1>2, <1>3, <1>4 DEF TypeOK

\* Every step keeps the types.
LEMMA NextType == ASSUME IInv, Next PROVE TypeOK'
<1> USE Bounds DEF main, pipes, process, clock, Goto, IInv, TypeOK, Returns, Stream,
    Waiting, Completing, Cleaning, Errors
<1>1. CASE Spawn BY <1>1 DEF Spawn, Stop
<1>2. ASSUME NEW s \in Stream, StartReader(s) PROVE TypeOK'
  BY <1>2 DEF StartReader, Fail
<1>3. CASE Check BY <1>3 DEF Check, Fail, Stop
<1>4. CASE CheckLimits BY <1>4 DEF CheckLimits, Fail
<1>5. CASE TryWait BY <1>5 DEF TryWait, Fail
<1>6. CASE Scan BY <1>6 DEF Scan, Fail, Stop
<1>7. CASE AwaitReaders BY <1>7 DEF AwaitReaders, Fail, Stop
<1>8. CASE FinalCheck BY <1>8 DEF FinalCheck, Fail, Stop
<1>9. CASE Finish
  <2>1. Finished /\ pc = "finish" BY <1>9 DEF Finish, MainKnows
  <2>2. CASE outcome' = outcome /\ pc' = "inspect" /\ UNCHANGED <<room, evidence>>
    BY <1>9, <2>2 DEF Finish
  <2>3. CASE Ended("cargo") /\ Note BY <1>9, <2>3, NoteKept DEF Finish, Ended
  <2>4. ASSUME NEW s \in Stream, Ended(reader[s]), UNCHANGED <<room, evidence>> PROVE TypeOK'
    BY <1>9, <2>1, <2>4 DEF Finish, Ended, Finished, Running
  <2> QED BY <1>9, <2>2, <2>3, <2>4 DEF Finish
<1>10. CASE Inspect BY <1>10 DEF Inspect, Ended, Stop
<1>11. CASE KillGroup
  <2>1. Note \/ UNCHANGED <<room, evidence>> BY <1>11 DEF KillGroup
  <2>2. /\ terminated' \in BOOLEAN /\ group' \in BOOLEAN /\ reaped' \in BOOLEAN
        /\ dying' \in BOOLEAN /\ overdue' \in BOOLEAN
    BY <1>11 DEF KillGroup
  <2>3. UNCHANGED <<outcome, tree, pipes, status, written, holder, canceled, expired>>
    BY <1>11 DEF KillGroup
  <2>4. pc' \in Cleaning /\ child' \in {"none", "running", "exited", "reaped"} BY <1>11 DEF KillGroup
  <2> QED BY <2>1, <2>2, <2>3, <2>4, CleanupType
<1>12. CASE KillLeader
  <2>1. Note \/ UNCHANGED <<room, evidence>> BY <1>12 DEF KillLeader
  <2>2. /\ terminated' \in BOOLEAN /\ group' \in BOOLEAN /\ reaped' \in BOOLEAN
        /\ dying' \in BOOLEAN /\ overdue' \in BOOLEAN
    BY <1>12 DEF KillLeader
  <2>3. UNCHANGED <<outcome, tree, pipes, status, written, holder, canceled, expired>>
    BY <1>12 DEF KillLeader
  <2>4. pc' \in Cleaning /\ child' \in {"none", "running", "exited", "reaped"} BY <1>12 DEF KillLeader
  <2> QED BY <2>1, <2>2, <2>3, <2>4, CleanupType
<1>13. CASE Reap
  <2>1. Note \/ UNCHANGED <<room, evidence>> BY <1>13 DEF Reap, Reaps
  <2>2. /\ terminated' \in BOOLEAN /\ group' \in BOOLEAN /\ reaped' \in BOOLEAN
        /\ dying' \in BOOLEAN /\ overdue' \in BOOLEAN
    BY <1>13 DEF Reap, Reaps
  <2>3. UNCHANGED <<outcome, tree, pipes, status, written, holder, canceled, expired>>
    BY <1>13 DEF Reap, Reaps
  <2>4. pc' \in Cleaning /\ child' \in {"none", "running", "exited", "reaped"} BY <1>13 DEF Reap, Reaps
  <2> QED BY <2>1, <2>2, <2>3, <2>4, CleanupType
<1>14. CASE Block
  <2>1. Note \/ UNCHANGED <<room, evidence>> BY <1>14 DEF Block, Reaps
  <2>2. /\ terminated' \in BOOLEAN /\ group' \in BOOLEAN /\ reaped' \in BOOLEAN
        /\ dying' \in BOOLEAN /\ overdue' \in BOOLEAN
    BY <1>14 DEF Block, Reaps
  <2>3. UNCHANGED <<outcome, tree, pipes, status, written, holder, canceled, expired>>
    BY <1>14 DEF Block, Reaps
  <2>4. pc' \in Cleaning /\ child' \in {"none", "running", "exited", "reaped"} BY <1>14 DEF Block, Reaps
  <2> QED BY <2>1, <2>2, <2>3, <2>4, CleanupType
<1>15. CASE Drain BY <1>15, NoteKept DEF Drain
<1>16. ASSUME NEW s \in Stream, Turn(s) PROVE TypeOK'
  BY <1>16 DEF Turn, Return, Stop
<1>17. ASSUME NEW s \in Stream, Read(s) PROVE TypeOK'
  BY <1>17 DEF Read, Return, Available, Writers
<1>18. ASSUME NEW s \in Stream, Account(s) PROVE TypeOK'
  BY <1>18 DEF Account, Return, Stop
<1>19. ASSUME NEW s \in Stream, Write(s) PROVE TypeOK'
  BY <1>19 DEF Write, Available
<1>20. ASSUME NEW s \in Stream, LetGo(s) PROVE TypeOK'
  BY <1>20 DEF LetGo
<1>21. CASE Exit BY <1>21 DEF Exit
<1>22. CASE Cancel BY <1>22 DEF Cancel
<1>23. CASE Deadline BY <1>23 DEF Deadline
<1>24. CASE CleanupDeadline BY <1>24 DEF CleanupDeadline
<1>25. CASE ReapFails
  <2>1. Note BY <1>25 DEF ReapFails
  <2>2. /\ terminated' \in BOOLEAN /\ group' \in BOOLEAN /\ reaped' \in BOOLEAN
        /\ dying' \in BOOLEAN /\ overdue' \in BOOLEAN
    BY <1>25 DEF ReapFails
  <2>3. UNCHANGED <<outcome, tree, pipes, status, written, holder, canceled, expired>>
    BY <1>25 DEF ReapFails
  <2>4. pc' \in Cleaning /\ child' \in {"none", "running", "exited", "reaped"} BY <1>25 DEF ReapFails
  <2> QED BY <2>1, <2>2, <2>3, <2>4, CleanupType
<1>26. CASE Done BY <1>26 DEF Done, vars
<1> QED
  BY <1>1, <1>2, <1>3, <1>4, <1>5, <1>6, <1>7, <1>8, <1>9, <1>10, <1>11, <1>12, <1>13,
     <1>14, <1>15, <1>16, <1>17, <1>18, <1>19, <1>20, <1>21, <1>22, <1>23, <1>24, <1>25, <1>26
  DEF Next, Main, Reader, Environment

\* What a reader told stays true: nobody writes to a pipe that was read to its end.
LEMMA NextTold == ASSUME IInv, Next PROVE \A r \in Stream : ReaderTold(r)'
<1> USE Bounds DEF main, pipes, process, clock, Goto, IInv, TypeOK, Returns, ReaderTold,
    Interrupted, MainKnows
<1>1. CASE Spawn BY <1>1 DEF Spawn, Stop
<1>2. ASSUME NEW s \in Stream, StartReader(s) PROVE \A r \in Stream : ReaderTold(r)'
  <2>1. child' = child /\ child /= "none" BY <1>2 DEF StartReader, Fail, Stream
  <2>2. \A r \in Stream : reader'[r] /= reader[r] => reader'[r] = "turn" /\ r = s
    BY <1>2 DEF StartReader, Fail
  <2>3. usage[s] <= Limit BY <1>2 DEF StartReader, Stream
  <2> QED BY <1>2, <2>1, <2>2, <2>3 DEF StartReader, Fail
<1>3. CASE Check BY <1>3 DEF Check, Fail, Stop
<1>4. CASE CheckLimits BY <1>4 DEF CheckLimits, Fail
<1>5. CASE TryWait BY <1>5 DEF TryWait, Fail
<1>6. CASE Scan BY <1>6 DEF Scan, Fail, Stop
<1>7. CASE AwaitReaders BY <1>7 DEF AwaitReaders, Fail, Stop
<1>8. CASE FinalCheck BY <1>8 DEF FinalCheck, Fail, Stop
<1>9. CASE Finish BY <1>9 DEF Finish, Ended, Note
<1>10. CASE Inspect BY <1>10 DEF Inspect, Ended, Stop
<1>11. CASE KillGroup BY <1>11 DEF KillGroup, Note
<1>12. CASE KillLeader BY <1>12 DEF KillLeader, Note
<1>13. CASE Reap BY <1>13 DEF Reap, Reaps, Note
<1>14. CASE Block BY <1>14 DEF Block, Reaps, Note
<1>15. CASE Drain BY <1>15 DEF Drain, Note
<1>16. ASSUME NEW s \in Stream, Turn(s) PROVE \A r \in Stream : ReaderTold(r)'
  BY <1>16 DEF Turn, Return, Stop
<1>17. ASSUME NEW s \in Stream, Read(s) PROVE \A r \in Stream : ReaderTold(r)'
  BY <1>17 DEF Read, Return, Available, Writers
<1>18. ASSUME NEW s \in Stream, Account(s) PROVE \A r \in Stream : ReaderTold(r)'
  BY <1>18 DEF Account, Return, Stop
<1>19. ASSUME NEW s \in Stream, Write(s) PROVE \A r \in Stream : ReaderTold(r)'
  BY <1>19 DEF Write, Available
<1>20. ASSUME NEW s \in Stream, LetGo(s) PROVE \A r \in Stream : ReaderTold(r)'
  BY <1>20 DEF LetGo
<1>21. CASE Exit BY <1>21 DEF Exit
<1>22. CASE Cancel BY <1>22 DEF Cancel
<1>23. CASE Deadline BY <1>23 DEF Deadline
<1>24. CASE CleanupDeadline BY <1>24 DEF CleanupDeadline
<1>25. CASE ReapFails BY <1>25 DEF ReapFails, Note
<1>26. CASE Done BY <1>26 DEF Done, vars
<1> QED
  BY <1>1, <1>2, <1>3, <1>4, <1>5, <1>6, <1>7, <1>8, <1>9, <1>10, <1>11, <1>12, <1>13,
     <1>14, <1>15, <1>16, <1>17, <1>18, <1>19, <1>20, <1>21, <1>22, <1>23, <1>24, <1>25, <1>26
  DEF Next, Main, Reader, Environment

\* The main thread's knowledge of the child and the readers grows step by step.
LEMMA NextKnows == ASSUME IInv, Next PROVE MainKnows'
<1> USE Bounds DEF main, pipes, process, clock, Goto, IInv, TypeOK, Returns, Stream,
    MainKnows, ReaderTold, Interrupted, Finished, Running, Waiting, Completing, Cleaning, Errors
<1>1. CASE Spawn BY <1>1 DEF Spawn, Stop
<1>2. ASSUME NEW s \in Stream, StartReader(s) PROVE MainKnows'
  BY <1>2 DEF StartReader, Fail, Stream
<1>3. CASE Check BY <1>3 DEF Check, Fail, Stop
<1>4. CASE CheckLimits BY <1>4 DEF CheckLimits, Fail
<1>5. CASE TryWait BY <1>5 DEF TryWait, Fail
<1>6. CASE Scan BY <1>6 DEF Scan, Fail, Stop
<1>7. CASE AwaitReaders BY <1>7 DEF AwaitReaders, Fail, Stop
<1>8. CASE FinalCheck BY <1>8 DEF FinalCheck, Fail, Stop
<1>9. CASE Finish BY <1>9 DEF Finish, Ended, Note
<1>10. CASE Inspect BY <1>10 DEF Inspect, Ended, Stop
<1>11. CASE KillGroup BY <1>11 DEF KillGroup, Note
<1>12. CASE KillLeader BY <1>12 DEF KillLeader, Note
<1>13. CASE Reap BY <1>13 DEF Reap, Reaps, Note
<1>14. CASE Block BY <1>14 DEF Block, Reaps, Note
<1>15. CASE Drain BY <1>15 DEF Drain, Note
<1>16. ASSUME NEW s \in Stream, Turn(s) PROVE MainKnows'
  BY <1>16 DEF Turn, Return, Stop
<1>17. ASSUME NEW s \in Stream, Read(s) PROVE MainKnows'
  BY <1>17 DEF Read, Return, Available, Writers
<1>18. ASSUME NEW s \in Stream, Account(s) PROVE MainKnows'
  BY <1>18 DEF Account, Return, Stop
<1>19. ASSUME NEW s \in Stream, Write(s) PROVE MainKnows'
  BY <1>19 DEF Write, Available
<1>20. ASSUME NEW s \in Stream, LetGo(s) PROVE MainKnows'
  BY <1>20 DEF LetGo
<1>21. CASE Exit BY <1>21 DEF Exit
<1>22. CASE Cancel BY <1>22 DEF Cancel
<1>23. CASE Deadline BY <1>23 DEF Deadline
<1>24. CASE CleanupDeadline BY <1>24 DEF CleanupDeadline
<1>25. CASE ReapFails BY <1>25 DEF ReapFails, Note
<1>26. CASE Done BY <1>26 DEF Done, vars
<1> QED
  BY <1>1, <1>2, <1>3, <1>4, <1>5, <1>6, <1>7, <1>8, <1>9, <1>10, <1>11, <1>12, <1>13,
     <1>14, <1>15, <1>16, <1>17, <1>18, <1>19, <1>20, <1>21, <1>22, <1>23, <1>24, <1>25, <1>26
  DEF Next, Main, Reader, Environment

\* A report is made from what the main thread knows, and stays true.
LEMMA NextReported == ASSUME IInv, Next PROVE Reported'
<1> USE Bounds DEF main, pipes, process, clock, Goto, IInv, TypeOK, Returns, MainKnows,
    ReaderTold, Reported, Interrupted, Finished, Running, Waiting, Completing, Cleaning, Errors
<1>1. CASE Spawn BY <1>1 DEF Spawn, Stop
<1>2. ASSUME NEW s \in Stream, StartReader(s) PROVE Reported'
  BY <1>2 DEF StartReader, Fail, Stream
<1>3. CASE Check BY <1>3 DEF Check, Fail, Stop
<1>4. CASE CheckLimits BY <1>4 DEF CheckLimits, Fail
<1>5. CASE TryWait BY <1>5 DEF TryWait, Fail
<1>6. CASE Scan BY <1>6 DEF Scan, Fail, Stop
<1>7. CASE AwaitReaders BY <1>7 DEF AwaitReaders, Fail, Stop
<1>8. CASE FinalCheck BY <1>8 DEF FinalCheck, Fail, Stop
<1>9. CASE Finish
  <2>1. Finished /\ pc = "finish" /\ child = "reaped" /\ child' = child /\ reader' = reader
    BY <1>9 DEF Finish
  <2>2. CASE Ended("cargo") /\ Note BY <1>9, <2>1, <2>2, NoteKept DEF Ended
  <2>3. ASSUME NEW s \in Stream, reader[s] /= "complete", Ended(reader[s]) PROVE Reported'
    BY <2>1, <2>3 DEF Ended
  <2> QED BY <1>9, <2>1, <2>2, <2>3 DEF Finish, Stream
<1>10. CASE Inspect BY <1>10 DEF Inspect, Ended, Stop
<1>11. CASE KillGroup BY <1>11, NoteKept DEF KillGroup
<1>12. CASE KillLeader BY <1>12, NoteKept DEF KillLeader
<1>13. CASE Reap BY <1>13, NoteKept DEF Reap, Reaps
<1>14. CASE Block BY <1>14, NoteKept DEF Block, Reaps
<1>15. CASE Drain BY <1>15, NoteKept DEF Drain
<1>16. ASSUME NEW s \in Stream, Turn(s) PROVE Reported'
  BY <1>16 DEF Turn, Return, Stop
<1>17. ASSUME NEW s \in Stream, Read(s) PROVE Reported'
  BY <1>17 DEF Read, Return, Available, Writers
<1>18. ASSUME NEW s \in Stream, Account(s) PROVE Reported'
  BY <1>18 DEF Account, Return, Stop
<1>19. ASSUME NEW s \in Stream, Write(s) PROVE Reported'
  BY <1>19 DEF Write, Available
<1>20. ASSUME NEW s \in Stream, LetGo(s) PROVE Reported'
  BY <1>20 DEF LetGo
<1>21. CASE Exit BY <1>21 DEF Exit
<1>22. CASE Cancel BY <1>22 DEF Cancel
<1>23. CASE Deadline BY <1>23 DEF Deadline
<1>24. CASE CleanupDeadline BY <1>24 DEF CleanupDeadline
<1>25. CASE ReapFails BY <1>25, NoteKept DEF ReapFails
<1>26. CASE Done
  <2>1. UNCHANGED <<pc, outcome, child, status, reader>> BY <1>26 DEF Done, vars
  <2>2. (evidence \/ room = 0) => (evidence' \/ room' = 0) BY <1>26, Zenon DEF Done, vars
  <2> QED BY <2>1, <2>2
<1> QED
  BY <1>1, <1>2, <1>3, <1>4, <1>5, <1>6, <1>7, <1>8, <1>9, <1>10, <1>11, <1>12, <1>13,
     <1>14, <1>15, <1>16, <1>17, <1>18, <1>19, <1>20, <1>21, <1>22, <1>23, <1>24, <1>25, <1>26
  DEF Next, Main, Reader, Environment

\* The invariant holds before the child is started.
LEMMA InitIInv == Init => IInv
<1> SUFFICES ASSUME Init PROVE IInv OBVIOUS
<1>1. TypeOK
  <2>1. holder = [s \in Stream |-> s \in Outsiders] BY DEF Init, Prepared
  <2>2. holder \in [Stream -> BOOLEAN] BY <2>1
  <2>3. /\ pc = "spawn" /\ outcome = "none" /\ child = "none" /\ status = "none"
        /\ room = MaxEvidence /\ tree \in BOOLEAN /\ evidence = FALSE /\ terminated = FALSE
        /\ group = TRUE /\ reaped = FALSE /\ dying = FALSE
        /\ canceled = FALSE /\ expired = FALSE /\ overdue = FALSE
        /\ reader = [s \in Stream |-> "none"] /\ usage = Used
        /\ written = [s \in Stream |-> 0] /\ read = [s \in Stream |-> 0]
    BY DEF Init, Prepared
  <2>4. usage \in [Stream -> Nat] /\ written \in [Stream -> Nat] /\ read \in [Stream -> Nat]
    BY <2>3, Bounds
  <2>5. reader \in [Stream -> Returns] BY <2>3 DEF Returns
  <2> QED BY <2>2, <2>3, <2>4, <2>5, Bounds DEF TypeOK, Waiting
<1>2. \A s \in Stream : ReaderTold(s)
  BY Bounds DEF Init, Prepared, ReaderTold, Interrupted
<1>3. MainKnows
  BY DEF Init, Prepared, MainKnows, Stream, Waiting, Completing, Cleaning
<1>4. Reported BY DEF Init, Prepared, Reported
<1> QED BY <1>1, <1>2, <1>3, <1>4 DEF IInv

\* A step that changes nothing keeps it.
LEMMA StutterIInv == ASSUME IInv, UNCHANGED vars PROVE IInv'
<1>1. TypeOK' BY DEF IInv, TypeOK, vars, main, pipes, process, clock
<1>2. \A s \in Stream : ReaderTold(s)'
  BY DEF IInv, ReaderTold, vars, pipes, process, clock
<1>3. MainKnows' BY DEF IInv, MainKnows, Finished, Running, vars, main, pipes, process
<1>4. Reported'
  <2>1. UNCHANGED <<pc, outcome, child, status, reader>> BY DEF vars, main, pipes, process
  <2>2. evidence' = evidence /\ room' = room BY DEF vars, main
  <2>3. evidence \in BOOLEAN BY DEF IInv, TypeOK
  <2>4. (evidence \/ room = 0) => (evidence' \/ room' = 0) BY <2>2, <2>3, Zenon
  <2> QED BY <2>1, <2>4 DEF IInv, Reported, Finished, Running
<1> QED BY <1>1, <1>2, <1>3, <1>4 DEF IInv

\* The strengthening of the theorem: what each reader that returned tells, what
\* the main thread knows in each phase, and what has been reported.
THEOREM IInvHolds == Spec => []IInv
<1>1. IInv /\ [Next]_vars => IInv'
  BY NextType, NextTold, NextKnows, NextReported, StutterIInv DEF IInv
<1> QED BY <1>1, InitIInv, PTL DEF Spec

\* A process succeeds only if it exited with success and everything it wrote was
\* read within the budget; one whose output was cut by a cancellation or a deadline
\* is never blamed on Cargo; and what is left behind is noted as evidence.
THEOREM Truthful == Spec => []OutcomeIsTruthful
<1>1. IInv => OutcomeIsTruthful
  <2> SUFFICES ASSUME IInv PROVE OutcomeIsTruthful OBVIOUS
  <2>1. outcome = "ok" =>
          /\ status = "success" /\ child = "reaped"
          /\ \A s \in Stream : reader[s] = "complete" /\ read[s] = written[s] /\ usage[s] <= Limit
    BY DEF IInv, Reported, ReaderTold
  <2>2. (\E s \in Stream : reader[s] \in {"canceled", "timeout"}) => outcome \notin {"ok", "cargo"}
    BY DEF IInv, Reported, Interrupted
  <2>3. pc = "done" => (child \in {"running", "exited"} \/ ~Finished => evidence \/ room = 0)
    BY DEF IInv, Reported
  <2> QED BY <2>1, <2>2, <2>3 DEF OutcomeIsTruthful
<1> QED BY <1>1, IInvHolds, PTL

-----------------------------------------------------------------------------
(* The extraction *)

ExtractionSpec == ExtractionInit /\ [][ExtractionNext]_extraction

\* The steps after the crate was identified, the probe's record taken, rustdoc run and
\* the sources compared.
Compared == {"collect", "translate", "handover"}
Documented == {"json", "configuration", "verify"} \cup Compared
Recorded == {"rustdoc"} \cup Documented
Identified == {"version", "probe", "probing", "capture"} \cup Recorded
Selecting == {"locate", "pkgid", "metadata", "resolve", "identify"}

\* What holds in some steps, and of what was handed over.
Since(steps) == step \in steps \/ result = "extracted"

StepKnown ==
    /\ step \in {"begin", "over"} \cup Selecting \cup Identified
    /\ step # "over" => result = "none"

\* A source that is as it was has been documented as it was: versions never return.
VersionsKnown ==
    /\ edits \in 0..MaxEdits /\ files \in [Paths -> 0..Removed]
    /\ documented \in [Paths -> (0..Removed) \cup {Unread}]
    /\ \A p \in Paths : files[p] = 0 => documented[p] \in {0, Unread}
    /\ verified \in Nat
SourcesKnown ==
    /\ VersionsKnown
    /\ Since(Documented) => \A p \in Paths : documented[p] # Unread
    /\ verified # 0 => step \in {"verify", "over"} \cup Compared
    /\ step = "verify" =>
          /\ verified <= Len(Catalog)
          /\ \A i \in DOMAIN Catalog : i <= verified => documented[SourceRoot \o Catalog[i]] = 0
    /\ Since(Compared) => \A p \in Paths : documented[p] = 0

ProbeKnown ==
    /\ capture \in Records \cup {NoCapture, Torn}
    /\ Since(Recorded) =>
          /\ capture \in Records /\ capture.accepted
          /\ "cfg" \in DOMAIN facts /\ capture.cfg \subseteq facts.cfg

CrateKnown ==
    /\ Since(Selecting \cup Identified) => Decision(call) \notin {"refused", "syntax"}
    /\ Since(Identified) => Crate.root = Logical(RootPath) /\ Crate.kind = target.kind
    /\ result = "extracted" => (Decision(call) = "validate" => ContextAgrees(call.layout, Artifact))

DocumentKnown ==
    /\ Since(Documented) => document \in Documents
    /\ "reads" \in DOMAIN counted /\ counted["reads"] \in Nat

Counters == {"packages", "targets", "bytes", "items", "mappings", "reads"}
CountersKnown ==
    /\ DOMAIN counted = Counters
    /\ step # "over" \/ result = "extracted" => \A c \in Counters : counted[c] <= Most[c]
    /\ step \notin {"over", "handover"} => counted.mappings = 0
    /\ \E S : pending \in Seq(S)

ExtractionInv ==
    StepKnown /\ SourcesKnown /\ ProbeKnown /\ CrateKnown /\ DocumentKnown /\ CountersKnown

-----------------------------------------------------------------------------
LEMMA CatalogIsSequence == Len(Catalog) \in Nat /\ DOMAIN Catalog = 1..Len(Catalog)
BY ExtractionBounds

LEMMA SourcesArePaths == \A i \in DOMAIN Catalog : SourceRoot \o Catalog[i] \in Paths
BY DEF Paths

\* Each extraction step goes on or ends; at its end it names an error, unless it
\* hands over.
LEMMA StepsAreKnown == ASSUME ExtractionInv, ExtractionNext PROVE StepKnown'
<1>1. Stop # "none" => Stop \in {"canceled", "timeout"} BY DEF Stop
<1>2. CASE Around BY <1>2 DEF Around, EnterProbe, WriteCapture, RustdocReads, Edit, ExtractionInv, StepKnown,
        Selecting, Identified, Recorded, Documented, Compared
<1>3. CASE Extract
  <2> SUFFICES /\ step # "over" /\ step' \in {"over"} \cup Selecting \cup Identified
               /\ step' # "over" => UNCHANGED result
    BY DEF ExtractionInv, StepKnown
  <2> USE DEF At, Ok, Proceed, End, Selecting, Identified, Recorded, Documented, Compared
  <2>1. CASE Begin \/ Locate \/ PackageId \/ Version \/ Configuration
    BY <2>1 DEF Begin, Locate, PackageId, Answer, Version, Configuration
  <2>2. CASE ReadMetadata("metadata", "resolve") \/ ReadMetadata("resolve", "identify")
    BY <2>2 DEF ReadMetadata
  <2>3. CASE Identify \/ StartProbe \/ EndProbe \/ ReadCapture BY <2>3 DEF Identify, StartProbe, EndProbe, ReadCapture
  <2>4. CASE EndRustdoc \/ Verify \/ Collect \/ HandOver BY <2>4 DEF EndRustdoc, Verify, Collect, HandOver
  <2>5. CASE ReadJson BY <2>5 DEF ReadJson
  <2>6. CASE Translate BY <2>6 DEF Translate
  <2>7. CASE Stopped BY <2>7 DEF Stopped
  <2> QED BY <1>3, <2>1, <2>2, <2>3, <2>4, <2>5, <2>6, <2>7 DEF Extract
<1> QED BY <1>2, <1>3 DEF ExtractionNext

\* Which step leads where.
LEMMA Onward ==
    ASSUME ExtractionInv, ExtractionNext
    PROVE  /\ step # "over"
           /\ result' = "extracted" => HandOver
           /\ Since(Compared)' => Since(Compared) \/ (Verify /\ verified = Len(Catalog))
           /\ step' = "verify" => step = "verify" \/ Configuration
           /\ step \in {"verify"} \cup Compared => step' \in {"verify", "over"} \cup Compared
           /\ Since(Documented)' => Since(Documented) \/ EndRustdoc
           /\ Since(Recorded)' => Since(Recorded) \/ ReadCapture
           /\ Since(Identified)' => Since(Identified) \/ Identify
           /\ Since(Selecting \cup Identified)' => Since(Selecting \cup Identified) \/ Begin
<1> USE DEF At, Ok, Proceed, End, Selecting, Identified, Recorded, Documented, Compared, Since
<1>0. StepKnown BY DEF ExtractionInv
<1>1. CASE Around BY <1>0, <1>1 DEF Around, EnterProbe, WriteCapture, RustdocReads, Edit, StepKnown
<1>2. CASE Begin BY <1>0, <1>2 DEF Begin, StepKnown
<1>3. CASE Locate \/ PackageId \/ Version BY <1>0, <1>3 DEF Locate, PackageId, Answer, Version, StepKnown
<1>4. CASE Configuration BY <1>0, <1>4 DEF Configuration, Answer, StepKnown
<1>5. CASE ReadMetadata("metadata", "resolve") \/ ReadMetadata("resolve", "identify")
  BY <1>0, <1>5 DEF ReadMetadata, StepKnown
<1>6. CASE Identify \/ StartProbe BY <1>0, <1>6 DEF Identify, StartProbe, StepKnown
<1>7. CASE EndProbe \/ ReadCapture BY <1>0, <1>7 DEF EndProbe, ReadCapture, StepKnown
<1>8. CASE EndRustdoc BY <1>0, <1>8 DEF EndRustdoc, StepKnown
<1>9. CASE ReadJson BY <1>0, <1>9 DEF ReadJson, StepKnown
<1>10. CASE Verify BY <1>0, <1>10 DEF Verify, StepKnown
<1>11. CASE Collect BY <1>0, <1>11 DEF Collect, StepKnown
<1>12. CASE Translate
  <2>1. \A n : Flaw(n) # "extracted" BY DEF Flaw
  <2> QED BY <1>0, <1>12, <2>1 DEF Translate, StepKnown
<1>13. CASE HandOver BY <1>0, <1>13 DEF HandOver, StepKnown
<1>14. CASE Stopped
  <2>1. Stop # "extracted" BY DEF Stop
  <2> QED BY <1>0, <1>14, <2>1 DEF Stopped, StepKnown
<1> QED BY <1>1, <1>2, <1>3, <1>4, <1>5, <1>6, <1>7, <1>8, <1>9, <1>10, <1>11, <1>12, <1>13, <1>14
      DEF ExtractionNext, Extract

LEMMA SourcesAreKnown == ASSUME ExtractionInv, ExtractionNext PROVE SourcesKnown'
<1>0. /\ StepKnown /\ SourcesKnown /\ VersionsKnown /\ MaxEdits \in Nat /\ Removed = MaxEdits + 1 /\ Unread = MaxEdits + 2
      /\ step # "over"
  BY ExtractionBounds, Onward DEF ExtractionInv, SourcesKnown, Removed, Unread
<1>1. CASE \E p \in Paths : Edit(p)
  <2>1. PICK p \in Paths : Edit(p) BY <1>1
  <2>2. /\ UNCHANGED <<step, documented, verified, result>> /\ edits' = edits + 1 /\ edits < MaxEdits
        /\ files' \in {[files EXCEPT ![p] = edits'], [files EXCEPT ![p] = Removed]}
    BY <2>1 DEF Edit
  <2>3. edits' \in 0..MaxEdits /\ edits' \in 0..Removed /\ edits' # 0 /\ Removed # 0 /\ Removed \in 0..Removed
    BY <1>0, <2>2 DEF VersionsKnown
  <2>4. files' \in [Paths -> 0..Removed] /\ \A q \in Paths : files'[q] = 0 => files[q] = 0
    BY <1>0, <2>2, <2>3 DEF VersionsKnown
  <2>5. VersionsKnown' BY <1>0, <2>2, <2>3, <2>4 DEF VersionsKnown
  <2> QED BY <1>0, <2>2, <2>5 DEF SourcesKnown, Since
<1>2. CASE \E p \in Paths : RustdocReads(p)
  <2>1. PICK p \in Paths : RustdocReads(p) BY <1>2
  <2>2. /\ UNCHANGED <<step, files, edits, verified, result>> /\ step = "rustdoc"
        /\ documented' = [documented EXCEPT ![p] = files[p]]
    BY <2>1 DEF RustdocReads, disk
  <2>3. ~Since(Documented)' /\ ~Since(Compared)' /\ step' # "verify"
    BY <1>0, <2>2 DEF Since, Documented, Compared, StepKnown
  <2>4. VersionsKnown' BY <1>0, <2>2 DEF VersionsKnown
  <2> QED BY <1>0, <2>2, <2>3, <2>4 DEF SourcesKnown
<1>3. CASE Verify
  <2>1. /\ UNCHANGED <<documented, files, edits>> /\ step = "verify"
        /\ \/ verified = Len(Catalog) /\ UNCHANGED verified /\ step' = "collect" /\ UNCHANGED result
           \/ /\ verified # Len(Catalog) /\ verified' = verified + 1
              /\ \/ step' = "over"
                 \/ step' = "verify" /\ UNCHANGED result /\ files[SourceRoot \o Catalog[verified + 1]] = 0
    BY <1>3 DEF Verify, At, Ok, Proceed, End, disk
  <2>2. \A p \in Paths : documented[p] # Unread BY <1>0, <2>1 DEF SourcesKnown, Since, Documented
  <2>3. result = "none" /\ (result' = "extracted" => HandOver) BY <1>0, <2>1, Onward DEF StepKnown
  <2>4. ~HandOver BY <2>1 DEF HandOver, At
  <2>5. verified \in Nat /\ verified <= Len(Catalog) /\ Len(Catalog) \in Nat /\ DOMAIN Catalog = 1..Len(Catalog)
        /\ \A i \in DOMAIN Catalog : i <= verified => documented[SourceRoot \o Catalog[i]] = 0
    BY <1>0, <2>1, CatalogIsSequence DEF SourcesKnown, VersionsKnown
  <2>6. VersionsKnown' /\ (\A p \in Paths : documented'[p] # Unread)
    <3>0. verified' = verified \/ verified' = verified + 1 BY <2>1
    <3>1. verified' \in Nat BY <1>0, <3>0 DEF VersionsKnown
    <3> QED BY <1>0, <2>1, <2>2, <3>1 DEF VersionsKnown
  <2>7. CASE step' = "collect"
    <3>1. verified = Len(Catalog) BY <2>1, <2>7
    <3>2. \A p \in Paths : \E i \in DOMAIN Catalog : p = SourceRoot \o Catalog[i] BY DEF Paths
    <3>3. \A i \in DOMAIN Catalog : i <= verified BY <2>5, <3>1
    <3>4. \A p \in Paths : documented[p] = 0 BY <2>5, <3>2, <3>3
    <3> QED BY <2>1, <2>6, <2>7, <3>4 DEF SourcesKnown, Compared
  <2>8. CASE step' = "verify"
    <3>0. verified # Len(Catalog) /\ verified' = verified + 1 /\ files[SourceRoot \o Catalog[verified + 1]] = 0
      BY <2>1, <2>8
    <3>1. verified + 1 \in DOMAIN Catalog /\ verified + 1 <= Len(Catalog)
      <4>1. verified \in Nat /\ verified <= Len(Catalog) /\ verified # Len(Catalog) /\ Len(Catalog) \in Nat
        BY <2>5, <3>0
      <4>2. verified + 1 <= Len(Catalog) /\ verified + 1 \in 1..Len(Catalog) BY <4>1
      <4> QED BY <2>5, <4>2
    <3>2. documented[SourceRoot \o Catalog[verified + 1]] = 0
      BY <1>0, <2>2, <3>0, <3>1, SourcesArePaths DEF VersionsKnown
    <3>3. \A i \in DOMAIN Catalog : i <= verified + 1 => documented[SourceRoot \o Catalog[i]] = 0
      <4> SUFFICES ASSUME NEW i \in DOMAIN Catalog, i <= verified + 1
                   PROVE  documented[SourceRoot \o Catalog[i]] = 0
        OBVIOUS
      <4>1. i <= verified \/ i = verified + 1 BY <2>5
      <4> QED BY <2>5, <3>2, <4>1
    <3>4. ~Since(Compared)' BY <2>3, <2>4, <2>8 DEF Since, Compared
    <3> QED BY <2>1, <2>6, <2>8, <3>0, <3>1, <3>3, <3>4 DEF SourcesKnown
  <2>9. CASE step' = "over"
    <3>1. ~Since(Compared)' BY <2>3, <2>4, <2>9 DEF Since, Compared
    <3> QED BY <2>6, <2>9, <3>1 DEF SourcesKnown
  <2> QED BY <2>1, <2>7, <2>8, <2>9
<1>4. CASE EndRustdoc
  <2>1. /\ UNCHANGED <<documented, files, edits, verified>> /\ \A p \in Paths : documented[p] # Unread
        /\ step = "rustdoc"
    BY <1>4 DEF EndRustdoc, At, disk
  <2>2. ~Since(Compared) /\ ~Verify /\ ~Configuration
    BY <1>0, <2>1 DEF Since, Compared, StepKnown, Verify, At, Configuration, Answer
  <2>3. ~Since(Compared)' /\ step' # "verify" BY <2>1, <2>2, Onward
  <2>4. verified = 0 /\ verified' = 0 BY <1>0, <2>1 DEF SourcesKnown, Compared
  <2>5. VersionsKnown' BY <1>0, <2>1 DEF VersionsKnown
  <2> QED BY <2>1, <2>3, <2>4, <2>5 DEF SourcesKnown
<1>5. CASE Configuration
  <2>1. UNCHANGED <<documented, files, edits, verified>> /\ step = "configuration"
    BY <1>5 DEF Configuration, Answer, At, disk
  <2>2. ~Since(Compared) /\ ~Verify BY <1>0, <2>1 DEF Since, Compared, StepKnown, Verify, At
  <2>3. ~Since(Compared)' BY <2>2, Onward
  <2>4. verified = 0 /\ verified' = 0 BY <1>0, <2>1 DEF SourcesKnown, Compared
  <2>5. VersionsKnown' BY <1>0, <2>1 DEF VersionsKnown
  <2>6. Since(Documented) BY <2>1 DEF Since, Documented
  <2> QED BY <1>0, <2>1, <2>3, <2>4, <2>5, <2>6 DEF SourcesKnown
<1>6. CASE ~(\E p \in Paths : Edit(p) \/ RustdocReads(p)) /\ ~Verify /\ ~EndRustdoc /\ ~Configuration
  <2>1. UNCHANGED <<documented, files, edits, verified>>
    BY <1>6 DEF ExtractionNext, Extract, Around, Begin, Locate, PackageId, Answer, ReadMetadata, Identify,
       Version, StartProbe, EndProbe, ReadCapture, ReadJson, Collect, Translate, HandOver, Stopped,
       EnterProbe, WriteCapture, disk
  <2>2. /\ (Since(Documented)' => Since(Documented)) /\ (Since(Compared)' => Since(Compared))
        /\ (step' = "verify" => step = "verify")
        /\ (step \in {"verify"} \cup Compared => step' \in {"verify", "over"} \cup Compared)
    BY <1>6, Onward
  <2>3. VersionsKnown' BY <1>0, <2>1 DEF VersionsKnown
  <2> QED BY <1>0, <2>1, <2>2, <2>3 DEF SourcesKnown
<1> QED BY <1>1, <1>2, <1>3, <1>4, <1>5, <1>6

\* Only a handover ends with "extracted"; before, nothing has been handed over.
LEMMA NotExtracted ==
    ASSUME ExtractionInv, ExtractionNext
    PROVE  result = "none" /\ (step' = "over" /\ ~HandOver => result' # "extracted")
BY Onward DEF ExtractionInv, StepKnown

LEMMA ProbeIsKnown == ASSUME ExtractionInv, ExtractionNext PROVE ProbeKnown'
<1>0. StepKnown /\ ProbeKnown /\ step # "over" /\ result = "none" BY Onward, NotExtracted DEF ExtractionInv
<1>1. CASE \E p \in Prober : \E left \in Records \cup {Torn} : WriteCapture(p, left)
  <2>1. /\ step = "probing" /\ UNCHANGED <<step, result>>
        /\ capture' = capture \/ capture' \in Records \cup {Torn}
    BY <1>1 DEF WriteCapture
  <2>2. ~Since(Recorded)' BY <1>0, <2>1 DEF Since, Recorded, Documented, Compared
  <2> QED BY <1>0, <2>1, <2>2 DEF ProbeKnown
<1>2. CASE ReadCapture
  <2>1. UNCHANGED capture /\ step = "capture" BY <1>2 DEF ReadCapture, At
  <2>2. CASE Whole(capture) /\ BytesFit(capture.size, Most.capture) /\ capture.accepted
    <3>1. facts' = [version |-> facts.version, features |-> facts.features, cfg |-> capture.cfg]
      BY <1>2, <2>2 DEF ReadCapture
    <3>2. capture \in Records BY <1>0, <2>2 DEF ProbeKnown, Whole
    <3>3. "cfg" \in DOMAIN facts' /\ capture.cfg \subseteq facts'.cfg BY <3>1
    <3> QED BY <1>0, <2>1, <2>2, <3>2, <3>3 DEF ProbeKnown
  <2>3. CASE ~(Whole(capture) /\ BytesFit(capture.size, Most.capture) /\ capture.accepted)
    <3>1. step' = "over" /\ result' = "probe" BY <1>2, <2>3 DEF ReadCapture, End
    <3>2. ~Since(Recorded)' BY <3>1 DEF Since, Recorded, Documented, Compared
    <3> QED BY <1>0, <2>1, <3>2 DEF ProbeKnown
  <2> QED BY <2>2, <2>3
<1>3. CASE Version
  <2>1. UNCHANGED capture /\ step = "version" BY <1>3 DEF Version, Answer, At
  <2>2. ~Since(Recorded) /\ ~ReadCapture
    BY <1>0, <2>1 DEF Since, Recorded, Documented, Compared, ReadCapture, At
  <2>3. ~Since(Recorded)' BY <2>2, Onward
  <2> QED BY <1>0, <2>1, <2>3 DEF ProbeKnown
<1>4. CASE Configuration
  <2>1. UNCHANGED capture /\ step = "configuration" BY <1>4 DEF Configuration, Answer, At
  <2>2. /\ capture \in Records /\ capture.accepted
        /\ "cfg" \in DOMAIN facts /\ capture.cfg \subseteq facts.cfg
    BY <1>0, <2>1 DEF ProbeKnown, Since, Recorded, Documented
  <2>3. facts' = facts \/ facts' = [facts EXCEPT !.cfg = @ \cup {"doc", document.triple}]
    BY <1>4 DEF Configuration
  <2>4. "cfg" \in DOMAIN facts' /\ capture.cfg \subseteq facts'.cfg BY <2>2, <2>3
  <2> QED BY <1>0, <2>1, <2>2, <2>4 DEF ProbeKnown
<1>5. CASE /\ ~(\E p \in Prober : \E left \in Records \cup {Torn} : WriteCapture(p, left))
           /\ ~ReadCapture /\ ~Version /\ ~Configuration
  <2>1. UNCHANGED <<capture, facts>>
    BY <1>5 DEF ExtractionNext, Extract, Around, Begin, Locate, PackageId, Answer, ReadMetadata, Identify,
       StartProbe, EndProbe, EndRustdoc, ReadJson, Verify, Collect, Translate, HandOver, Stopped,
       EnterProbe, RustdocReads, Edit, request
  <2>2. Since(Recorded)' => Since(Recorded) BY <1>5, Onward
  <2> QED BY <1>0, <2>1, <2>2 DEF ProbeKnown
<1> QED BY <1>1, <1>2, <1>3, <1>4, <1>5

LEMMA CrateIsKnown == ASSUME ExtractionInv, ExtractionNext PROVE CrateKnown'
<1>0. StepKnown /\ CrateKnown /\ step # "over" /\ result = "none" BY Onward, NotExtracted DEF ExtractionInv
<1>1. UNCHANGED call
  BY DEF ExtractionNext, Extract, Around, Begin, Locate, PackageId, Answer, ReadMetadata, Identify,
     Version, StartProbe, EndProbe, ReadCapture, EndRustdoc, ReadJson, Configuration, Verify, Collect,
     Translate, HandOver, Stopped, EnterProbe, WriteCapture, RustdocReads, Edit, request
<1>2. (Since(Selecting \cup Identified) => Decision(call) \notin {"refused", "syntax"})'
  <2>1. CASE Begin
    <3>1. Decision(call) \in {"refused", "syntax"} => step' = "over" /\ result' = Decision(call)
      BY <2>1 DEF Begin, End
    <3> QED BY <1>1, <3>1 DEF Since, Selecting, Identified, Recorded, Documented, Compared
  <2>2. CASE ~Begin BY <1>0, <1>1, <2>2, Onward DEF CrateKnown
  <2> QED BY <2>1, <2>2
<1>3. (Since(Identified) => Crate.root = Logical(RootPath) /\ Crate.kind = target.kind)'
  <2>1. CASE Identify
    <3>1. UNCHANGED target BY <2>1 DEF Identify, request
    <3>2. Since(Identified)' => Crate.root = Logical(RootPath) /\ Crate.kind = target.kind
      BY <1>0, <2>1 DEF Identify, At, Ok, Proceed, End, Since, Identified, Recorded, Documented, Compared
    <3> QED BY <1>1, <3>1, <3>2 DEF Crate, RootPath
  <2>2. CASE ReadMetadata("metadata", "resolve") \/ ReadMetadata("resolve", "identify")
    <3>1. ~Since(Identified) /\ ~Identify
      BY <1>0, <2>2 DEF ReadMetadata, Identify, At, Since, Identified, Recorded, Documented, Compared
    <3> QED BY <3>1, Onward
  <2>3. CASE ~Identify /\ ~(ReadMetadata("metadata", "resolve") \/ ReadMetadata("resolve", "identify"))
    <3>1. UNCHANGED target
      BY <2>3 DEF ExtractionNext, Extract, Around, Begin, Locate, PackageId, Answer,
         Version, StartProbe, EndProbe, ReadCapture, EndRustdoc, ReadJson, Configuration, Verify, Collect,
         Translate, HandOver, Stopped, EnterProbe, WriteCapture, RustdocReads, Edit, request
    <3>2. Since(Identified)' => Since(Identified) BY <2>3, Onward
    <3> QED BY <1>0, <1>1, <3>1, <3>2 DEF CrateKnown, Crate, RootPath
  <2> QED BY <2>1, <2>2, <2>3
<1>4. (result = "extracted" => (Decision(call) = "validate" => ContextAgrees(call.layout, Artifact)))'
  <2> SUFFICES ASSUME result' = "extracted", Decision(call') = "validate"
               PROVE  ContextAgrees(call.layout, Artifact)'
    OBVIOUS
  <2>1. HandOver BY Onward
  <2>2. UNCHANGED <<call, target, facts, document, mapped>> BY <2>1 DEF HandOver, request
  <2>3. ContextAgrees(call.layout, Artifact) BY <1>1, <2>1 DEF HandOver, End
  <2>4. Artifact' = Artifact BY <2>2 DEF Artifact, Crate, RootPath
  <2> QED BY <2>2, <2>3, <2>4
<1> QED BY <1>2, <1>3, <1>4 DEF CrateKnown

LEMMA FiniteInSequence == ASSUME NEW T, IsFiniteSet(T) PROVE SetToSeq(T) \in Seq(T)
<1>1. PICK n \in Nat : ExistsBijection(1..n, T) BY FS_NatBijection
<1>2. Cardinality(T) = n BY <1>1, FS_CountingElements
<1>3. \E f \in [1..n -> T] : IsInjective(f)
  BY <1>1 DEF ExistsBijection, Bijection, Injection
<1>4. SetToSeq(T) \in [1..n -> T] BY <1>2, <1>3 DEF SetToSeq
<1> QED BY <1>4

\* At most one candidate comes of an item.
LEMMA CandidatesAreFinite == \A item : IsFiniteSet(Candidates(item))
<1> SUFFICES ASSUME NEW item PROVE IsFiniteSet(Candidates(item)) OBVIOUS
<1>1. \E x : Candidates(item) \subseteq {x}
  <2>1. CASE ~item.local BY <2>1 DEF Candidates
  <2>2. CASE item.local /\ item.span = NoSpan BY <2>2 DEF Candidates
  <2>3. CASE item.local /\ item.span # NoSpan
    <3>1. Candidates(item) =
            {[item |-> item.id, exact |-> TRUE, file |-> f, span |-> item.span] : f \in Sources(item.span)}
      BY <2>3 DEF Candidates
    <3>2. Sources(item.span) \subseteq {Logical(Canonical(Spelled(item.span)))} BY DEF Sources
    <3> DEFINE f == Logical(Canonical(Spelled(item.span)))
               x == [item |-> item.id, exact |-> TRUE, file |-> f, span |-> item.span]
    <3>3. \A g \in Sources(item.span) : g = f BY <3>2
    <3>4. Candidates(item) \subseteq {x} BY <3>1, <3>3
    <3> QED BY <3>4
  <2> QED BY <2>1, <2>2, <2>3
<1> QED BY <1>1, FS_Singleton, FS_Subset

LEMMA DocumentIsKnown == ASSUME ExtractionInv, ExtractionNext PROVE DocumentKnown'
<1>0. /\ StepKnown /\ DocumentKnown /\ step # "over" /\ result = "none"
      /\ DOMAIN counted = Counters
  BY Onward, NotExtracted DEF ExtractionInv, CountersKnown
<1>1. (Since(Documented) => document \in Documents)'
  <2>1. CASE EndRustdoc
    <3>1. document' \in Documents \/ (step' = "over" /\ result' = "cargo")
      BY <2>1 DEF EndRustdoc, Proceed, End
    <3> QED BY <3>1 DEF Since, Documented, Compared
  <2>2. CASE ~EndRustdoc
    <3>1. UNCHANGED document
      BY <2>2 DEF ExtractionNext, Extract, Around, Begin, Locate, PackageId, Answer, ReadMetadata, Identify,
         Version, StartProbe, EndProbe, ReadCapture, ReadJson, Configuration, Verify, Collect,
         Translate, HandOver, Stopped, EnterProbe, WriteCapture, RustdocReads, Edit, request
    <3>2. Since(Documented)' => Since(Documented) BY <2>2, Onward
    <3> QED BY <1>0, <3>1, <3>2 DEF DocumentKnown
  <2> QED BY <2>1, <2>2
<1>2. ("reads" \in DOMAIN counted /\ counted["reads"] \in Nat)'
  <2> USE DEF Counters
  <2>1. CASE ReadMetadata("metadata", "resolve") \/ ReadMetadata("resolve", "identify")
    <3>1. UNCHANGED counted \/ \E metadata \in Metadata : counted' = CountMetadata(metadata)
      BY <2>1 DEF ReadMetadata
    <3>2. DOMAIN counted' = DOMAIN counted /\ counted'["reads"] = counted["reads"]
      BY <1>0, <3>1 DEF CountMetadata
    <3> QED BY <1>0, <3>2 DEF DocumentKnown
  <2>2. CASE ReadCapture
    <3>1. UNCHANGED counted \/ counted' = CountBytes(capture.size, Most.capture)
      BY <2>2 DEF ReadCapture
    <3>2. DOMAIN counted' = DOMAIN counted /\ counted'["reads"] = counted["reads"]
      BY <1>0, <3>1 DEF CountBytes
    <3> QED BY <1>0, <3>2 DEF DocumentKnown
  <2>3. CASE ReadJson
    <3> DEFINE taken == CountBytes(document.size, Most.bytes)
    <3>1. \E n : counted' = [counted EXCEPT !.items = n] \/ counted' = [taken EXCEPT !.items = n]
      BY <2>3 DEF ReadJson
    <3>2. DOMAIN taken = DOMAIN counted /\ taken["reads"] = counted["reads"]
      BY <1>0 DEF CountBytes
    <3> HIDE DEF taken
    <3>3. DOMAIN counted' = DOMAIN counted /\ counted'["reads"] = counted["reads"]
      BY <1>0, <3>1, <3>2
    <3> QED BY <1>0, <3>3 DEF DocumentKnown
  <2>4. CASE Verify
    <3>1. UNCHANGED counted \/ counted' = [counted EXCEPT !.reads = @ + 1] BY <2>4 DEF Verify
    <3>2. DOMAIN counted' = DOMAIN counted
          /\ (counted'["reads"] = counted["reads"] \/ counted'["reads"] = counted["reads"] + 1)
      BY <1>0, <3>1
    <3> QED BY <1>0, <3>2 DEF DocumentKnown
  <2>5. CASE Translate
    <3>1. UNCHANGED counted \/ counted' = [counted EXCEPT !.mappings = @ + Len(pending)]
      BY <2>5 DEF Translate
    <3>2. DOMAIN counted' = DOMAIN counted /\ counted'["reads"] = counted["reads"] BY <1>0, <3>1
    <3> QED BY <1>0, <3>2 DEF DocumentKnown
  <2>6. CASE /\ ~ReadCapture /\ ~ReadJson /\ ~Verify /\ ~Translate
             /\ ~(ReadMetadata("metadata", "resolve") \/ ReadMetadata("resolve", "identify"))
    <3>1. UNCHANGED counted
      BY <2>6 DEF ExtractionNext, Extract, Around, Begin, Locate, PackageId, Answer, Identify, Version,
         StartProbe, EndProbe, EndRustdoc, Configuration, Collect, HandOver, Stopped,
         EnterProbe, WriteCapture, RustdocReads, Edit
    <3> QED BY <1>0, <3>1 DEF DocumentKnown
  <2> QED BY <2>1, <2>2, <2>3, <2>4, <2>5, <2>6
<1> QED BY <1>1, <1>2 DEF DocumentKnown

LEMMA CountersAreKnown == ASSUME ExtractionInv, ExtractionNext PROVE CountersKnown'
<1>0. /\ StepKnown /\ DocumentKnown /\ CountersKnown /\ step # "over" /\ result = "none"
      /\ step' = "over" /\ ~HandOver => result' # "extracted"
      /\ DOMAIN counted = Counters /\ \A c \in Counters : counted[c] <= Most[c] /\ Most[c] \in Nat
  BY ExtractionBounds, Onward, NotExtracted DEF ExtractionInv, CountersKnown, Counters
<1>1. CASE Collect
  <2>1. /\ UNCHANGED counted /\ step = "collect" /\ step' # "over" /\ step' # "handover"
        /\ \/ UNCHANGED pending
           \/ pending' = pending \o SetToSeq(Candidates(document.items[seen + 1]))
    BY <1>1 DEF Collect, At, Proceed
  <2>2. \E S : pending' \in Seq(S)
    <3>1. PICK S : pending \in Seq(S) BY <1>0 DEF CountersKnown
    <3> DEFINE T == Candidates(document.items[seen + 1])
    <3>2. SetToSeq(T) \in Seq(T) BY CandidatesAreFinite, FiniteInSequence
    <3> HIDE DEF T
    <3>3. pending \o SetToSeq(T) \in Seq(S \cup T)
      <4>1. pending \in Seq(S \cup T) BY <3>1
      <4>2. SetToSeq(T) \in Seq(S \cup T) BY <3>2
      <4> QED BY <4>1, <4>2
    <3> QED BY <2>1, <3>1, <3>3 DEF T
  <2> QED BY <1>0, <2>1, <2>2 DEF CountersKnown
<1>2. CASE Translate
  <2>0. UNCHANGED pending /\ step = "translate" /\ ~HandOver BY <1>2 DEF Translate, At, HandOver
  <2>1. CASE {i \in DOMAIN pending : Flaw(i) # "none"} = {}
    <3>1. counted' = [counted EXCEPT !.mappings = @ + Len(pending)] /\ step' = "handover"
      BY <1>2, <2>1 DEF Translate, Proceed
    <3>2. counted.mappings = 0 BY <1>0, <2>0 DEF CountersKnown
    <3>3. counted.mappings + Len(pending) <= Most.mappings
      <4>1. Len(pending) \in Nat /\ DOMAIN pending = 1..Len(pending) BY <1>0 DEF CountersKnown
      <4>2. CASE Len(pending) = 0 BY <1>0, <3>2, <4>2 DEF Counters
      <4>3. CASE Len(pending) # 0
        <5>1. Len(pending) \in DOMAIN pending BY <4>1, <4>3
        <5>2. Flaw(Len(pending)) = "none" BY <2>1, <5>1
        <5>3. ~(counted.mappings + Len(pending) > Most.mappings) BY <5>2 DEF Flaw
        <5>4. Most.mappings \in Nat BY <1>0 DEF Counters
        <5> QED BY <3>2, <4>1, <5>3, <5>4
      <4> QED BY <4>2, <4>3
    <3>4. DOMAIN counted' = Counters BY <1>0, <3>1
    <3>5. \A c \in Counters : counted'[c] <= Most[c] BY <1>0, <3>1, <3>3
    <3> QED BY <1>0, <2>0, <3>1, <3>4, <3>5 DEF CountersKnown
  <2>2. CASE {i \in DOMAIN pending : Flaw(i) # "none"} # {}
    <3>1. UNCHANGED counted /\ step' = "over" BY <1>2, <2>2 DEF Translate, End
    <3> QED BY <1>0, <2>0, <3>1 DEF CountersKnown
  <2> QED BY <2>1, <2>2
<1>3. CASE ReadMetadata("metadata", "resolve") \/ ReadMetadata("resolve", "identify")
  <2>0. UNCHANGED pending /\ ~HandOver /\ step # "handover" BY <1>3 DEF ReadMetadata, At, HandOver
  <2>1. \/ UNCHANGED counted /\ step' = "over"
        \/ \E metadata \in Metadata :
              /\ counted' = CountMetadata(metadata)
              /\ step' = "over" \/ (MetadataFits(counted') /\ step' \in {"resolve", "identify"})
    BY <1>3 DEF ReadMetadata, End, Ok, Proceed
  <2>2. CASE UNCHANGED counted /\ step' = "over" BY <1>0, <2>0, <2>2 DEF CountersKnown
  <2>3. ASSUME NEW metadata \in Metadata, counted' = CountMetadata(metadata),
               step' = "over" \/ (MetadataFits(counted') /\ step' \in {"resolve", "identify"})
        PROVE  CountersKnown'
    <3>1. /\ DOMAIN counted' = Counters
          /\ \A c \in Counters \ {"packages", "targets"} : counted'[c] = counted[c]
      BY <1>0, <2>3 DEF CountMetadata
    <3>2. CASE step' = "over" BY <1>0, <2>0, <3>1, <3>2 DEF CountersKnown
    <3>3. CASE MetadataFits(counted') /\ step' \in {"resolve", "identify"}
      <4>1. counted'["packages"] <= Most["packages"] /\ counted'["targets"] <= Most["targets"]
        BY <3>3 DEF MetadataFits
      <4>2. \A c \in Counters : counted'[c] <= Most[c] BY <1>0, <3>1, <4>1
      <4>3. counted'.mappings = 0 BY <1>0, <2>0, <3>1 DEF CountersKnown, Counters
      <4> QED BY <1>0, <2>0, <3>1, <3>3, <4>2, <4>3 DEF CountersKnown
    <3> QED BY <2>3, <3>2, <3>3
  <2> QED BY <2>1, <2>2, <2>3
<1>4. CASE ReadCapture
  <2>0. UNCHANGED pending /\ ~HandOver /\ step = "capture" BY <1>4 DEF ReadCapture, At, HandOver
  <2>1. /\ counted' = (IF capture = NoCapture THEN counted ELSE CountBytes(capture.size, Most.capture))
        /\ step' = "over" \/ (step' = "rustdoc" /\ Whole(capture) /\ BytesFit(capture.size, Most.capture))
    BY <1>4 DEF ReadCapture, Proceed, End
  <2>2. /\ DOMAIN counted' = Counters
        /\ \A c \in Counters \ {"bytes"} : counted'[c] = counted[c]
    BY <1>0, <2>1 DEF CountBytes
  <2>3. CASE step' = "over" BY <1>0, <2>0, <2>2, <2>3 DEF CountersKnown
  <2>4. CASE step' = "rustdoc" /\ Whole(capture) /\ BytesFit(capture.size, Most.capture)
    <3>1. counted'["bytes"] <= Most["bytes"] BY <2>1, <2>4 DEF Whole, BytesFit
    <3>2. \A c \in Counters : counted'[c] <= Most[c] BY <1>0, <2>2, <3>1
    <3>3. counted'.mappings = 0 BY <1>0, <2>0, <2>2 DEF CountersKnown, Counters
    <3> QED BY <1>0, <2>0, <2>2, <2>4, <3>2, <3>3 DEF CountersKnown
  <2> QED BY <2>1, <2>3, <2>4
<1>5. CASE ReadJson
  <2> DEFINE found == document.copies = 1
             taken == CountBytes(document.size, Most.bytes)
             fits == found /\ BytesFit(document.size, Most.bytes)
             decoded == fits /\ document.valid /\ document.private = (target.kind = "binary")
             items == IF decoded THEN Len(document.items) ELSE 0
  <2>0. UNCHANGED pending /\ ~HandOver /\ step = "json" BY <1>5 DEF ReadJson, At, HandOver
  <2>1. counted' = [(IF found THEN taken ELSE counted) EXCEPT !.items = items]
    BY <1>5 DEF ReadJson
  <2>2. step' = "over" \/ (step' = "configuration" /\ decoded /\ ~(counted'.items > Most.items))
    BY <1>5 DEF ReadJson, End, Ok, Proceed
  <2>3. found /\ BytesFit(document.size, Most.bytes) => taken.bytes <= Most.bytes BY DEF BytesFit
  <2>4. DOMAIN taken = Counters /\ \A c \in Counters \ {"bytes"} : taken[c] = counted[c]
    BY <1>0 DEF CountBytes
  <2>5. decoded => fits /\ items = Len(document.items) OBVIOUS
  <2> HIDE DEF taken, decoded, items, found
  <2>6. /\ DOMAIN counted' = Counters
        /\ \A c \in Counters \ {"bytes", "items"} : counted'[c] = counted[c]
        /\ found => counted'["bytes"] = taken["bytes"]
    BY <1>0, <2>1, <2>4 DEF Counters
  <2>7. CASE step' = "over" BY <1>0, <2>0, <2>6, <2>7 DEF CountersKnown
  <2>8. CASE step' = "configuration" /\ decoded /\ ~(counted'.items > Most.items)
    <3>1. counted'["bytes"] <= Most["bytes"] BY <2>3, <2>5, <2>6, <2>8
    <3>2. counted'["items"] <= Most["items"]
      <4>1. counted'.items = Len(document.items) BY <1>0, <2>1, <2>4, <2>5, <2>8 DEF Counters
      <4>2. Len(document.items) \in Nat
        BY <1>0, <2>0, ExtractionBounds DEF DocumentKnown, Since, Documented
      <4>3. Most["items"] \in Nat BY <1>0 DEF Counters
      <4> QED BY <2>8, <4>1, <4>2, <4>3
    <3>3. \A c \in Counters : counted'[c] <= Most[c] BY <1>0, <2>6, <3>1, <3>2
    <3>4. counted'.mappings = 0 BY <1>0, <2>0, <2>6 DEF CountersKnown, Counters
    <3> QED BY <1>0, <2>0, <2>6, <2>8, <3>3, <3>4 DEF CountersKnown
  <2> QED BY <2>2, <2>7, <2>8
<1>6. CASE Verify
  <2>0. UNCHANGED pending /\ ~HandOver /\ step = "verify" BY <1>6 DEF Verify, At, HandOver
  <2>1. \/ UNCHANGED counted /\ step' = "collect"
        \/ /\ counted' = [counted EXCEPT !.reads = @ + 1]
           /\ step' = "over" \/ (step' = "verify" /\ ~(counted'.reads > Most.reads))
    BY <1>6 DEF Verify, End, Ok, Proceed
  <2>2. counted.mappings = 0 BY <1>0, <2>0 DEF CountersKnown
  <2>3. CASE UNCHANGED counted /\ step' = "collect" BY <1>0, <2>0, <2>2, <2>3 DEF CountersKnown
  <2>4. CASE /\ counted' = [counted EXCEPT !.reads = @ + 1]
             /\ step' = "over" \/ (step' = "verify" /\ ~(counted'.reads > Most.reads))
    <3>1. DOMAIN counted' = Counters /\ \A c \in Counters \ {"reads"} : counted'[c] = counted[c]
      BY <1>0, <2>4
    <3>2. CASE step' = "over" BY <1>0, <2>0, <3>1, <3>2 DEF CountersKnown
    <3>3. CASE step' = "verify" /\ ~(counted'.reads > Most.reads)
      <4>1. counted'["reads"] <= Most["reads"]
        <5>1. counted["reads"] \in Nat /\ Most["reads"] \in Nat BY <1>0 DEF DocumentKnown, Counters
        <5>2. counted'["reads"] = counted["reads"] + 1 BY <1>0, <2>4 DEF Counters
        <5> QED BY <3>3, <5>1, <5>2
      <4>2. \A c \in Counters : counted'[c] <= Most[c] BY <1>0, <3>1, <4>1
      <4> QED BY <1>0, <2>0, <2>2, <3>1, <3>3, <4>2 DEF CountersKnown, Counters
    <3> QED BY <2>4, <3>2, <3>3
  <2> QED BY <2>1, <2>3, <2>4
<1>7. CASE /\ ~Collect /\ ~Translate /\ ~ReadCapture /\ ~ReadJson /\ ~Verify
           /\ ~(ReadMetadata("metadata", "resolve") \/ ReadMetadata("resolve", "identify"))
  <2>1. UNCHANGED <<counted, pending>>
    BY <1>7 DEF ExtractionNext, Extract, Around, Begin, Locate, PackageId, Answer, Identify, Version,
       StartProbe, EndProbe, EndRustdoc, Configuration, HandOver, Stopped,
       EnterProbe, WriteCapture, RustdocReads, Edit
  <2>2. step' \notin {"over", "handover"} => step \notin {"over", "handover"}
    BY <1>0, <1>7 DEF ExtractionNext, Extract, Around, Begin, Locate, PackageId, Answer, Identify, Version,
       StartProbe, EndProbe, EndRustdoc, Configuration, HandOver, Stopped, End, At,
       EnterProbe, WriteCapture, RustdocReads, Edit
  <2> QED BY <1>0, <2>1, <2>2 DEF CountersKnown
<1> QED BY <1>1, <1>2, <1>3, <1>4, <1>5, <1>6, <1>7

LEMMA ExtractionStarts == ExtractionInit => ExtractionInv
<1> SUFFICES ASSUME ExtractionInit PROVE ExtractionInv OBVIOUS
<1> USE DEF ExtractionInit, Unbegun
<1>1. StepKnown BY DEF StepKnown
<1>2. SourcesKnown
  BY ExtractionBounds DEF SourcesKnown, VersionsKnown, Since, Documented, Compared, Removed, Unread
<1>3. ProbeKnown BY DEF ProbeKnown, Since, Recorded, Documented, Compared
<1>4. CrateKnown
  BY DEF CrateKnown, Since, Selecting, Identified, Recorded, Documented, Compared
<1>5. DocumentKnown BY ExtractionBounds DEF DocumentKnown, Since, Documented, Compared
<1>6. CountersKnown
  <2>1. call \in Call /\ call.reads <= Most.reads BY ExtractionBounds
  <2>2. \A c \in Counters : Most[c] \in Nat BY ExtractionBounds DEF Counters
  <2>3. DOMAIN counted = Counters BY DEF Counters
  <2>4. \A c \in Counters : counted[c] <= Most[c] BY <2>1, <2>2 DEF Counters
  <2>5. pending \in Seq({}) OBVIOUS
  <2> QED BY <2>3, <2>4, <2>5 DEF CountersKnown
<1> QED BY <1>1, <1>2, <1>3, <1>4, <1>5, <1>6 DEF ExtractionInv

LEMMA ExtractionKeepsInv == ExtractionInv /\ [ExtractionNext]_extraction => ExtractionInv'
<1>1. ASSUME ExtractionInv, ExtractionNext PROVE ExtractionInv'
  BY <1>1, StepsAreKnown, SourcesAreKnown, ProbeIsKnown, CrateIsKnown,
     DocumentIsKnown, CountersAreKnown DEF ExtractionInv
<1>2. ASSUME ExtractionInv, UNCHANGED extraction PROVE ExtractionInv'
  <2>1. UNCHANGED <<step, call, target, facts, capture, document, counted, files, edits, documented,
                    verified, pending, mapped, result>>
    BY <1>2 DEF extraction, request, disk
  <2>2. StepKnown' /\ ProbeKnown' /\ DocumentKnown' /\ CountersKnown'
    BY <1>2, <2>1 DEF ExtractionInv, StepKnown, ProbeKnown, DocumentKnown, CountersKnown, Since
  <2>3. SourcesKnown' BY <1>2, <2>1 DEF ExtractionInv, SourcesKnown, VersionsKnown, Since
  <2>4. CrateKnown' BY <1>2, <2>1 DEF ExtractionInv, CrateKnown, Since, Crate, RootPath, Artifact
  <2> QED BY <2>2, <2>3, <2>4 DEF ExtractionInv
<1> QED BY <1>1, <1>2

LEMMA ExtractionInvHolds == ExtractionSpec => []ExtractionInv
<1>1. ExtractionInit => ExtractionInv BY ExtractionStarts
<1> QED BY <1>1, ExtractionKeepsInv, PTL DEF ExtractionSpec

\* Whoever edits or removes sources while rustdoc reads them: if the comparison that
\* comes after it finds the snapshot, rustdoc has read the snapshot.
THEOREM SnapshotDocumented == ExtractionSpec => []SnapshotIsDocumented
<1>1. ExtractionInv => SnapshotIsDocumented BY DEF ExtractionInv, SourcesKnown, Since, SnapshotIsDocumented
<1> QED BY <1>1, ExtractionInvHolds, PTL

\* However the processes that Cargo starts in rustdoc's place race for the capture
\* file: what is used was recorded whole and accepted.
THEOREM ProbeAccepted == ExtractionSpec => []ProbeIsAccepted
<1>1. ExtractionInv => ProbeIsAccepted BY DEF ExtractionInv, ProbeKnown, Since, ProbeIsAccepted
<1> QED BY <1>1, ExtractionInvHolds, PTL

\* Whatever cargo metadata answers, the first or the second time: the crate is the
\* declared one, in the declared context.
THEOREM CrateDeclared == ExtractionSpec => []CrateIsDeclared
<1>1. ASSUME ExtractionInv PROVE CrateIsDeclared
  <2> SUFFICES ASSUME result = "extracted"
               PROVE  /\ ~Inferring(call) => LET crate == ExpectedCrates(call)[1]
                                            IN crate.root = Logical(RootPath) /\ crate.kind = target.kind
                      /\ call.layout.kind = "compiler" => call.layout.context = Artifact.context
    BY DEF CrateIsDeclared
  <2>1. /\ Crate.root = Logical(RootPath) /\ Crate.kind = target.kind
        /\ Decision(call) \notin {"refused", "syntax"}
        /\ Decision(call) = "validate" => ContextAgrees(call.layout, Artifact)
    BY <1>1 DEF ExtractionInv, CrateKnown, Since
  <2>2. ~Inferring(call) => Crate = ExpectedCrates(call)[1] BY DEF Crate
  <2>3. call.layout.kind = "compiler" => Decision(call) = "validate" BY <2>1 DEF Decision, Reconcile
  <2>4. Decision(call) = "validate" => call.layout.context = Artifact.context BY <2>1 DEF ContextAgrees
  <2> QED BY <2>1, <2>2, <2>3, <2>4
<1> QED BY <1>1, ExtractionInvHolds, PTL

\* Whatever Cargo, the probe and rustdoc answer: nothing is handed over that exceeds
\* a limit of the extraction.
THEOREM BudgetsKept == ExtractionSpec => []BudgetsAreKept
<1>1. ExtractionInv => BudgetsAreKept BY DEF ExtractionInv, CountersKnown, BudgetsAreKept
<1> QED BY <1>1, ExtractionInvHolds, PTL
=============================================================================

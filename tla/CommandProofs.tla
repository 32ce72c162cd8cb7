---------------------------- MODULE CommandProofs ----------------------------
(***************************************************************************)
(* For any number of archive commands, in any number of process-identifier *)
(* namespaces, and any failures and kills: an archive is never replaced,   *)
(* nobody touches the temporary of another command, and what a command     *)
(* answers is what is in the directory.  And for any sequence of commands  *)
(* over any contracts root, sources, budgets and archive: what a command   *)
(* loads, tells the kits, pays for, writes and says is what it should be,  *)
(* and the commands after it accept what it leaves.                        *)
(***************************************************************************)
EXTENDS ArchivePublication, ContractCommands, FoldProofs, FiniteSetTheorems, TLAPS

Early == {"name", "create", "temporary"}
Writing == {"write", "sync", "link", "cleanup"}
Linked == {"linked", "withdraw"}
Replies == {"published", "withdrawn", "uncleaned", "failed"}

TypeOK ==
    /\ dir \in [Names -> Process \cup {Free, Foreign}]
    /\ data \in [Process -> {"none", "torn", "written", "synced"}]
    /\ pc \in [Process -> Early \cup Writing \cup Linked \cup {"drop", "done"}]
    /\ archive \in [Process -> Archives \cup {NoName}]
    /\ temp \in [Process -> Temporaries \cup {NoName}]
    /\ collision \in [Process -> 0..MaxCollision + MaxTemporary + 1]
    /\ state \in [Process -> {"none", "open", "closed", "cleaned"}]
    /\ canceled \in [Process -> BOOLEAN]
    /\ outcome \in [Process -> Replies \cup {"none", "killed"}]

\* A command that has created its temporary has not lost it, and holds no other
\* entry than it and the archive it has linked.
Holding(q) ==
    /\ pc[q] \in Early => Entry(q) = {} /\ state[q] = "none"
    /\ pc[q] \in {"create", "temporary"} => archive[q] \in Archives
    /\ pc[q] \in Writing \cup Linked => archive[q] \in Archives /\ temp[q] \in Temporaries
    /\ pc[q] \in Writing => Entry(q) = {temp[q]} /\ state[q] \in {"open", "closed"}
    /\ pc[q] \in Linked => Entry(q) = {archive[q], temp[q]}
    /\ pc[q] \in {"link", "cleanup"} \cup Linked => state[q] = "closed"
    /\ pc[q] \in {"link"} \cup Linked => data[q] = "synced"

\* What is left where an answer has been given: the answer, and whether the
\* publication's drop still has the temporary to remove.
Answered(q) ==
    /\ pc[q] \in {"drop", "done"} => outcome[q] \in Replies \cup {"killed"}
    /\ pc[q] = "drop" =>
          /\ outcome[q] # "killed"
          /\ outcome[q] = "published" =>
               Entry(q) = {archive[q]} /\ archive[q] \in Archives /\ state[q] = "cleaned"
          /\ outcome[q] = "failed" => Entry(q) = {} /\ state[q] \in {"none", "cleaned"}
          /\ outcome[q] = "withdrawn" => Entry(q) = {temp[q]}
          /\ outcome[q] \in {"withdrawn", "uncleaned"} =>
               temp[q] \in Temporaries /\ dir[temp[q]] = q /\ state[q] = "closed"
    /\ pc[q] = "done" =>
          /\ outcome[q] = "published" => Entry(q) = {archive[q]}
          /\ outcome[q] = "withdrawn" => Entry(q) \cap Archives = {}
          /\ outcome[q] = "failed" => Entry(q) = {}

\* What stands under an archive name is complete; nobody else's file stands
\* under the name of a temporary.
Complete ==
    /\ \A a \in Archives, q \in Process : dir[a] = q => data[q] = "synced"
    /\ \A t \in Temporaries : dir[t] # Foreign
IInv == TypeOK /\ Complete /\ \A q \in Process : Holding(q) /\ Answered(q)

-----------------------------------------------------------------------------
(* Names *)

\* An archive name is no temporary name, and both are names.
LEMMA NamesApart ==
    /\ Archives \subseteq Names /\ Temporaries \subseteq Names
    /\ \A a \in Archives, t \in Temporaries : a # t
BY DEF Archives, Temporaries, Names

\* The temporary a command tries is the temporary of an archive name.
LEMMA TemporaryNamed ==
    ASSUME NEW q \in Process, archive[q] \in Archives, collision[q] \in 0..MaxTemporary
    PROVE  Temporary(q) \in Temporaries
BY DEF Temporary, Archives, Temporaries

\* Commands are no entries of their own.
LEMMA NobodyIsFree == \A q \in Process : q # Free /\ q # Foreign
BY Entries

-----------------------------------------------------------------------------
(* What one command does, the others do not feel. *)

\* Only the entries and the variables of q change.
OnlyOwn(q) ==
    /\ \A n \in Names : dir'[n] # dir[n] => {dir[n], dir'[n]} \subseteq {q, Free}
    /\ \A r \in Process \ {q} :
         /\ pc'[r] = pc[r] /\ archive'[r] = archive[r] /\ temp'[r] = temp[r]
         /\ state'[r] = state[r] /\ outcome'[r] = outcome[r] /\ data'[r] = data[r]

\* The others keep what they hold, and the directory stays complete as long as
\* q has no archive that is not synchronized.
LEMMA OthersKept ==
    ASSUME IInv, TypeOK', NEW q \in Process, OnlyOwn(q),
           Holding(q)', Answered(q)',
           \A a \in Archives : dir'[a] = q => data'[q] = "synced"
    PROVE  IInv'
<1> USE NobodyIsFree
<1>1. ASSUME NEW r \in Process \ {q} PROVE Entry(r)' = Entry(r)
  BY DEF OnlyOwn, Entry
<1>2. ASSUME NEW r \in Process \ {q} PROVE Holding(r)' /\ Answered(r)'
  <2>1. /\ pc'[r] = pc[r] /\ archive'[r] = archive[r] /\ temp'[r] = temp[r]
        /\ state'[r] = state[r] /\ outcome'[r] = outcome[r] /\ data'[r] = data[r]
    BY DEF OnlyOwn
  <2>2. Holding(r)' BY <1>1, <2>1 DEF IInv, Holding
  <2>3. temp[r] \in Temporaries /\ dir[temp[r]] = r => dir'[temp[r]] = r
    BY NamesApart DEF OnlyOwn
  <2>4. Answered(r)' BY <1>1, <2>1, <2>3 DEF IInv, Answered
  <2> QED BY <2>2, <2>4
<1>3. Complete'
  <2>1. ASSUME NEW a \in Archives, NEW r \in Process, dir'[a] = r PROVE data'[r] = "synced"
    <3>1. CASE r = q BY <2>1, <3>1
    <3>2. CASE r # q
      <4>1. dir[a] = r /\ data'[r] = data[r] BY <2>1, <3>2, NamesApart DEF OnlyOwn
      <4> QED BY <4>1 DEF IInv, Complete
    <3> QED BY <3>1, <3>2
  <2>2. ASSUME NEW t \in Temporaries PROVE dir'[t] # Foreign
    BY NamesApart, Entries DEF OnlyOwn, IInv, Complete
  <2> QED BY <2>1, <2>2 DEF Complete
<1> QED BY <1>2, <1>3 DEF IInv

\* Steps that leave the directory alone.
LEMMA SameEntries == ASSUME UNCHANGED dir, NEW q \in Process PROVE Entry(q)' = Entry(q)
BY DEF Entry

\* A step takes the name n for q.
LEMMA Taken ==
    ASSUME IInv, NEW q \in Process, NEW n \in Names, dir[n] = Free, Holds(q, n)
    PROVE  /\ Entry(q)' = Entry(q) \cup {n} /\ dir'[n] = q
           /\ dir' \in [Names -> Process \cup {Free, Foreign}]
           /\ \A k \in Names : dir'[k] # dir[k] => {dir[k], dir'[k]} \subseteq {q, Free}
BY DEF Holds, Entry, IInv, TypeOK

\* A step frees the name n, which q holds.
LEMMA Freed ==
    ASSUME IInv, NEW q \in Process, NEW n \in Names, dir[n] = q, Frees(n)
    PROVE  /\ Entry(q)' = Entry(q) \ {n}
           /\ dir' \in [Names -> Process \cup {Free, Foreign}]
           /\ \A k \in Names : dir'[k] # dir[k] => {dir[k], dir'[k]} \subseteq {q, Free}
BY NobodyIsFree DEF Frees, Entry, IInv, TypeOK

\* The end of the command of q: an answer, with the directory as it is.
LEMMA AnswerKept ==
    ASSUME IInv, NEW q \in Process, NEW reply \in Replies, Answer(q, reply),
           UNCHANGED <<dir, data, archive, temp, state, canceled>>, TypeOK',
           reply \in {"failed", "uncleaned"},
           reply = "failed" => Entry(q) = {} /\ state[q] = "none",
           reply = "uncleaned" => pc[q] \in {"withdraw", "cleanup"} /\ state[q] = "closed"
    PROVE  IInv'
<1>1. pc'[q] = "drop" /\ outcome'[q] = reply BY DEF Answer, Goto, IInv, TypeOK
<1>2. OnlyOwn(q) BY DEF OnlyOwn, Answer, Goto, IInv, TypeOK
<1>3. Entry(q)' = Entry(q) BY SameEntries
<1>4. Holding(q)' BY <1>1 DEF Holding, Early, Writing, Linked
<1>5. reply = "uncleaned" => temp[q] \in Temporaries /\ dir[temp[q]] = q
  BY DEF IInv, Holding, Writing, Linked, Entry
<1>6. Answered(q)' BY <1>1, <1>3, <1>5 DEF Answered, Replies
<1>7. \A a \in Archives : dir'[a] = q => data'[q] = "synced" BY DEF IInv, Complete
<1> QED BY <1>2, <1>4, <1>6, <1>7, OthersKept

-----------------------------------------------------------------------------
(* The steps. *)

LEMMA InitIInv == Init => IInv
<1> SUFFICES ASSUME Init PROVE IInv OBVIOUS
<1> USE Bounds, NobodyIsFree, NamesApart
<1>1. TypeOK BY DEF Init, TypeOK, Early
<1>2. Complete BY Entries DEF Init, Complete
<1>3. ASSUME NEW q \in Process PROVE Holding(q) /\ Answered(q)
  BY DEF Init, Holding, Answered, Entry, Early, Writing, Linked
<1> QED BY <1>1, <1>2, <1>3 DEF IInv

\* Steps of q that change only where it is, while it has created nothing.
LEMMA EarlyKept ==
    ASSUME IInv, TypeOK', NEW q \in Process, pc[q] \in Early, pc'[q] \in Early,
           UNCHANGED <<dir, data, temp, state, outcome>>,
           \A r \in Process \ {q} : pc'[r] = pc[r] /\ archive'[r] = archive[r],
           pc'[q] \in {"create", "temporary"} => archive'[q] \in Archives
    PROVE  IInv'
<1>1. OnlyOwn(q) BY DEF OnlyOwn
<1>2. Entry(q)' = Entry(q) BY SameEntries
<1>3. Holding(q)' /\ Answered(q)'
  BY <1>2 DEF IInv, Holding, Answered, Early, Writing, Linked
<1>4. \A a \in Archives : dir'[a] = q => data'[q] = "synced" BY DEF IInv, Complete
<1> QED BY <1>1, <1>3, <1>4, OthersKept

\* Steps of q that change where it is among its writing phases.
LEMMA WritingKept ==
    ASSUME IInv, TypeOK', NEW q \in Process, pc[q] \in Writing, pc'[q] \in Writing,
           UNCHANGED <<dir, archive, temp, outcome>>,
           \A r \in Process \ {q} : pc'[r] = pc[r] /\ data'[r] = data[r] /\ state'[r] = state[r],
           state'[q] \in {"open", "closed"}, pc'[q] \in {"link", "cleanup"} => state'[q] = "closed",
           pc'[q] = "link" => data'[q] = "synced"
    PROVE  IInv'
<1>1. OnlyOwn(q) BY DEF OnlyOwn
<1>2. Entry(q)' = Entry(q) BY SameEntries
<1>3. Holding(q)' /\ Answered(q)'
  BY <1>2 DEF IInv, Holding, Answered, Early, Writing, Linked
<1>4. \A a \in Archives : dir'[a] # q
  BY NamesApart DEF IInv, Holding, Entry
<1> QED BY <1>1, <1>3, <1>4, OthersKept

\* Where a command is, and what it holds there.
LEMMA Standing ==
    ASSUME IInv, NEW q \in Process
    PROVE  /\ pc[q] \in Early => Entry(q) = {} /\ state[q] = "none"
           /\ pc[q] \in {"create", "temporary"} => archive[q] \in Archives
           /\ pc[q] \in Writing \cup Linked =>
                /\ archive[q] \in Archives /\ temp[q] \in Temporaries
                /\ archive[q] \in Names /\ temp[q] \in Names /\ archive[q] # temp[q]
                /\ dir[temp[q]] = q
           /\ pc[q] \in Writing => Entry(q) = {temp[q]} /\ dir[archive[q]] # q
           /\ pc[q] \in Linked => Entry(q) = {archive[q], temp[q]} /\ dir[archive[q]] = q
BY NamesApart DEF IInv, Holding, Entry

\* The steps keep the types.
LEMMA StepType == ASSUME IInv, NEW q \in Process, Step(q) PROVE TypeOK'
<1> USE Bounds, NobodyIsFree, NamesApart, Standing
    DEF Goto, Answer, At, place, Early, Writing, Linked, Replies
<1> TypeOK BY DEF IInv
<1>1. CASE NextName(q) BY <1>1 DEF NextName, TypeOK, Archives
<1>2. CASE Refuse(q) BY <1>2 DEF Refuse, TypeOK
<1>3. CASE Recheck(q) BY <1>3 DEF Recheck, TypeOK
<1>4. CASE OpenTemporary(q)
  <2>1. Temporary(q) \in Temporaries
    BY <1>4, TemporaryNamed DEF OpenTemporary, TypeOK
  <2>2. CASE dir[Temporary(q)] = Free
    BY <1>4, <2>1, <2>2 DEF OpenTemporary, TypeOK, Holds
  <2>3. CASE dir[Temporary(q)] # Free
    BY <1>4, <2>3 DEF OpenTemporary, TypeOK
  <2> QED BY <2>2, <2>3
<1>5. CASE Write(q) BY <1>5 DEF Write, TypeOK
<1>6. CASE Sync(q) BY <1>6 DEF Sync, TypeOK
<1>7. CASE Interrupt(q) BY <1>7 DEF Interrupt, TypeOK
<1>8. CASE Link(q)
  <2>1. CASE dir[archive[q]] = Free BY <1>8, <2>1 DEF Link, TypeOK, Holds
  <2>2. CASE dir[archive[q]] # Free BY <1>8, <2>2 DEF Link, TypeOK
  <2> QED BY <2>1, <2>2
<1>9. CASE RemoveTemporary(q) BY <1>9 DEF RemoveTemporary, TypeOK, Frees
<1>10. CASE Withdraw(q) BY <1>10 DEF Withdraw, TypeOK, Frees
<1>11. CASE Cleanup(q) BY <1>11 DEF Cleanup, TypeOK, Frees
<1>12. CASE Drop(q) BY <1>12 DEF Drop, TypeOK, Frees
<1> QED
  BY <1>1, <1>2, <1>3, <1>4, <1>5, <1>6, <1>7, <1>8, <1>9, <1>10, <1>11, <1>12 DEF Step

\* So do failures, cancellations and kills.
LEMMA FaultType == ASSUME IInv, NEW q \in Process, Fault(q) PROVE TypeOK'
<1> USE DEF Goto, Answer, At, place, Early, Writing, Linked, Replies
<1> TypeOK BY DEF IInv
<1>1. CASE OpenFails(q) BY <1>1 DEF OpenFails, TypeOK
<1>2. CASE RemoveFails(q) BY <1>2 DEF RemoveFails, TypeOK
<1>3. CASE WithdrawFails(q) BY <1>3 DEF WithdrawFails, TypeOK
<1>4. CASE CleanupFails(q) BY <1>4 DEF CleanupFails, TypeOK
<1>5. CASE Cancel(q) BY <1>5 DEF Cancel, TypeOK
<1>6. CASE Kill(q) BY <1>6 DEF Kill, TypeOK
<1> QED BY <1>1, <1>2, <1>3, <1>4, <1>5, <1>6 DEF Fault

\* A link takes the archive name for the file of the temporary; every other
\* step of a publication takes or frees at most its temporary.
LEMMA StepKept == ASSUME IInv, NEW q \in Process, Step(q) PROVE IInv'
<1> USE DEF Goto, At, place
<1> TypeOK BY DEF IInv
<1>0. TypeOK' BY StepType
<1>1. CASE NextName(q)
  <2>1. /\ pc'[q] \in {"name", "create"}
        /\ pc'[q] = "create" => archive'[q] \in Archives
    BY <1>1, Bounds DEF NextName, TypeOK, Archives
  <2>2. \A r \in Process \ {q} : pc'[r] = pc[r] /\ archive'[r] = archive[r]
    BY <1>1 DEF NextName, TypeOK
  <2> QED BY <1>0, <1>1, <2>1, <2>2, EarlyKept DEF NextName, Early
<1>2. CASE Refuse(q)
  <2>1. pc[q] \in Early BY <1>2 DEF Refuse, Early
  <2> QED BY <1>0, <1>2, <2>1, Standing, AnswerKept DEF Refuse, Replies
<1>3. CASE Recheck(q)
  <2>1. CASE dir[archive[q]] # Free
    BY <1>0, <1>3, <2>1, Standing, AnswerKept DEF Recheck, Replies, Early
  <2>2. CASE dir[archive[q]] = Free
    BY <1>0, <1>3, <2>2, Standing, EarlyKept DEF Recheck, TypeOK, Early
  <2> QED BY <2>1, <2>2
<1>4. CASE OpenTemporary(q)
  <2>1. archive[q] \in Archives BY <1>4, Standing DEF OpenTemporary
  <2>2. Temporary(q) \in Temporaries /\ Temporary(q) \in Names
    BY <1>4, <2>1, TemporaryNamed, NamesApart DEF OpenTemporary, TypeOK
  <2>3. CASE dir[Temporary(q)] = Free
    <3>1. /\ Entry(q)' = Entry(q) \cup {Temporary(q)}
          /\ \A k \in Names : dir'[k] # dir[k] => {dir[k], dir'[k]} \subseteq {q, Free}
      BY <1>4, <2>2, <2>3, Taken DEF OpenTemporary
    <3>2. Entry(q) = {} BY <1>4, Standing DEF OpenTemporary, Early
    <3>3. OnlyOwn(q) BY <1>4, <2>3, <3>1 DEF OnlyOwn, OpenTemporary, TypeOK
    <3>4. pc'[q] = "write" /\ temp'[q] = Temporary(q) /\ state'[q] = "open" /\ archive' = archive
      BY <1>4, <2>3 DEF OpenTemporary, TypeOK
    <3>5. Holding(q)' /\ Answered(q)'
      BY <2>1, <2>2, <3>1, <3>2, <3>4 DEF Holding, Answered, Early, Writing, Linked
    <3>6. \A a \in Archives : dir'[a] # q
      BY <2>2, <3>1, <3>2, NamesApart DEF Entry
    <3> QED BY <1>0, <3>3, <3>5, <3>6, OthersKept
  <2>4. CASE dir[Temporary(q)] # Free
    BY <1>0, <1>4, <2>1, <2>4, EarlyKept DEF OpenTemporary, TypeOK, Early
  <2> QED BY <2>3, <2>4
<1>5. CASE Write(q)
  BY <1>0, <1>5, WritingKept DEF Write, TypeOK, Writing, IInv, Holding
<1>6. CASE Sync(q)
  BY <1>0, <1>6, WritingKept DEF Sync, TypeOK, Writing
<1>7. CASE Interrupt(q)
  BY <1>0, <1>7, WritingKept DEF Interrupt, TypeOK, Writing
<1>8. CASE Link(q)
  <2>1. CASE dir[archive[q]] = Free
    <3>1. archive[q] \in Archives /\ archive[q] \in Names /\ dir[temp[q]] = q
          /\ temp[q] \in Temporaries /\ Entry(q) = {temp[q]} /\ data[q] = "synced"
      BY <1>8, Standing DEF Link, Writing, IInv, Holding
    <3>2. state[q] = "closed" BY <1>8 DEF Link, IInv, Holding
    <3>3. /\ Entry(q)' = Entry(q) \cup {archive[q]}
          /\ \A k \in Names : dir'[k] # dir[k] => {dir[k], dir'[k]} \subseteq {q, Free}
      BY <1>8, <2>1, <3>1, Taken DEF Link
    <3>4. OnlyOwn(q) BY <1>8, <2>1, <3>3 DEF OnlyOwn, Link, TypeOK
    <3>5. pc'[q] = "linked" /\ UNCHANGED <<temp, archive, state, data>>
      BY <1>8, <2>1 DEF Link, TypeOK
    <3>6. Holding(q)' /\ Answered(q)'
      BY <3>1, <3>2, <3>3, <3>5 DEF Holding, Answered, Early, Writing, Linked
    <3> QED BY <1>0, <3>1, <3>4, <3>5, <3>6, OthersKept
  <2>2. CASE dir[archive[q]] # Free
    BY <1>0, <1>8, <2>2, WritingKept DEF Link, TypeOK, Writing, IInv, Holding
  <2> QED BY <2>1, <2>2
<1>9. CASE RemoveTemporary(q)
  <2>1. /\ archive[q] \in Archives /\ archive[q] # temp[q] /\ temp[q] \in Names
        /\ dir[temp[q]] = q /\ Entry(q) = {archive[q], temp[q]} /\ data[q] = "synced"
    BY <1>9, Standing DEF RemoveTemporary, Linked, IInv, Holding
  <2>2. /\ Entry(q)' = {archive[q]}
        /\ \A k \in Names : dir'[k] # dir[k] => {dir[k], dir'[k]} \subseteq {q, Free}
    BY <1>9, <2>1, Freed DEF RemoveTemporary
  <2>3. OnlyOwn(q) BY <1>9, <2>2 DEF OnlyOwn, RemoveTemporary, Answer, TypeOK
  <2>4. pc'[q] = "drop" /\ outcome'[q] = "published" /\ state'[q] = "cleaned"
        /\ UNCHANGED <<archive, data>>
    BY <1>9 DEF RemoveTemporary, Answer, TypeOK
  <2>5. Holding(q)' /\ Answered(q)'
    BY <2>1, <2>2, <2>4 DEF Holding, Answered, Early, Writing, Linked, Replies
  <2> QED BY <1>0, <2>1, <2>3, <2>4, <2>5, OthersKept
<1>10. CASE Withdraw(q)
  <2>1. /\ archive[q] \in Names /\ archive[q] # temp[q] /\ temp[q] \in Temporaries
        /\ dir[archive[q]] = q /\ dir[temp[q]] = q /\ Entry(q) = {archive[q], temp[q]}
        /\ data[q] = "synced" /\ state[q] = "closed"
    BY <1>10, Standing DEF Withdraw, Linked, IInv, Holding
  <2>2. /\ Entry(q)' = {temp[q]}
        /\ \A k \in Names : dir'[k] # dir[k] => {dir[k], dir'[k]} \subseteq {q, Free}
    BY <1>10, <2>1, Freed DEF Withdraw
  <2>3. dir'[temp[q]] = q BY <2>2 DEF Entry
  <2>4. OnlyOwn(q) BY <1>10, <2>2 DEF OnlyOwn, Withdraw, Answer, TypeOK
  <2>5. pc'[q] = "drop" /\ outcome'[q] = "withdrawn" /\ UNCHANGED <<archive, temp, state, data>>
    BY <1>10 DEF Withdraw, Answer, TypeOK
  <2>6. Holding(q)' /\ Answered(q)'
    BY <2>1, <2>2, <2>3, <2>5 DEF Holding, Answered, Early, Writing, Linked, Replies
  <2> QED BY <1>0, <2>1, <2>4, <2>5, <2>6, OthersKept
<1>11. CASE Cleanup(q)
  <2>1. temp[q] \in Names /\ dir[temp[q]] = q /\ Entry(q) = {temp[q]}
    BY <1>11, Standing DEF Cleanup, Writing
  <2>2. /\ Entry(q)' = {}
        /\ \A k \in Names : dir'[k] # dir[k] => {dir[k], dir'[k]} \subseteq {q, Free}
    BY <1>11, <2>1, Freed DEF Cleanup
  <2>3. OnlyOwn(q) BY <1>11, <2>2 DEF OnlyOwn, Cleanup, Answer, TypeOK
  <2>4. pc'[q] = "drop" /\ outcome'[q] = "failed" /\ state'[q] = "cleaned"
    BY <1>11 DEF Cleanup, Answer, TypeOK
  <2>5. Holding(q)' /\ Answered(q)'
    BY <2>2, <2>4 DEF Holding, Answered, Early, Writing, Linked, Replies
  <2>6. \A a \in Archives : dir'[a] # q BY <2>2, NamesApart DEF Entry
  <2> QED BY <1>0, <2>3, <2>5, <2>6, OthersKept
<1>12. CASE Drop(q)
  <2>1. /\ pc[q] = "drop" /\ pc'[q] = "done" /\ UNCHANGED <<data, archive, temp, outcome>>
        /\ \A r \in Process \ {q} : pc'[r] = pc[r] /\ state'[r] = state[r]
    BY <1>12 DEF Drop, TypeOK
  <2>2. state[q] \in {"open", "closed"} =>
          /\ outcome[q] \in {"withdrawn", "uncleaned"}
          /\ temp[q] \in Names /\ dir[temp[q]] = q
    BY <2>1, NamesApart DEF IInv, Answered, Replies
  <2>3. /\ \/ Entry(q)' = Entry(q)
           \/ Entry(q)' = Entry(q) \ {temp[q]} /\ state[q] \in {"open", "closed"}
        /\ \A k \in Names : dir'[k] # dir[k] => {dir[k], dir'[k]} \subseteq {q, Free}
    <3>1. CASE UNCHANGED dir BY <3>1, SameEntries
    <3>2. CASE Frees(temp[q]) /\ state[q] \in {"open", "closed"} BY <2>2, <3>2, Freed
    <3> QED BY <1>12, <3>1, <3>2 DEF Drop
  <2>4. OnlyOwn(q) BY <2>1, <2>3 DEF OnlyOwn
  <2>5. Holding(q)' BY <2>1 DEF Holding, Early, Writing, Linked
  <2>6. Answered(q)'
    BY <2>1, <2>2, <2>3, NamesApart DEF IInv, Answered, Replies
  <2>7. \A a \in Archives : dir'[a] = q => data'[q] = "synced"
    BY <2>1, <2>3, NamesApart DEF IInv, Complete, Entry
  <2> QED BY <1>0, <2>4, <2>5, <2>6, <2>7, OthersKept
<1> QED
  BY <1>1, <1>2, <1>3, <1>4, <1>5, <1>6, <1>7, <1>8, <1>9, <1>10, <1>11, <1>12 DEF Step

\* A failure or a kill leaves behind what the answer says is there.
LEMMA FaultKept == ASSUME IInv, NEW q \in Process, Fault(q) PROVE IInv'
<1> USE DEF Goto, At, place
<1> TypeOK BY DEF IInv
<1>0. TypeOK' BY FaultType
<1>1. CASE OpenFails(q)
  BY <1>0, <1>1, Standing, AnswerKept DEF OpenFails, Replies, Early
<1>2. CASE RemoveFails(q)
  <2>1. /\ pc[q] = "linked" /\ pc'[q] = "withdraw"
        /\ UNCHANGED <<dir, data, archive, temp, state, outcome>>
        /\ \A r \in Process \ {q} : pc'[r] = pc[r]
    BY <1>2 DEF RemoveFails, TypeOK
  <2>2. Entry(q)' = Entry(q) BY <2>1, SameEntries
  <2>3. Holding(q)' /\ Answered(q)'
    BY <2>1, <2>2 DEF IInv, Holding, Answered, Early, Writing, Linked
  <2>4. \A a \in Archives : dir'[a] = q => data'[q] = "synced" BY <2>1 DEF IInv, Complete
  <2> QED BY <1>0, <2>1, <2>3, <2>4, OthersKept DEF OnlyOwn
<1>3. CASE WithdrawFails(q)
  BY <1>0, <1>3, AnswerKept DEF WithdrawFails, Replies, IInv, Holding, Linked
<1>4. CASE CleanupFails(q)
  <2>1. state[q] = "closed" BY <1>4 DEF CleanupFails, IInv, Holding
  <2> QED BY <1>0, <1>4, <2>1, AnswerKept DEF CleanupFails, Replies
<1>5. CASE Cancel(q)
  BY <1>0, <1>5 DEF Cancel, IInv, Complete, Holding, Answered, Entry
<1>6. CASE Kill(q)
  <2>1. /\ pc'[q] = "done" /\ outcome'[q] = "killed"
        /\ UNCHANGED <<dir, data, archive, temp, state>>
        /\ \A r \in Process \ {q} : pc'[r] = pc[r] /\ outcome'[r] = outcome[r]
    BY <1>6 DEF Kill, TypeOK
  <2>2. Holding(q)' /\ Answered(q)'
    BY <2>1 DEF Holding, Answered, Early, Writing, Linked
  <2>3. \A a \in Archives : dir'[a] = q => data'[q] = "synced" BY <2>1 DEF IInv, Complete
  <2> QED BY <1>0, <2>1, <2>2, <2>3, OthersKept DEF OnlyOwn
<1> QED BY <1>1, <1>2, <1>3, <1>4, <1>5, <1>6 DEF Fault

\* The inductive step.
LEMMA NextIInv == IInv /\ [Next]_vars => IInv'
<1> SUFFICES ASSUME IInv, [Next]_vars PROVE IInv' OBVIOUS
<1>1. CASE UNCHANGED vars
  BY <1>1 DEF vars, place, IInv, TypeOK, Complete, Holding, Answered, Entry
<1> QED BY <1>1, StepKept, FaultKept DEF Next, AllDone

\* The strengthening the theorems below rest on.
THEOREM IInvHolds == Spec => []IInv
BY InitIInv, NextIInv, PTL DEF Spec

\* The answer of an archive command is what happened, whatever raced with it,
\* and what stands under an archive name is complete.
THEOREM Truthful == Spec => []AnswerIsTruthful
<1>1. IInv => AnswerIsTruthful
  BY DEF IInv, Complete, Answered, AnswerIsTruthful, At
<1> QED BY <1>1, IInvHolds, PTL

-----------------------------------------------------------------------------
(* The directory, step by step. *)

\* One step takes a free entry for its command, frees an entry that is its own
\* temporary, or takes back the archive it has just linked.
LEMMA EntryMoves ==
    ASSUME IInv, NEW q \in Process, Step(q), NEW n \in Names, dir'[n] # dir[n]
    PROVE  \/ dir[n] = Free
           \/ dir[n] = q /\ dir'[n] = Free /\ n = temp[q] /\ pc'[q] # pc[q]
           \/ dir[n] = q /\ dir'[n] = Free /\ n = archive[q] /\ pc[q] = "withdraw"
<1> USE DEF Goto, At, place, Frees, Holds
<1> TypeOK BY DEF IInv
<1>1. CASE NextName(q) \/ Refuse(q) \/ Recheck(q) \/ Write(q) \/ Sync(q) \/ Interrupt(q)
  BY <1>1 DEF NextName, Refuse, Recheck, Write, Sync, Interrupt
<1>2. CASE OpenTemporary(q) BY <1>2 DEF OpenTemporary, TypeOK
<1>3. CASE Link(q) BY <1>3 DEF Link, TypeOK
<1>4. CASE RemoveTemporary(q) \/ Cleanup(q)
  <2>1. n = temp[q] /\ dir'[n] = Free /\ pc'[q] = "drop" /\ pc[q] \in {"linked", "cleanup"}
    BY <1>4 DEF RemoveTemporary, Cleanup, Answer, TypeOK
  <2> QED BY <2>1, Standing DEF Linked, Writing
<1>5. CASE Withdraw(q)
  <2>1. n = archive[q] /\ dir'[n] = Free BY <1>5 DEF Withdraw, TypeOK
  <2> QED BY <1>5, <2>1, Standing DEF Withdraw, Linked
<1>6. CASE Drop(q)
  <2>1. /\ state[q] \in {"open", "closed"} /\ n = temp[q] /\ dir'[n] = Free
        /\ pc[q] = "drop" /\ pc'[q] = "done"
    BY <1>6 DEF Drop, TypeOK
  <2>2. dir[temp[q]] = q BY <2>1 DEF IInv, Answered, Replies
  <2> QED BY <2>1, <2>2
<1> QED BY <1>1, <1>2, <1>3, <1>4, <1>5, <1>6 DEF Step

\* No archive is ever replaced, only its publisher takes one back, and nobody
\* removes or takes over the temporary of somebody else.
THEOREM NothingClobbered == Spec => NoClobber
<1> DEFINE Gentle ==
      /\ \A a \in Archives : dir[a] # Free /\ dir'[a] # dir[a] =>
            /\ dir'[a] = Free /\ dir[a] \in Process /\ At(dir[a], "withdraw")
      /\ \A t \in Temporaries : dir[t] # Free /\ dir'[t] # dir[t] =>
            \E q \in Process : dir[t] = q /\ temp[q] = t /\ pc'[q] # pc[q]
<1>1. IInv /\ [Next]_vars => [Gentle]_vars
  <2> SUFFICES ASSUME IInv, [Next]_vars PROVE Gentle \/ UNCHANGED vars OBVIOUS
  <2>1. ASSUME NEW q \in Process, Step(q) PROVE Gentle
    <3>1. ASSUME NEW a \in Archives, dir[a] # Free, dir'[a] # dir[a]
          PROVE  dir'[a] = Free /\ dir[a] \in Process /\ At(dir[a], "withdraw")
      <4>1. a # temp[q] \/ dir[a] # q
        <5>1. temp[q] \in Temporaries \cup {NoName} BY DEF IInv, TypeOK
        <5> QED BY <5>1, NamesApart, Entries
      <4> QED BY <2>1, <3>1, <4>1, EntryMoves, NamesApart DEF At
    <3>2. ASSUME NEW t \in Temporaries, dir[t] # Free, dir'[t] # dir[t]
          PROVE  \E r \in Process : dir[t] = r /\ temp[r] = t /\ pc'[r] # pc[r]
      <4>1. archive[q] \in Archives \cup {NoName} BY DEF IInv, TypeOK
      <4> QED BY <2>1, <3>2, <4>1, EntryMoves, NamesApart, Entries
    <3> QED BY <3>1, <3>2
  <2>2. ASSUME NEW q \in Process, Fault(q) PROVE Gentle
    BY <2>2 DEF Fault, OpenFails, RemoveFails, WithdrawFails, CleanupFails, Cancel, Kill
  <2> QED BY <2>1, <2>2 DEF Next, AllDone
<1>2. Spec => [][Gentle]_vars BY <1>1, IInvHolds, PTL DEF Spec
<1> QED BY <1>2 DEF NoClobber

-----------------------------------------------------------------------------
(* A command over the contracts root *)

\* Commands follow one another over any root, tree, archive, budgets and queue.
CommandSpec == CommandInit /\ [][CommandNext]_commandVars

\* A check has its verdicts before it writes its report, and leaves what it has said.
Said(passed) == report = [by |-> command, passed |-> passed]
Judged ==
    /\ verdicts \in Seq(BOOLEAN)
    /\ phase = "commit" /\ command.verb = "check" => verdicts # <<>>
    /\ phase = "print" /\ command.verb = "check" => Said(TRUE) /\ Passed /\ verdicts # <<>>

\* Only an archive is encoded, a diff writes nothing, and a command under way has no result.
Roles ==
    /\ phase # "over" => result = "none"
    /\ phase = "encode" => command.verb = "archive"
    /\ command.verb = "diff" => disk = before

CommandInv == Judged /\ Roles /\ DiskIsTouchedLast

-----------------------------------------------------------------------------
\* Nothing is on the disk yet.
Reading == CommandInv /\ phase \notin {"over", "print"}
\* The command, the disk and the verdicts stay.
Kept == UNCHANGED <<disk, before, command, verdicts>>
Ended == phase' = "over" /\ result' \notin {"passed", "failed"}
MovedOn ==
    /\ UNCHANGED result /\ phase' \notin {"over", "print"}
    /\ phase' = "commit" => command.verb # "check"
    /\ phase' = "encode" => command.verb = "archive"

LEMMA StillReading ==
    ASSUME Reading, Kept, Ended \/ MovedOn
    PROVE  CommandInv'
<1>1. /\ disk = before /\ result = "none" /\ disk' = before' /\ verdicts' = verdicts
      /\ command' = command /\ before' = before
  BY DEF Reading, Kept, CommandInv, Roles, DiskIsTouchedLast
<1>2. Judged'
  BY <1>1 DEF Reading, CommandInv, Judged, Ended, MovedOn
<1>3. Roles'
  BY <1>1 DEF Reading, CommandInv, Roles, Ended, MovedOn
<1>4. root' = before'[1] /\ stored' = before'[2]
  BY <1>1 DEF disk
<1>5. result' \notin {"passed", "failed"}
  BY <1>1 DEF Ended, MovedOn
<1>6. DiskIsTouchedLast'
  BY <1>1, <1>4, <1>5 DEF DiskIsTouchedLast
<1> QED BY <1>2, <1>3, <1>6 DEF CommandInv

LEMMA ReadingSteps ==
    ASSUME CommandInv,
           \/ ReadContracts \/ LoadLayout \/ ReadSources \/ AcquireSyntax \/ AcquireArtifact
           \/ SelectCrates \/ ValidateContracts \/ Encode \/ Decode \/ ValidatePrevious
    PROVE  CommandInv'
<1>1. ASSUME NEW charged PROVE Refusal(charged) \notin {"passed", "failed"}
  BY DEF Refusal
<1>2. CASE ReadContracts
  <2>1. Reading /\ Kept BY <1>2 DEF ReadContracts, Runs, Reading, Kept, world, answers
  <2>2. Ended \/ MovedOn
    BY <1>1, <1>2 DEF ReadContracts, Spend, Pass, Stop, Move, Ended, MovedOn
  <2> QED BY <2>1, <2>2, StillReading
<1>3. CASE LoadLayout
  <2>1. Reading /\ Kept BY <1>3 DEF LoadLayout, Runs, Reading, Kept, world, answers
  <2>2. Unusable(layout') \notin {"passed", "failed"} BY DEF Unusable
  <2>3. Ended \/ MovedOn
    BY <2>2, <1>3 DEF LoadLayout, Pass, Stop, Move, Ended, MovedOn
  <2> QED BY <2>1, <2>3, StillReading
<1>4. CASE ReadSources
  <2>1. Reading /\ Kept BY <1>4 DEF ReadSources, Runs, Reading, Kept, world
  <2>2. Ended \/ MovedOn
    BY <1>1, <1>4 DEF ReadSources, Spend, Pass, Stop, Move, Ended, MovedOn
  <2> QED BY <2>1, <2>2, StillReading
<1>5. CASE AcquireSyntax
  <2>1. Reading /\ Kept BY <1>5 DEF AcquireSyntax, Runs, Reading, Kept, world, answers
  <2>2. Ended \/ MovedOn BY <1>5 DEF AcquireSyntax, Stop, Move, Ended, MovedOn
  <2> QED BY <2>1, <2>2, StillReading
<1>6. CASE AcquireArtifact
  <2>1. Reading /\ Kept BY <1>6 DEF AcquireArtifact, Runs, Reading, Kept, world, answers
  <2>2. Ended \/ MovedOn
    <3>1. CASE \/ ~CrateCountIsRight(Call) /\ Stop("crates")
               \/ CrateCountIsRight(Call) /\ Stop("compiler")
      BY <3>1 DEF Stop, Ended
    <3>2. CASE \/ Spend(SourceSizes(sources), "target")
               \/ Spend(SourceSizes(sources), "ask")
      BY <3>2, <1>1 DEF Spend, Pass, Stop, Move, Ended, MovedOn
    <3>3. CASE Stop(IF ledger'.stopped = "none" THEN "context" ELSE Refusal(ledger'))
      BY <3>3, <1>1 DEF Stop, Ended
    <3> QED BY <1>6, <3>1, <3>2, <3>3 DEF AcquireArtifact
  <2> QED BY <2>1, <2>2, StillReading
<1>7. CASE SelectCrates
  <2>1. Reading /\ Kept BY <1>7 DEF SelectCrates, Runs, Reading, Kept, world, answers
  <2>2. Ended \/ MovedOn BY <1>7 DEF SelectCrates, Pass, Stop, Move, Ended, MovedOn
  <2> QED BY <2>1, <2>2, StillReading
<1>8. CASE ValidateContracts
  <2>1. Reading /\ Kept BY <1>8 DEF ValidateContracts, Runs, Reading, Kept, world, answers
  <2>2. Ended \/ MovedOn BY <1>8 DEF ValidateContracts, Pass, Stop, Move, Ended, MovedOn
  <2> QED BY <2>1, <2>2, StillReading
<1>9. CASE Encode
  <2>1. Reading /\ Kept BY <1>9 DEF Encode, Runs, Reading, Kept, world, answers
  <2>2. command.verb = "archive" BY <1>9 DEF Encode, Runs, CommandInv, Roles
  <2>3. Ended \/ MovedOn BY <2>2, <1>9 DEF Encode, Pass, Stop, Move, Ended, MovedOn
  <2> QED BY <2>1, <2>3, StillReading
<1>10. CASE Decode
  <2>1. Reading /\ Kept BY <1>10 DEF Decode, Runs, Reading, Kept, world, answers
  <2>2. Ended \/ MovedOn BY <1>10 DEF Decode, Stop, Move, Ended, MovedOn
  <2> QED BY <2>1, <2>2, StillReading
<1>11. CASE ValidatePrevious
  <2>1. Reading /\ Kept BY <1>11 DEF ValidatePrevious, Runs, Reading, Kept, world
  <2>2. Ended \/ MovedOn BY <1>11 DEF ValidatePrevious, Pass, Stop, Move, Ended, MovedOn
  <2> QED BY <2>1, <2>2, StillReading
<1> QED
  BY <1>2, <1>3, <1>4, <1>5, <1>6, <1>7, <1>8, <1>9, <1>10, <1>11

\* A command begins, or an edit is made, with the disk as it is.
LEMMA BeginKept == ASSUME CommandInv, Begin \/ Edit PROVE CommandInv'
<1>1. before' = disk' /\ verdicts' = <<>> BY DEF Begin, Edit, Forget
<1>2. \/ phase' = "over" /\ result' \in {"none", "overlap"}
      \/ phase' = "contracts" /\ result' = "none"
  BY DEF Begin, Edit, Stop
<1>3. Judged' BY <1>1, <1>2 DEF Judged
<1>4. Roles' BY <1>1, <1>2 DEF Roles
<1>5. root' = before'[1] /\ stored' = before'[2] BY <1>1 DEF disk
<1>6. DiskIsTouchedLast' BY <1>1, <1>2, <1>5 DEF DiskIsTouchedLast
<1> QED BY <1>3, <1>4, <1>6 DEF CommandInv

\* A kit is asked: a check notes the verdict before it commits.
LEMMA AskKept == ASSUME CommandInv, Ask PROVE CommandInv'
<1>1. /\ Reading /\ UNCHANGED <<disk, before, command>>
  BY DEF Ask, Runs, Reading, world
<1>2. CASE Stop("kit") /\ UNCHANGED verdicts
  <2>1. Kept /\ Ended BY <1>1, <1>2 DEF Kept, Ended, Stop
  <2> QED BY <1>1, <2>1, StillReading
<1>3. CASE /\ \E verdict \in IF command.verb = "check" THEN BOOLEAN ELSE {TRUE} :
                 verdicts' = Append(verdicts, verdict)
           /\ Move(IF Len(kits) > 1 THEN "ask" ELSE IF command.verb = "diff" THEN "print" ELSE "commit")
  <2>1. verdicts \in Seq(BOOLEAN) BY DEF CommandInv, Judged
  <2>2. PICK verdict \in BOOLEAN : verdicts' = Append(verdicts, verdict) BY <1>3
  <2>3. verdicts' \in Seq(BOOLEAN) /\ verdicts' # <<>> BY <2>1, <2>2
  <2>4. /\ result' = "none" /\ phase' \in {"ask", "print", "commit"}
        /\ phase' = "print" => command.verb = "diff"
    BY <1>1, <1>3 DEF Move, Reading, CommandInv, Roles
  <2>5. disk = before /\ disk' = before' /\ root' = before'[1] /\ stored' = before'[2]
    BY <1>1 DEF Reading, CommandInv, DiskIsTouchedLast, disk
  <2>6. command' = command BY <1>1
  <2>7. Judged' BY <2>3, <2>4, <2>6 DEF Judged
  <2>8. Roles' BY <2>4, <2>5 DEF Roles
  <2>9. DiskIsTouchedLast' BY <2>4, <2>5 DEF DiskIsTouchedLast
  <2> QED BY <2>7, <2>8, <2>9 DEF CommandInv
<1> QED BY <1>2, <1>3 DEF Ask, answers

LEMMA ReportKept == ASSUME CommandInv, CommitReport PROVE CommandInv'
<1>1. /\ Reading /\ UNCHANGED <<root, stored, before, command, verdicts>>
      /\ phase = "commit" /\ command.verb = "check"
  BY DEF CommitReport, Runs, Reading, world, answers
<1>2. CASE Stop("report") /\ UNCHANGED report
  <2>1. Kept /\ Ended BY <1>1, <1>2 DEF Kept, Ended, Stop, disk
  <2> QED BY <1>1, <2>1, StillReading
<1>3. CASE report' = [by |-> command, passed |-> Passed] /\ Pass(Passed, "print", "failed")
  <2>1. /\ verdicts \in Seq(BOOLEAN) /\ verdicts # <<>> /\ disk = before /\ result = "none"
    BY <1>1 DEF Reading, CommandInv, Judged, Roles, DiskIsTouchedLast
  <2>2. root' = before'[1] /\ stored' = before'[2] /\ command' = command
    BY <1>1, <2>1 DEF disk
  <2>3. Passed' = Passed BY <1>1 DEF Passed
  <2>4. CASE Passed
    <3>1. phase' = "print" /\ result' = "none" BY <1>3, <2>1, <2>4 DEF Pass, Move
    <3>2. report' = [by |-> command', passed |-> TRUE] BY <1>3, <2>2, <2>4, Zenon DEF Passed
    <3>3. Judged' BY <1>1, <2>1, <2>3, <2>4, <3>1, <3>2 DEF Judged, Said
    <3>4. Roles' BY <1>1, <3>1 DEF Roles
    <3>5. DiskIsTouchedLast' BY <2>2, <3>1 DEF DiskIsTouchedLast
    <3> QED BY <3>3, <3>4, <3>5 DEF CommandInv
  <2>5. CASE ~Passed
    <3>1. phase' = "over" /\ result' = "failed" BY <1>3, <2>5 DEF Pass, Stop
    <3>2. report' = [by |-> command', passed |-> FALSE] BY <1>3, <2>2, <2>5, Zenon DEF Passed
    <3>3. Judged' BY <1>1, <2>1, <3>1 DEF Judged
    <3>4. Roles' BY <1>1, <3>1 DEF Roles
    <3>5. report' = [by |-> command', passed |-> result' = "passed"] BY <3>1, <3>2
    <3>6. DiskIsTouchedLast' BY <2>2, <3>1, <3>5 DEF DiskIsTouchedLast
    <3> QED BY <3>3, <3>4, <3>6 DEF CommandInv
  <2> QED BY <2>4, <2>5
<1> QED BY <1>2, <1>3 DEF CommitReport

\* Generate and archive write what a check never does, and go on to print.
LEMMA WriteKept == ASSUME CommandInv, CommitGenerated \/ CommitArchive PROVE CommandInv'
<1>1. /\ Reading /\ UNCHANGED <<before, command, verdicts>>
      /\ command.verb \in {"generate", "archive"}
  BY DEF CommitGenerated, CommitArchive, Runs, Reading, world, answers
<1>2. \/ Ended /\ UNCHANGED <<root, stored, report>>
      \/ phase' = "print" /\ UNCHANGED result
  BY DEF CommitGenerated, CommitArchive, Stop, Move, Ended, Refusal
<1>3. CASE Ended /\ UNCHANGED <<root, stored, report>>
  <2>1. Kept BY <1>1, <1>3 DEF Kept, disk
  <2> QED BY <1>1, <1>3, <2>1, StillReading
<1>4. CASE phase' = "print" /\ UNCHANGED result
  <2>1. result' = "none" /\ verdicts' \in Seq(BOOLEAN) /\ command' = command
    BY <1>1, <1>4 DEF Reading, CommandInv, Roles, Judged
  <2>2. Judged' BY <1>1, <1>4, <2>1 DEF Judged
  <2>3. Roles' BY <1>1, <1>4, <2>1 DEF Roles
  <2>4. DiskIsTouchedLast' BY <1>1, <1>4, <2>1 DEF DiskIsTouchedLast
  <2> QED BY <2>2, <2>3, <2>4 DEF CommandInv
<1> QED BY <1>2, <1>3, <1>4

\* A summary is all that is left to do, and nothing else can be lost with it.
LEMMA PrintKept == ASSUME CommandInv, PrintSummary PROVE CommandInv'
<1>1. /\ phase = "print" /\ phase' = "over" /\ result' \in {"passed", "print"}
      /\ UNCHANGED <<disk, before, command, verdicts>>
  BY DEF PrintSummary, Stop, world, answers
<1>2. UNCHANGED <<root, stored, report>> BY <1>1 DEF disk
<1>3. Judged' BY <1>1 DEF CommandInv, Judged
<1>4. Roles' BY <1>1 DEF CommandInv, Roles
<1>5. command.verb = "check" =>
        /\ root' = before'[1] /\ stored' = before'[2]
        /\ Said(TRUE) /\ Passed /\ verdicts # <<>>
  BY <1>1, <1>2 DEF CommandInv, Judged, DiskIsTouchedLast
<1>6. command.verb = "check" /\ result' = "passed" =>
        report' = [by |-> command', passed |-> result' = "passed"]
  BY <1>1, <1>2, <1>5 DEF Said
<1>7. Passed /\ verdicts \in Seq(BOOLEAN) => FALSE \notin ToSet(verdicts)
  BY DEF Passed, ToSet
<1>8. DiskIsTouchedLast'
  BY <1>1, <1>5, <1>6, <1>7 DEF DiskIsTouchedLast, CommandInv, Judged
<1> QED BY <1>3, <1>4, <1>8 DEF CommandInv

LEMMA StopKept == ASSUME CommandInv, RequestStop \/ GiveUp PROVE CommandInv'
<1>1. UNCHANGED <<disk, before, command, verdicts>> BY DEF RequestStop, GiveUp, world, answers
<1>2. CASE RequestStop
  <2>1. UNCHANGED <<phase, result, root, stored, report>> BY <1>1, <1>2 DEF RequestStop, disk
  <2>2. Judged' BY <1>1, <2>1 DEF CommandInv, Judged, Said, Passed
  <2>3. Roles' BY <1>1, <2>1 DEF CommandInv, Roles
  <2>4. DiskIsTouchedLast' BY <1>1, <2>1 DEF CommandInv, DiskIsTouchedLast
  <2> QED BY <2>2, <2>3, <2>4 DEF CommandInv
<1>3. CASE GiveUp
  <2>1. Ended /\ phase # "over" /\ (phase = "print" => command.verb = "diff")
    BY <1>3 DEF GiveUp, Stop, Ended
  <2>2. CASE phase # "print"
    BY <1>1, <2>1, <2>2, StillReading DEF Reading, Kept
  <2>3. CASE phase = "print"
    <3>1. disk = before /\ disk' = before' /\ command'.verb = "diff"
      BY <1>1, <2>1, <2>3 DEF CommandInv, Roles
    <3>2. Judged' BY <1>1, <2>1 DEF CommandInv, Judged, Ended
    <3>3. Roles' BY <2>1, <3>1 DEF Roles, Ended
    <3>4. DiskIsTouchedLast' BY <3>1 DEF DiskIsTouchedLast
    <3> QED BY <3>2, <3>3, <3>4 DEF CommandInv
  <2> QED BY <2>2, <2>3
<1> QED BY <1>2, <1>3

LEMMA NextCommandInv == CommandInv /\ [CommandNext]_commandVars => CommandInv'
<1> SUFFICES ASSUME CommandInv, [CommandNext]_commandVars PROVE CommandInv'
  OBVIOUS
<1>1. CASE CommandNext
  BY <1>1, BeginKept, ReadingSteps, AskKept, ReportKept, WriteKept, PrintKept, StopKept
  DEF CommandNext
<1>2. CASE UNCHANGED commandVars
  <2>1. UNCHANGED <<disk, root, stored, report, before, command, verdicts, phase, result>>
    BY <1>2 DEF commandVars, disk, world, progress, answers
  <2>2. Judged' BY <2>1 DEF CommandInv, Judged, Said, Passed
  <2>3. Roles' BY <2>1 DEF CommandInv, Roles
  <2>4. DiskIsTouchedLast' BY <2>1 DEF CommandInv, DiskIsTouchedLast
  <2> QED BY <2>2, <2>3, <2>4 DEF CommandInv
<1> QED BY <1>1, <1>2

LEMMA FirstCommandInv == CommandInit => CommandInv
<1> SUFFICES ASSUME CommandInit PROVE CommandInv OBVIOUS
<1>1. /\ phase = "over" /\ result = "none" /\ before = disk /\ verdicts = <<>>
      /\ command = [verb |-> "none"]
  BY DEF CommandInit
<1>2. Judged BY <1>1 DEF Judged
<1>3. Roles BY <1>1 DEF Roles
<1>4. DiskIsTouchedLast BY <1>1 DEF DiskIsTouchedLast
<1> QED BY <1>2, <1>3, <1>4 DEF CommandInv

\* Whatever kits, compilers, limits, printers and cancellations do, a command that
\* does not answer that it passed or failed leaves the contracts root, the archive and
\* the report as they were, unless only its summary was lost; nothing is written before
\* every kit has answered; and a report tells the verdicts of its own check.
THEOREM DiskTouchedLast == CommandSpec => []DiskIsTouchedLast
<1>1. CommandInv => DiskIsTouchedLast BY DEF CommandInv
<1> QED BY <1>1, FirstCommandInv, NextCommandInv, PTL DEF CommandSpec

-----------------------------------------------------------------------------
(* Every fold of the model has a type and is done one element after the other.  No
   theorem can be about any operator, so each fold is unrolled on its own. *)

Ledger == [entries : Nat, total : Nat, stopped : {"none", "limit", "sources"}]
Budget == [entries : Nat, total : Nat, file : Nat]
Amounts == [Resources -> Nat]
YamlReading ==
    [used : Amounts, ceiling : Amounts, read : Seq(ContractFile), error : {"none", "layout", "version"}]
Agreement == Extraction \cup {Conflict}
Size == Nat \cup {Unavailable}

LEMMA ChargeTyped ==
    ASSUME limits \in Budget, NEW charged \in Ledger, NEW size \in Size
    PROVE  Charge(charged, size) \in Ledger
<1>1. size # Unavailable => size \in Nat BY DEF Size
<1>2. charged.entries \in Nat /\ charged.total \in Nat BY DEF Ledger
<1>3. [charged EXCEPT !.stopped = "limit"] \in Ledger BY DEF Ledger
<1>0. [charged EXCEPT !.entries = @ + 1] \in Ledger BY <1>2 DEF Ledger
<1>4. PICK c \in Ledger : c = [charged EXCEPT !.entries = @ + 1] BY <1>0, Zenon
<1>5. ASSUME NEW error \in {"limit", "sources"}
      PROVE  [charged EXCEPT !.entries = @ + 1, !.stopped = error] \in Ledger
  <2>1. [c EXCEPT !.stopped = error] \in Ledger BY DEF Ledger
  <2> QED BY <1>4, <2>1, Zenon
<1>6. ASSUME size \in Nat PROVE [charged EXCEPT !.entries = @ + 1, !.total = @ + size] \in Ledger
  <2>1. c.total = charged.total BY <1>4 DEF Ledger
  <2>2. [c EXCEPT !.total = charged.total + size] \in Ledger BY <1>2, <1>6 DEF Ledger
  <2> QED BY <1>4, <2>2, Zenon
<1> QED BY <1>1, <1>3, <1>5, <1>6 DEF Charge

LEMMA Greater == ASSUME NEW x \in Nat, NEW y \in Nat PROVE Max({x, y}) = IF x <= y THEN y ELSE x
<1> DEFINE z == IF x <= y THEN y ELSE x
<1>1. z \in {x, y} /\ \A w \in {x, y} : z >= w OBVIOUS
<1>2. \A v \in {x, y} : (\A w \in {x, y} : v >= w) => v = z OBVIOUS
<1>3. Max({x, y}) \in {x, y} /\ \A w \in {x, y} : Max({x, y}) >= w BY <1>1 DEF Max
<1> QED BY <1>2, <1>3

LEMMA Observed ==
    ASSUME NEW used \in Amounts, NEW amount \in Amounts
    PROVE  /\ Observe(used, amount) \in Amounts
           /\ \A r \in Resources : Observe(used, amount)[r] =
                 IF r # "depth" THEN used[r] + amount[r]
                 ELSE IF used[r] <= amount[r] THEN amount[r] ELSE used[r]
BY Greater DEF Observe, Amounts

LEMMA ReplayTyped == ASSUME NEW f \in ContractFile PROVE Replay(f) \in Amounts /\ f.raw \in Amounts
BY DEF Replay, ContractFile, Amounts, Resources, Replayed

LEMMA Errors ==
    ASSUME NEW f, NEW used, NEW ceil PROVE FileError(f, used, ceil) \in {"none", "layout", "version"}
BY DEF FileError, FirstUnsound

LEMMA ReadTextTyped ==
    ASSUME NEW reading \in YamlReading, NEW f \in ContractFile
    PROVE  /\ ReadText(reading, f) \in YamlReading /\ BoundText(reading, f) \in YamlReading
<1>1. reading.used \in Amounts /\ reading.read \in Seq(ContractFile) BY DEF YamlReading
<1>2. Observe(Observe(reading.used, f.raw), Replay(f)) \in Amounts
  BY <1>1, ReplayTyped, Observed
<1>3. Append(reading.read, f) \in Seq(ContractFile) BY <1>1
<1>4. FileError(f, reading.used, reading.ceiling) \in {"none", "layout", "version"} BY Errors
<1>5. ReadText(reading, f) \in YamlReading BY <1>2, <1>3, <1>4 DEF ReadText, YamlReading
<1>6. [ReadText(reading, f) EXCEPT !.error = "layout"] \in YamlReading BY <1>5 DEF YamlReading
<1> QED BY <1>5, <1>6 DEF BoundText

LEMMA SumAppended ==
    ASSUME NEW s \in Seq(Size)
    PROVE  /\ Sum(<<>>) = 0
           /\ Sum(s) \in Nat
           /\ \A e \in Size : Sum(Append(s, e)) = (IF e = Unavailable THEN Sum(s) ELSE Sum(s) + e)
<1> DEFINE E == Size
           X == Nat
           Op(v, x) == (IF x = Unavailable THEN v ELSE v + x)
           step(q) == [i \in 1..Len(q) |-> [v \in X |-> Op(v, q[i])]]
           Iter(q, f) == f = [z \in SUBSET DOMAIN q |->
                                IF z = {} THEN 0 ELSE Op(f[z \ {Max(z)}], q[Max(z)])]
           iter(q) == CHOOSE f : Iter(q, f)
<1>1. \A v \in X, x \in E : Op(v, x) \in X BY DEF Unavailable, Size
<1>2. 0 \in X OBVIOUS
<1>b. PICK b \in X : b = 0 BY <1>2
<1>3. /\ Sum(<<>>) = iter(<<>>)[DOMAIN <<>>] /\ Sum(s) = iter(s)[DOMAIN s]
      /\ \A e : Sum(Append(s, e)) = iter(Append(s, e))[DOMAIN Append(s, e)]
  BY DEF Sum, FoldLeft, MapThenFoldSet
<1>4. s \in Seq(E) OBVIOUS
<1>5. \A e : (IF e = Unavailable THEN Sum(s) ELSE Sum(s) + e) = Op(Sum(s), e) OBVIOUS
<1> HIDE DEF Op, E, X
<1>6. ASSUME NEW q \in Seq(E)
      PROVE  /\ step(q) \in [1..Len(q) -> [X -> X]] /\ Len(q) \in Nat
             /\ Recurses(iter(q), Len(q), X, b, step(q))
  <2> DEFINE n == Len(q)
  <2>1. n \in Nat /\ DOMAIN q = 1..n /\ \A i \in 1..n : q[i] \in E OBVIOUS
  <2>2. step(q) \in [1..n -> [X -> X]] BY <1>1, <2>1
  <2>3. \A i \in 1..n : \A v \in X : step(q)[i][v] = Op(v, q[i]) OBVIOUS
  <2> HIDE DEF n, step
  <2>4. PICK g \in [SUBSET (1..n) -> X] : SubsetSteps(g, n, b, step(q))
    BY <2>1, <2>2, IteratedOverSubsets
  <2>5. Iter(q, g)
    <3> SUFFICES ASSUME NEW z \in SUBSET (1..n)
                 PROVE  g[z] = IF z = {} THEN b ELSE Op(g[z \ {Max(z)}], q[Max(z)])
      BY <1>b, <2>1, <2>4
    <3>1. CASE z = {} BY <2>4, <3>1 DEF SubsetSteps
    <3>2. CASE z # {}
      <4>1. Max(z) \in 1..n BY <2>1, <3>2, Greatest
      <4>2. g[z] = step(q)[Max(z)][g[z \ {Max(z)}]] /\ g[z \ {Max(z)}] \in X
        BY <2>4, <3>2 DEF SubsetSteps
      <4> QED BY <2>3, <3>2, <4>1, <4>2
    <3> QED BY <3>1, <3>2
  <2>6. Iter(q, iter(q))
    <3> HIDE DEF Iter
    <3> QED BY <2>5
  <2> HIDE DEF iter
  <2>7. iter(q)[{}] = b BY <1>b, <2>6
  <2>8. ASSUME NEW z \in SUBSET (1..n), z # {}, iter(q)[z \ {Max(z)}] \in X
        PROVE  iter(q)[z] = step(q)[Max(z)][iter(q)[z \ {Max(z)}]]
    <3>1. Max(z) \in 1..n BY <2>1, <2>8, Greatest
    <3>2. iter(q)[z] = Op(iter(q)[z \ {Max(z)}], q[Max(z)]) BY <2>1, <2>6, <2>8
    <3> QED BY <2>3, <2>8, <3>1, <3>2
  <2>9. Recurses(iter(q), n, X, b, step(q)) BY <2>7, <2>8 DEF Recurses
  <2> QED BY <2>1, <2>2, <2>9 DEF n
<1>7. iter(<<>>)[{}] = b
  <2>1. <<>> \in Seq(E) OBVIOUS
  <2>2. PICK z : z = <<>> OBVIOUS
  <2>3. Recurses(iter(z), Len(z), X, b, step(z)) BY <1>6, <2>1, <2>2
  <2>4. iter(z)[{}] = b
    <3> HIDE DEF iter, step
    <3> QED BY <2>3 DEF Recurses
  <2> QED BY <2>2, <2>4
<1>8. ASSUME NEW e \in E PROVE Sum(s) \in X /\ Sum(Append(s, e)) = Op(Sum(s), e)
  <2> DEFINE t == Append(s, e)
             n == Len(s)
             m == n + 1
  <2>1. /\ n \in Nat /\ t \in Seq(E) /\ Len(t) = m /\ m = n + 1 /\ m \in Nat /\ t[m] = e
        /\ DOMAIN s = 1..n /\ DOMAIN t = 1..m /\ \A i \in 1..n : t[i] = s[i]
    BY <1>4
  <2>2. /\ step(s) \in [1..n -> [X -> X]] /\ Recurses(iter(s), n, X, b, step(s))
        /\ step(t) \in [1..m -> [X -> X]] /\ Recurses(iter(t), m, X, b, step(t))
    <3>1. /\ step(s) \in [1..n -> [X -> X]] /\ Recurses(iter(s), n, X, b, step(s))
      BY <1>4, <1>6
    <3>2. /\ step(t) \in [1..Len(t) -> [X -> X]] /\ Recurses(iter(t), Len(t), X, b, step(t))
      BY <1>6, <2>1
    <3> HIDE DEF t, step, iter
    <3> QED BY <2>1, <3>1, <3>2
  <2>3. \A i \in 1..n : step(t)[i] = step(s)[i] BY <2>1
  <2>4. \A v \in X : step(t)[m][v] = Op(v, e) BY <2>1
  <2> HIDE DEF step, iter, t, n, m
  <2>5. SameSteps(step(s), step(t), n) BY <2>3 DEF SameSteps
  <2>6. OneFurther(iter(s), iter(t), n, m, X, step(t)) BY <1>b, <2>1, <2>2, <2>5, FoldAppended
  <2>7. iter(s)[1..n] \in X /\ iter(t)[1..m] = step(t)[m][iter(s)[1..n]] BY <2>6 DEF OneFurther
  <2>8. Sum(Append(s, e)) = iter(t)[1..m] BY <1>3, <2>1 DEF t
  <2> QED BY <1>3, <2>1, <2>4, <2>7, <2>8
<1>9. DOMAIN <<>> = {} OBVIOUS
<1>10. Sum(<<>>) = 0
  <2> HIDE DEF iter
  <2> QED BY <1>b, <1>3, <1>7, <1>9, Zenon
<1>11. Sum(s) \in X
  <2>1. CASE s = <<>> BY <1>2, <1>10, <2>1
  <2>2. CASE s # <<>>
    <3>1. s[1] \in E BY <1>4, <2>2
    <3> QED BY <1>8, <3>1
  <2> QED BY <2>1, <2>2
<1> QED BY <1>5, <1>8, <1>10, <1>11 DEF X, E

LEMMA ChargeAppended ==
    ASSUME limits \in Budget, NEW charged \in Ledger,
           NEW s \in Seq(Size)
    PROVE  /\ ChargeAll(charged, <<>>) = charged
           /\ ChargeAll(charged, s) \in Ledger
           /\ \A e \in Size : ChargeAll(charged, Append(s, e)) = Charge(ChargeAll(charged, s), e)
<1> DEFINE E == Size
           X == Ledger
           Op(v, x) == Charge(v, x)
           step(q) == [i \in 1..Len(q) |-> [v \in X |-> Op(v, q[i])]]
           Iter(q, f) == f = [z \in SUBSET DOMAIN q |->
                                IF z = {} THEN charged ELSE Op(f[z \ {Max(z)}], q[Max(z)])]
           iter(q) == CHOOSE f : Iter(q, f)
<1>1. \A v \in X, x \in E : Op(v, x) \in X BY ChargeTyped
<1>2. charged \in X OBVIOUS
<1>b. PICK b \in X : b = charged BY <1>2
<1>3. /\ ChargeAll(charged, <<>>) = iter(<<>>)[DOMAIN <<>>] /\ ChargeAll(charged, s) = iter(s)[DOMAIN s]
      /\ \A e : ChargeAll(charged, Append(s, e)) = iter(Append(s, e))[DOMAIN Append(s, e)]
  BY DEF ChargeAll, FoldLeft, MapThenFoldSet
<1>4. s \in Seq(E) OBVIOUS
<1>5. \A e : Charge(ChargeAll(charged, s), e) = Op(ChargeAll(charged, s), e) OBVIOUS
<1> HIDE DEF Op, E, X
<1>6. ASSUME NEW q \in Seq(E)
      PROVE  /\ step(q) \in [1..Len(q) -> [X -> X]] /\ Len(q) \in Nat
             /\ Recurses(iter(q), Len(q), X, b, step(q))
  <2> DEFINE n == Len(q)
  <2>1. n \in Nat /\ DOMAIN q = 1..n /\ \A i \in 1..n : q[i] \in E OBVIOUS
  <2>2. step(q) \in [1..n -> [X -> X]] BY <1>1, <2>1
  <2>3. \A i \in 1..n : \A v \in X : step(q)[i][v] = Op(v, q[i]) OBVIOUS
  <2> HIDE DEF n, step
  <2>4. PICK g \in [SUBSET (1..n) -> X] : SubsetSteps(g, n, b, step(q))
    BY <2>1, <2>2, IteratedOverSubsets
  <2>5. Iter(q, g)
    <3> SUFFICES ASSUME NEW z \in SUBSET (1..n)
                 PROVE  g[z] = IF z = {} THEN b ELSE Op(g[z \ {Max(z)}], q[Max(z)])
      BY <1>b, <2>1, <2>4
    <3>1. CASE z = {} BY <2>4, <3>1 DEF SubsetSteps
    <3>2. CASE z # {}
      <4>1. Max(z) \in 1..n BY <2>1, <3>2, Greatest
      <4>2. g[z] = step(q)[Max(z)][g[z \ {Max(z)}]] /\ g[z \ {Max(z)}] \in X
        BY <2>4, <3>2 DEF SubsetSteps
      <4> QED BY <2>3, <3>2, <4>1, <4>2
    <3> QED BY <3>1, <3>2
  <2>6. Iter(q, iter(q))
    <3> HIDE DEF Iter
    <3> QED BY <2>5
  <2> HIDE DEF iter
  <2>7. iter(q)[{}] = b BY <1>b, <2>6
  <2>8. ASSUME NEW z \in SUBSET (1..n), z # {}, iter(q)[z \ {Max(z)}] \in X
        PROVE  iter(q)[z] = step(q)[Max(z)][iter(q)[z \ {Max(z)}]]
    <3>1. Max(z) \in 1..n BY <2>1, <2>8, Greatest
    <3>2. iter(q)[z] = Op(iter(q)[z \ {Max(z)}], q[Max(z)]) BY <2>1, <2>6, <2>8
    <3> QED BY <2>3, <2>8, <3>1, <3>2
  <2>9. Recurses(iter(q), n, X, b, step(q)) BY <2>7, <2>8 DEF Recurses
  <2> QED BY <2>1, <2>2, <2>9 DEF n
<1>7. iter(<<>>)[{}] = b
  <2>1. <<>> \in Seq(E) OBVIOUS
  <2>2. PICK z : z = <<>> OBVIOUS
  <2>3. Recurses(iter(z), Len(z), X, b, step(z)) BY <1>6, <2>1, <2>2
  <2>4. iter(z)[{}] = b
    <3> HIDE DEF iter, step
    <3> QED BY <2>3 DEF Recurses
  <2> QED BY <2>2, <2>4
<1>8. ASSUME NEW e \in E
      PROVE  ChargeAll(charged, s) \in X /\ ChargeAll(charged, Append(s, e)) = Op(ChargeAll(charged, s), e)
  <2> DEFINE t == Append(s, e)
             n == Len(s)
             m == n + 1
  <2>1. /\ n \in Nat /\ t \in Seq(E) /\ Len(t) = m /\ m = n + 1 /\ m \in Nat /\ t[m] = e
        /\ DOMAIN s = 1..n /\ DOMAIN t = 1..m /\ \A i \in 1..n : t[i] = s[i]
    BY <1>4
  <2>2. /\ step(s) \in [1..n -> [X -> X]] /\ Recurses(iter(s), n, X, b, step(s))
        /\ step(t) \in [1..m -> [X -> X]] /\ Recurses(iter(t), m, X, b, step(t))
    <3>1. /\ step(s) \in [1..n -> [X -> X]] /\ Recurses(iter(s), n, X, b, step(s))
      BY <1>4, <1>6
    <3>2. /\ step(t) \in [1..Len(t) -> [X -> X]] /\ Recurses(iter(t), Len(t), X, b, step(t))
      BY <1>6, <2>1
    <3> HIDE DEF t, step, iter
    <3> QED BY <2>1, <3>1, <3>2
  <2>3. \A i \in 1..n : step(t)[i] = step(s)[i] BY <2>1
  <2>4. \A v \in X : step(t)[m][v] = Op(v, e) BY <2>1
  <2> HIDE DEF step, iter, t, n, m
  <2>5. SameSteps(step(s), step(t), n) BY <2>3 DEF SameSteps
  <2>6. OneFurther(iter(s), iter(t), n, m, X, step(t)) BY <1>b, <2>1, <2>2, <2>5, FoldAppended
  <2>7. iter(s)[1..n] \in X /\ iter(t)[1..m] = step(t)[m][iter(s)[1..n]] BY <2>6 DEF OneFurther
  <2>8. ChargeAll(charged, Append(s, e)) = iter(t)[1..m] BY <1>3, <2>1 DEF t
  <2> QED BY <1>3, <2>1, <2>4, <2>7, <2>8
<1>9. DOMAIN <<>> = {} OBVIOUS
<1>10. ChargeAll(charged, <<>>) = charged
  <2> HIDE DEF iter
  <2> QED BY <1>b, <1>3, <1>7, <1>9, Zenon
<1>11. ChargeAll(charged, s) \in X
  <2>1. CASE s = <<>> BY <1>2, <1>10, <2>1
  <2>2. CASE s # <<>>
    <3>1. s[1] \in E BY <1>4, <2>2
    <3> QED BY <1>8, <3>1
  <2> QED BY <2>1, <2>2
<1> QED BY <1>5, <1>8, <1>10, <1>11 DEF X, E

LEMMA DirectAppended ==
    ASSUME NEW s \in Seq(ContractFile)
    PROVE  /\ DirectFiles(<<>>) = <<>>
           /\ DirectFiles(s) \in Seq(ContractFile)
           /\ \A e \in ContractFile : DirectFiles(Append(s, e)) =
                 (IF e.direct THEN Append(DirectFiles(s), e) ELSE DirectFiles(s))
<1> DEFINE E == ContractFile
           X == Seq(ContractFile)
           Op(v, x) == (IF x.direct THEN Append(v, x) ELSE v)
           step(q) == [i \in 1..Len(q) |-> [v \in X |-> Op(v, q[i])]]
           Iter(q, f) == f = [z \in SUBSET DOMAIN q |->
                                IF z = {} THEN <<>> ELSE Op(f[z \ {Max(z)}], q[Max(z)])]
           iter(q) == CHOOSE f : Iter(q, f)
<1>1. \A v \in X, x \in E : Op(v, x) \in X OBVIOUS
<1>2. <<>> \in X OBVIOUS
<1>b. PICK b \in X : b = <<>> BY <1>2
<1>3. /\ DirectFiles(<<>>) = iter(<<>>)[DOMAIN <<>>] /\ DirectFiles(s) = iter(s)[DOMAIN s]
      /\ \A e : DirectFiles(Append(s, e)) = iter(Append(s, e))[DOMAIN Append(s, e)]
  BY DEF DirectFiles, FoldLeft, MapThenFoldSet
<1>4. s \in Seq(E) OBVIOUS
<1>5. \A e : (IF e.direct THEN Append(DirectFiles(s), e) ELSE DirectFiles(s)) = Op(DirectFiles(s), e) OBVIOUS
<1> HIDE DEF Op, E, X
<1>6. ASSUME NEW q \in Seq(E)
      PROVE  /\ step(q) \in [1..Len(q) -> [X -> X]] /\ Len(q) \in Nat
             /\ Recurses(iter(q), Len(q), X, b, step(q))
  <2> DEFINE n == Len(q)
  <2>1. n \in Nat /\ DOMAIN q = 1..n /\ \A i \in 1..n : q[i] \in E OBVIOUS
  <2>2. step(q) \in [1..n -> [X -> X]] BY <1>1, <2>1
  <2>3. \A i \in 1..n : \A v \in X : step(q)[i][v] = Op(v, q[i]) OBVIOUS
  <2> HIDE DEF n, step
  <2>4. PICK g \in [SUBSET (1..n) -> X] : SubsetSteps(g, n, b, step(q))
    BY <2>1, <2>2, IteratedOverSubsets
  <2>5. Iter(q, g)
    <3> SUFFICES ASSUME NEW z \in SUBSET (1..n)
                 PROVE  g[z] = IF z = {} THEN b ELSE Op(g[z \ {Max(z)}], q[Max(z)])
      BY <1>b, <2>1, <2>4
    <3>1. CASE z = {} BY <2>4, <3>1 DEF SubsetSteps
    <3>2. CASE z # {}
      <4>1. Max(z) \in 1..n BY <2>1, <3>2, Greatest
      <4>2. g[z] = step(q)[Max(z)][g[z \ {Max(z)}]] /\ g[z \ {Max(z)}] \in X
        BY <2>4, <3>2 DEF SubsetSteps
      <4> QED BY <2>3, <3>2, <4>1, <4>2
    <3> QED BY <3>1, <3>2
  <2>6. Iter(q, iter(q))
    <3> HIDE DEF Iter
    <3> QED BY <2>5
  <2> HIDE DEF iter
  <2>7. iter(q)[{}] = b BY <1>b, <2>6
  <2>8. ASSUME NEW z \in SUBSET (1..n), z # {}, iter(q)[z \ {Max(z)}] \in X
        PROVE  iter(q)[z] = step(q)[Max(z)][iter(q)[z \ {Max(z)}]]
    <3>1. Max(z) \in 1..n BY <2>1, <2>8, Greatest
    <3>2. iter(q)[z] = Op(iter(q)[z \ {Max(z)}], q[Max(z)]) BY <2>1, <2>6, <2>8
    <3> QED BY <2>3, <2>8, <3>1, <3>2
  <2>9. Recurses(iter(q), n, X, b, step(q)) BY <2>7, <2>8 DEF Recurses
  <2> QED BY <2>1, <2>2, <2>9 DEF n
<1>7. iter(<<>>)[{}] = b
  <2>1. <<>> \in Seq(E) OBVIOUS
  <2>2. PICK z : z = <<>> OBVIOUS
  <2>3. Recurses(iter(z), Len(z), X, b, step(z)) BY <1>6, <2>1, <2>2
  <2>4. iter(z)[{}] = b
    <3> HIDE DEF iter, step
    <3> QED BY <2>3 DEF Recurses
  <2> QED BY <2>2, <2>4
<1>8. ASSUME NEW e \in E PROVE DirectFiles(s) \in X /\ DirectFiles(Append(s, e)) = Op(DirectFiles(s), e)
  <2> DEFINE t == Append(s, e)
             n == Len(s)
             m == n + 1
  <2>1. /\ n \in Nat /\ t \in Seq(E) /\ Len(t) = m /\ m = n + 1 /\ m \in Nat /\ t[m] = e
        /\ DOMAIN s = 1..n /\ DOMAIN t = 1..m /\ \A i \in 1..n : t[i] = s[i]
    BY <1>4
  <2>2. /\ step(s) \in [1..n -> [X -> X]] /\ Recurses(iter(s), n, X, b, step(s))
        /\ step(t) \in [1..m -> [X -> X]] /\ Recurses(iter(t), m, X, b, step(t))
    <3>1. /\ step(s) \in [1..n -> [X -> X]] /\ Recurses(iter(s), n, X, b, step(s))
      BY <1>4, <1>6
    <3>2. /\ step(t) \in [1..Len(t) -> [X -> X]] /\ Recurses(iter(t), Len(t), X, b, step(t))
      BY <1>6, <2>1
    <3> HIDE DEF t, step, iter
    <3> QED BY <2>1, <3>1, <3>2
  <2>3. \A i \in 1..n : step(t)[i] = step(s)[i] BY <2>1
  <2>4. \A v \in X : step(t)[m][v] = Op(v, e) BY <2>1
  <2> HIDE DEF step, iter, t, n, m
  <2>5. SameSteps(step(s), step(t), n) BY <2>3 DEF SameSteps
  <2>6. OneFurther(iter(s), iter(t), n, m, X, step(t)) BY <1>b, <2>1, <2>2, <2>5, FoldAppended
  <2>7. iter(s)[1..n] \in X /\ iter(t)[1..m] = step(t)[m][iter(s)[1..n]] BY <2>6 DEF OneFurther
  <2>8. DirectFiles(Append(s, e)) = iter(t)[1..m] BY <1>3, <2>1 DEF t
  <2> QED BY <1>3, <2>1, <2>4, <2>7, <2>8
<1>9. DOMAIN <<>> = {} OBVIOUS
<1>10. DirectFiles(<<>>) = <<>>
  <2> HIDE DEF iter
  <2> QED BY <1>b, <1>3, <1>7, <1>9, Zenon
<1>11. DirectFiles(s) \in X
  <2>1. CASE s = <<>> BY <1>2, <1>10, <2>1
  <2>2. CASE s # <<>>
    <3>1. s[1] \in E BY <1>4, <2>2
    <3> QED BY <1>8, <3>1
  <2> QED BY <2>1, <2>2
<1> QED BY <1>5, <1>8, <1>10, <1>11 DEF X, E

LEMMA TotalAppended ==
    ASSUME NEW r \in Resources, r # "depth",
           NEW s \in Seq(ContractFile)
    PROVE  /\ Total(<<>>, r) = 0
           /\ Total(s, r) \in Nat
           /\ \A e \in ContractFile : Total(Append(s, e), r) = (Total(s, r) + e.raw[r] + Replay(e)[r])
<1> DEFINE E == ContractFile
           X == Nat
           Op(v, x) == (v + x.raw[r] + Replay(x)[r])
           step(q) == [i \in 1..Len(q) |-> [v \in X |-> Op(v, q[i])]]
           Iter(q, f) == f = [z \in SUBSET DOMAIN q |->
                                IF z = {} THEN 0 ELSE Op(f[z \ {Max(z)}], q[Max(z)])]
           iter(q) == CHOOSE f : Iter(q, f)
<1>1. \A v \in X, x \in E : Op(v, x) \in X BY ReplayTyped DEF Amounts
<1>2. 0 \in X OBVIOUS
<1>b. PICK b \in X : b = 0 BY <1>2
<1>3. /\ Total(<<>>, r) = iter(<<>>)[DOMAIN <<>>] /\ Total(s, r) = iter(s)[DOMAIN s]
      /\ \A e : Total(Append(s, e), r) = iter(Append(s, e))[DOMAIN Append(s, e)]
  BY DEF Total, FoldLeft, MapThenFoldSet
<1>4. s \in Seq(E) OBVIOUS
<1>5. \A e : (Total(s, r) + e.raw[r] + Replay(e)[r]) = Op(Total(s, r), e) OBVIOUS
<1> HIDE DEF Op, E, X
<1>6. ASSUME NEW q \in Seq(E)
      PROVE  /\ step(q) \in [1..Len(q) -> [X -> X]] /\ Len(q) \in Nat
             /\ Recurses(iter(q), Len(q), X, b, step(q))
  <2> DEFINE n == Len(q)
  <2>1. n \in Nat /\ DOMAIN q = 1..n /\ \A i \in 1..n : q[i] \in E OBVIOUS
  <2>2. step(q) \in [1..n -> [X -> X]] BY <1>1, <2>1
  <2>3. \A i \in 1..n : \A v \in X : step(q)[i][v] = Op(v, q[i]) OBVIOUS
  <2> HIDE DEF n, step
  <2>4. PICK g \in [SUBSET (1..n) -> X] : SubsetSteps(g, n, b, step(q))
    BY <2>1, <2>2, IteratedOverSubsets
  <2>5. Iter(q, g)
    <3> SUFFICES ASSUME NEW z \in SUBSET (1..n)
                 PROVE  g[z] = IF z = {} THEN b ELSE Op(g[z \ {Max(z)}], q[Max(z)])
      BY <1>b, <2>1, <2>4
    <3>1. CASE z = {} BY <2>4, <3>1 DEF SubsetSteps
    <3>2. CASE z # {}
      <4>1. Max(z) \in 1..n BY <2>1, <3>2, Greatest
      <4>2. g[z] = step(q)[Max(z)][g[z \ {Max(z)}]] /\ g[z \ {Max(z)}] \in X
        BY <2>4, <3>2 DEF SubsetSteps
      <4> QED BY <2>3, <3>2, <4>1, <4>2
    <3> QED BY <3>1, <3>2
  <2>6. Iter(q, iter(q))
    <3> HIDE DEF Iter
    <3> QED BY <2>5
  <2> HIDE DEF iter
  <2>7. iter(q)[{}] = b BY <1>b, <2>6
  <2>8. ASSUME NEW z \in SUBSET (1..n), z # {}, iter(q)[z \ {Max(z)}] \in X
        PROVE  iter(q)[z] = step(q)[Max(z)][iter(q)[z \ {Max(z)}]]
    <3>1. Max(z) \in 1..n BY <2>1, <2>8, Greatest
    <3>2. iter(q)[z] = Op(iter(q)[z \ {Max(z)}], q[Max(z)]) BY <2>1, <2>6, <2>8
    <3> QED BY <2>3, <2>8, <3>1, <3>2
  <2>9. Recurses(iter(q), n, X, b, step(q)) BY <2>7, <2>8 DEF Recurses
  <2> QED BY <2>1, <2>2, <2>9 DEF n
<1>7. iter(<<>>)[{}] = b
  <2>1. <<>> \in Seq(E) OBVIOUS
  <2>2. PICK z : z = <<>> OBVIOUS
  <2>3. Recurses(iter(z), Len(z), X, b, step(z)) BY <1>6, <2>1, <2>2
  <2>4. iter(z)[{}] = b
    <3> HIDE DEF iter, step
    <3> QED BY <2>3 DEF Recurses
  <2> QED BY <2>2, <2>4
<1>8. ASSUME NEW e \in E PROVE Total(s, r) \in X /\ Total(Append(s, e), r) = Op(Total(s, r), e)
  <2> DEFINE t == Append(s, e)
             n == Len(s)
             m == n + 1
  <2>1. /\ n \in Nat /\ t \in Seq(E) /\ Len(t) = m /\ m = n + 1 /\ m \in Nat /\ t[m] = e
        /\ DOMAIN s = 1..n /\ DOMAIN t = 1..m /\ \A i \in 1..n : t[i] = s[i]
    BY <1>4
  <2>2. /\ step(s) \in [1..n -> [X -> X]] /\ Recurses(iter(s), n, X, b, step(s))
        /\ step(t) \in [1..m -> [X -> X]] /\ Recurses(iter(t), m, X, b, step(t))
    <3>1. /\ step(s) \in [1..n -> [X -> X]] /\ Recurses(iter(s), n, X, b, step(s))
      BY <1>4, <1>6
    <3>2. /\ step(t) \in [1..Len(t) -> [X -> X]] /\ Recurses(iter(t), Len(t), X, b, step(t))
      BY <1>6, <2>1
    <3> HIDE DEF t, step, iter
    <3> QED BY <2>1, <3>1, <3>2
  <2>3. \A i \in 1..n : step(t)[i] = step(s)[i] BY <2>1
  <2>4. \A v \in X : step(t)[m][v] = Op(v, e) BY <2>1
  <2> HIDE DEF step, iter, t, n, m
  <2>5. SameSteps(step(s), step(t), n) BY <2>3 DEF SameSteps
  <2>6. OneFurther(iter(s), iter(t), n, m, X, step(t)) BY <1>b, <2>1, <2>2, <2>5, FoldAppended
  <2>7. iter(s)[1..n] \in X /\ iter(t)[1..m] = step(t)[m][iter(s)[1..n]] BY <2>6 DEF OneFurther
  <2>8. Total(Append(s, e), r) = iter(t)[1..m] BY <1>3, <2>1 DEF t
  <2> QED BY <1>3, <2>1, <2>4, <2>7, <2>8
<1>9. DOMAIN <<>> = {} OBVIOUS
<1>10. Total(<<>>, r) = 0
  <2> HIDE DEF iter
  <2> QED BY <1>b, <1>3, <1>7, <1>9, Zenon
<1>11. Total(s, r) \in X
  <2>1. CASE s = <<>> BY <1>2, <1>10, <2>1
  <2>2. CASE s # <<>>
    <3>1. s[1] \in E BY <1>4, <2>2
    <3> QED BY <1>8, <3>1
  <2> QED BY <2>1, <2>2
<1> QED BY <1>5, <1>8, <1>10, <1>11 DEF X, E

LEMMA ValidateAppended ==
    ASSUME NEW reading \in YamlReading,
           NEW s \in Seq(ContractFile)
    PROVE  /\ Validate(reading, <<>>) = reading
           /\ Validate(reading, s) \in YamlReading
           /\ \A e \in ContractFile : Validate(reading, Append(s, e)) = ReadText(Validate(reading, s), e)
<1> DEFINE E == ContractFile
           X == YamlReading
           Op(v, x) == ReadText(v, x)
           step(q) == [i \in 1..Len(q) |-> [v \in X |-> Op(v, q[i])]]
           Iter(q, f) == f = [z \in SUBSET DOMAIN q |->
                                IF z = {} THEN reading ELSE Op(f[z \ {Max(z)}], q[Max(z)])]
           iter(q) == CHOOSE f : Iter(q, f)
<1>1. \A v \in X, x \in E : Op(v, x) \in X BY ReadTextTyped
<1>2. reading \in X OBVIOUS
<1>b. PICK b \in X : b = reading BY <1>2
<1>3. /\ Validate(reading, <<>>) = iter(<<>>)[DOMAIN <<>>] /\ Validate(reading, s) = iter(s)[DOMAIN s]
      /\ \A e : Validate(reading, Append(s, e)) = iter(Append(s, e))[DOMAIN Append(s, e)]
  BY DEF Validate, FoldLeft, MapThenFoldSet
<1>4. s \in Seq(E) OBVIOUS
<1>5. \A e : ReadText(Validate(reading, s), e) = Op(Validate(reading, s), e) OBVIOUS
<1> HIDE DEF Op, E, X
<1>6. ASSUME NEW q \in Seq(E)
      PROVE  /\ step(q) \in [1..Len(q) -> [X -> X]] /\ Len(q) \in Nat
             /\ Recurses(iter(q), Len(q), X, b, step(q))
  <2> DEFINE n == Len(q)
  <2>1. n \in Nat /\ DOMAIN q = 1..n /\ \A i \in 1..n : q[i] \in E OBVIOUS
  <2>2. step(q) \in [1..n -> [X -> X]] BY <1>1, <2>1
  <2>3. \A i \in 1..n : \A v \in X : step(q)[i][v] = Op(v, q[i]) OBVIOUS
  <2> HIDE DEF n, step
  <2>4. PICK g \in [SUBSET (1..n) -> X] : SubsetSteps(g, n, b, step(q))
    BY <2>1, <2>2, IteratedOverSubsets
  <2>5. Iter(q, g)
    <3> SUFFICES ASSUME NEW z \in SUBSET (1..n)
                 PROVE  g[z] = IF z = {} THEN b ELSE Op(g[z \ {Max(z)}], q[Max(z)])
      BY <1>b, <2>1, <2>4
    <3>1. CASE z = {} BY <2>4, <3>1 DEF SubsetSteps
    <3>2. CASE z # {}
      <4>1. Max(z) \in 1..n BY <2>1, <3>2, Greatest
      <4>2. g[z] = step(q)[Max(z)][g[z \ {Max(z)}]] /\ g[z \ {Max(z)}] \in X
        BY <2>4, <3>2 DEF SubsetSteps
      <4> QED BY <2>3, <3>2, <4>1, <4>2
    <3> QED BY <3>1, <3>2
  <2>6. Iter(q, iter(q))
    <3> HIDE DEF Iter
    <3> QED BY <2>5
  <2> HIDE DEF iter
  <2>7. iter(q)[{}] = b BY <1>b, <2>6
  <2>8. ASSUME NEW z \in SUBSET (1..n), z # {}, iter(q)[z \ {Max(z)}] \in X
        PROVE  iter(q)[z] = step(q)[Max(z)][iter(q)[z \ {Max(z)}]]
    <3>1. Max(z) \in 1..n BY <2>1, <2>8, Greatest
    <3>2. iter(q)[z] = Op(iter(q)[z \ {Max(z)}], q[Max(z)]) BY <2>1, <2>6, <2>8
    <3> QED BY <2>3, <2>8, <3>1, <3>2
  <2>9. Recurses(iter(q), n, X, b, step(q)) BY <2>7, <2>8 DEF Recurses
  <2> QED BY <2>1, <2>2, <2>9 DEF n
<1>7. iter(<<>>)[{}] = b
  <2>1. <<>> \in Seq(E) OBVIOUS
  <2>2. PICK z : z = <<>> OBVIOUS
  <2>3. Recurses(iter(z), Len(z), X, b, step(z)) BY <1>6, <2>1, <2>2
  <2>4. iter(z)[{}] = b
    <3> HIDE DEF iter, step
    <3> QED BY <2>3 DEF Recurses
  <2> QED BY <2>2, <2>4
<1>8. ASSUME NEW e \in E
      PROVE  Validate(reading, s) \in X /\ Validate(reading, Append(s, e)) = Op(Validate(reading, s), e)
  <2> DEFINE t == Append(s, e)
             n == Len(s)
             m == n + 1
  <2>1. /\ n \in Nat /\ t \in Seq(E) /\ Len(t) = m /\ m = n + 1 /\ m \in Nat /\ t[m] = e
        /\ DOMAIN s = 1..n /\ DOMAIN t = 1..m /\ \A i \in 1..n : t[i] = s[i]
    BY <1>4
  <2>2. /\ step(s) \in [1..n -> [X -> X]] /\ Recurses(iter(s), n, X, b, step(s))
        /\ step(t) \in [1..m -> [X -> X]] /\ Recurses(iter(t), m, X, b, step(t))
    <3>1. /\ step(s) \in [1..n -> [X -> X]] /\ Recurses(iter(s), n, X, b, step(s))
      BY <1>4, <1>6
    <3>2. /\ step(t) \in [1..Len(t) -> [X -> X]] /\ Recurses(iter(t), Len(t), X, b, step(t))
      BY <1>6, <2>1
    <3> HIDE DEF t, step, iter
    <3> QED BY <2>1, <3>1, <3>2
  <2>3. \A i \in 1..n : step(t)[i] = step(s)[i] BY <2>1
  <2>4. \A v \in X : step(t)[m][v] = Op(v, e) BY <2>1
  <2> HIDE DEF step, iter, t, n, m
  <2>5. SameSteps(step(s), step(t), n) BY <2>3 DEF SameSteps
  <2>6. OneFurther(iter(s), iter(t), n, m, X, step(t)) BY <1>b, <2>1, <2>2, <2>5, FoldAppended
  <2>7. iter(s)[1..n] \in X /\ iter(t)[1..m] = step(t)[m][iter(s)[1..n]] BY <2>6 DEF OneFurther
  <2>8. Validate(reading, Append(s, e)) = iter(t)[1..m] BY <1>3, <2>1 DEF t
  <2> QED BY <1>3, <2>1, <2>4, <2>7, <2>8
<1>9. DOMAIN <<>> = {} OBVIOUS
<1>10. Validate(reading, <<>>) = reading
  <2> HIDE DEF iter
  <2> QED BY <1>b, <1>3, <1>7, <1>9, Zenon
<1>11. Validate(reading, s) \in X
  <2>1. CASE s = <<>> BY <1>2, <1>10, <2>1
  <2>2. CASE s # <<>>
    <3>1. s[1] \in E BY <1>4, <2>2
    <3> QED BY <1>8, <3>1
  <2> QED BY <2>1, <2>2
<1> QED BY <1>5, <1>8, <1>10, <1>11 DEF X, E

Bounding(reading, files) == FoldLeft(BoundText, reading, files)
LEMMA BoundAppended ==
    ASSUME NEW reading \in YamlReading,
           NEW s \in Seq(ContractFile)
    PROVE  /\ Bounding(reading, <<>>) = reading
           /\ Bounding(reading, s) \in YamlReading
           /\ \A e \in ContractFile : Bounding(reading, Append(s, e)) = BoundText(Bounding(reading, s), e)
<1> DEFINE E == ContractFile
           X == YamlReading
           Op(v, x) == BoundText(v, x)
           step(q) == [i \in 1..Len(q) |-> [v \in X |-> Op(v, q[i])]]
           Iter(q, f) == f = [z \in SUBSET DOMAIN q |->
                                IF z = {} THEN reading ELSE Op(f[z \ {Max(z)}], q[Max(z)])]
           iter(q) == CHOOSE f : Iter(q, f)
<1>1. \A v \in X, x \in E : Op(v, x) \in X BY ReadTextTyped
<1>2. reading \in X OBVIOUS
<1>b. PICK b \in X : b = reading BY <1>2
<1>3. /\ Bounding(reading, <<>>) = iter(<<>>)[DOMAIN <<>>] /\ Bounding(reading, s) = iter(s)[DOMAIN s]
      /\ \A e : Bounding(reading, Append(s, e)) = iter(Append(s, e))[DOMAIN Append(s, e)]
  BY DEF Bounding, FoldLeft, MapThenFoldSet
<1>4. s \in Seq(E) OBVIOUS
<1>5. \A e : BoundText(Bounding(reading, s), e) = Op(Bounding(reading, s), e) OBVIOUS
<1> HIDE DEF Op, E, X
<1>6. ASSUME NEW q \in Seq(E)
      PROVE  /\ step(q) \in [1..Len(q) -> [X -> X]] /\ Len(q) \in Nat
             /\ Recurses(iter(q), Len(q), X, b, step(q))
  <2> DEFINE n == Len(q)
  <2>1. n \in Nat /\ DOMAIN q = 1..n /\ \A i \in 1..n : q[i] \in E OBVIOUS
  <2>2. step(q) \in [1..n -> [X -> X]] BY <1>1, <2>1
  <2>3. \A i \in 1..n : \A v \in X : step(q)[i][v] = Op(v, q[i]) OBVIOUS
  <2> HIDE DEF n, step
  <2>4. PICK g \in [SUBSET (1..n) -> X] : SubsetSteps(g, n, b, step(q))
    BY <2>1, <2>2, IteratedOverSubsets
  <2>5. Iter(q, g)
    <3> SUFFICES ASSUME NEW z \in SUBSET (1..n)
                 PROVE  g[z] = IF z = {} THEN b ELSE Op(g[z \ {Max(z)}], q[Max(z)])
      BY <1>b, <2>1, <2>4
    <3>1. CASE z = {} BY <2>4, <3>1 DEF SubsetSteps
    <3>2. CASE z # {}
      <4>1. Max(z) \in 1..n BY <2>1, <3>2, Greatest
      <4>2. g[z] = step(q)[Max(z)][g[z \ {Max(z)}]] /\ g[z \ {Max(z)}] \in X
        BY <2>4, <3>2 DEF SubsetSteps
      <4> QED BY <2>3, <3>2, <4>1, <4>2
    <3> QED BY <3>1, <3>2
  <2>6. Iter(q, iter(q))
    <3> HIDE DEF Iter
    <3> QED BY <2>5
  <2> HIDE DEF iter
  <2>7. iter(q)[{}] = b BY <1>b, <2>6
  <2>8. ASSUME NEW z \in SUBSET (1..n), z # {}, iter(q)[z \ {Max(z)}] \in X
        PROVE  iter(q)[z] = step(q)[Max(z)][iter(q)[z \ {Max(z)}]]
    <3>1. Max(z) \in 1..n BY <2>1, <2>8, Greatest
    <3>2. iter(q)[z] = Op(iter(q)[z \ {Max(z)}], q[Max(z)]) BY <2>1, <2>6, <2>8
    <3> QED BY <2>3, <2>8, <3>1, <3>2
  <2>9. Recurses(iter(q), n, X, b, step(q)) BY <2>7, <2>8 DEF Recurses
  <2> QED BY <2>1, <2>2, <2>9 DEF n
<1>7. iter(<<>>)[{}] = b
  <2>1. <<>> \in Seq(E) OBVIOUS
  <2>2. PICK z : z = <<>> OBVIOUS
  <2>3. Recurses(iter(z), Len(z), X, b, step(z)) BY <1>6, <2>1, <2>2
  <2>4. iter(z)[{}] = b
    <3> HIDE DEF iter, step
    <3> QED BY <2>3 DEF Recurses
  <2> QED BY <2>2, <2>4
<1>8. ASSUME NEW e \in E
      PROVE  Bounding(reading, s) \in X /\ Bounding(reading, Append(s, e)) = Op(Bounding(reading, s), e)
  <2> DEFINE t == Append(s, e)
             n == Len(s)
             m == n + 1
  <2>1. /\ n \in Nat /\ t \in Seq(E) /\ Len(t) = m /\ m = n + 1 /\ m \in Nat /\ t[m] = e
        /\ DOMAIN s = 1..n /\ DOMAIN t = 1..m /\ \A i \in 1..n : t[i] = s[i]
    BY <1>4
  <2>2. /\ step(s) \in [1..n -> [X -> X]] /\ Recurses(iter(s), n, X, b, step(s))
        /\ step(t) \in [1..m -> [X -> X]] /\ Recurses(iter(t), m, X, b, step(t))
    <3>1. /\ step(s) \in [1..n -> [X -> X]] /\ Recurses(iter(s), n, X, b, step(s))
      BY <1>4, <1>6
    <3>2. /\ step(t) \in [1..Len(t) -> [X -> X]] /\ Recurses(iter(t), Len(t), X, b, step(t))
      BY <1>6, <2>1
    <3> HIDE DEF t, step, iter
    <3> QED BY <2>1, <3>1, <3>2
  <2>3. \A i \in 1..n : step(t)[i] = step(s)[i] BY <2>1
  <2>4. \A v \in X : step(t)[m][v] = Op(v, e) BY <2>1
  <2> HIDE DEF step, iter, t, n, m
  <2>5. SameSteps(step(s), step(t), n) BY <2>3 DEF SameSteps
  <2>6. OneFurther(iter(s), iter(t), n, m, X, step(t)) BY <1>b, <2>1, <2>2, <2>5, FoldAppended
  <2>7. iter(s)[1..n] \in X /\ iter(t)[1..m] = step(t)[m][iter(s)[1..n]] BY <2>6 DEF OneFurther
  <2>8. Bounding(reading, Append(s, e)) = iter(t)[1..m] BY <1>3, <2>1 DEF t
  <2> QED BY <1>3, <2>1, <2>4, <2>7, <2>8
<1>9. DOMAIN <<>> = {} OBVIOUS
<1>10. Bounding(reading, <<>>) = reading
  <2> HIDE DEF iter
  <2> QED BY <1>b, <1>3, <1>7, <1>9, Zenon
<1>11. Bounding(reading, s) \in X
  <2>1. CASE s = <<>> BY <1>2, <1>10, <2>1
  <2>2. CASE s # <<>>
    <3>1. s[1] \in E BY <1>4, <2>2
    <3> QED BY <1>8, <3>1
  <2> QED BY <2>1, <2>2
<1> QED BY <1>5, <1>8, <1>10, <1>11 DEF X, E

LEMMA JoinedAppended ==
    ASSUME NEW crate \in Seq(CrateRoot),
           NEW s \in Seq(CrateRoot)
    PROVE  /\ Joined(crate, <<>>) = crate
           /\ Joined(crate, s) \in Seq(CrateRoot)
           /\ \A e \in CrateRoot : Joined(crate, Append(s, e)) =
                 (IF e \in ToSet(Joined(crate, s)) THEN Joined(crate, s) ELSE Append(Joined(crate, s), e))
<1> DEFINE E == CrateRoot
           X == Seq(CrateRoot)
           Op(v, x) == (IF x \in ToSet(v) THEN v ELSE Append(v, x))
           step(q) == [i \in 1..Len(q) |-> [v \in X |-> Op(v, q[i])]]
           Iter(q, f) == f = [z \in SUBSET DOMAIN q |->
                                IF z = {} THEN crate ELSE Op(f[z \ {Max(z)}], q[Max(z)])]
           iter(q) == CHOOSE f : Iter(q, f)
<1>1. \A v \in X, x \in E : Op(v, x) \in X OBVIOUS
<1>2. crate \in X OBVIOUS
<1>b. PICK b \in X : b = crate BY <1>2
<1>3. /\ Joined(crate, <<>>) = iter(<<>>)[DOMAIN <<>>] /\ Joined(crate, s) = iter(s)[DOMAIN s]
      /\ \A e : Joined(crate, Append(s, e)) = iter(Append(s, e))[DOMAIN Append(s, e)]
  BY DEF Joined, FoldLeft, MapThenFoldSet
<1>4. s \in Seq(E) OBVIOUS
<1>5. \A e : (IF e \in ToSet(Joined(crate, s)) THEN Joined(crate, s) ELSE Append(Joined(crate, s), e))
            = Op(Joined(crate, s), e)
  OBVIOUS
<1> HIDE DEF Op, E, X
<1>6. ASSUME NEW q \in Seq(E)
      PROVE  /\ step(q) \in [1..Len(q) -> [X -> X]] /\ Len(q) \in Nat
             /\ Recurses(iter(q), Len(q), X, b, step(q))
  <2> DEFINE n == Len(q)
  <2>1. n \in Nat /\ DOMAIN q = 1..n /\ \A i \in 1..n : q[i] \in E OBVIOUS
  <2>2. step(q) \in [1..n -> [X -> X]] BY <1>1, <2>1
  <2>3. \A i \in 1..n : \A v \in X : step(q)[i][v] = Op(v, q[i]) OBVIOUS
  <2> HIDE DEF n, step
  <2>4. PICK g \in [SUBSET (1..n) -> X] : SubsetSteps(g, n, b, step(q))
    BY <2>1, <2>2, IteratedOverSubsets
  <2>5. Iter(q, g)
    <3> SUFFICES ASSUME NEW z \in SUBSET (1..n)
                 PROVE  g[z] = IF z = {} THEN b ELSE Op(g[z \ {Max(z)}], q[Max(z)])
      BY <1>b, <2>1, <2>4
    <3>1. CASE z = {} BY <2>4, <3>1 DEF SubsetSteps
    <3>2. CASE z # {}
      <4>1. Max(z) \in 1..n BY <2>1, <3>2, Greatest
      <4>2. g[z] = step(q)[Max(z)][g[z \ {Max(z)}]] /\ g[z \ {Max(z)}] \in X
        BY <2>4, <3>2 DEF SubsetSteps
      <4> QED BY <2>3, <3>2, <4>1, <4>2
    <3> QED BY <3>1, <3>2
  <2>6. Iter(q, iter(q))
    <3> HIDE DEF Iter
    <3> QED BY <2>5
  <2> HIDE DEF iter
  <2>7. iter(q)[{}] = b BY <1>b, <2>6
  <2>8. ASSUME NEW z \in SUBSET (1..n), z # {}, iter(q)[z \ {Max(z)}] \in X
        PROVE  iter(q)[z] = step(q)[Max(z)][iter(q)[z \ {Max(z)}]]
    <3>1. Max(z) \in 1..n BY <2>1, <2>8, Greatest
    <3>2. iter(q)[z] = Op(iter(q)[z \ {Max(z)}], q[Max(z)]) BY <2>1, <2>6, <2>8
    <3> QED BY <2>3, <2>8, <3>1, <3>2
  <2>9. Recurses(iter(q), n, X, b, step(q)) BY <2>7, <2>8 DEF Recurses
  <2> QED BY <2>1, <2>2, <2>9 DEF n
<1>7. iter(<<>>)[{}] = b
  <2>1. <<>> \in Seq(E) OBVIOUS
  <2>2. PICK z : z = <<>> OBVIOUS
  <2>3. Recurses(iter(z), Len(z), X, b, step(z)) BY <1>6, <2>1, <2>2
  <2>4. iter(z)[{}] = b
    <3> HIDE DEF iter, step
    <3> QED BY <2>3 DEF Recurses
  <2> QED BY <2>2, <2>4
<1>8. ASSUME NEW e \in E PROVE Joined(crate, s) \in X /\ Joined(crate, Append(s, e)) = Op(Joined(crate, s), e)
  <2> DEFINE t == Append(s, e)
             n == Len(s)
             m == n + 1
  <2>1. /\ n \in Nat /\ t \in Seq(E) /\ Len(t) = m /\ m = n + 1 /\ m \in Nat /\ t[m] = e
        /\ DOMAIN s = 1..n /\ DOMAIN t = 1..m /\ \A i \in 1..n : t[i] = s[i]
    BY <1>4
  <2>2. /\ step(s) \in [1..n -> [X -> X]] /\ Recurses(iter(s), n, X, b, step(s))
        /\ step(t) \in [1..m -> [X -> X]] /\ Recurses(iter(t), m, X, b, step(t))
    <3>1. /\ step(s) \in [1..n -> [X -> X]] /\ Recurses(iter(s), n, X, b, step(s))
      BY <1>4, <1>6
    <3>2. /\ step(t) \in [1..Len(t) -> [X -> X]] /\ Recurses(iter(t), Len(t), X, b, step(t))
      BY <1>6, <2>1
    <3> HIDE DEF t, step, iter
    <3> QED BY <2>1, <3>1, <3>2
  <2>3. \A i \in 1..n : step(t)[i] = step(s)[i] BY <2>1
  <2>4. \A v \in X : step(t)[m][v] = Op(v, e) BY <2>1
  <2> HIDE DEF step, iter, t, n, m
  <2>5. SameSteps(step(s), step(t), n) BY <2>3 DEF SameSteps
  <2>6. OneFurther(iter(s), iter(t), n, m, X, step(t)) BY <1>b, <2>1, <2>2, <2>5, FoldAppended
  <2>7. iter(s)[1..n] \in X /\ iter(t)[1..m] = step(t)[m][iter(s)[1..n]] BY <2>6 DEF OneFurther
  <2>8. Joined(crate, Append(s, e)) = iter(t)[1..m] BY <1>3, <2>1 DEF t
  <2> QED BY <1>3, <2>1, <2>4, <2>7, <2>8
<1>9. DOMAIN <<>> = {} OBVIOUS
<1>10. Joined(crate, <<>>) = crate
  <2> HIDE DEF iter
  <2> QED BY <1>b, <1>3, <1>7, <1>9, Zenon
<1>11. Joined(crate, s) \in X
  <2>1. CASE s = <<>> BY <1>2, <1>10, <2>1
  <2>2. CASE s # <<>>
    <3>1. s[1] \in E BY <1>4, <2>2
    <3> QED BY <1>8, <3>1
  <2> QED BY <2>1, <2>2
<1> QED BY <1>5, <1>8, <1>10, <1>11 DEF X, E

\* A fold whose elements are all of the set stays in it.
LEMMA JoinedTyped ==
    ASSUME NEW crates_ \in Seq(CrateRoot), NEW more \in Seq(CrateRoot)
    PROVE  Joined(crates_, more) \in Seq(CrateRoot)
BY JoinedAppended

MergedExtraction(documents) == FoldLeft(LAMBDA selected, d : Merge(selected, d.extraction), NoExtraction, documents)

LEMMA MergeTyped ==
    ASSUME NEW selected \in Agreement, NEW incoming \in Extraction
    PROVE  Merge(selected, incoming) \in Agreement
<1>1. CASE \/ selected.kind = "none" \/ selected.kind = "conflict"
            \/ incoming.kind = "none" \/ selected.kind # incoming.kind
  BY <1>1 DEF Merge, Agreement
<1>2. CASE selected.kind \notin {"none", "conflict"} /\ selected.kind = incoming.kind
  <2>1. selected.crates \in Seq(CrateRoot) /\ incoming.crates \in Seq(CrateRoot)
    BY <1>2 DEF Agreement, Extraction, Conflict, NoExtraction
  <2>2. Joined(selected.crates, incoming.crates) \in Seq(CrateRoot) BY <2>1, JoinedTyped
  <2>3. [selected EXCEPT !.crates = Joined(selected.crates, incoming.crates)] \in Agreement
    BY <1>2, <2>2 DEF Agreement, Extraction, Conflict, NoExtraction
  <2> QED BY <1>2, <2>3 DEF Merge, Agreement
<1> QED BY <1>1, <1>2

LEMMA MergeAppended ==
    ASSUME NEW s \in Seq(Document)
    PROVE  /\ MergedExtraction(<<>>) = NoExtraction
           /\ MergedExtraction(s) \in Agreement
           /\ \A e \in Document : MergedExtraction(Append(s, e)) = Merge(MergedExtraction(s), e.extraction)
<1> DEFINE E == Document
           X == Agreement
           Op(v, x) == Merge(v, x.extraction)
           step(q) == [i \in 1..Len(q) |-> [v \in X |-> Op(v, q[i])]]
           Iter(q, f) == f = [z \in SUBSET DOMAIN q |->
                                IF z = {} THEN NoExtraction ELSE Op(f[z \ {Max(z)}], q[Max(z)])]
           iter(q) == CHOOSE f : Iter(q, f)
<1>1. \A v \in X, x \in E : Op(v, x) \in X BY MergeTyped DEF Document
<1>2. NoExtraction \in X BY DEF Agreement, Extraction
<1>b. PICK b \in X : b = NoExtraction BY <1>2
<1>3. /\ MergedExtraction(<<>>) = iter(<<>>)[DOMAIN <<>>] /\ MergedExtraction(s) = iter(s)[DOMAIN s]
      /\ \A e : MergedExtraction(Append(s, e)) = iter(Append(s, e))[DOMAIN Append(s, e)]
  BY DEF MergedExtraction, FoldLeft, MapThenFoldSet
<1>4. s \in Seq(E) OBVIOUS
<1>5. \A e : Merge(MergedExtraction(s), e.extraction) = Op(MergedExtraction(s), e) OBVIOUS
<1> HIDE DEF Op, E, X
<1>6. ASSUME NEW q \in Seq(E)
      PROVE  /\ step(q) \in [1..Len(q) -> [X -> X]] /\ Len(q) \in Nat
             /\ Recurses(iter(q), Len(q), X, b, step(q))
  <2> DEFINE n == Len(q)
  <2>1. n \in Nat /\ DOMAIN q = 1..n /\ \A i \in 1..n : q[i] \in E OBVIOUS
  <2>2. step(q) \in [1..n -> [X -> X]] BY <1>1, <2>1
  <2>3. \A i \in 1..n : \A v \in X : step(q)[i][v] = Op(v, q[i]) OBVIOUS
  <2> HIDE DEF n, step
  <2>4. PICK g \in [SUBSET (1..n) -> X] : SubsetSteps(g, n, b, step(q))
    BY <2>1, <2>2, IteratedOverSubsets
  <2>5. Iter(q, g)
    <3> SUFFICES ASSUME NEW z \in SUBSET (1..n)
                 PROVE  g[z] = IF z = {} THEN b ELSE Op(g[z \ {Max(z)}], q[Max(z)])
      BY <1>b, <2>1, <2>4
    <3>1. CASE z = {} BY <2>4, <3>1 DEF SubsetSteps
    <3>2. CASE z # {}
      <4>1. Max(z) \in 1..n BY <2>1, <3>2, Greatest
      <4>2. g[z] = step(q)[Max(z)][g[z \ {Max(z)}]] /\ g[z \ {Max(z)}] \in X
        BY <2>4, <3>2 DEF SubsetSteps
      <4> QED BY <2>3, <3>2, <4>1, <4>2
    <3> QED BY <3>1, <3>2
  <2>6. Iter(q, iter(q))
    <3> HIDE DEF Iter
    <3> QED BY <2>5
  <2> HIDE DEF iter
  <2>7. iter(q)[{}] = b BY <1>b, <2>6
  <2>8. ASSUME NEW z \in SUBSET (1..n), z # {}, iter(q)[z \ {Max(z)}] \in X
        PROVE  iter(q)[z] = step(q)[Max(z)][iter(q)[z \ {Max(z)}]]
    <3>1. Max(z) \in 1..n BY <2>1, <2>8, Greatest
    <3>2. iter(q)[z] = Op(iter(q)[z \ {Max(z)}], q[Max(z)]) BY <2>1, <2>6, <2>8
    <3> QED BY <2>3, <2>8, <3>1, <3>2
  <2>9. Recurses(iter(q), n, X, b, step(q)) BY <2>7, <2>8 DEF Recurses
  <2> QED BY <2>1, <2>2, <2>9 DEF n
<1>7. iter(<<>>)[{}] = b
  <2>1. <<>> \in Seq(E) OBVIOUS
  <2>2. PICK z : z = <<>> OBVIOUS
  <2>3. Recurses(iter(z), Len(z), X, b, step(z)) BY <1>6, <2>1, <2>2
  <2>4. iter(z)[{}] = b
    <3> HIDE DEF iter, step
    <3> QED BY <2>3 DEF Recurses
  <2> QED BY <2>2, <2>4
<1>8. ASSUME NEW e \in E
      PROVE  MergedExtraction(s) \in X /\ MergedExtraction(Append(s, e)) = Op(MergedExtraction(s), e)
  <2> DEFINE t == Append(s, e)
             n == Len(s)
             m == n + 1
  <2>1. /\ n \in Nat /\ t \in Seq(E) /\ Len(t) = m /\ m = n + 1 /\ m \in Nat /\ t[m] = e
        /\ DOMAIN s = 1..n /\ DOMAIN t = 1..m /\ \A i \in 1..n : t[i] = s[i]
    BY <1>4
  <2>2. /\ step(s) \in [1..n -> [X -> X]] /\ Recurses(iter(s), n, X, b, step(s))
        /\ step(t) \in [1..m -> [X -> X]] /\ Recurses(iter(t), m, X, b, step(t))
    <3>1. /\ step(s) \in [1..n -> [X -> X]] /\ Recurses(iter(s), n, X, b, step(s))
      BY <1>4, <1>6
    <3>2. /\ step(t) \in [1..Len(t) -> [X -> X]] /\ Recurses(iter(t), Len(t), X, b, step(t))
      BY <1>6, <2>1
    <3> HIDE DEF t, step, iter
    <3> QED BY <2>1, <3>1, <3>2
  <2>3. \A i \in 1..n : step(t)[i] = step(s)[i] BY <2>1
  <2>4. \A v \in X : step(t)[m][v] = Op(v, e) BY <2>1
  <2> HIDE DEF step, iter, t, n, m
  <2>5. SameSteps(step(s), step(t), n) BY <2>3 DEF SameSteps
  <2>6. OneFurther(iter(s), iter(t), n, m, X, step(t)) BY <1>b, <2>1, <2>2, <2>5, FoldAppended
  <2>7. iter(s)[1..n] \in X /\ iter(t)[1..m] = step(t)[m][iter(s)[1..n]] BY <2>6 DEF OneFurther
  <2>8. MergedExtraction(Append(s, e)) = iter(t)[1..m] BY <1>3, <2>1 DEF t
  <2> QED BY <1>3, <2>1, <2>4, <2>7, <2>8
<1>9. DOMAIN <<>> = {} OBVIOUS
<1>10. MergedExtraction(<<>>) = NoExtraction
  <2> HIDE DEF iter
  <2> QED BY <1>b, <1>3, <1>7, <1>9, Zenon
<1>11. MergedExtraction(s) \in X
  <2>1. CASE s = <<>> BY <1>2, <1>10, <2>1
  <2>2. CASE s # <<>>
    <3>1. s[1] \in E BY <1>4, <2>2
    <3> QED BY <1>8, <3>1
  <2> QED BY <2>1, <2>2
<1> QED BY <1>5, <1>8, <1>10, <1>11 DEF X, E

-----------------------------------------------------------------------------
(* Elements of sequences *)

LEMMA Members ==
    ASSUME NEW E, NEW s \in Seq(E)
    PROVE  /\ ToSet(<<>>) = {} /\ ToSet(s) \subseteq E /\ IsFiniteSet(ToSet(s))
           /\ \A e \in E : Append(s, e) \in Seq(E) /\ ToSet(Append(s, e)) = ToSet(s) \cup {e}
           /\ \A t \in Seq(E) : s \o t \in Seq(E) /\ ToSet(s \o t) = ToSet(s) \cup ToSet(t)
           /\ s # <<>> => ToSet(s) # {}
<1> DEFINE n == Len(s)
<1>0. n \in Nat /\ DOMAIN s = 1..n /\ s \in [1..n -> E] OBVIOUS
<1>1. ToSet(<<>>) = {} /\ ToSet(s) \subseteq E BY DEF ToSet
<1>2. ASSUME NEW e \in E PROVE Append(s, e) \in Seq(E) /\ ToSet(Append(s, e)) = ToSet(s) \cup {e}
  <2> DEFINE t == Append(s, e)
  <2>1. /\ DOMAIN t = 1..(n + 1) /\ t[n + 1] = e /\ \A i \in 1..n : t[i] = s[i] /\ n + 1 \in 1..(n + 1)
        /\ \A i \in 1..(n + 1) : i \in 1..n \/ i = n + 1
    BY <1>0
  <2> HIDE DEF t, n
  <2>2. ToSet(t) = ToSet(s) \cup {e} BY <1>0, <2>1 DEF ToSet
  <2> QED BY <2>2 DEF t
<1>3. ASSUME NEW t \in Seq(E) PROVE s \o t \in Seq(E) /\ ToSet(s \o t) = ToSet(s) \cup ToSet(t)
  <2> DEFINE m == Len(t)
             u == s \o t
  <2>1. m \in Nat /\ DOMAIN t = 1..m /\ DOMAIN u = 1..(n + m)
        /\ (\A i \in 1..n : u[i] = s[i] /\ i \in 1..(n + m))
        /\ (\A i \in 1..m : u[n + i] = t[i] /\ n + i \in 1..(n + m))
        /\ (\A i \in 1..(n + m) : i \in 1..n \/ (i - n \in 1..m /\ i = n + (i - n)))
    BY <1>0
  <2> HIDE DEF u, n, m
  <2>2. ToSet(u) \subseteq ToSet(s) \cup ToSet(t)
    <3> SUFFICES ASSUME NEW i \in 1..(n + m) PROVE u[i] \in ToSet(s) \cup ToSet(t) BY <2>1 DEF ToSet
    <3>1. i \in 1..n \/ (i - n \in 1..m /\ i = n + (i - n)) BY <2>1
    <3> QED BY <1>0, <2>1, <3>1 DEF ToSet
  <2>3. ToSet(s) \cup ToSet(t) \subseteq ToSet(u)
    <3>1. ToSet(s) \subseteq ToSet(u) BY <1>0, <2>1 DEF ToSet
    <3>2. ToSet(t) \subseteq ToSet(u) BY <1>0, <2>1 DEF ToSet
    <3> QED BY <3>1, <3>2
  <2> QED BY <2>2, <2>3 DEF u
<1>4. IsFiniteSet(ToSet(s))
  <2>1. s \in Surjection(1..n, ToSet(s)) BY <1>0 DEF Surjection, ToSet
  <2> QED BY <1>0, <2>1, FS_NatSurjection DEF ExistsSurjection
<1>5. s # <<>> => ToSet(s) # {}
  <2>1. s # <<>> => 1 \in DOMAIN s BY <1>0
  <2> QED BY <2>1 DEF ToSet
<1> QED BY <1>1, <1>2, <1>3, <1>4, <1>5

-----------------------------------------------------------------------------
(* The YAML budget *)

IsGreatest(S, m) == m \in S /\ \A x \in S : x <= m
LEMMA GreatestIs == ASSUME NEW S \in SUBSET Nat, NEW m, IsGreatest(S, m) PROVE Max(S) = m
<1>1. m \in S /\ \A y \in S : m >= y BY DEF IsGreatest
<1>2. \A x \in S : (\A y \in S : x >= y) => x = m BY <1>1
<1>3. Max(S) \in S /\ \A y \in S : Max(S) >= y BY <1>1 DEF Max
<1> QED BY <1>2, <1>3

Depths(files) == {0} \cup {f.raw["depth"] : f \in ToSet(files)}

LEMMA DepthAppended ==
    ASSUME NEW s \in Seq(ContractFile)
    PROVE  /\ Total(<<>>, "depth") = 0 /\ Total(s, "depth") \in Nat
           /\ \A f \in ContractFile : Total(Append(s, f), "depth") =
                 IF Total(s, "depth") <= f.raw["depth"] THEN f.raw["depth"] ELSE Total(s, "depth")
<1> DEFINE T == {t \in Seq(ContractFile) : IsGreatest(Depths(t), Max(Depths(t)))}
<1>1. \A t : Total(t, "depth") = Max(Depths(t)) BY DEF Total, Depths
<1>2. \A f \in ContractFile : f.raw["depth"] \in Nat BY ReplayTyped DEF Amounts, Resources
<1>3. ASSUME NEW t \in Seq(ContractFile)
      PROVE  /\ Depths(t) \in SUBSET Nat
             /\ \A f \in ContractFile : Depths(Append(t, f)) = Depths(t) \cup {f.raw["depth"]}
  BY <1>2, Members DEF Depths
<1>4. <<>> \in Seq(ContractFile) OBVIOUS
<1>5. PICK z \in Seq(ContractFile) : z = <<>> BY <1>4
<1>6. IsGreatest(Depths(z), 0) BY <1>5, Members DEF IsGreatest, Depths
<1>7. Max(Depths(z)) = 0 BY <1>3, <1>6, GreatestIs
<1>8. z \in T BY <1>5, <1>6, <1>7
<1>9. ASSUME NEW t \in Seq(ContractFile), NEW f \in ContractFile, t \in T
      PROVE  /\ Append(t, f) \in T
             /\ Max(Depths(Append(t, f))) =
                  IF Max(Depths(t)) <= f.raw["depth"] THEN f.raw["depth"] ELSE Max(Depths(t))
  <2> DEFINE m == Max(Depths(t))
             d == f.raw["depth"]
             k == IF m <= d THEN d ELSE m
             D == Depths(t)
  <2>0. Append(t, f) \in Seq(ContractFile) OBVIOUS
  <2>1. IsGreatest(D, m) /\ D \in SUBSET Nat /\ d \in Nat BY <1>2, <1>3, <1>9
  <2>2. Depths(Append(t, f)) = D \cup {d} BY <1>3
  <2> HIDE DEF m, d, D
  <2>3. IsGreatest(D \cup {d}, k) /\ D \cup {d} \in SUBSET Nat BY <2>1 DEF IsGreatest
  <2> HIDE DEF k
  <2>4. Max(D \cup {d}) = k BY <2>3, GreatestIs
  <2> QED BY <2>0, <2>2, <2>3, <2>4 DEF m, d, D, k
<1>10. <<>> \in T
  <2> HIDE DEF T
  <2> QED BY <1>5, <1>8, Zenon
<1>11. \A t \in Seq(ContractFile) : t \in T
  <2> HIDE DEF T
  <2> QED BY <1>9, <1>10, SequenceInduction
<1>12. s \in T BY <1>11
<1>13. Max(Depths(s)) \in Nat BY <1>3, <1>12 DEF IsGreatest
<1>14. Total(<<>>, "depth") = 0 BY <1>1, <1>5, <1>7
<1> QED BY <1>1, <1>9, <1>12, <1>13, <1>14

\* Of any resource, what a further file adds.
LEMMA UsedAppended ==
    ASSUME NEW s \in Seq(ContractFile), NEW used \in Amounts, \A r \in Resources : used[r] = Total(s, r),
           NEW f \in ContractFile
    PROVE  \A r \in Resources : Observe(Observe(used, f.raw), Replay(f))[r] = Total(Append(s, f), r)
<1>1. f.raw \in Amounts /\ Replay(f) \in Amounts BY ReplayTyped
<1>2. Observe(used, f.raw) \in Amounts BY <1>1, Observed
<1>3. ASSUME NEW r \in Resources, r # "depth"
      PROVE  Observe(Observe(used, f.raw), Replay(f))[r] = Total(Append(s, f), r)
  <2>1. Observe(used, f.raw)[r] = used[r] + f.raw[r] BY <1>1, <1>3, Observed
  <2>2. Observe(Observe(used, f.raw), Replay(f))[r] = Observe(used, f.raw)[r] + Replay(f)[r]
    BY <1>1, <1>2, <1>3, Observed
  <2>3. Total(Append(s, f), r) = Total(s, r) + f.raw[r] + Replay(f)[r] BY <1>3, TotalAppended
  <2> QED BY <2>1, <2>2, <2>3
<1>4. Observe(Observe(used, f.raw), Replay(f))["depth"] = Total(Append(s, f), "depth")
  <2>0. "depth" \in Resources BY DEF Resources
  <2>1. Observe(used, f.raw)["depth"] = IF used["depth"] <= f.raw["depth"] THEN f.raw["depth"] ELSE used["depth"]
    BY <1>1, <2>0, Observed
  <2>2. Replay(f)["depth"] = 0 BY <2>0 DEF Replay, Replayed
  <2>3. Observe(used, f.raw)["depth"] \in Nat BY <1>2, <2>0 DEF Amounts
  <2>4. Observe(Observe(used, f.raw), Replay(f))["depth"] = Observe(used, f.raw)["depth"]
    BY <1>1, <1>2, <2>0, <2>2, <2>3, Observed
  <2> QED BY <2>0, <2>1, <2>4, DepthAppended
<1> QED BY <1>3, <1>4

LEMMA TotalTyped == ASSUME NEW s \in Seq(ContractFile), NEW r \in Resources PROVE Total(s, r) \in Nat
BY TotalAppended, DepthAppended

LEMMA NothingTotal == ASSUME NEW r \in Resources PROVE Total(<<>>, r) = 0
<1>1. <<>> \in Seq(ContractFile) OBVIOUS
<1>2. PICK s \in Seq(ContractFile) : s = <<>> BY <1>1
<1> QED BY TotalAppended, DepthAppended

\* Totals only grow.
LEMMA TotalGrows ==
    ASSUME NEW s \in Seq(ContractFile), NEW f \in ContractFile, NEW r \in Resources
    PROVE  Total(s, r) <= Total(Append(s, f), r)
<1>1. f.raw \in Amounts /\ Replay(f) \in Amounts BY ReplayTyped
<1>2. f.raw[r] \in Nat /\ Replay(f)[r] \in Nat /\ Total(s, r) \in Nat BY <1>1, TotalTyped DEF Amounts
<1>3. CASE r # "depth" BY <1>2, <1>3, TotalAppended
<1>4. CASE r = "depth" BY <1>2, <1>4, DepthAppended
<1> QED BY <1>3, <1>4

-----------------------------------------------------------------------------
(* What one file does to a reading *)

\* What a file must be, whatever else is read.
Readable(f) ==
    /\ f.utf8 /\ f.sound /\ f.documents # <<>>
    /\ \A d \in ToSet(f.documents) : ~d.null /\ d.decodes /\ d.version = 2 /\ HeaderIsSound(d)
Bound(f) == \A d \in ToSet(f.documents) : d.binds

LEMMA FirstUnsoundNone ==
    ASSUME NEW documents
    PROVE  FirstUnsound(documents) = "none" <=>
              \A d \in ToSet(documents) : d.version = 2 /\ HeaderIsSound(d)
<1> DEFINE bad == {i \in DOMAIN documents : documents[i].version # 2 \/ ~HeaderIsSound(documents[i])}
<1>1. FirstUnsound(documents) = "none" <=> bad = {} BY DEF FirstUnsound
<1>2. bad = {} <=> \A d \in ToSet(documents) : d.version = 2 /\ HeaderIsSound(d) BY DEF ToSet
<1> QED BY <1>1, <1>2

\* Nothing that a file is charged for is taken back.
LEMMA WithinFirst ==
    ASSUME NEW used \in Amounts, NEW more \in Amounts, NEW ceil \in Amounts, Within(Observe(used, more), ceil)
    PROVE  Within(used, ceil)
<1> SUFFICES ASSUME NEW r \in Resources PROVE used[r] <= ceil[r] BY DEF Within
<1>1. used[r] \in Nat /\ more[r] \in Nat /\ ceil[r] \in Nat BY DEF Amounts
<1>2. Observe(used, more)[r] = (IF r # "depth" THEN used[r] + more[r]
                               ELSE IF used[r] <= more[r] THEN more[r] ELSE used[r])
  BY Observed
<1>3. Observe(used, more)[r] <= ceil[r] BY DEF Within
<1> QED BY <1>1, <1>2, <1>3

LEMMA FileErrorExact ==
    ASSUME NEW f \in ContractFile, NEW used \in Amounts, NEW ceil \in Amounts
    PROVE  FileError(f, used, ceil) = "none" <=>
              Readable(f) /\ Within(Observe(Observe(used, f.raw), Replay(f)), ceil)
<1> DEFINE charged == Observe(used, f.raw)
<1>1. charged \in Amounts /\ Replay(f) \in Amounts BY ReplayTyped, Observed
<1>2. Within(Observe(charged, Replay(f)), ceil) => Within(charged, ceil) BY <1>1, WithinFirst
<1>3. FirstUnsound(f.documents) = "none" <=>
         \A d \in ToSet(f.documents) : d.version = 2 /\ HeaderIsSound(d)
  BY FirstUnsoundNone
<1> HIDE DEF charged
<1>4. FileError(f, used, ceil) = "none" <=>
         /\ f.utf8 /\ Within(charged, ceil) /\ f.sound /\ f.documents # <<>>
         /\ ~\E d \in ToSet(f.documents) : d.null
         /\ Within(Observe(charged, Replay(f)), ceil)
         /\ ~\E d \in ToSet(f.documents) : ~d.decodes
         /\ FirstUnsound(f.documents) = "none"
  BY DEF FileError, charged
<1> QED BY <1>2, <1>3, <1>4 DEF Readable, charged

-----------------------------------------------------------------------------
(* Reading a catalog *)

\* What a reading of the direct files amounts to: it is refused exactly if one of
\* them is, or all of them together exceed the ceiling.
Accepts(files, ceil) == (\A f \in ToSet(files) : Readable(f)) /\ \A r \in Resources : Total(files, r) <= ceil[r]
Reads(reading, files, ceil, bound) ==
    /\ reading \in YamlReading /\ reading.ceiling = ceil
    /\ reading.error = "none" <=> Accepts(files, ceil) /\ bound
    /\ reading.error = "none" => reading.read = files /\ \A r \in Resources : reading.used[r] = Total(files, r)

\* One more direct file.
LEMMA ReadsOneMore ==
    ASSUME NEW files \in Seq(ContractFile), NEW ceil \in Amounts, NEW reading, NEW bound \in BOOLEAN,
           Reads(reading, files, ceil, bound), NEW f \in ContractFile, f.direct
    PROVE  /\ Reads(ReadText(reading, f), Append(files, f), ceil, bound)
           /\ Reads(BoundText(reading, f), Append(files, f), ceil, bound /\ Bound(f))
<1> DEFINE more == Append(files, f)
           spent == Observe(Observe(reading.used, f.raw), Replay(f))
           next == ReadText(reading, f)
           last == BoundText(reading, f)
<1>0. /\ more \in Seq(ContractFile) /\ ToSet(more) = ToSet(files) \cup {f} /\ reading \in YamlReading
      /\ reading.used \in Amounts /\ reading.read \in Seq(ContractFile) /\ reading.ceiling = ceil
  BY Members DEF Reads, YamlReading
<1>1. next \in YamlReading /\ last \in YamlReading BY <1>0, ReadTextTyped
<1>2. next.ceiling = ceil /\ last.ceiling = ceil
  BY <1>0 DEF ReadText, BoundText, YamlReading
<1>3. FileError(f, reading.used, ceil) = "none" <=> Readable(f) /\ Within(spent, ceil)
  BY <1>0, FileErrorExact
<1>4. CASE reading.error # "none"
  <2>1. next = reading /\ last = reading BY <1>4 DEF ReadText, BoundText
  <2>2. ~(Accepts(files, ceil) /\ bound) BY <1>4 DEF Reads
  <2>3. Accepts(more, ceil) => Accepts(files, ceil)
    <3>1. \A r \in Resources : Total(files, r) \in Nat /\ Total(more, r) \in Nat /\ ceil[r] \in Nat
                               /\ Total(files, r) <= Total(more, r)
      BY <1>0, TotalTyped, TotalGrows DEF Amounts
    <3> QED BY <1>0, <3>1 DEF Accepts
  <2> QED BY <1>0, <1>2, <1>4, <2>1, <2>2, <2>3 DEF Reads
<1>5. CASE reading.error = "none"
  <2>1. /\ Accepts(files, ceil) /\ bound /\ reading.read = files
        /\ \A r \in Resources : reading.used[r] = Total(files, r)
    BY <1>5 DEF Reads
  <2>2. \A r \in Resources : spent[r] = Total(more, r) BY <1>0, <2>1, UsedAppended
  <2>3. Accepts(more, ceil) <=> Readable(f) /\ Within(spent, ceil)
    BY <1>0, <2>1, <2>2 DEF Accepts, Within
  <2>4. CASE FileError(f, reading.used, ceil) # "none"
    <3>1. next.error # "none" /\ last.error # "none"
      BY <1>0, <1>5, <2>4 DEF ReadText, BoundText, YamlReading
    <3> QED BY <1>1, <1>2, <1>3, <2>3, <2>4, <3>1 DEF Reads
  <2>5. CASE FileError(f, reading.used, ceil) = "none"
    <3> HIDE DEF spent
    <3>1. next = [reading EXCEPT !.used = spent, !.read = Append(reading.read, f)]
      BY <1>0, <1>5, <2>5 DEF ReadText, spent
    <3>2. next.error = "none" /\ next.used = spent /\ next.read = more
      BY <1>0, <1>5, <2>1, <3>1 DEF YamlReading
    <3>3. Reads(next, more, ceil, bound) BY <1>1, <1>2, <1>3, <2>1, <2>2, <2>3, <2>5, <3>2 DEF Reads
    <3>4. CASE Bound(f)
      <4>1. last = next BY <3>4 DEF BoundText, Bound
      <4> QED BY <3>3, <3>4, <4>1, <2>1 DEF Reads
    <3>5. CASE ~Bound(f)
      <4>1. last = [next EXCEPT !.error = "layout"] BY <1>5, <3>2, <3>5 DEF BoundText, Bound
      <4>2. last.error = "layout" BY <1>1, <4>1 DEF YamlReading
      <4>3. Reads(last, more, ceil, bound /\ Bound(f)) BY <1>1, <1>2, <3>5, <4>2 DEF Reads
      <4> QED BY <3>3, <4>3
    <3> QED BY <3>4, <3>5
  <2> QED BY <2>4, <2>5
<1> QED BY <1>4, <1>5

LEMMA ReadsNoMore ==
    ASSUME NEW reading, NEW f, ~f.direct
    PROVE  ReadText(reading, f) = reading /\ BoundText(reading, f) = reading
BY DEF ReadText, BoundText

-----------------------------------------------------------------------------
(* What a whole catalog does to a reading *)

LEMMA NothingReads == ASSUME NEW ceil \in Amounts PROVE Reads(Unread(ceil), <<>>, ceil, TRUE)
<1>1. Unused \in Amounts BY DEF Unused, Amounts
<1>2. <<>> \in Seq(ContractFile) OBVIOUS
<1>3. Unread(ceil) \in YamlReading BY <1>1, <1>2 DEF Unread, YamlReading
<1>4. \A r \in Resources : ceil[r] \in Nat /\ Total(<<>>, r) = 0 /\ Unused[r] = 0
  BY NothingTotal DEF Amounts, Unused
<1>5. Accepts(<<>>, ceil)
  <2>1. ToSet(<<>>) = {} BY DEF ToSet
  <2> QED BY <1>4, <2>1 DEF Accepts
<1> QED BY <1>3, <1>4, <1>5 DEF Reads, Unread

AllBound(files) == \A f \in ToSet(files) : Bound(f)
BoundReading(catalogue, ceil) == Bounding(Unread(ceil), catalogue)

LEMMA BoundReads ==
    ASSUME NEW s \in Seq(ContractFile), NEW ceil \in Amounts
    PROVE  Reads(BoundReading(s, ceil), DirectFiles(s), ceil, AllBound(DirectFiles(s)))
<1> DEFINE Good(t) == Reads(BoundReading(t, ceil), DirectFiles(t), ceil, AllBound(DirectFiles(t)))
           S == {t \in Seq(ContractFile) : Good(t)}
<1>1. Unread(ceil) \in YamlReading /\ Reads(Unread(ceil), <<>>, ceil, TRUE) BY NothingReads DEF Reads
<1>2. <<>> \in Seq(ContractFile) OBVIOUS
<1>3. PICK z \in Seq(ContractFile) : z = <<>> BY <1>2
<1>4. BoundReading(<<>>, ceil) = Unread(ceil) /\ DirectFiles(<<>>) = <<>>
  BY <1>1, <1>3, BoundAppended, DirectAppended DEF BoundReading
<1>5. AllBound(<<>>) = TRUE
  <2>1. ToSet(<<>>) = {} BY DEF ToSet
  <2> QED BY <2>1 DEF AllBound
<1>6. Good(<<>>) BY <1>1, <1>4, <1>5, Zenon
<1>7. ASSUME NEW t \in Seq(ContractFile), NEW f \in ContractFile, t \in S PROVE Append(t, f) \in S
  <2> DEFINE reading == BoundReading(t, ceil)
             files == DirectFiles(t)
  <2>1. /\ Append(t, f) \in Seq(ContractFile) /\ files \in Seq(ContractFile)
        /\ BoundReading(Append(t, f), ceil) = BoundText(reading, f)
        /\ DirectFiles(Append(t, f)) = IF f.direct THEN Append(files, f) ELSE files
    BY <1>1, BoundAppended, DirectAppended DEF BoundReading
  <2>2. Reads(reading, files, ceil, AllBound(files)) BY <1>7
  <2> HIDE DEF reading, files
  <2>3. CASE f.direct
    <3>1. AllBound(files) \in BOOLEAN BY DEF AllBound
    <3>2. Reads(BoundText(reading, f), Append(files, f), ceil, AllBound(files) /\ Bound(f))
      BY <2>1, <2>2, <2>3, <3>1, ReadsOneMore
    <3>3. AllBound(Append(files, f)) <=> AllBound(files) /\ Bound(f) BY <2>1, Members DEF AllBound
    <3>4. Reads(BoundText(reading, f), Append(files, f), ceil, AllBound(Append(files, f)))
      BY <3>2, <3>3 DEF Reads
    <3>5. Good(Append(t, f)) BY <2>1, <2>3, <3>4, Zenon
    <3> QED BY <2>1, <3>5
  <2>4. CASE ~f.direct
    <3>1. BoundText(reading, f) = reading BY <2>4, ReadsNoMore
    <3>2. Good(Append(t, f)) BY <2>1, <2>2, <2>4, <3>1, Zenon
    <3> QED BY <2>1, <3>2
  <2> QED BY <2>3, <2>4
<1>8. <<>> \in S BY <1>2, <1>6
<1> HIDE DEF S
<1>9. s \in S BY <1>7, <1>8, SequenceInduction
<1> QED BY <1>9 DEF S

LEMMA Catenated ==
    ASSUME NEW E, NEW s \in Seq(E), NEW t \in Seq(E)
    PROVE  /\ s \o <<>> = s /\ s \o t \in Seq(E)
           /\ \A e \in E : s \o Append(t, e) = Append(s \o t, e)
<1>1. s \o t \in Seq(E) /\ s \o <<>> = s OBVIOUS
<1>2. ASSUME NEW e \in E PROVE s \o Append(t, e) = Append(s \o t, e) OBVIOUS
<1> QED BY <1>1, <1>2

LEMMA ValidateReads ==
    ASSUME NEW ceil \in Amounts, NEW files \in Seq(ContractFile), NEW reading, Reads(reading, files, ceil, TRUE),
           NEW s \in Seq(ContractFile)
    PROVE  Reads(Validate(reading, s), files \o DirectFiles(s), ceil, TRUE)
<1> DEFINE Good(t) == Reads(Validate(reading, t), files \o DirectFiles(t), ceil, TRUE)
           S == {t \in Seq(ContractFile) : Good(t)}
<1>1. reading \in YamlReading BY DEF Reads
<1>2. <<>> \in Seq(ContractFile) OBVIOUS
<1>3. PICK z \in Seq(ContractFile) : z = <<>> BY <1>2
<1>4. Validate(reading, <<>>) = reading /\ DirectFiles(<<>>) = <<>>
  BY <1>1, <1>3, ValidateAppended, DirectAppended
<1>5. files \o <<>> = files OBVIOUS
<1>6. Good(<<>>) BY <1>1, <1>4, <1>5, Zenon
<1>7. ASSUME NEW t \in Seq(ContractFile), NEW f \in ContractFile, t \in S PROVE Append(t, f) \in S
  <2> DEFINE last == Validate(reading, t)
             all == files \o DirectFiles(t)
  <2>1. /\ Append(t, f) \in Seq(ContractFile) /\ all \in Seq(ContractFile) /\ DirectFiles(t) \in Seq(ContractFile)
        /\ Validate(reading, Append(t, f)) = ReadText(last, f)
        /\ DirectFiles(Append(t, f)) = IF f.direct THEN Append(DirectFiles(t), f) ELSE DirectFiles(t)
    BY <1>1, ValidateAppended, DirectAppended
  <2>2. Reads(last, all, ceil, TRUE) BY <1>7
  <2>3. f.direct => files \o DirectFiles(Append(t, f)) = Append(all, f)
    BY <2>1, Catenated
  <2>4. ~f.direct => files \o DirectFiles(Append(t, f)) = all BY <2>1
  <2> HIDE DEF last, all
  <2>5. CASE f.direct
    <3>1. Reads(ReadText(last, f), Append(all, f), ceil, TRUE) BY <2>1, <2>2, <2>5, ReadsOneMore
    <3>2. Good(Append(t, f)) BY <2>1, <2>3, <2>5, <3>1, Zenon
    <3> QED BY <2>1, <3>2
  <2>6. CASE ~f.direct
    <3>1. ReadText(last, f) = last BY <2>6, ReadsNoMore
    <3>2. Good(Append(t, f)) BY <2>1, <2>2, <2>4, <2>6, <3>1, Zenon
    <3> QED BY <2>1, <3>2
  <2> QED BY <2>5, <2>6
<1>8. <<>> \in S BY <1>2, <1>6
<1> HIDE DEF S
<1>9. s \in S BY <1>7, <1>8, SequenceInduction
<1> QED BY <1>9 DEF S

-----------------------------------------------------------------------------
(* Documents *)

LEMMA DocumentsAppended ==
    ASSUME NEW s \in Seq(ContractFile)
    PROVE  /\ DocumentsOf(<<>>) = <<>> /\ DocumentsOf(s) \in Seq(Document)
           /\ \A f \in ContractFile : f.documents \in Seq(Document)
                                      /\ DocumentsOf(Append(s, f)) = DocumentsOf(s) \o f.documents
<1> DEFINE of(t) == [i \in DOMAIN t |-> t[i].documents]
<1>1. \A f \in ContractFile : f.documents \in Seq(Document) BY DEF ContractFile
<1>2. of(s) \in Seq(Seq(Document))
  <2>1. \A i \in 1..Len(s) : s[i] \in ContractFile OBVIOUS
  <2> QED BY <1>1, <2>1
<1>3. ASSUME NEW f \in ContractFile PROVE of(Append(s, f)) = Append(of(s), f.documents)
  <2> DEFINE n == Len(s)
             t == Append(s, f)
  <2>1. /\ n \in Nat /\ DOMAIN t = 1..(n + 1) /\ DOMAIN s = 1..n /\ t[n + 1] = f /\ \A i \in 1..n : t[i] = s[i]
    OBVIOUS
  <2>2. Len(of(s)) = n BY <1>2
  <2> QED BY <1>1, <1>2, <2>1, <2>2
<1>4. DocumentsOf(<<>>) = <<>>
  <2>1. DOMAIN <<>> = {} OBVIOUS
  <2>2. of(<<>>) = <<>> BY <2>1
  <2> QED BY <2>2 DEF DocumentsOf, FlattenSeq
<1>5. /\ FlattenSeq(of(s)) \in Seq(Document)
      /\ \A f \in ContractFile : FlattenSeq(Append(of(s), f.documents)) = FlattenSeq(of(s)) \o f.documents
  <2> HIDE DEF of
  <2>1. FlattenSeq(of(s)) \in Seq(Document)
    <3>1. <<>> \in Seq(Document) OBVIOUS
    <3>2. PICK e \in Seq(Document) : e = <<>> BY <3>1
    <3> QED BY <1>2, <3>2, FlattenAppended
  <2>2. ASSUME NEW f \in ContractFile
        PROVE FlattenSeq(Append(of(s), f.documents)) = FlattenSeq(of(s)) \o f.documents
    BY <1>1, <1>2, FlattenAppended
  <2> QED BY <2>1, <2>2
<1> QED BY <1>1, <1>3, <1>4, <1>5, Zenon DEF DocumentsOf

LEMMA AllDocuments ==
    ASSUME NEW s \in Seq(ContractFile)
    PROVE  ToSet(DocumentsOf(s)) = UNION {ToSet(f.documents) : f \in ToSet(s)}
<1> DEFINE All(t) == UNION {ToSet(f.documents) : f \in ToSet(t)}
           S == {t \in Seq(ContractFile) : ToSet(DocumentsOf(t)) = All(t)}
<1>1. <<>> \in Seq(ContractFile) OBVIOUS
<1>2. PICK z \in Seq(ContractFile) : z = <<>> BY <1>1
<1>3. <<>> \in S
  <2>1. ToSet(<<>>) = {} BY DEF ToSet
  <2>2. DocumentsOf(<<>>) = <<>> BY <1>2, DocumentsAppended
  <2>3. All(<<>>) = {} BY <2>1
  <2> QED BY <1>1, <2>1, <2>2, <2>3
<1>4. ASSUME NEW t \in Seq(ContractFile), NEW f \in ContractFile, t \in S PROVE Append(t, f) \in S
  <2>1. /\ Append(t, f) \in Seq(ContractFile) /\ ToSet(Append(t, f)) = ToSet(t) \cup {f} BY Members
  <2>2. /\ DocumentsOf(t) \in Seq(Document) /\ f.documents \in Seq(Document)
        /\ DocumentsOf(Append(t, f)) = DocumentsOf(t) \o f.documents
    BY DocumentsAppended
  <2>3. ToSet(DocumentsOf(Append(t, f))) = ToSet(DocumentsOf(t)) \cup ToSet(f.documents)
    BY <2>2, Members
  <2>4. All(Append(t, f)) = All(t) \cup ToSet(f.documents) BY <2>1
  <2> QED BY <1>4, <2>1, <2>3, <2>4
<1> HIDE DEF S
<1>5. s \in S BY <1>3, <1>4, SequenceInduction
<1> QED BY <1>5 DEF S

-----------------------------------------------------------------------------
(* How extractions are merged *)

LEMMA JoinedCrates ==
    ASSUME NEW a \in Seq(CrateRoot), IsInjective(a), NEW s \in Seq(CrateRoot)
    PROVE  /\ Joined(a, s) \in Seq(CrateRoot) /\ IsInjective(Joined(a, s))
           /\ ToSet(Joined(a, s)) = ToSet(a) \cup ToSet(s)
<1> DEFINE Good(t) == IsInjective(Joined(a, t)) /\ ToSet(Joined(a, t)) = ToSet(a) \cup ToSet(t)
           S == {t \in Seq(CrateRoot) : Good(t)}
<1>1. <<>> \in Seq(CrateRoot) OBVIOUS
<1>2. PICK z \in Seq(CrateRoot) : z = <<>> BY <1>1
<1>3. <<>> \in S
  <2>1. ToSet(<<>>) = {} BY DEF ToSet
  <2>2. Joined(a, <<>>) = a BY <1>2, JoinedAppended
  <2>3. Good(<<>>)
    <3>1. ToSet(a) = ToSet(a) \cup ToSet(<<>>) BY <2>1
    <3> QED BY <2>2, <3>1, Zenon
  <2> QED BY <1>1, <2>3
<1>4. ASSUME NEW t \in Seq(CrateRoot), NEW c \in CrateRoot, t \in S PROVE Append(t, c) \in S
  <2> DEFINE j == Joined(a, t)
             k == Joined(a, Append(t, c))
  <2>1. /\ Append(t, c) \in Seq(CrateRoot) /\ ToSet(Append(t, c)) = ToSet(t) \cup {c} BY Members
  <2>2. j \in Seq(CrateRoot) /\ k = IF c \in ToSet(j) THEN j ELSE Append(j, c) BY JoinedAppended
  <2>3. IsInjective(j) /\ ToSet(j) = ToSet(a) \cup ToSet(t) BY <1>4
  <2> HIDE DEF j, k
  <2>4. CASE c \in ToSet(j)
    <3>1. k = j BY <2>2, <2>4
    <3>2. IsInjective(k) /\ ToSet(k) = ToSet(a) \cup ToSet(Append(t, c)) BY <2>1, <2>3, <2>4, <3>1
    <3> QED BY <2>1, <3>2 DEF k
  <2>5. CASE c \notin ToSet(j)
    <3>1. k = Append(j, c) BY <2>2, <2>5
    <3>2. ToSet(k) = ToSet(j) \cup {c} BY <2>2, <3>1, Members
    <3>3. IsInjective(k)
      <4>1. /\ Len(j) \in Nat /\ DOMAIN j = 1..Len(j) /\ DOMAIN k = 1..(Len(j) + 1) /\ k[Len(j) + 1] = c
            /\ \A i \in 1..Len(j) : k[i] = j[i]
        BY <2>2, <3>1
      <4>2. \A i \in 1..Len(j) : j[i] # c BY <2>5, <4>1 DEF ToSet
      <4> QED BY <2>3, <4>1, <4>2 DEF IsInjective
    <3>4. ToSet(k) = ToSet(a) \cup ToSet(Append(t, c)) BY <2>1, <2>3, <3>2
    <3> QED BY <2>1, <3>3, <3>4 DEF k
  <2> QED BY <2>4, <2>5
<1> HIDE DEF S
<1>5. s \in S BY <1>3, <1>4, SequenceInduction
<1> QED BY <1>5, JoinedTyped DEF S

Declared(documents) == {d.extraction : d \in ToSet(documents)} \ {NoExtraction}
CratesOf(declared) == UNION {ToSet(e.crates) : e \in declared}
Differ(one, other) == one.kind # other.kind \/ (one.kind = "compiler" /\ one.context # other.context)

\* What a merged extraction tells of those it was merged from.
MergedFrom(merged, declared) ==
    /\ merged \in Agreement
    /\ merged.kind = "none" <=> declared = {}
    /\ merged.kind \in {"syntax", "compiler"} =>
          /\ \A e \in declared : e.kind = merged.kind /\ (merged.kind = "compiler" => e.context = merged.context)
          /\ merged.crates \in Seq(CrateRoot) /\ IsInjective(merged.crates)
          /\ ToSet(merged.crates) = CratesOf(declared)
    /\ merged.kind = "conflict" => \E one, other \in declared : Differ(one, other)

LEMMA Kinds ==
    ASSUME NEW e \in Agreement
    PROVE  /\ e.kind \in {"none", "syntax", "compiler", "conflict"}
           /\ e.kind = "none" <=> e = NoExtraction
           /\ e.kind = "conflict" <=> e = Conflict
           /\ e.kind \in {"syntax", "compiler"} => e \in Extraction /\ e.crates \in Seq(CrateRoot)
           /\ e \in Extraction => e.kind # "conflict"
           /\ e.kind = "compiler" => e.context \in CompilerContext
BY DEF Agreement, Extraction, NoExtraction, Conflict

LEMMA MergedFurther ==
    ASSUME NEW selected, NEW declared \in SUBSET (Extraction \ {NoExtraction}), MergedFrom(selected, declared),
           NEW incoming \in Extraction, incoming.kind # "none" => IsInjective(incoming.crates)
    PROVE  MergedFrom(Merge(selected, incoming), (declared \cup {incoming}) \ {NoExtraction})
<1> DEFINE merged == Merge(selected, incoming)
           more == (declared \cup {incoming}) \ {NoExtraction}
<1>1. selected \in Agreement /\ merged \in Agreement /\ incoming \in Agreement
  BY MergeTyped DEF MergedFrom, Agreement
<1>2. incoming = NoExtraction => more = declared OBVIOUS
<1>3. incoming # NoExtraction => more = declared \cup {incoming} OBVIOUS
<1>4. (incoming.kind = "none" <=> incoming = NoExtraction) /\ incoming.kind \in {"none", "syntax", "compiler"}
  BY <1>1, Kinds
<1>5. selected.kind \in {"none", "syntax", "compiler", "conflict"} BY <1>1, Kinds
<1> HIDE DEF more
<1>6. CASE selected.kind = "none"
  <2>1. merged = incoming BY <1>6 DEF Merge
  <2>2. declared = {} BY <1>6 DEF MergedFrom
  <2>3. CASE incoming.kind = "none" BY <1>1, <1>2, <1>4, <2>1, <2>2, <2>3 DEF MergedFrom
  <2>4. CASE incoming.kind # "none"
    <3>1. more = {incoming} BY <1>3, <1>4, <2>2, <2>4
    <3>2. CratesOf(more) = ToSet(incoming.crates) BY <3>1 DEF CratesOf
    <3>3. incoming.crates \in Seq(CrateRoot) BY <1>1, <1>4, <2>4, Kinds
    <3> QED BY <1>1, <1>4, <2>1, <2>4, <3>1, <3>2, <3>3 DEF MergedFrom, more
  <2> QED BY <2>3, <2>4 DEF more
<1>7. CASE selected.kind = "conflict"
  <2>1. merged = selected BY <1>7 DEF Merge
  <2>2. PICK one \in declared, other \in declared : Differ(one, other) BY <1>7 DEF MergedFrom
  <2>3. declared \subseteq more BY DEF more
  <2> QED BY <1>1, <1>7, <2>1, <2>2, <2>3 DEF MergedFrom, more
<1>8. CASE selected.kind \in {"syntax", "compiler"} /\ incoming.kind = "none"
  <2>1. merged = selected BY <1>8 DEF Merge
  <2>2. more = declared BY <1>2, <1>4, <1>8
  <2> QED BY <2>1, <2>2, Zenon DEF more
<1>9. CASE /\ selected.kind \in {"syntax", "compiler"} /\ incoming.kind \in {"syntax", "compiler"}
           /\ selected.kind = incoming.kind /\ (selected.kind = "compiler" => selected.context = incoming.context)
  <2> DEFINE joined == Joined(selected.crates, incoming.crates)
  <2>1. merged = [selected EXCEPT !.crates = joined] BY <1>9 DEF Merge
  <2>2. /\ selected.crates \in Seq(CrateRoot) /\ IsInjective(selected.crates)
        /\ ToSet(selected.crates) = CratesOf(declared)
        /\ \A e \in declared : e.kind = selected.kind /\ (selected.kind = "compiler" => e.context = selected.context)
    BY <1>9 DEF MergedFrom
  <2>3. incoming.crates \in Seq(CrateRoot) /\ IsInjective(incoming.crates) BY <1>1, <1>9, Kinds
  <2>4. joined \in Seq(CrateRoot) /\ IsInjective(joined)
        /\ ToSet(joined) = ToSet(selected.crates) \cup ToSet(incoming.crates)
    BY <2>2, <2>3, JoinedCrates
  <2>5. more = declared \cup {incoming} BY <1>3, <1>4, <1>9
  <2>6. CratesOf(more) = CratesOf(declared) \cup ToSet(incoming.crates) BY <2>5 DEF CratesOf
  <2> HIDE DEF joined
  <2>7. merged.crates = joined /\ merged.kind = selected.kind
        /\ (selected.kind = "compiler" => merged.context = selected.context)
    BY <1>1, <1>9, <2>1 DEF Agreement, Extraction, NoExtraction, Conflict
  <2> HIDE DEF merged
  <2>8. more # {} BY <2>5
  <2>9. \A e \in more : e.kind = merged.kind /\ (merged.kind = "compiler" => e.context = merged.context)
    BY <1>9, <2>2, <2>5, <2>7
  <2>10. MergedFrom(merged, more) BY <1>1, <1>9, <2>2, <2>4, <2>6, <2>7, <2>8, <2>9 DEF MergedFrom
  <2> QED BY <2>10 DEF merged, more
<1>10. CASE /\ selected.kind \in {"syntax", "compiler"} /\ incoming.kind \in {"syntax", "compiler"}
            /\ ~(selected.kind = incoming.kind /\ (selected.kind = "compiler" => selected.context = incoming.context))
  <2>1. merged = Conflict BY <1>10 DEF Merge
  <2>2. PICK one \in declared : TRUE BY <1>10 DEF MergedFrom
  <2>3. one.kind = selected.kind /\ (selected.kind = "compiler" => one.context = selected.context)
    BY <1>10 DEF MergedFrom
  <2>4. one \in more /\ incoming \in more BY <1>3, <1>4, <1>10
  <2>5. Differ(one, incoming) BY <1>10, <2>3 DEF Differ
  <2>6. Conflict.kind = "conflict" BY DEF Conflict
  <2> HIDE DEF merged
  <2>7. MergedFrom(merged, more) BY <1>1, <2>1, <2>4, <2>5, <2>6 DEF MergedFrom
  <2> QED BY <2>7 DEF merged, more
<1> QED BY <1>4, <1>5, <1>6, <1>7, <1>8, <1>9, <1>10

LEMMA SoundCratesDistinct ==
    ASSUME NEW d \in Document, HeaderIsSound(d)
    PROVE  d.extraction \in Extraction /\ (d.extraction.kind # "none" => IsInjective(d.extraction.crates))
<1>1. d.extraction \in Extraction BY DEF Document
<1>2. d.extraction.kind # "none" => CratesAreSound(d.extraction.crates, d.listed)
  BY DEF HeaderIsSound, ExtractionIsSound
<1> QED BY <1>1, <1>2 DEF CratesAreSound, IsInjective

AllSound(documents) == \A d \in ToSet(documents) : HeaderIsSound(d)
LEMMA MergedExactly ==
    ASSUME NEW s \in Seq(Document), AllSound(s)
    PROVE  MergedFrom(MergedExtraction(s), Declared(s))
<1> DEFINE Good(t) == AllSound(t) => MergedFrom(MergedExtraction(t), Declared(t))
           S == {t \in Seq(Document) : Good(t)}
<1>1. <<>> \in Seq(Document) OBVIOUS
<1>2. PICK z \in Seq(Document) : z = <<>> BY <1>1
<1>3. <<>> \in S
  <2>1. ToSet(<<>>) = {} BY DEF ToSet
  <2>2. Declared(<<>>) = {} BY <2>1 DEF Declared
  <2>3. MergedExtraction(<<>>) = NoExtraction BY <1>2, MergeAppended
  <2>4. MergedFrom(NoExtraction, {}) BY DEF MergedFrom, NoExtraction, Agreement, Extraction
  <2>5. Good(<<>>) BY <2>2, <2>3, <2>4, Zenon
  <2> QED BY <1>1, <2>5
<1>4. ASSUME NEW t \in Seq(Document), NEW d \in Document, t \in S PROVE Append(t, d) \in S
  <2>1. /\ Append(t, d) \in Seq(Document) /\ ToSet(Append(t, d)) = ToSet(t) \cup {d}
        /\ ToSet(t) \subseteq Document
    BY Members
  <2>2. SUFFICES ASSUME AllSound(Append(t, d))
                 PROVE  MergedFrom(MergedExtraction(Append(t, d)), Declared(Append(t, d)))
    BY <2>1
  <2>3. AllSound(t) /\ HeaderIsSound(d) BY <2>1, <2>2 DEF AllSound
  <2>4. MergedFrom(MergedExtraction(t), Declared(t)) BY <1>4, <2>3
  <2>5. MergedExtraction(Append(t, d)) = Merge(MergedExtraction(t), d.extraction) BY MergeAppended
  <2>6. Declared(Append(t, d)) = (Declared(t) \cup {d.extraction}) \ {NoExtraction} BY <2>1 DEF Declared
  <2>7. d.extraction \in Extraction /\ (d.extraction.kind # "none" => IsInjective(d.extraction.crates))
    BY <2>3, SoundCratesDistinct
  <2>8. Declared(t) \in SUBSET (Extraction \ {NoExtraction}) BY <2>1 DEF Declared, Document
  <2>9. MergedFrom(Merge(MergedExtraction(t), d.extraction), (Declared(t) \cup {d.extraction}) \ {NoExtraction})
    BY <2>4, <2>7, <2>8, MergedFurther
  <2> QED BY <2>5, <2>6, <2>9
<1> HIDE DEF S
<1>5. s \in S BY <1>3, <1>4, SequenceInduction
<1> QED BY <1>5 DEF S

-----------------------------------------------------------------------------
(* What the documents declare together *)

\* A sequence without repetition is as long as the set of its elements.
LEMMA DistinctLength ==
    ASSUME NEW E, NEW s \in Seq(E), IsInjective(s)
    PROVE  Cardinality(ToSet(s)) = Len(s)
<1>1. Len(s) \in Nat /\ DOMAIN s = 1..Len(s) /\ s \in [1..Len(s) -> ToSet(s)] BY DEF ToSet
<1>2. s \in Bijection(1..Len(s), ToSet(s)) BY <1>1 DEF Bijection, Injection, Surjection, ToSet, IsInjective
<1> QED BY <1>1, <1>2, FS_CountingElements DEF ExistsBijection

\* The images of the elements of a sequence.
LEMMA FiniteImages ==
    ASSUME NEW E, NEW s \in Seq(E), NEW D, NEW f \in Surjection(ToSet(s), D)
    PROVE  IsFiniteSet(D)
<1>1. IsFiniteSet(ToSet(s)) BY Members
<1> QED BY <1>1, FS_Surjection

\* Two different elements.
LEMMA MoreThanOne ==
    ASSUME NEW S, IsFiniteSet(S), NEW a \in S, NEW b \in S, a # b
    PROVE  ~(Cardinality(S) <= 1)
<1> DEFINE one == {a}
           two == one \cup {b}
<1>1. IsFiniteSet(one) /\ Cardinality(one) = 1 /\ b \notin one BY FS_Singleton
<1> HIDE DEF one
<1>2. Cardinality(two) = 2
  <2>1. Cardinality(two) = IF b \in one THEN Cardinality(one) ELSE Cardinality(one) + 1
    BY <1>1, FS_AddElement, Zenon
  <2> QED BY <1>1, <2>1
<1>3. two \in SUBSET S BY DEF one
<1> HIDE DEF two
<1>4. Cardinality(two) <= Cardinality(S) /\ Cardinality(S) \in Nat BY <1>3, FS_Subset, FS_CardinalityType
<1> QED BY <1>2, <1>4

LEMMA Contexts ==
    ASSUME NEW s \in Seq(Document), NEW C, C \subseteq Declared(s)
    PROVE  IsFiniteSet(C) /\ IsFiniteSet({e.context : e \in C})
<1> DEFINE D == {d.extraction : d \in ToSet(s)}
           f == [d \in ToSet(s) |-> d.extraction]
           g == [e \in C |-> e.context]
<1>1. IsFiniteSet(D)
  <2>1. f \in Surjection(ToSet(s), D) BY DEF Surjection
  <2> HIDE DEF f, D
  <2> QED BY <2>1, FiniteImages
<1>2. C \in SUBSET D BY DEF Declared
<1> HIDE DEF D
<1>3. IsFiniteSet(C) BY <1>1, <1>2, FS_Subset
<1>4. g \in Surjection(C, {e.context : e \in C}) BY DEF Surjection
<1> QED BY <1>3, <1>4, FS_Surjection

Compilers(declared) == {e \in declared : e.kind = "compiler"}
Agreed(declared) ==
    /\ Compilers(declared) \in {{}, declared}
    /\ Cardinality({e.context : e \in Compilers(declared)}) <= 1
    /\ Compilers(declared) # {} => Cardinality(CratesOf(declared)) = 1

LEMMA AggregateExact ==
    ASSUME NEW s \in Seq(Document), AllSound(s)
    PROVE  LET declared == Declared(s)
               extraction == Aggregate(s)
           IN  /\ extraction \in Agreement
               /\ extraction.kind = "conflict" <=> ~Agreed(declared)
               /\ extraction.kind = "none" <=> declared = {}
               /\ extraction.kind \in {"syntax", "compiler"} =>
                     /\ ToSet(extraction.crates) = CratesOf(declared)
                     /\ Len(extraction.crates) = Cardinality(CratesOf(declared))
                     /\ \A e \in declared : e.kind = extraction.kind
                     /\ \A e \in Compilers(declared) : e.context = extraction.context
<1> DEFINE D == Declared(s)
           m == MergedExtraction(s)
           x == Aggregate(s)
           C == Compilers(D)
           contexts == {e.context : e \in C}
<1>1. MergedFrom(m, D) BY MergedExactly
<1>2. m \in Agreement /\ m.kind \in {"none", "syntax", "compiler", "conflict"}
  BY <1>1, Kinds DEF MergedFrom
<1>3. x = IF m.kind = "compiler" /\ Len(m.crates) # 1 THEN Conflict ELSE m
  BY DEF Aggregate, MergedExtraction
<1>4. Conflict.kind = "conflict" /\ Conflict \in Agreement BY DEF Conflict, Agreement
<1>5. C \subseteq D /\ C = {e \in D : e.kind = "compiler"} BY DEF Compilers
<1>6. IsFiniteSet(contexts) BY <1>5, Contexts
<1>7. Agreed(D) <=> C \in {{}, D} /\ Cardinality(contexts) <= 1 /\ (C # {} => Cardinality(CratesOf(D)) = 1)
  BY DEF Agreed
<1> HIDE DEF m, D, x, C
<1>8. CASE m.kind \in {"none", "syntax"}
  <2>1. x = m BY <1>3, <1>8
  <2>2. C = {} BY <1>1, <1>5, <1>8 DEF MergedFrom
  <2>3. contexts = {} BY <2>2
  <2>4. Cardinality(contexts) = 0 BY <2>3, FS_EmptySet
  <2>5. Agreed(D) BY <1>7, <2>2, <2>4
  <2>6. m.kind = "syntax" => Len(m.crates) = Cardinality(CratesOf(D))
    BY <1>1, DistinctLength DEF MergedFrom
  <2>7. ToSet(m.crates) = CratesOf(D) \/ m.kind # "syntax" BY <1>1 DEF MergedFrom
  <2>8. \A e \in D : m.kind = "syntax" => e.kind = m.kind BY <1>1 DEF MergedFrom
  <2>9. m.kind = "none" <=> D = {} BY <1>1 DEF MergedFrom
  <2> QED BY <1>2, <1>8, <2>1, <2>2, <2>5, <2>6, <2>7, <2>8, <2>9 DEF D, m, x, C
<1>9. CASE m.kind = "compiler"
  <2>1. /\ D # {} /\ \A e \in D : e.kind = "compiler" /\ e.context = m.context
        /\ m.crates \in Seq(CrateRoot) /\ ToSet(m.crates) = CratesOf(D) /\ IsInjective(m.crates)
    BY <1>1, <1>9 DEF MergedFrom
  <2>2. C = D BY <1>5, <2>1
  <2>3. contexts = {m.context} BY <2>1, <2>2
  <2>4. Cardinality(contexts) = 1 BY <2>3, FS_Singleton
  <2>5. Len(m.crates) = Cardinality(CratesOf(D)) BY <2>1, DistinctLength
  <2>6. Agreed(D) <=> Len(m.crates) = 1 BY <1>7, <2>1, <2>2, <2>4, <2>5
  <2>7. CASE Len(m.crates) = 1
    <3>1. x = m BY <1>3, <2>7
    <3> QED BY <1>2, <1>9, <2>1, <2>2, <2>5, <2>6, <2>7, <3>1 DEF D, m, x, C
  <2>8. CASE Len(m.crates) # 1
    <3>1. x = Conflict BY <1>3, <1>9, <2>8
    <3> QED BY <1>4, <2>1, <2>6, <2>8, <3>1 DEF D, x
  <2> QED BY <2>7, <2>8
<1>10. CASE m.kind = "conflict"
  <2>1. x = m BY <1>3, <1>10
  <2>2. PICK one \in D, other \in D : Differ(one, other) BY <1>1, <1>10 DEF MergedFrom
  <2>3. ~Agreed(D)
    <3>1. SUFFICES ASSUME C \in {{}, D}, Cardinality(contexts) <= 1 PROVE FALSE BY <1>7
    <3>2. one.kind \in {"syntax", "compiler"} /\ other.kind \in {"syntax", "compiler"}
      <4>1. ToSet(s) \subseteq Document BY Members
      <4>2. one \in Extraction /\ other \in Extraction /\ one # NoExtraction /\ other # NoExtraction
        BY <2>2, <4>1 DEF D, Declared, Document
      <4> QED BY <4>2 DEF Extraction, NoExtraction
    <3>3. CASE C = {}
      <4>1. one.kind # "compiler" /\ other.kind # "compiler" BY <1>5, <2>2, <3>3
      <4> QED BY <2>2, <3>2, <4>1 DEF Differ
    <3>4. CASE C = D
      <4>1. one \in C /\ other \in C /\ one.kind = "compiler" /\ other.kind = "compiler" BY <1>5, <2>2, <3>4
      <4>2. one.context # other.context /\ one.context \in contexts /\ other.context \in contexts
        BY <2>2, <4>1 DEF Differ
      <4> HIDE DEF contexts
      <4> QED BY <1>6, <3>1, <4>2, MoreThanOne
    <3> QED BY <3>1, <3>3, <3>4
  <2>4. D # {} BY <2>2
  <2> QED BY <1>2, <1>10, <2>1, <2>3, <2>4 DEF D, m, x, C
<1> QED BY <1>2, <1>8, <1>9, <1>10

LEMMA SourcesFinite ==
    ASSUME NEW s \in Seq(Document)
    PROVE  LET listed == UNION {ToSet(d.listed) : d \in ToSet(s)}
           IN  IsFiniteSet(listed) /\ listed \subseteq SourcePath
<1> DEFINE L == {ToSet(d.listed) : d \in ToSet(s)}
           f == [d \in ToSet(s) |-> ToSet(d.listed)]
<1>1. ToSet(s) \subseteq Document BY Members
<1>2. \A d \in Document : d.listed \in Seq(SourcePath) BY DEF Document
<1>3. \A d \in ToSet(s) : IsFiniteSet(ToSet(d.listed)) /\ ToSet(d.listed) \subseteq SourcePath
  BY <1>1, <1>2, Members
<1>4. f \in Surjection(ToSet(s), L) BY DEF Surjection
<1>5. \A l \in L : IsFiniteSet(l) /\ l \subseteq SourcePath BY <1>3
<1> HIDE DEF f, L
<1>6. IsFiniteSet(L) BY <1>4, FiniteImages
<1>7. IsFiniteSet(UNION L) /\ UNION L \subseteq SourcePath BY <1>5, <1>6, FS_UNION
<1> QED BY <1>7 DEF L

-----------------------------------------------------------------------------
(* Loading a layout *)

\* What loading makes of a catalog, by its fields.
LEMMA LoadedFields ==
    ASSUME NEW files \in Seq(ContractFile), NEW ceil \in Amounts
    PROVE  LET loaded == Loaded(files, ceil)
               reading == BoundReading(files, ceil)
               documents == DocumentsOf(reading.read)
           IN  /\ loaded.error = reading.error /\ loaded.files = reading.read
               /\ loaded.sources = UNION {ToSet(d.listed) : d \in ToSet(documents)}
               /\ loaded.extraction = Aggregate(documents)
               /\ reading \in YamlReading /\ documents \in Seq(Document)
<1>1. BoundReading(files, ceil) = FoldLeft(BoundText, Unread(ceil), files)
  BY Zenon DEF BoundReading, Bounding
<1>2. BoundReading(files, ceil) \in YamlReading BY BoundReads DEF Reads
<1>3. BoundReading(files, ceil).read \in Seq(ContractFile) BY <1>2 DEF YamlReading
<1>4. DocumentsOf(BoundReading(files, ceil).read) \in Seq(Document) BY <1>3, DocumentsAppended
<1>5. Loaded(files, ceil) =
        [error |-> BoundReading(files, ceil).error, files |-> BoundReading(files, ceil).read,
         sources |-> UNION {ToSet(d.listed) : d \in ToSet(DocumentsOf(BoundReading(files, ceil).read))},
         extraction |-> Aggregate(DocumentsOf(BoundReading(files, ceil).read))]
  BY <1>1, Zenon DEF Loaded
<1> QED BY <1>2, <1>4, <1>5

LEMMA AggregateTyped == ASSUME NEW s \in Seq(Document) PROVE Aggregate(s) \in Agreement
<1>1. MergedExtraction(s) \in Agreement BY MergeAppended
<1>2. Aggregate(s) = IF MergedExtraction(s).kind = "compiler" /\ Len(MergedExtraction(s).crates) # 1
                       THEN Conflict ELSE MergedExtraction(s)
  BY Zenon DEF Aggregate, MergedExtraction
<1> QED BY <1>1, <1>2 DEF Agreement

LEMMA LoadedTyped ==
    ASSUME NEW files \in Seq(ContractFile), NEW ceil \in Amounts
    PROVE  LET loaded == Loaded(files, ceil)
           IN  /\ loaded.error \in {"none", "layout", "version"} /\ loaded.files \in Seq(ContractFile)
               /\ IsFiniteSet(loaded.sources) /\ loaded.sources \subseteq SourcePath
               /\ loaded.extraction \in Agreement
<1> DEFINE reading == BoundReading(files, ceil)
           documents == DocumentsOf(reading.read)
           loaded == Loaded(files, ceil)
<1>1. /\ loaded.error = reading.error /\ loaded.files = reading.read
      /\ loaded.sources = UNION {ToSet(d.listed) : d \in ToSet(documents)}
      /\ loaded.extraction = Aggregate(documents)
      /\ reading \in YamlReading /\ documents \in Seq(Document)
  BY LoadedFields
<1>2. reading.error \in {"none", "layout", "version"} /\ reading.read \in Seq(ContractFile)
  BY <1>1 DEF YamlReading
<1> HIDE DEF reading, documents, loaded
<1>3. Aggregate(documents) \in Agreement BY <1>1, AggregateTyped
<1>4. /\ IsFiniteSet(UNION {ToSet(d.listed) : d \in ToSet(documents)})
      /\ UNION {ToSet(d.listed) : d \in ToSet(documents)} \subseteq SourcePath
  BY <1>1, SourcesFinite
<1> QED BY <1>1, <1>2, <1>3, <1>4 DEF loaded

\* A file that is accepted, alone.
Alone(f) ==
    /\ f.utf8 /\ f.sound /\ f.documents # <<>>
    /\ \A d \in ToSet(f.documents) : ~d.null /\ d.decodes /\ d.version = 2 /\ d.binds /\ HeaderIsSound(d)

\* Loading does what it promises, whatever the documents are and however they are
\* spread over the files.
THEOREM LoadedExactly ==
    ASSUME NEW files \in Seq(ContractFile), NEW ceil \in Amounts
    PROVE  LoadIsExact(files, ceil, Loaded(files, ceil))
<1> DEFINE loaded == Loaded(files, ceil)
           direct == DirectFiles(files)
           reading == BoundReading(files, ceil)
           documents == DocumentsOf(direct)
           declared == Declared(documents)
<1>1. /\ loaded.error = reading.error /\ loaded.files = reading.read
      /\ loaded.sources = UNION {ToSet(d.listed) : d \in ToSet(DocumentsOf(reading.read))}
      /\ loaded.extraction = Aggregate(DocumentsOf(reading.read))
  BY LoadedFields
<1>2. Reads(reading, direct, ceil, AllBound(direct)) BY BoundReads
<1>3. direct \in Seq(ContractFile) BY DirectAppended
<1>4. documents \in Seq(Document) BY <1>3, DocumentsAppended
<1> HIDE DEF reading, direct, loaded
<1>5. Accepts(direct, ceil) /\ AllBound(direct) <=>
        (\A f \in ToSet(direct) : Alone(f)) /\ \A r \in Resources : Total(direct, r) <= ceil[r]
  BY DEF Accepts, AllBound, Readable, Bound, Alone
<1>6. loaded.error = "none" <=>
        (\A f \in ToSet(direct) : Alone(f)) /\ \A r \in Resources : Total(direct, r) <= ceil[r]
  BY <1>1, <1>2, <1>5 DEF Reads
<1>7. loaded.error = "none" => loaded.files = direct BY <1>1, <1>2 DEF Reads
<1>8. loaded.error = "none" => loaded.sources = UNION {ToSet(d.listed) : d \in ToSet(documents)}
                               /\ loaded.extraction = Aggregate(documents)
  BY <1>1, <1>7
<1>9. loaded.error = "none" => AllSound(documents)
  <2>1. ToSet(documents) = UNION {ToSet(f.documents) : f \in ToSet(direct)} BY <1>3, AllDocuments
  <2> QED BY <1>6, <2>1 DEF Alone, AllSound
<1> HIDE DEF documents
<1>10. ASSUME loaded.error = "none"
       PROVE  /\ loaded.extraction.kind = "conflict" <=> ~Agreed(declared)
              /\ loaded.extraction.kind = "none" <=> declared = {}
              /\ loaded.extraction.kind \in {"syntax", "compiler"} =>
                    /\ ToSet(loaded.extraction.crates) = CratesOf(declared)
                    /\ Len(loaded.extraction.crates) = Cardinality(CratesOf(declared))
                    /\ \A e \in declared : e.kind = loaded.extraction.kind
                    /\ \A e \in Compilers(declared) : e.context = loaded.extraction.context
  <2>1. loaded.extraction = Aggregate(documents) /\ AllSound(documents) BY <1>8, <1>9, <1>10
  <2> HIDE DEF declared
  <2>2. LET x == Aggregate(documents) IN
              /\ x.kind = "conflict" <=> ~Agreed(Declared(documents))
              /\ x.kind = "none" <=> Declared(documents) = {}
              /\ x.kind \in {"syntax", "compiler"} =>
                    /\ ToSet(x.crates) = CratesOf(Declared(documents))
                    /\ Len(x.crates) = Cardinality(CratesOf(Declared(documents)))
                    /\ \A e \in Declared(documents) : e.kind = x.kind
                    /\ \A e \in Compilers(Declared(documents)) : e.context = x.context
    BY <1>4, <2>1, AggregateExact
  <2> QED BY <2>1, <2>2 DEF declared
<1> QED
  BY <1>6, <1>7, <1>8, <1>10, Zenon
  DEF LoadIsExact, Alone, Agreed, Compilers, CratesOf, Declared, direct, documents, declared, loaded

-----------------------------------------------------------------------------
(* One ledger *)

LEMMA AffordableBefore ==
    ASSUME limits \in Budget, NEW s \in Seq(Size), NEW e \in Size, Affordable(Append(s, e))
    PROVE  Affordable(s)
<1>1. Len(s) \in Nat /\ Len(Append(s, e)) = Len(s) + 1 /\ ToSet(Append(s, e)) = ToSet(s) \cup {e}
  BY Members
<1>2. Sum(s) \in Nat /\ Sum(Append(s, e)) = (IF e = Unavailable THEN Sum(s) ELSE Sum(s) + e)
  BY SumAppended
<1>3. limits.entries \in Nat /\ limits.total \in Nat BY DEF Budget
<1>4. e = Unavailable \/ e \in Nat BY DEF Size
<1> QED BY <1>1, <1>2, <1>3, <1>4 DEF Affordable

LEMMA AffordablePrefix ==
    ASSUME limits \in Budget, NEW s \in Seq(Size), NEW t \in Seq(Size), Affordable(s \o t)
    PROVE  Affordable(s)
<1> DEFINE S == {u \in Seq(Size) : Affordable(s \o u) => Affordable(s)}
<1>1. <<>> \in S
  <2>1. s \o <<>> = s /\ <<>> \in Seq(Size) OBVIOUS
  <2>2. Affordable(s \o <<>>) => Affordable(s) BY <2>1, Zenon
  <2> QED BY <2>1, <2>2
<1>2. ASSUME NEW u \in Seq(Size), NEW e \in Size, u \in S PROVE Append(u, e) \in S
  <2>1. /\ Append(u, e) \in Seq(Size) /\ s \o u \in Seq(Size) /\ s \o Append(u, e) = Append(s \o u, e)
    BY Catenated
  <2>2. Affordable(s \o Append(u, e)) => Affordable(s \o u) BY <2>1, AffordableBefore
  <2> QED BY <1>2, <2>1, <2>2
<1> HIDE DEF S
<1>3. t \in S BY <1>1, <1>2, SequenceInduction
<1> QED BY <1>3 DEF S

\* What a ledger that has been charged from the beginning says.
PaidFor(charged, s) ==
    /\ charged \in Ledger
    /\ charged.stopped = "none" =>
          charged.entries = Len(s) /\ charged.total = Sum(s) /\ Affordable(s) /\ Unavailable \notin ToSet(s)
    /\ charged.stopped = "limit" => ~Affordable(s)
    /\ charged.stopped = "sources" => Unavailable \in ToSet(s)

LEMMA PaidOneMore ==
    ASSUME limits \in Budget, NEW s \in Seq(Size), NEW charged, PaidFor(charged, s), NEW e \in Size
    PROVE  PaidFor(Charge(charged, e), Append(s, e))
<1> DEFINE t == Append(s, e)
           c == Charge(charged, e)
<1>1. /\ t \in Seq(Size) /\ Len(s) \in Nat /\ Len(t) = Len(s) + 1 /\ ToSet(t) = ToSet(s) \cup {e}
      /\ Sum(s) \in Nat /\ Sum(t) = (IF e = Unavailable THEN Sum(s) ELSE Sum(s) + e)
  BY Members, SumAppended
<1>2. limits.entries \in Nat /\ limits.total \in Nat /\ limits.file \in Nat BY DEF Budget
<1>3. charged \in Ledger /\ c \in Ledger BY ChargeTyped DEF PaidFor
<1>4. (e = Unavailable \/ e \in Nat) /\ Unavailable \notin Nat BY DEF Size, Unavailable
<1>5. charged.stopped \in {"none", "limit", "sources"} /\ charged.entries \in Nat /\ charged.total \in Nat
  BY <1>3 DEF Ledger
<1>6. Affordable(t) => Affordable(s) BY AffordableBefore
<1> HIDE DEF t
<1>7. CASE charged.stopped # "none"
  <2>1. c = charged BY <1>7 DEF Charge
  <2> QED BY <1>1, <1>3, <1>6, <1>7, <2>1 DEF PaidFor, t
<1>8. CASE charged.stopped = "none"
  <2>1. /\ charged.entries = Len(s) /\ charged.total = Sum(s) /\ Affordable(s) /\ Unavailable \notin ToSet(s)
    BY <1>8 DEF PaidFor
  <2>2. CASE charged.entries = limits.entries
    <3>1. c = [charged EXCEPT !.stopped = "limit"] BY <1>8, <2>2 DEF Charge
    <3>2. c.stopped = "limit" BY <1>3, <3>1 DEF Ledger
    <3>3. ~Affordable(t) BY <1>1, <1>2, <2>1, <2>2 DEF Affordable
    <3> QED BY <1>3, <3>2, <3>3 DEF PaidFor, t
  <2>3. CASE charged.entries # limits.entries /\ e = Unavailable
    <3>1. c = [charged EXCEPT !.entries = @ + 1, !.stopped = "sources"] BY <1>8, <2>3 DEF Charge
    <3>2. c.stopped = "sources"
      <4>1. PICK d \in Ledger : d = [charged EXCEPT !.entries = charged.entries + 1]
        <5>1. [charged EXCEPT !.entries = charged.entries + 1] \in Ledger BY <1>3, <1>5 DEF Ledger
        <5> QED BY <5>1, Zenon
      <4>2. c = [d EXCEPT !.stopped = "sources"] BY <3>1, <4>1, Zenon
      <4> QED BY <4>1, <4>2 DEF Ledger
    <3> QED BY <1>1, <1>3, <2>3, <3>2 DEF PaidFor, t
  <2>4. CASE /\ charged.entries # limits.entries /\ e \in Nat
             /\ (e > limits.file \/ charged.total + e > limits.total)
    <3>1. c = [charged EXCEPT !.entries = @ + 1, !.stopped = "limit"] BY <1>4, <1>8, <2>4 DEF Charge
    <3>2. ~Affordable(t)
      <4>1. e \in ToSet(t) /\ Sum(t) = charged.total + e BY <1>1, <1>4, <2>1, <2>4
      <4>2. e > limits.file => ~(e <= limits.file) BY <1>2, <2>4
      <4>3. charged.total + e > limits.total => ~(Sum(t) <= limits.total) BY <1>2, <1>5, <2>4, <4>1
      <4> HIDE DEF c
      <4> QED BY <2>4, <4>1, <4>2, <4>3 DEF Affordable
    <3>3. c.stopped = "limit"
      <4>1. PICK d \in Ledger : d = [charged EXCEPT !.entries = charged.entries + 1]
        <5>1. [charged EXCEPT !.entries = charged.entries + 1] \in Ledger BY <1>3, <1>5 DEF Ledger
        <5> QED BY <5>1, Zenon
      <4>2. c = [d EXCEPT !.stopped = "limit"] BY <3>1, <4>1, Zenon
      <4> QED BY <4>1, <4>2 DEF Ledger
    <3> QED BY <1>3, <3>2, <3>3 DEF PaidFor, t
  <2>5. CASE /\ charged.entries # limits.entries /\ e \in Nat
             /\ ~(e > limits.file \/ charged.total + e > limits.total)
    <3>1. c = [charged EXCEPT !.entries = @ + 1, !.total = @ + e] BY <1>4, <1>8, <2>5 DEF Charge
    <3>2. c.stopped = "none" /\ c.entries = charged.entries + 1 /\ c.total = charged.total + e
      <4>1. PICK d \in Ledger : d = [charged EXCEPT !.entries = charged.entries + 1]
        <5>1. [charged EXCEPT !.entries = charged.entries + 1] \in Ledger BY <1>3, <1>5 DEF Ledger
        <5> QED BY <5>1, Zenon
      <4>2. c = [d EXCEPT !.total = d.total + e] BY <3>1, <4>1, Zenon
      <4>3. d.total = charged.total /\ d.entries = charged.entries + 1 /\ d.stopped = "none"
        BY <1>3, <1>8, <4>1 DEF Ledger
      <4> QED BY <4>1, <4>2, <4>3 DEF Ledger
    <3>3. Affordable(t) BY <1>1, <1>2, <1>4, <1>5, <2>1, <2>5 DEF Affordable
    <3> QED BY <1>1, <1>3, <1>4, <2>1, <2>5, <3>2, <3>3 DEF PaidFor, t
  <2> QED BY <1>4, <2>2, <2>3, <2>4, <2>5
<1> QED BY <1>7, <1>8

LEMMA NothingPaid == ASSUME limits \in Budget PROVE NothingRead \in Ledger /\ PaidFor(NothingRead, <<>>)
<1>1. NothingRead \in Ledger BY DEF NothingRead, Ledger
<1>2. PICK z \in Seq(Size) : z = <<>>
  <2>1. <<>> \in Seq(Size) OBVIOUS
  <2> QED BY <2>1
<1>3. Sum(<<>>) = 0 /\ ToSet(<<>>) = {} /\ Len(<<>>) = 0 BY <1>2, SumAppended, Members
<1>4. Affordable(<<>>) BY <1>3 DEF Affordable, Budget
<1> QED BY <1>1, <1>3, <1>4 DEF PaidFor, NothingRead

\* Whatever is charged in whatever pieces, the ledger knows it all.
LEMMA ChargedExactly ==
    ASSUME limits \in Budget, NEW s \in Seq(Size), NEW charged, PaidFor(charged, s), NEW t \in Seq(Size)
    PROVE  PaidFor(ChargeAll(charged, t), s \o t)
<1> DEFINE S == {u \in Seq(Size) : PaidFor(ChargeAll(charged, u), s \o u)}
<1>0. charged \in Ledger BY DEF PaidFor
<1>1. <<>> \in S
  <2>1. s \o <<>> = s /\ <<>> \in Seq(Size) OBVIOUS
  <2>2. PICK z \in Seq(Size) : z = <<>> BY <2>1
  <2>3. ChargeAll(charged, <<>>) = charged BY <1>0, <2>2, ChargeAppended
  <2>4. PaidFor(ChargeAll(charged, <<>>), s \o <<>>) BY <2>1, <2>3, Zenon
  <2> QED BY <2>1, <2>4
<1>2. ASSUME NEW u \in Seq(Size), NEW e \in Size, u \in S PROVE Append(u, e) \in S
  <2>1. /\ Append(u, e) \in Seq(Size) /\ s \o u \in Seq(Size) /\ s \o Append(u, e) = Append(s \o u, e)
    BY Catenated
  <2>2. ChargeAll(charged, Append(u, e)) = Charge(ChargeAll(charged, u), e) BY <1>0, ChargeAppended
  <2>3. PaidFor(ChargeAll(charged, u), s \o u) BY <1>2
  <2>4. PaidFor(Charge(ChargeAll(charged, u), e), Append(s \o u, e)) BY <2>1, <2>3, PaidOneMore
  <2>5. PaidFor(ChargeAll(charged, Append(u, e)), s \o Append(u, e)) BY <2>1, <2>2, <2>4, Zenon
  <2> QED BY <2>1, <2>5
<1> HIDE DEF S
<1>3. t \in S BY <1>1, <1>2, SequenceInduction
<1> QED BY <1>3 DEF S

-----------------------------------------------------------------------------
(* Sources, sizes and files *)

\* A finite set in some order.
LEMMA Ordered ==
    ASSUME NEW X, NEW S \in SUBSET X, IsFiniteSet(S)
    PROVE  /\ SetToSeq(S) \in Seq(X) /\ ToSet(SetToSeq(S)) = S /\ IsInjective(SetToSeq(S))
<1> DEFINE n == Cardinality(S)
           f == SetToSeq(S)
<1>1. n \in Nat /\ ExistsBijection(1..n, S) BY FS_CardinalityType
<1>2. PICK g \in Bijection(1..n, S) : TRUE BY <1>1 DEF ExistsBijection
<1>3. g \in [1..n -> S] /\ IsInjective(g) BY <1>2 DEF Bijection, Injection
<1>4. f \in [1..n -> S] /\ IsInjective(f) BY <1>3, Zenon DEF SetToSeq
<1>5. f \in Injection(1..n, S) BY <1>4 DEF Injection
<1>6. IsFiniteSet(1..n) /\ Cardinality(1..n) = n BY <1>1, FS_CountingElements, FS_Interval
<1>7. f \in Surjection(1..n, S)
  <2> HIDE DEF f
  <2>1. Cardinality(1..n) = Cardinality(S) BY <1>6
  <2>2. f \in Surjection(1..n, S) BY <1>5, <2>1, FS_Injection
  <2> QED BY <2>2
<1> HIDE DEF n, f
<1>8. f \in Seq(X) /\ DOMAIN f = 1..n BY <1>1, <1>4
<1>9. ToSet(f) = S BY <1>4, <1>7, <1>8 DEF ToSet, Surjection
<1> QED BY <1>4, <1>8, <1>9 DEF f

\* Nothing that the tree lacks is available.
LEMMA SourcesSized ==
    ASSUME IsTree(tree), NEW paths, IsFiniteSet(paths)
    PROVE  /\ SourceSizes(paths) \in Seq(Size)
           /\ Unavailable \notin ToSet(SourceSizes(paths)) <=> paths \subseteq DOMAIN tree
<1> DEFINE order == SetToSeq(paths)
           sizes == [i \in DOMAIN order |-> IF order[i] \in DOMAIN tree THEN tree[order[i]] ELSE Unavailable]
<1>1. order \in Seq(paths) /\ ToSet(order) = paths BY Ordered
<1>2. SourceSizes(paths) = sizes BY DEF SourceSizes
<1>3. \A p \in DOMAIN tree : tree[p] \in Nat BY DEF IsTree
<1>4. Unavailable \notin Nat /\ Unavailable \in Size /\ Nat \subseteq Size BY DEF Unavailable, Size
<1> HIDE DEF order
<1>5. Len(order) \in Nat /\ DOMAIN order = 1..Len(order) BY <1>1
<1>6. sizes \in Seq(Size)
  <2>1. \A i \in 1..Len(order) : sizes[i] \in Size BY <1>3, <1>4, <1>5
  <2> QED BY <1>5, <2>1
<1>7. Unavailable \in ToSet(sizes) <=> \E i \in DOMAIN order : order[i] \notin DOMAIN tree
  BY <1>3, <1>4, <1>5 DEF ToSet
<1>8. (\E i \in DOMAIN order : order[i] \notin DOMAIN tree) <=> ~(paths \subseteq DOMAIN tree)
  BY <1>1 DEF ToSet
<1> QED BY <1>2, <1>6, <1>7, <1>8

LEMMA FilesSized ==
    ASSUME NEW files \in Seq(ContractFile)
    PROVE  SizesOf(files) \in Seq(Size) /\ Unavailable \notin ToSet(SizesOf(files))
<1>1. \A i \in 1..Len(files) : files[i] \in ContractFile OBVIOUS
<1>2. \A i \in 1..Len(files) : files[i].size \in Nat BY <1>1 DEF ContractFile
<1>3. Unavailable \notin Nat /\ Nat \subseteq Size BY DEF Unavailable, Size
<1>4. Len(files) \in Nat /\ DOMAIN files = 1..Len(files) OBVIOUS
<1>5. SizesOf(files) \in Seq(Size) BY <1>2, <1>3, <1>4 DEF SizesOf
<1>6. Unavailable \notin ToSet(SizesOf(files)) BY <1>2, <1>3, <1>4 DEF SizesOf, ToSet
<1> QED BY <1>5, <1>6

LEMMA OneSized ==
    ASSUME NEW n \in Nat
    PROVE  <<n>> \in Seq(Size) /\ Unavailable \notin ToSet(<<n>>) /\ <<n>> = Append(<<>>, n)
<1>1. Unavailable \notin Nat /\ Nat \subseteq Size BY DEF Unavailable, Size
<1> QED BY <1>1 DEF ToSet

LEMMA NoneSized == <<>> \in Seq(Size) /\ Unavailable \notin ToSet(<<>>)
BY DEF ToSet

\* The files directly in the root are those of the catalog.
LEMMA DirectMembers ==
    ASSUME NEW s \in Seq(ContractFile)
    PROVE  ToSet(DirectFiles(s)) = {f \in ToSet(s) : f.direct}
<1> DEFINE S == {t \in Seq(ContractFile) : ToSet(DirectFiles(t)) = {f \in ToSet(t) : f.direct}}
<1>1. <<>> \in Seq(ContractFile) OBVIOUS
<1>2. PICK z \in Seq(ContractFile) : z = <<>> BY <1>1
<1>3. <<>> \in S
  <2>1. ToSet(<<>>) = {} BY DEF ToSet
  <2>2. DirectFiles(<<>>) = <<>> BY <1>2, DirectAppended
  <2> QED BY <1>1, <2>1, <2>2
<1>4. ASSUME NEW t \in Seq(ContractFile), NEW f \in ContractFile, t \in S PROVE Append(t, f) \in S
  <2>1. /\ Append(t, f) \in Seq(ContractFile) /\ ToSet(Append(t, f)) = ToSet(t) \cup {f} BY Members
  <2>2. /\ DirectFiles(t) \in Seq(ContractFile)
        /\ DirectFiles(Append(t, f)) = IF f.direct THEN Append(DirectFiles(t), f) ELSE DirectFiles(t)
    BY DirectAppended
  <2>3. ToSet(Append(DirectFiles(t), f)) = ToSet(DirectFiles(t)) \cup {f} BY <2>2, Members
  <2> QED BY <1>4, <2>1, <2>2, <2>3
<1> HIDE DEF S
<1>5. s \in S BY <1>3, <1>4, SequenceInduction
<1> QED BY <1>5 DEF S

\* The same files twice use twice as much, and are as deep.
LEMMA TotalTwice ==
    ASSUME NEW s \in Seq(ContractFile), NEW t \in Seq(ContractFile), NEW r \in Resources, r # "depth"
    PROVE  Total(s \o t, r) = Total(s, r) + Total(t, r)
<1> DEFINE S == {u \in Seq(ContractFile) : Total(s \o u, r) = Total(s, r) + Total(u, r)}
<1>1. <<>> \in S
  <2>1. s \o <<>> = s /\ <<>> \in Seq(ContractFile) OBVIOUS
  <2>2. Total(<<>>, r) = 0 /\ Total(s, r) \in Nat BY NothingTotal, TotalTyped
  <2>3. Total(s \o <<>>, r) = Total(s, r) BY <2>1, Zenon
  <2> QED BY <2>1, <2>2, <2>3
<1>2. ASSUME NEW u \in Seq(ContractFile), NEW f \in ContractFile, u \in S PROVE Append(u, f) \in S
  <2>1. /\ Append(u, f) \in Seq(ContractFile) /\ s \o u \in Seq(ContractFile)
        /\ s \o Append(u, f) = Append(s \o u, f)
    BY Catenated
  <2>2. Total(Append(u, f), r) = Total(u, r) + f.raw[r] + Replay(f)[r] BY TotalAppended
  <2>3. Total(Append(s \o u, f), r) = Total(s \o u, r) + f.raw[r] + Replay(f)[r] BY <2>1, TotalAppended
  <2>4. f.raw[r] \in Nat /\ Replay(f)[r] \in Nat /\ Total(s, r) \in Nat /\ Total(u, r) \in Nat
    BY ReplayTyped, TotalTyped DEF Amounts
  <2>5. Total(s \o u, r) = Total(s, r) + Total(u, r) BY <1>2
  <2>6. Total(Append(s \o u, f), r) = Total(s, r) + Total(Append(u, f), r)
    <3> DEFINE k == Total(Append(s \o u, f), r)
    <3>1. k = Total(s \o u, r) + f.raw[r] + Replay(f)[r] BY <2>3
    <3> HIDE DEF k
    <3>2. k = Total(s, r) + Total(Append(u, f), r) BY <2>2, <2>4, <2>5, <3>1
    <3> QED BY <3>2 DEF k
  <2>7. Total(s \o Append(u, f), r) = Total(s, r) + Total(Append(u, f), r) BY <2>1, <2>6, Zenon
  <2> QED BY <2>1, <2>7
<1> HIDE DEF S
<1>3. t \in S BY <1>1, <1>2, SequenceInduction
<1> QED BY <1>3 DEF S

LEMMA ReadableTwice ==
    ASSUME NEW s \in Seq(ContractFile), NEW ceil \in Amounts, Accepts(s, ceil), ~Accepts(s \o s, ceil)
    PROVE  \E r \in Resources : 2 * Total(s, r) > ceil[r]
<1>1. s \o s \in Seq(ContractFile) /\ ToSet(s \o s) = ToSet(s)
  <2>1. PICK t \in Seq(ContractFile) : t = s OBVIOUS
  <2>2. s \o t \in Seq(ContractFile) /\ ToSet(s \o t) = ToSet(s) \cup ToSet(t) BY Members
  <2> QED BY <2>1, <2>2
<1>2. PICK r \in Resources : ~(Total(s \o s, r) <= ceil[r]) BY <1>1 DEF Accepts
<1>3. r # "depth"
  <2>1. Total(s \o s, "depth") = Total(s, "depth") BY <1>1, Zenon DEF Total
  <2> QED BY <1>2, <2>1 DEF Accepts
<1>4. Total(s \o s, r) = Total(s, r) + Total(s, r) BY <1>3, TotalTwice
<1>5. Total(s, r) \in Nat /\ ceil[r] \in Nat BY TotalTyped DEF Amounts
<1> QED BY <1>2, <1>4, <1>5

-----------------------------------------------------------------------------
(* One document *)

LEMMA OneDirect ==
    ASSUME NEW files \in Seq(ContractFile), DirectFiles(files) = <<>>, NEW f \in ContractFile, f.direct
    PROVE  DirectFiles(Append(files, f)) = <<f>> /\ Append(files, f) \in Seq(ContractFile)
<1>1. DirectFiles(Append(files, f)) = Append(DirectFiles(files), f) BY DirectAppended
<1>2. DirectFiles(Append(files, f)) = Append(<<>>, f) BY <1>1, Zenon
<1> QED BY <1>2

LEMMA OneDocument ==
    ASSUME NEW f \in ContractFile, NEW d \in Document, f.documents = <<d>>
    PROVE  DocumentsOf(<<f>>) = <<d>> /\ ToSet(<<d>>) = {d} /\ Aggregate(<<d>>) =
              IF d.extraction.kind = "compiler" /\ Len(d.extraction.crates) # 1 THEN Conflict ELSE d.extraction
<1>1. PICK z \in Seq(ContractFile) : z = <<>>
  <2>1. <<>> \in Seq(ContractFile) OBVIOUS
  <2> QED BY <2>1
<1>2. DocumentsOf(Append(z, f)) = DocumentsOf(z) \o f.documents BY DocumentsAppended
<1>3. DocumentsOf(<<>>) = <<>> BY <1>1, DocumentsAppended
<1>3a. Append(z, f) = <<f>>
  <2>1. Append(<<>>, f) = <<f>> OBVIOUS
  <2> QED BY <1>1, <2>1, Zenon
<1>4. <<>> \o <<d>> = <<d>> OBVIOUS
<1>5. DocumentsOf(<<f>>) = <<d>> BY <1>1, <1>2, <1>3, <1>3a, <1>4, Zenon
<1>6. PICK y \in Seq(Document) : y = <<>>
  <2>1. <<>> \in Seq(Document) OBVIOUS
  <2> QED BY <2>1
<1>7. MergedExtraction(Append(y, d)) = Merge(MergedExtraction(y), d.extraction) BY MergeAppended
<1>8. MergedExtraction(<<>>) = NoExtraction BY <1>6, MergeAppended
<1>8a. Append(y, d) = <<d>>
  <2>1. Append(<<>>, d) = <<d>> OBVIOUS
  <2> QED BY <1>6, <2>1, Zenon
<1>9. Merge(NoExtraction, d.extraction) = d.extraction BY DEF Merge, NoExtraction
<1>10. MergedExtraction(<<d>>) = d.extraction BY <1>6, <1>7, <1>8, <1>8a, <1>9, Zenon
<1>11. Aggregate(<<d>>) = IF MergedExtraction(<<d>>).kind = "compiler" /\ Len(MergedExtraction(<<d>>).crates) # 1
                           THEN Conflict ELSE MergedExtraction(<<d>>)
  BY Zenon DEF Aggregate, MergedExtraction
<1>12. ToSet(<<d>>) = {d} BY DEF ToSet
<1> QED BY <1>5, <1>10, <1>11, <1>12, Zenon

-----------------------------------------------------------------------------
(* How far a command has come *)

\* What has been read so far has been paid for.
PaidSoFar(list) == PaidFor(ledger, list) /\ ledger.stopped = "none"
ManifestRead == IF before[1].manifest = 0 THEN <<>> ELSE <<before[1].manifest>>
ContractsRead == (IF command.verb = "generate" THEN ManifestRead ELSE <<>>) \o SizesOf(before[1].files)
SourcesRead == ContractsRead \o SourceSizes(sources)
ExtractionRead == IF input.kind = "compiler" THEN SourceSizes(sources) ELSE <<>>
AllRead == SourcesRead \o ExtractionRead
ArchiveRead == IF stored = NoArchive THEN <<>> ELSE <<stored.packing.compressed>> \o SizesOf(stored.files)

Extracts == command.verb \in {"check", "generate"}
Nothing == sources = {} /\ input = NoInput /\ crates = <<>>
Known == catalog = before[1].files
Laid == Known /\ layout = Loaded(catalog, ceiling) /\ Unusable(layout) = "none"
Gathered ==
    /\ Extracts /\ Laid /\ sources \subseteq DOMAIN tree
    /\ sources = IF IsEmpty(layout) THEN {p \in DOMAIN tree : p.rust} ELSE layout.sources
\* The extraction is the one that the documents declare, or the one to establish.
Extracted ==
    /\ input.kind \in {"syntax", "compiler"}
    /\ input.kind = "syntax" => input = SyntaxInput
    /\ input.kind = "compiler" => input.artifact \in Artifacts
    /\ SketchesOnly => input = SyntaxInput
    /\ Establishing => /\ input.kind = command.extractor
                       /\ input.kind = "compiler" => crates = input.artifact.crates
    /\ ~SketchesOnly /\ ~Establishing =>
          /\ input.kind = "compiler" <=> layout.extraction.kind = "compiler"
          /\ input.kind = "compiler" =>
                /\ layout.extraction.context = input.artifact.context
                /\ layout.extraction.crates = input.artifact.crates
Prepared == Gathered /\ Extracted /\ PaidSoFar(AllRead)
WellPacked(a) ==
    /\ a.sound /\ a.clean /\ FitsWire(a.files, a.packing)
    /\ Validate(Unread(ceiling), a.files).error = "none"
Decoded == command.verb = "diff" /\ Known /\ stored # NoArchive /\ previous = stored.files /\ PaidSoFar(ReadingList)
Encoded ==
    /\ command.verb = "archive" /\ PaidSoFar(ContractsRead)
    /\ IsArchive(produced[1]) /\ produced[1].kind = "archive" /\ WellPacked(produced[1])

Phases == {"over", "contracts", "layout", "sources", "extraction", "target", "validate", "encode", "decode",
           "revalidate", "ask", "commit", "print"}
Course ==
    /\ phase \in Phases
    /\ phase # "over" => IsCommand(command) /\ command.verb # "edit"
    /\ phase \notin {"over", "ask", "commit", "print"} => asked = {}
    /\ phase = "contracts" => Nothing /\ PaidSoFar(<<>>) /\ layout = Loaded(<<>>, ceiling)
    /\ phase = "layout" => Extracts /\ Known /\ Nothing /\ PaidSoFar(ContractsRead)
    /\ phase = "sources" => Extracts /\ Laid /\ Nothing /\ PaidSoFar(ContractsRead)
    /\ phase = "extraction" => Gathered /\ input = NoInput /\ ~SketchesOnly /\ PaidSoFar(SourcesRead)
    /\ phase = "target" => Prepared /\ command.verb = "generate"
    /\ phase \in {"validate", "decode"} => Known /\ PaidSoFar(ContractsRead)
    /\ phase = "validate" => command.verb \in {"archive", "diff"}
    /\ phase = "decode" => command.verb = "diff"
    /\ phase = "encode" => /\ command.verb = "archive" /\ Known /\ PaidSoFar(ContractsRead)
                           /\ Validate(Unread(ceiling), catalog).error = "none"
    /\ phase = "revalidate" => Decoded
    /\ phase = "ask" => Prepared \/ Decoded
    /\ phase = "ask" /\ command.verb = "check" /\ SketchesOnly => kits \in Seq({"sketch"}) /\ kits # <<>>
    /\ phase = "commit" => Prepared \/ Encoded
    /\ phase = "commit" /\ command.verb = "generate" =>
          produced = Handed /\ (Establishing => HeaderIsSound(FreshDocument))
    /\ phase = "print" => PaidSoFar(ReadingList)

\* What generate leaves to the commands that follow it.
Established(x) ==
    LET files == DirectFiles(x.root.files)
        f == files[1]
        d == f.documents[1]
    IN  /\ files = <<f>> /\ f \in ContractFile /\ f.documents = <<d>> /\ d \in Document
        /\ d.extraction.kind = x.by.extractor /\ x.by.extractor \in {"syntax", "compiler"}
        /\ d.extraction.kind = "compiler" => Len(d.extraction.crates) = 1
Typed == CommandTypeOK /\ ledger \in Ledger /\ layout \in {Loaded(<<>>, ceiling), Loaded(catalog, ceiling)}
Settled ==
    /\ Typed
    /\ stored.kind = "archive" => WellPacked(stored)
    /\ fresh.kind = "fresh" => Established(fresh)
    /\ KitsAreToldTheTruth /\ LedgerIsExact /\ LaterCommandsAgree

-----------------------------------------------------------------------------
(* What is loaded, and the list of what is read *)

LEMMA LayoutTyped ==
    ASSUME Typed
    PROVE  /\ layout.error \in {"none", "layout", "version"} /\ layout.files \in Seq(ContractFile)
           /\ IsFiniteSet(layout.sources) /\ layout.sources \subseteq SourcePath
           /\ layout.extraction \in Agreement
           /\ layout.error # "none" \/ layout.files # <<>> => LoadIsExact(catalog, ceiling, layout)
<1>1. catalog \in Seq(ContractFile) /\ ceiling \in Amounts BY DEF Typed, CommandTypeOK, Amounts
<1>2. PICK z \in Seq(ContractFile) : z = <<>>
  <2>1. <<>> \in Seq(ContractFile) OBVIOUS
  <2> QED BY <2>1
<1>3. PICK files \in Seq(ContractFile) : layout = Loaded(files, ceiling) /\ files \in {z, catalog}
  <2>1. CASE layout = Loaded(<<>>, ceiling)
    <3>1. layout = Loaded(z, ceiling) BY <1>2, <2>1, Zenon
    <3> QED BY <3>1
  <2>2. CASE layout = Loaded(catalog, ceiling) BY <1>1, <2>2, Zenon
  <2> QED BY <2>1, <2>2 DEF Typed
<1>4. /\ layout.error \in {"none", "layout", "version"} /\ layout.files \in Seq(ContractFile)
      /\ IsFiniteSet(layout.sources) /\ layout.sources \subseteq SourcePath
      /\ layout.extraction \in Agreement
  <2>1. LET loaded == Loaded(files, ceiling)
        IN  /\ loaded.error \in {"none", "layout", "version"} /\ loaded.files \in Seq(ContractFile)
            /\ IsFiniteSet(loaded.sources) /\ loaded.sources \subseteq SourcePath
            /\ loaded.extraction \in Agreement
    BY <1>1, LoadedTyped
  <2> QED BY <1>3, <2>1
<1>5. ASSUME layout.error # "none" \/ layout.files # <<>> PROVE LoadIsExact(catalog, ceiling, layout)
  <2>1. LoadIsExact(catalog, ceiling, Loaded(catalog, ceiling)) BY <1>1, LoadedExactly
  <2>2. CASE files = catalog BY <1>3, <2>1, <2>2, Zenon
  <2>3. CASE files = z
    <3>1. LET documents == DocumentsOf(BoundReading(z, ceiling).read)
          IN  /\ Loaded(z, ceiling).error = BoundReading(z, ceiling).error
              /\ Loaded(z, ceiling).files = BoundReading(z, ceiling).read
      BY <1>1, LoadedFields
    <3>2. BoundReading(z, ceiling) = Unread(ceiling)
      <4>1. Unread(ceiling) \in YamlReading BY <1>1, NothingReads DEF Reads
      <4> QED BY <1>2, <4>1, BoundAppended DEF BoundReading
    <3>3. layout.error = "none" /\ layout.files = <<>> BY <1>3, <2>3, <3>1, <3>2 DEF Unread
    <3> QED BY <1>5, <3>3
  <2> QED BY <1>3, <2>2, <2>3
<1> QED BY <1>4, <1>5

\* What is still to be read follows what has been read.
LEMMA Lists ==
    ASSUME Typed
    PROVE  /\ ManifestRead \in Seq(Size) /\ ContractsRead \in Seq(Size)
           /\ Unavailable \notin ToSet(ContractsRead)
           /\ SourceSizes(sources) \in Seq(Size) /\ SourcesRead \in Seq(Size)
           /\ ExtractionRead \in Seq(Size) /\ AllRead \in Seq(Size) /\ Outputs \in Seq(Size)
           /\ SizesOf(before[1].files) \in Seq(Size)
<1>1. /\ before[1].files \in Seq(ContractFile) /\ before[1].manifest \in Nat
      /\ IsTree(tree) /\ IsFiniteSet(sources)
  BY DEF Typed, CommandTypeOK, ContractsRoot
<1>2. SizesOf(before[1].files) \in Seq(Size) /\ Unavailable \notin ToSet(SizesOf(before[1].files))
  BY <1>1, FilesSized
<1>3. ManifestRead \in Seq(Size) /\ Unavailable \notin ToSet(ManifestRead)
  <2>1. CASE before[1].manifest = 0 BY <2>1, NoneSized DEF ManifestRead
  <2>2. CASE before[1].manifest # 0 BY <1>1, <2>2, OneSized DEF ManifestRead
  <2> QED BY <2>1, <2>2
<1> DEFINE first == IF command.verb = "generate" THEN ManifestRead ELSE <<>>
<1>4. first \in Seq(Size) /\ Unavailable \notin ToSet(first) BY <1>3, NoneSized
<1>5. ContractsRead = first \o SizesOf(before[1].files) BY DEF ContractsRead
<1> HIDE DEF first
<1>6. ContractsRead \in Seq(Size) /\ ToSet(ContractsRead) = ToSet(first) \cup ToSet(SizesOf(before[1].files))
  BY <1>2, <1>4, <1>5, Members
<1>7. SourceSizes(sources) \in Seq(Size) BY <1>1, SourcesSized
<1>8. SourcesRead \in Seq(Size) BY <1>6, <1>7, Catenated DEF SourcesRead
<1>9. ExtractionRead \in Seq(Size)
  <2>1. CASE input.kind = "compiler" BY <1>7, <2>1 DEF ExtractionRead
  <2>2. CASE input.kind # "compiler" BY <2>2, NoneSized DEF ExtractionRead
  <2> QED BY <2>1, <2>2
<1>10. AllRead \in Seq(Size) BY <1>8, <1>9, Catenated DEF AllRead
<1>11. Outputs \in Seq(Size)
  <2>1. layout.files \in Seq(ContractFile) BY LayoutTyped
  <2>2. SizesOf(layout.files) \in Seq(Size) BY <2>1, FilesSized
  <2>3. <<0>> \in Seq(Size) BY OneSized
  <2>4. CASE Establishing BY <2>3, <2>4 DEF Outputs
  <2>5. CASE ~Establishing BY <2>2, <2>5 DEF Outputs
  <2> QED BY <2>4, <2>5
<1> QED BY <1>2, <1>3, <1>4, <1>6, <1>7, <1>8, <1>9, <1>10, <1>11

\* Three lists in a row.
LEMMA InARow ==
    \A a, b, c \in Seq(Size) : (a \o b) \o c = a \o (b \o c) /\ <<>> \o a = a /\ a \o b \in Seq(Size)
<1> SUFFICES ASSUME NEW a \in Seq(Size), NEW b \in Seq(Size), NEW c \in Seq(Size)
             PROVE  (a \o b) \o c = a \o (b \o c) /\ <<>> \o a = a /\ a \o b \in Seq(Size)
  OBVIOUS
<1>1. a \o b \in Seq(Size) /\ b \o c \in Seq(Size) /\ <<>> \o a = a OBVIOUS
<1>2. (a \o b) \o c = a \o (b \o c) OBVIOUS
<1> QED BY <1>1, <1>2

LEMMA ReadingListIs ==
    ASSUME Typed
    PROVE  /\ ReadingList \in Seq(Size)
           /\ command.verb = "check" => ReadingList = AllRead
           /\ command.verb = "generate" =>
                 ReadingList = ((AllRead \o ManifestRead) \o SizesOf(before[1].files)) \o Outputs
           /\ command.verb = "archive" => ReadingList = ContractsRead
           /\ command.verb \notin {"check", "generate", "archive"} =>
                 ReadingList = ContractsRead \o ArchiveRead /\ ArchiveRead \in Seq(Size)
<1> DEFINE contracts_ == SizesOf(before[1].files)
           sizes == SourceSizes(sources)
<1>1. /\ ManifestRead \in Seq(Size) /\ ContractsRead \in Seq(Size)
      /\ sizes \in Seq(Size) /\ SourcesRead \in Seq(Size)
      /\ ExtractionRead \in Seq(Size) /\ AllRead \in Seq(Size) /\ Outputs \in Seq(Size)
      /\ contracts_ \in Seq(Size)
  BY Lists
<1>2. ArchiveRead \in Seq(Size)
  <2>1. CASE stored = NoArchive BY <2>1, NoneSized DEF ArchiveRead
  <2>2. CASE stored # NoArchive
    <3>1. stored.packing.compressed \in Nat /\ stored.files \in Seq(ContractFile)
      BY <2>2 DEF Typed, CommandTypeOK, IsArchive
    <3>2. <<stored.packing.compressed>> \in Seq(Size) BY <3>1, OneSized
    <3>3. SizesOf(stored.files) \in Seq(Size) BY <3>1, FilesSized
    <3> QED BY <2>2, <3>2, <3>3, Catenated DEF ArchiveRead
  <2> QED BY <2>1, <2>2
<1>3. command.verb # "generate" => ContractsRead = contracts_
  <2>1. <<>> \o contracts_ = contracts_ BY <1>1, InARow
  <2> QED BY <2>1 DEF ContractsRead
<1>4. command.verb = "generate" => ContractsRead = ManifestRead \o contracts_ BY DEF ContractsRead
<1>5. ReadingList = IF command.verb = "check" THEN contracts_ \o sizes \o ExtractionRead
                    ELSE IF command.verb = "generate"
                      THEN ManifestRead \o contracts_ \o sizes \o ExtractionRead \o ManifestRead \o contracts_
                           \o Outputs
                    ELSE IF command.verb = "archive" THEN contracts_ ELSE contracts_ \o ArchiveRead
  BY Zenon DEF ReadingList, ExtractionRead, ManifestRead, ArchiveRead
<1>6. AllRead = ContractsRead \o sizes \o ExtractionRead BY DEF AllRead, SourcesRead
<1>7. (AllRead \o ManifestRead) \o contracts_ \in Seq(Size) /\ AllRead \o ManifestRead \in Seq(Size)
      /\ ((AllRead \o ManifestRead) \o contracts_) \o Outputs \in Seq(Size)
      /\ ContractsRead \o ArchiveRead \in Seq(Size)
  BY <1>1, <1>2, Catenated
<1> HIDE DEF contracts_, sizes
<1>8. CASE command.verb = "check"
  <2>1. ReadingList = AllRead BY <1>3, <1>5, <1>6, <1>8, Zenon
  <2> QED BY <1>1, <1>8, <2>1
<1>9. CASE command.verb = "generate"
  <2>1. ReadingList = ((AllRead \o ManifestRead) \o contracts_) \o Outputs BY <1>4, <1>5, <1>6, <1>9, Zenon
  <2> QED BY <1>7, <1>9, <2>1 DEF contracts_
<1>10. CASE command.verb = "archive"
  <2>1. ReadingList = ContractsRead BY <1>3, <1>5, <1>10, Zenon
  <2> QED BY <1>1, <1>10, <2>1
<1>11. CASE command.verb \notin {"check", "generate", "archive"}
  <2>1. ReadingList = ContractsRead \o ArchiveRead BY <1>3, <1>5, <1>11, Zenon
  <2> QED BY <1>2, <1>7, <1>11, <2>1
<1> QED BY <1>8, <1>9, <1>10, <1>11

\* A command that reads on still pays what it has read.
LEMMA ReadOn ==
    ASSUME Typed, Affordable(ReadingList)
    PROVE  /\ Affordable(ContractsRead)
           /\ Extracts => Affordable(SourcesRead) /\ Affordable(AllRead)
           /\ command.verb = "diff" /\ stored # NoArchive =>
                 Affordable(Append(ContractsRead, stored.packing.compressed))
<1>0. limits \in Budget BY DEF Typed, CommandTypeOK, Budget
<1>1. /\ ManifestRead \in Seq(Size) /\ ContractsRead \in Seq(Size)
      /\ SourceSizes(sources) \in Seq(Size) /\ SourcesRead \in Seq(Size)
      /\ ExtractionRead \in Seq(Size) /\ AllRead \in Seq(Size) /\ Outputs \in Seq(Size)
      /\ SizesOf(before[1].files) \in Seq(Size)
  BY Lists
<1>2. ASSUME Extracts PROVE Affordable(AllRead)
  <2>1. CASE command.verb = "check" BY <2>1, ReadingListIs
  <2>2. CASE command.verb = "generate"
    <3>1. ReadingList = ((AllRead \o ManifestRead) \o SizesOf(before[1].files)) \o Outputs
      BY <2>2, ReadingListIs
    <3>2. AllRead \o ManifestRead \in Seq(Size)
          /\ (AllRead \o ManifestRead) \o SizesOf(before[1].files) \in Seq(Size)
      BY <1>1, Catenated
    <3>3. Affordable(((AllRead \o ManifestRead) \o SizesOf(before[1].files)) \o Outputs)
      BY <3>1
    <3>4. Affordable((AllRead \o ManifestRead) \o SizesOf(before[1].files))
      BY <1>0, <1>1, <3>2, <3>3, AffordablePrefix
    <3>5. Affordable(AllRead \o ManifestRead) BY <1>0, <1>1, <3>2, <3>4, AffordablePrefix
    <3> QED BY <1>0, <1>1, <3>5, AffordablePrefix
  <2> QED BY <1>2, <2>1, <2>2 DEF Extracts
<1>3. ASSUME Extracts PROVE Affordable(SourcesRead)
  <2>1. Affordable(SourcesRead \o ExtractionRead) BY <1>2, <1>3 DEF AllRead
  <2> QED BY <1>0, <1>1, <2>1, AffordablePrefix
<1>4. Affordable(ContractsRead)
  <2>1. CASE Extracts
    <3>1. Affordable(ContractsRead \o SourceSizes(sources)) BY <1>3, <2>1 DEF SourcesRead
    <3> QED BY <1>0, <1>1, <3>1, AffordablePrefix
  <2>2. CASE command.verb = "archive" BY <2>2, ReadingListIs
  <2>3. CASE command.verb \notin {"check", "generate", "archive"}
    <3>1. Affordable(ContractsRead \o ArchiveRead) /\ ArchiveRead \in Seq(Size) BY <2>3, ReadingListIs
    <3> QED BY <1>0, <1>1, <3>1, AffordablePrefix
  <2> QED BY <2>1, <2>2, <2>3 DEF Extracts
<1>5. ASSUME command.verb = "diff", stored # NoArchive
      PROVE  Affordable(Append(ContractsRead, stored.packing.compressed))
  <2> DEFINE n == stored.packing.compressed
  <2>1. n \in Nat /\ stored.files \in Seq(ContractFile) BY <1>5 DEF Typed, CommandTypeOK, IsArchive
  <2>2. <<n>> \in Seq(Size) /\ SizesOf(stored.files) \in Seq(Size) BY <2>1, OneSized, FilesSized
  <2>3. ReadingList = ContractsRead \o (<<n>> \o SizesOf(stored.files))
    BY <1>5, ReadingListIs DEF ArchiveRead
  <2> HIDE DEF n
  <2>4. PICK m \in Seq(Size) : m = <<n>> BY <2>2
  <2>5. (ContractsRead \o m) \o SizesOf(stored.files) = ContractsRead \o (m \o SizesOf(stored.files))
        /\ ContractsRead \o m \in Seq(Size)
    <3>1. /\ ContractsRead \in Seq(Size) /\ m \in Seq(Size) /\ SizesOf(stored.files) \in Seq(Size)
      BY <1>1, <2>2, <2>4
    <3>2. PICK p \in Seq(Size) : p = SizesOf(stored.files) BY <3>1
    <3>3. PICK q \in Seq(Size) : q = ContractsRead BY <3>1
    <3>4. (q \o m) \o p = q \o (m \o p) BY InARow
    <3>5. q \o m \in Seq(Size) BY InARow
    <3> QED BY <3>2, <3>3, <3>4, <3>5
  <2>6. Affordable((ContractsRead \o m) \o SizesOf(stored.files)) BY <2>3, <2>4, <2>5, Zenon
  <2>7. Affordable(ContractsRead \o m) BY <1>0, <2>2, <2>5, <2>6, AffordablePrefix
  <2>8. ContractsRead \o <<n>> = Append(ContractsRead, n) OBVIOUS
  <2> QED BY <2>4, <2>7, <2>8, Zenon DEF n
<1> QED BY <1>2, <1>3, <1>4, <1>5

-----------------------------------------------------------------------------
(* What the ledger says *)

LEMMA LedgerQuiet ==
    ASSUME phase # "print", result \notin {"passed", "failed", "limit"}
    PROVE  LedgerIsExact
BY DEF LedgerIsExact

\* What has been charged so far; a limit is named only if there was one.
Spent(list) ==
    /\ PaidFor(ledger, list) /\ phase # "print" /\ result \notin {"passed", "failed"}
    /\ result = "limit" => ledger.stopped = "limit"

LEMMA LedgerSpent ==
    ASSUME Typed,
           \/ Spent(ContractsRead) \/ Spent(ReadingList)
           \/ Extracts /\ (Spent(SourcesRead) \/ Spent(AllRead))
           \/ command.verb = "diff" /\ stored # NoArchive
                 /\ Spent(Append(ContractsRead, stored.packing.compressed))
    PROVE  LedgerIsExact
<1>1. \A list : Spent(list) =>
         /\ phase # "print" /\ result \notin {"passed", "failed"}
         /\ result = "limit" => ~Affordable(list)
  BY DEF Spent, PaidFor
<1>2. result = "limit" => ~Affordable(ReadingList)
  BY <1>1, ReadOn
<1> QED BY <1>1, <1>2 DEF LedgerIsExact

LEMMA LedgerPaid ==
    ASSUME PaidSoFar(ReadingList), result # "limit"
    PROVE  LedgerIsExact
BY DEF PaidSoFar, PaidFor, LedgerIsExact

-----------------------------------------------------------------------------
(* What later commands find *)

LEMMA LaterQuiet ==
    ASSUME command.verb = "check" => result \notin Refusals,
           command.verb = "diff" => result \notin {"archive", "layout"}
    PROVE  LaterCommandsAgree
BY DEF LaterCommandsAgree

\* A check of what generate has established with the same extractor.
Rechecks ==
    /\ command.verb = "check" /\ fresh.kind = "fresh" /\ before[1] = fresh.root
    /\ command.extractor = fresh.by.extractor /\ SourcesStand

\* The only document tells the layout.
LEMMA OneDocumentLoaded ==
    ASSUME NEW files \in Seq(ContractFile), NEW ceil \in Amounts, NEW f \in ContractFile, NEW d \in Document,
           DirectFiles(files) = <<f>>, f.documents = <<d>>,
           d.extraction.kind = "compiler" => Len(d.extraction.crates) = 1,
           Loaded(files, ceil).error = "none"
    PROVE  /\ Loaded(files, ceil).files = <<f>> /\ Loaded(files, ceil).sources = ToSet(d.listed)
           /\ Loaded(files, ceil).extraction = d.extraction
<1> DEFINE loaded == Loaded(files, ceil)
           reading == BoundReading(files, ceil)
<1>1. /\ loaded.error = reading.error /\ loaded.files = reading.read
      /\ loaded.sources = UNION {ToSet(e.listed) : e \in ToSet(DocumentsOf(reading.read))}
      /\ loaded.extraction = Aggregate(DocumentsOf(reading.read))
  BY LoadedFields
<1>2. Reads(reading, DirectFiles(files), ceil, AllBound(DirectFiles(files))) BY BoundReads
<1> HIDE DEF reading, loaded
<1>3. reading.read = <<f>> BY <1>1, <1>2 DEF Reads, loaded
<1>4. DocumentsOf(<<f>>) = <<d>> /\ ToSet(<<d>>) = {d} /\ Aggregate(<<d>>) =
        IF d.extraction.kind = "compiler" /\ Len(d.extraction.crates) # 1 THEN Conflict ELSE d.extraction
  BY OneDocument
<1>5. DocumentsOf(reading.read) = <<d>> BY <1>3, <1>4, Zenon
<1>6. ToSet(DocumentsOf(reading.read)) = {d} BY <1>4, <1>5, Zenon
<1>7. loaded.sources = UNION {ToSet(e.listed) : e \in {d}} BY <1>1, <1>6, Zenon
<1>8. loaded.sources = ToSet(d.listed) BY <1>7
<1>9. loaded.extraction = Aggregate(<<d>>) BY <1>1, <1>5, Zenon
<1>10. loaded.extraction = d.extraction BY <1>4, <1>9
<1> QED BY <1>1, <1>3, <1>8, <1>10 DEF loaded

LEMMA Rechecked ==
    ASSUME Typed, fresh.kind = "fresh" => Established(fresh), Rechecks, root = before[1],
           Known, layout = Loaded(catalog, ceiling), layout.error = "none"
    PROVE  /\ ~IsEmpty(layout) /\ layout.extraction.kind = command.extractor
           /\ command.extractor \in {"syntax", "compiler"}
           /\ command.extractor = "compiler" => Len(layout.extraction.crates) = 1
           /\ layout.sources \subseteq DOMAIN tree
<1>1. Established(fresh) BY DEF Rechecks
<1> DEFINE direct == DirectFiles(before[1].files)
           f == direct[1]
           d == f.documents[1]
<1>2. /\ direct = <<f>> /\ f \in ContractFile /\ f.documents = <<d>> /\ d \in Document
      /\ d.extraction.kind = command.extractor /\ command.extractor \in {"syntax", "compiler"}
      /\ d.extraction.kind = "compiler" => Len(d.extraction.crates) = 1
  BY <1>1, Zenon DEF Rechecks, Established
<1>3. catalog \in Seq(ContractFile) /\ ceiling \in Amounts /\ catalog = before[1].files
  BY DEF Typed, CommandTypeOK, Known, Amounts
<1>4. DirectFiles(catalog) = direct BY <1>3, Zenon
<1> HIDE DEF direct, f, d
<1>5. PICK g \in ContractFile : g = f BY <1>2
<1>6. PICK e \in Document : e = d BY <1>2
<1>7. /\ DirectFiles(catalog) = <<g>> /\ g.documents = <<e>>
      /\ (e.extraction.kind = "compiler" => Len(e.extraction.crates) = 1)
  BY <1>2, <1>4, <1>5, <1>6, Zenon
<1>8. Loaded(catalog, ceiling).error = "none" BY Zenon
<1>9. PICK c \in Seq(ContractFile) : c = catalog BY <1>3
<1>9a. PICK a \in Amounts : a = ceiling BY <1>3
<1>10. Loaded(c, a).error = "none" /\ DirectFiles(c) = <<g>> BY <1>7, <1>8, <1>9, <1>9a, Zenon
<1>11. /\ Loaded(c, a).files = <<g>> /\ Loaded(c, a).sources = ToSet(e.listed)
       /\ Loaded(c, a).extraction = e.extraction
  BY <1>7, <1>10, OneDocumentLoaded
<1>12. layout = Loaded(c, a) BY <1>9, <1>9a, Zenon
<1>13. layout.files = <<g>> /\ layout.sources = ToSet(e.listed) /\ layout.extraction = e.extraction
  BY <1>11, <1>12, Zenon
<1>14. ToSet(e.listed) \subseteq DOMAIN tree
  <2>1. DocumentsOf(<<g>>) = <<e>> /\ ToSet(<<e>>) = {e} BY <1>7, OneDocument
  <2>2. DirectFiles(root.files) = <<g>> BY <1>3, <1>7, Zenon
  <2>3. ToSet(DocumentsOf(DirectFiles(root.files))) = {e} BY <2>1, <2>2, Zenon
  <2> QED BY <2>3 DEF Rechecks, SourcesStand
<1> QED BY <1>2, <1>6, <1>13, <1>14 DEF IsEmpty

-----------------------------------------------------------------------------
(* What the kits are told *)

ToldTruth(a) ==
    LET listed == UNION {ToSet(d.listed) : d \in ToSet(DocumentsAsked(a))} IN
    /\ command.verb = "diff" => a.documents = <<before[1].files, before[2].files>>
    /\ command.verb # "diff" =>
          /\ a.documents = DirectFiles(before[1].files) \/ Establishing
          /\ a.sources = listed /\ listed \subseteq DOMAIN tree
          /\ \/ command.verb = "check" /\ a.kit = "sketch"
             \/ \A d \in ToSet(DocumentsAsked(a)) : Agrees(d.extraction, a.input)
Question(kit) == [kit |-> kit, documents |-> Handed, sources |-> sources, input |-> input]

\* A crate among one.
LEMMA OneCrate ==
    ASSUME NEW E, NEW s \in Seq(E), NEW t \in Seq(E), Len(t) = 1, IsInjective(s), s # <<>>,
           ToSet(s) \subseteq ToSet(t)
    PROVE  s = t
<1>1. DOMAIN t = {1} /\ ToSet(t) = {t[1]} BY DEF ToSet
<1>2. Len(s) \in Nat /\ Len(s) # 0 /\ DOMAIN s = 1..Len(s) OBVIOUS
<1>3. \A i \in 1..Len(s) : s[i] = t[1] BY <1>1, <1>2 DEF ToSet
<1>4. ~(Len(s) > 1)
  <2> SUFFICES ASSUME Len(s) > 1 PROVE FALSE OBVIOUS
  <2>1. 1 \in 1..Len(s) /\ 2 \in 1..Len(s) BY <1>2
  <2>2. s[1] = s[2] BY <1>3, <2>1
  <2> QED BY <1>2, <2>1, <2>2 DEF IsInjective
<1>5. Len(s) = 1 BY <1>2, <1>4
<1>6. s[1] = t[1] BY <1>3, <1>5
<1> QED BY <1>5, <1>6

LEMMA AllTold == KitsAreToldTheTruth <=> \A a \in asked : ToldTruth(a)
BY Zenon DEF KitsAreToldTheTruth, ToldTruth

\* Every document agrees with the extraction that is handed on.
LEMMA LayoutAgrees ==
    ASSUME Typed, Prepared, ~Establishing, ~(command.verb = "check" /\ SketchesOnly)
    PROVE  \A d \in ToSet(DocumentsOf(layout.files)) : Agrees(d.extraction, input)
<1> DEFINE x == layout.extraction
           documents == DocumentsOf(DirectFiles(catalog))
<1>1. layout.error = "none" /\ Extracts /\ ~IsEmpty(layout) /\ x # Conflict
  BY DEF Prepared, Gathered, Laid, Unusable, Establishing, Extracts
<1>2. x \in Agreement /\ layout.files \in Seq(ContractFile) BY LayoutTyped
<1>3. LoadIsExact(catalog, ceiling, layout) BY <1>1, LayoutTyped DEF IsEmpty
<1> HIDE DEF x
<1>4. x.kind # "conflict" BY <1>1, <1>2, Kinds DEF Agreement, Conflict
<1>5. layout.files = DirectFiles(catalog)
  BY <1>1, <1>3, Zenon DEF LoadIsExact
<1>6. (\A f \in ToSet(DirectFiles(catalog)) : Alone(f))
  BY <1>1, <1>3, Zenon DEF LoadIsExact, Alone
<1>7. /\ x.kind = "none" <=> Declared(documents) = {}
      /\ x.kind \in {"syntax", "compiler"} =>
            /\ ToSet(x.crates) = CratesOf(Declared(documents))
            /\ Len(x.crates) = Cardinality(CratesOf(Declared(documents)))
            /\ \A e \in Declared(documents) : e.kind = x.kind
            /\ \A e \in Compilers(Declared(documents)) : e.context = x.context
  BY <1>1, <1>3, Zenon DEF LoadIsExact, Declared, CratesOf, Compilers, x
<1>8. DirectFiles(catalog) \in Seq(ContractFile)
  BY <1>2, <1>5
<1>9. documents \in Seq(Document) /\ ToSet(documents) = UNION {ToSet(f.documents) : f \in ToSet(DirectFiles(catalog))}
  BY <1>8, DocumentsAppended, AllDocuments
<1> HIDE DEF documents
<1>10. ASSUME NEW d \in ToSet(documents) PROVE d \in Document /\ HeaderIsSound(d)
  BY <1>6, <1>9, Members DEF Alone
<1>11. ASSUME NEW d \in ToSet(documents) PROVE Agrees(d.extraction, input)
  <2> DEFINE e == d.extraction
  <2>1. e \in Extraction /\ (e.kind # "none" => IsInjective(e.crates)) BY <1>10, <1>11, SoundCratesDistinct
  <2>2. e.kind # "none" => e.crates # <<>>
    BY <1>10, <1>11 DEF HeaderIsSound, ExtractionIsSound, CratesAreSound
  <2>3. e # NoExtraction => e \in Declared(documents) BY <1>11 DEF Declared
  <2>4. /\ e.kind \in {"none", "syntax", "compiler"} /\ (e.kind = "none" <=> e = NoExtraction)
        /\ e.kind # "none" => e.crates \in Seq(CrateRoot)
    BY <2>1, Kinds DEF Agreement
  <2> HIDE DEF e
  <2>5. CASE e.kind = "none" BY <2>5 DEF Agrees, e
  <2>6. CASE e.kind # "none"
    <3>1. e \in Declared(documents) /\ e.kind = x.kind
      <4>1. x.kind # "none" BY <1>7, <2>3, <2>4, <2>6
      <4>2. x.kind \in {"syntax", "compiler"} BY <1>2, <1>4, <4>1, Kinds
      <4> QED BY <1>7, <2>3, <2>4, <2>6, <4>2
    <3>2. CASE e.kind = "syntax"
      <4>1. input.kind = "syntax"
        BY <1>1, <3>1, <3>2 DEF Prepared, Extracted, Gathered, Laid, Unusable, Extracts, x, SyntaxInput
      <4> QED BY <3>2, <4>1 DEF Agrees, e
    <3>3. CASE e.kind = "compiler"
      <4>1. ~SketchesOnly BY <1>1, <3>1, <3>3 DEF Prepared, Gathered, Laid, Unusable, Extracts, x
      <4>2. /\ input.kind = "compiler" /\ x.context = input.artifact.context /\ x.crates = input.artifact.crates
            /\ input.artifact \in Artifacts
        BY <3>1, <3>3, <4>1 DEF Prepared, Extracted, x
      <4>3. Len(x.crates) = 1 /\ x.crates \in Seq(CrateRoot)
        BY <4>2, ArtifactsAssumption
      <4>4. e.context = x.context /\ ToSet(e.crates) \subseteq ToSet(x.crates)
        BY <1>7, <3>1, <3>3 DEF Compilers, CratesOf
      <4>5. e.crates = x.crates BY <2>1, <2>2, <2>4, <2>6, <4>3, <4>4, OneCrate
      <4> QED BY <3>3, <4>2, <4>4, <4>5 DEF Agrees, e
    <3> QED BY <2>4, <2>6, <3>2, <3>3
  <2> QED BY <2>5, <2>6
<1>12. DocumentsOf(layout.files) = documents BY <1>5, Zenon DEF documents
<1> QED BY <1>11, <1>12

\* What generate establishes.
LEMMA FreshTyped ==
    ASSUME Typed, Prepared, Establishing
    PROVE  /\ FreshFile \in ContractFile /\ FreshFile.direct /\ FreshFile.documents = <<FreshDocument>>
           /\ FreshDocument \in Document /\ ToSet(FreshDocument.listed) = sources
           /\ FreshDocument.extraction.kind = input.kind
           /\ Agrees(FreshDocument.extraction, input)
           /\ input.kind = "compiler" => Len(FreshDocument.extraction.crates) = 1
<1> DEFINE compiled == [kind |-> "compiler", crates |-> crates, context |-> input.artifact.context]
           parsed == [kind |-> "syntax", crates |-> crates]
           x == FreshDocument.extraction
<1>1. crates \in Seq(CrateRoot) /\ sources \subseteq SourcePath /\ IsFiniteSet(sources)
  <2>1. DOMAIN tree \subseteq SourcePath BY DEF Typed, CommandTypeOK, IsTree
  <2> QED BY <2>1 DEF Typed, CommandTypeOK, Prepared, Gathered
<1>2. SetToSeq(sources) \in Seq(SourcePath) /\ ToSet(SetToSeq(sources)) = sources
  BY <1>1, Ordered
<1>3. /\ input.kind \in {"syntax", "compiler"}
      /\ input.kind = "compiler" => /\ crates = input.artifact.crates /\ Len(crates) = 1
                                    /\ input.artifact.context \in CompilerContext
  BY ArtifactsAssumption DEF Prepared, Extracted
<1>4. x = IF input.kind = "compiler" THEN compiled ELSE parsed BY DEF FreshDocument
<1>5. x \in Extraction
  <2>1. CASE input.kind = "compiler"
    <3>1. compiled \in [kind : {"compiler"}, crates : Seq(CrateRoot), context : CompilerContext] BY <1>1, <1>3, <2>1
    <3> QED BY <1>4, <2>1, <3>1 DEF Extraction
  <2>2. CASE input.kind # "compiler"
    <3>1. parsed \in [kind : {"syntax"}, crates : Seq(CrateRoot)] BY <1>1
    <3> QED BY <1>4, <2>2, <3>1 DEF Extraction
  <2> QED BY <2>1, <2>2
<1>6. Agrees(x, input) BY <1>3, <1>4 DEF Agrees
<1>7. x.kind = input.kind /\ (input.kind = "compiler" => Len(x.crates) = 1) BY <1>3, <1>4
<1>8. FreshDocument.listed = SetToSeq(sources) BY DEF FreshDocument
<1>9. FreshDocument \in Document
  <2>1. FreshDocument =
          [null |-> FALSE, decodes |-> TRUE, version |-> 2, root |-> "relative", binds |-> TRUE, complete |-> TRUE,
           listed |-> SetToSeq(sources), signatures |-> 1, extraction |-> x]
    BY <1>4, Zenon DEF FreshDocument
  <2> HIDE DEF x
  <2> QED BY <1>2, <1>5, <2>1 DEF Document
<1>10. FreshFile \in ContractFile
  <2>1. PICK d \in Document : d = FreshDocument BY <1>9
  <2>2. <<d>> \in Seq(Document) OBVIOUS
  <2>3. [r \in Resources |-> IF r = "aliases" THEN 0 ELSE 1] \in [Resources -> Nat]
        /\ [r \in Replayed |-> 0] \in [Replayed -> Nat]
    OBVIOUS
  <2>4. FreshFile =
          [path |-> FreshName, direct |-> TRUE, size |-> 1, utf8 |-> TRUE, sound |-> TRUE,
           raw |-> [r \in Resources |-> IF r = "aliases" THEN 0 ELSE 1], replay |-> [r \in Replayed |-> 0],
           documents |-> <<d>>]
    BY <2>1, Zenon DEF FreshFile
  <2> QED BY <2>2, <2>3, <2>4 DEF ContractFile
<1>11. FreshFile.direct /\ FreshFile.documents = <<FreshDocument>> BY DEF FreshFile
<1> QED BY <1>2, <1>6, <1>7, <1>8, <1>9, <1>10, <1>11

\* What is asked of a kit is true.
LEMMA AskedTruth ==
    ASSUME Typed, Prepared \/ Decoded, command.verb # "diff" \/ disk = before,
           NEW kit, command.verb = "check" /\ SketchesOnly => kit = "sketch"
    PROVE  ToldTruth(Question(kit))
<1> DEFINE a == Question(kit)
           asked_ == DocumentsAsked(a)
           listed == UNION {ToSet(d.listed) : d \in ToSet(asked_)}
<1>0. a.kit = kit /\ a.documents = Handed /\ a.sources = sources /\ a.input = input BY DEF Question
<1>1. CASE Decoded
  <2>1. command.verb = "diff" /\ catalog = before[1].files /\ previous = stored.files BY <1>1 DEF Decoded, Known
  <2>2. stored = before[2] BY <2>1 DEF disk
  <2>3. a.documents = <<catalog, previous>> BY <1>0, <2>1 DEF Handed
  <2> QED BY <2>1, <2>2, <2>3 DEF ToldTruth
<1>2. CASE Prepared /\ Establishing
  <2>1. command.verb # "diff" BY <1>2 DEF Prepared, Gathered, Extracts
  <2>2. a.documents = <<FreshFile>> BY <1>0, <1>2, <2>1 DEF Handed
  <2>3. asked_ = DocumentsOf(<<FreshFile>>) BY <2>1, <2>2, Zenon DEF DocumentsAsked
  <2>4. /\ FreshFile \in ContractFile /\ FreshFile.documents = <<FreshDocument>>
        /\ FreshDocument \in Document /\ ToSet(FreshDocument.listed) = sources
        /\ Agrees(FreshDocument.extraction, input)
    BY <1>2, FreshTyped
  <2>5. PICK f \in ContractFile : f = FreshFile BY <2>4
  <2>6. PICK d \in Document : d = FreshDocument BY <2>4
  <2>7. f.documents = <<d>> BY <2>4, <2>5, <2>6, Zenon
  <2>8. DocumentsOf(<<f>>) = <<d>> /\ ToSet(<<d>>) = {d} BY <2>7, OneDocument
  <2>9. ToSet(asked_) = {d} BY <2>3, <2>5, <2>8, Zenon
  <2>10. ToSet(d.listed) = sources /\ Agrees(d.extraction, input) BY <2>4, <2>6, Zenon
  <2>11. UNION {ToSet(e.listed) : e \in {d}} = ToSet(d.listed) OBVIOUS
  <2>12. listed = sources BY <2>9, <2>10, <2>11, Zenon
  <2>13. \A e \in ToSet(asked_) : Agrees(e.extraction, a.input) BY <1>0, <2>9, <2>10
  <2>14. listed \subseteq DOMAIN tree BY <1>2, <2>12 DEF Prepared, Gathered
  <2> QED BY <1>0, <1>2, <2>1, <2>12, <2>13, <2>14, Zenon DEF ToldTruth
<1>3. CASE Prepared /\ ~Establishing
  <2>1. command.verb # "diff" /\ Extracts BY <1>3 DEF Prepared, Gathered, Extracts
  <2>2. layout.error = "none" /\ ~IsEmpty(layout) /\ catalog = before[1].files /\ sources \subseteq DOMAIN tree
        /\ sources = layout.sources
    BY <1>3 DEF Prepared, Gathered, Laid, Known, Unusable, Establishing, Extracts
  <2>3. LoadIsExact(catalog, ceiling, layout) BY <2>2, LayoutTyped DEF IsEmpty
  <2>4. layout.files = DirectFiles(catalog) /\ layout.sources =
          UNION {ToSet(d.listed) : d \in ToSet(DocumentsOf(DirectFiles(catalog)))}
    BY <2>2, <2>3, Zenon DEF LoadIsExact
  <2>5. a.documents = layout.files BY <1>0, <1>3, <2>1 DEF Handed
  <2>6. asked_ = DocumentsOf(layout.files) BY <2>1, <2>5, Zenon DEF DocumentsAsked
  <2>7. listed = layout.sources BY <2>4, <2>6, Zenon
  <2>8. a.documents = DirectFiles(before[1].files) BY <2>2, <2>4, <2>5, Zenon
  <2>9. \/ command.verb = "check" /\ a.kit = "sketch"
        \/ \A d \in ToSet(asked_) : Agrees(d.extraction, a.input)
    <3>1. CASE command.verb = "check" /\ SketchesOnly BY <1>0, <3>1
    <3>2. CASE ~(command.verb = "check" /\ SketchesOnly)
      <4>1. \A d \in ToSet(DocumentsOf(layout.files)) : Agrees(d.extraction, input) BY <1>3, <3>2, LayoutAgrees
      <4> QED BY <1>0, <2>6, <4>1, Zenon
    <3> QED BY <3>1, <3>2
  <2> QED BY <1>0, <2>1, <2>2, <2>7, <2>8, <2>9, Zenon DEF ToldTruth
<1> QED BY <1>1, <1>2, <1>3

-----------------------------------------------------------------------------
(* What a step leaves as it is *)

Still == UNCHANGED <<root, stored, tree, limits, ceiling, queue, command, before, fresh>>

LEMMA RunsStill ==
    ASSUME NEW at, UNCHANGED disk, Runs(at) \/ UNCHANGED world
    PROVE  Still
BY DEF Runs, disk, world, Still

LEMMA TypedOn ==
    ASSUME Typed, Still, ledger' \in Ledger, catalog' \in Seq(ContractFile), previous' \in Seq(ContractFile),
           layout' \in {Loaded(<<>>, ceiling), Loaded(catalog', ceiling)},
           sources' \subseteq DOMAIN tree \cup layout'.sources, IsFiniteSet(sources'), crates' \in Seq(CrateRoot)
    PROVE  Typed'
<1>1. ledger'.entries \in Nat /\ ledger'.total \in Nat BY DEF Ledger
<1>2. CommandTypeOK' BY <1>1, Zenon DEF Typed, CommandTypeOK, Still
<1>3. ceiling' = ceiling BY DEF Still
<1> QED BY <1>2, <1>3, Zenon DEF Typed

\* Nothing has been asked, or nothing of what was asked about has changed.
LEMMA NothingAsked == ASSUME asked = {} PROVE KitsAreToldTheTruth
BY DEF KitsAreToldTheTruth

LEMMA KitsKept ==
    ASSUME KitsAreToldTheTruth, UNCHANGED <<asked, command, before, layout, tree>> PROVE KitsAreToldTheTruth'
BY DEF KitsAreToldTheTruth, Establishing, DocumentsAsked, IsEmpty

LEMMA PackedKept ==
    ASSUME UNCHANGED <<stored, ceiling, fresh>>, stored.kind = "archive" => WellPacked(stored),
           fresh.kind = "fresh" => Established(fresh)
    PROVE  /\ (stored.kind = "archive" => WellPacked(stored))'
           /\ (fresh.kind = "fresh" => Established(fresh))'
<1>1. (stored.kind = "archive" => WellPacked(stored))'
  BY DEF WellPacked, FitsWire
<1>2. (fresh.kind = "fresh" => Established(fresh))'
  BY Zenon
<1> QED BY <1>1, <1>2

\* A step that reads on, or gives up.
LEMMA SettledOn ==
    ASSUME Settled, Still, Typed', KitsAreToldTheTruth', LedgerIsExact', LaterCommandsAgree'
    PROVE  Settled'
<1>1. UNCHANGED <<stored, ceiling, fresh>> BY DEF Still
<1>2. /\ (stored.kind = "archive" => WellPacked(stored))'
      /\ (fresh.kind = "fresh" => Established(fresh))'
  BY <1>1, PackedKept DEF Settled
<1> QED BY <1>2 DEF Settled

\* What has been read stays read.
LEMMA ListsKept ==
    ASSUME UNCHANGED <<before, command, tree>>
    PROVE  /\ ManifestRead' = ManifestRead /\ ContractsRead' = ContractsRead
           /\ \A paths : SourceSizes(paths)' = SourceSizes(paths)
           /\ UNCHANGED sources => SourcesRead' = SourcesRead
           /\ UNCHANGED <<sources, input>> => AllRead' = AllRead
           /\ UNCHANGED <<sources, input, layout, stored>> => ReadingList' = ReadingList
<1>1. ManifestRead' = ManifestRead BY DEF ManifestRead
<1>2. ContractsRead' = ContractsRead BY <1>1 DEF ContractsRead
<1>3. \A paths : SourceSizes(paths)' = SourceSizes(paths) BY DEF SourceSizes
<1>4. UNCHANGED sources => SourcesRead' = SourcesRead BY <1>2 DEF SourcesRead, SourceSizes
<1>5. UNCHANGED <<sources, input>> => AllRead' = AllRead
  BY <1>4 DEF AllRead, ExtractionRead, SourceSizes
<1>6. UNCHANGED <<sources, input, layout, stored>> => ReadingList' = ReadingList
  BY DEF ReadingList, SourceSizes, Outputs, Establishing, IsEmpty
<1> QED BY <1>1, <1>2, <1>3, <1>4, <1>5, <1>6

LEMMA PaidKept ==
    ASSUME UNCHANGED <<ledger, limits>>, NEW list, PaidSoFar(list)
    PROVE  PaidSoFar(list)'
BY DEF PaidSoFar, PaidFor, Affordable

\* A command that is under way has done and said what it had to so far.
UnderWay == Settled /\ Course /\ Roles /\ DiskIsTouchedLast

LEMMA SpentNow ==
    ASSUME UNCHANGED limits, NEW list, PaidFor(ledger', list), phase' # "print", result' \notin {"passed", "failed"},
           result' = "limit" => ledger'.stopped = "limit"
    PROVE  Spent(list)' /\ (ledger'.stopped = "none" => PaidSoFar(list)')
BY DEF Spent, PaidFor, Affordable, PaidSoFar

\* What a stopped ledger is said to be.
LEMMA SpendIs ==
    ASSUME result = "none", NEW sizes, NEW next, Spend(sizes, next), ledger' \in Ledger
    PROVE  \/ ledger'.stopped = "none" /\ phase' = next /\ result' = "none"
           \/ ledger'.stopped = "limit" /\ phase' = "over" /\ result' = "limit"
           \/ ledger'.stopped = "sources" /\ phase' = "over" /\ result' = "sources"
<1>1. ledger'.stopped \in {"none", "limit", "sources"} BY DEF Ledger
<1>2. IF ledger'.stopped = "none" THEN phase' = next /\ result' = result
      ELSE phase' = "over" /\ result' = Refusal(ledger')
  BY DEF Spend, Pass, Move, Stop
<1> QED BY <1>1, <1>2 DEF Refusal

\* A step that says nothing yet, or nothing that the others rely on.
Quietly == phase # "print" /\ result \notin ({"passed", "failed", "limit", "archive", "layout"} \cup Refusals)
LEMMA NothingSaid == ASSUME Quietly PROVE LedgerIsExact /\ LaterCommandsAgree
BY LedgerQuiet, LaterQuiet DEF Quietly

LEMMA SettledQuietly ==
    ASSUME Settled, Still, Typed', KitsAreToldTheTruth', Quietly'
    PROVE  Settled'
<1>1. LedgerIsExact' /\ LaterCommandsAgree' BY NothingSaid, PTL
<1> QED BY <1>1, SettledOn

\* The contracts and the sources stay.
LEMMA TypedStays ==
    ASSUME Typed, Still, UNCHANGED <<ledger, catalog, previous, layout, sources, crates>>
    PROVE  Typed'
BY TypedOn DEF Typed, CommandTypeOK

\* Before anything has been asked, and after that.
LEMMA NotAsked == ASSUME asked' = {} PROVE KitsAreToldTheTruth'
<1>1. (asked = {})' OBVIOUS
<1> QED BY <1>1, NothingAsked, PTL

LEMMA AskedStay == ASSUME Settled, Still, UNCHANGED <<asked, layout>> PROVE KitsAreToldTheTruth'
BY KitsKept DEF Settled, Still

LEMMA Over == ASSUME phase = "over" PROVE Course
BY DEF Course, Phases

\* Of those that look at the layout, a check of what has been established has to go on.
LEMMA LaterCheck ==
    ASSUME command.verb # "diff", Rechecks => result \notin Refusals
    PROVE  LaterCommandsAgree
BY DEF LaterCommandsAgree, Rechecks

LEMMA ReadContractsStep == ASSUME UnderWay, ReadContracts PROVE Settled' /\ Course'
<1>1. /\ phase = "contracts" /\ UNCHANGED <<disk, world, previous, layout, extracted, produced, answers>>
  BY DEF ReadContracts, Runs
<1>2. Still BY <1>1, RunsStill
<1>3. /\ UNCHANGED <<root, stored, tree, limits, ceiling, command, before, fresh, asked, previous, layout,
                     sources, input, crates>>
      /\ asked = {} /\ Nothing /\ PaidSoFar(<<>>) /\ layout = Loaded(<<>>, ceiling)
      /\ IsCommand(command) /\ command.verb # "edit" /\ result = "none"
  BY <1>1, <1>2 DEF Still, answers, extracted, UnderWay, Course, Roles
<1>4. root = before[1] BY <1>1 DEF UnderWay, DiskIsTouchedLast, disk
<1>5. Typed /\ CommandTypeOK BY DEF UnderWay, Settled, Typed
<1>6. limits \in Budget /\ root.files \in Seq(ContractFile) BY <1>5 DEF CommandTypeOK, ContractsRoot, Budget
<1>7. KitsAreToldTheTruth' BY <1>3, NotAsked
<1>8. ASSUME ledger' \in Ledger, catalog' \in Seq(ContractFile) PROVE Typed'
  <2>1. /\ previous' \in Seq(ContractFile) /\ sources' \subseteq DOMAIN tree \cup layout'.sources
        /\ IsFiniteSet(sources') /\ crates' \in Seq(CrateRoot)
    BY <1>3, <1>5 DEF CommandTypeOK
  <2> QED BY <1>2, <1>3, <1>5, <1>8, <2>1, TypedOn
<1>9. CASE ~root.present /\ command.verb # "generate"
  <2>1. phase' = "over" /\ result' = "io" /\ ledger' = ledger /\ catalog' = catalog
    BY <1>9 DEF ReadContracts, Stop
  <2>2. Typed' BY <1>5, <1>8, <2>1 DEF Typed, CommandTypeOK
  <2>3. Quietly' BY <2>1 DEF Quietly, Refusals
  <2>4. (phase = "over")' BY <2>1
  <2>5. Course' BY <2>4, Over, PTL
  <2> QED BY <1>2, <1>7, <2>2, <2>3, <2>5, SettledQuietly DEF UnderWay
<1>10. CASE ~(~root.present /\ command.verb # "generate")
  <2> DEFINE list == (IF command.verb = "generate" THEN ManifestSizes ELSE <<>>) \o SizesOf(root.files)
             next == IF command.verb \in {"check", "generate"} THEN "layout" ELSE "validate"
  <2>1. catalog' = root.files /\ Spend(list, next) BY <1>10 DEF ReadContracts
  <2>2. list = ContractsRead BY <1>4 DEF ContractsRead, ManifestRead, ManifestSizes
  <2>3. ledger' = ChargeAll(ledger, ContractsRead) BY <2>1, <2>2 DEF Spend
  <2> HIDE DEF list, next
  <2>4. PaidFor(ledger', ContractsRead)
    <3>1. PICK z \in Seq(Size) : z = <<>> BY NoneSized
    <3>2. ContractsRead \in Seq(Size) BY <1>5, Lists
    <3>3. PaidFor(ledger, z) BY <1>3, <3>1 DEF PaidSoFar
    <3>4. PaidFor(ChargeAll(ledger, ContractsRead), z \o ContractsRead) BY <1>6, <3>2, <3>3, ChargedExactly
    <3>5. z \o ContractsRead = ContractsRead BY <3>1, <3>2
    <3> QED BY <2>3, <3>4, <3>5
  <2>5. ledger' \in Ledger /\ ledger'.stopped # "sources"
    BY <1>5, <2>4, Lists DEF PaidFor
  <2>6. \/ ledger'.stopped = "none" /\ phase' = next /\ result' = "none"
        \/ ledger'.stopped = "limit" /\ phase' = "over" /\ result' = "limit"
    BY <1>3, <2>1, <2>5, SpendIs
  <2>7. next \in {"layout", "validate"} BY DEF next
  <2>8. ContractsRead' = ContractsRead BY <1>3, ListsKept
  <2>9. Spent(ContractsRead)' /\ (ledger'.stopped = "none" => PaidSoFar(ContractsRead)')
    BY <1>3, <2>4, <2>6, <2>7, <2>8, SpentNow
  <2>10. Typed' BY <1>6, <1>8, <2>1, <2>5
  <2>11. LedgerIsExact' BY <2>9, <2>10, LedgerSpent, PTL
  <2>12. LaterCommandsAgree'
    <3>1. (result \notin Refusals /\ result \notin {"archive", "layout"})' BY <2>6 DEF Refusals
    <3> QED BY <3>1, LaterQuiet, PTL
  <2>13. Course'
    <3>1. CASE phase' = "over" BY <3>1 DEF Course, Phases
    <3>2. CASE phase' = next
      <4>1. /\ IsCommand(command)' /\ command'.verb # "edit" /\ asked' = {} /\ Nothing' /\ Known'
            /\ Extracts' = Extracts
        BY <1>3, <1>4, <2>1 DEF Nothing, Known, Extracts
      <4>2. PaidSoFar(ContractsRead)' BY <2>6, <2>7, <2>9, <3>2
      <4>3. next = IF Extracts THEN "layout" ELSE "validate" BY DEF next, Extracts
      <4>4. ~Extracts => command'.verb \in {"archive", "diff"} BY <1>3 DEF IsCommand, Extracts
      <4> QED BY <2>7, <3>2, <4>1, <4>2, <4>3, <4>4 DEF Course, Phases
    <3> QED BY <2>6, <3>1, <3>2
  <2> QED BY <1>2, <1>7, <2>10, <2>11, <2>12, <2>13, SettledOn DEF UnderWay
<1> QED BY <1>9, <1>10

LEMMA RecheckUsable ==
    ASSUME Typed, fresh.kind = "fresh" => Established(fresh), Rechecks, root = before[1],
           Known, layout = Loaded(catalog, ceiling)
    PROVE  Unusable(layout) \in {"none", "layout"}
<1>1. CASE layout.error # "none" BY <1>1 DEF Unusable
<1>2. CASE layout.error = "none"
  <2>1. /\ ~IsEmpty(layout) /\ layout.extraction.kind = command.extractor
        /\ command.extractor \in {"syntax", "compiler"}
    BY <1>2, Rechecked
  <2>2. layout.extraction # Conflict BY <2>1 DEF Conflict
  <2> QED BY <1>2, <2>1, <2>2 DEF Unusable, Rechecks
<1> QED BY <1>1, <1>2

\* A check that was refused its layout was not of what had been established.
LEMMA LoadedRight ==
    ASSUME Typed, fresh.kind = "fresh" => Established(fresh), root = before[1],
           Known, layout = Loaded(catalog, ceiling), command.verb # "diff",
           \/ result = Unusable(layout) /\ result # "none"
           \/ result = "none"
           \/ result = "refused" /\ command.verb = "generate"
    PROVE  LaterCommandsAgree
<1>1. ASSUME Rechecks PROVE result \notin Refusals
  <2>1. Unusable(layout) \in {"none", "layout"} BY <1>1, RecheckUsable
  <2> QED BY <1>1, <2>1 DEF Refusals, Rechecks
<1> QED BY <1>1, LaterCheck

LEMMA LoadLayoutStep == ASSUME UnderWay, LoadLayout PROVE Settled' /\ Course'
<1>1. /\ phase = "layout" /\ UNCHANGED <<disk, world, ledger, catalog, previous, extracted, produced, answers>>
      /\ layout' = Loaded(catalog, ceiling)
  BY DEF LoadLayout, Runs
<1>2. Still BY <1>1, RunsStill
<1>3. /\ UNCHANGED <<root, stored, tree, limits, ceiling, command, before, fresh, asked, previous, catalog, sources,
                     input, crates, ledger>>
      /\ asked = {} /\ Nothing /\ PaidSoFar(ContractsRead) /\ Known /\ Extracts
      /\ IsCommand(command) /\ command.verb # "edit" /\ result = "none"
  BY <1>1, <1>2 DEF Still, answers, extracted, UnderWay, Course, Roles
<1>4. root = before[1] BY <1>1 DEF UnderWay, DiskIsTouchedLast, disk
<1>5. Typed /\ CommandTypeOK /\ (fresh.kind = "fresh" => Established(fresh)) BY DEF UnderWay, Settled, Typed
<1>6. KitsAreToldTheTruth' BY <1>3, NotAsked
<1>7. Typed'
  <2>1. sources' = {} /\ IsFiniteSet(sources') BY <1>3, FS_EmptySet DEF Nothing
  <2> QED BY <1>1, <1>2, <1>3, <1>5, <2>1, TypedOn DEF Typed, CommandTypeOK
<1> DEFINE error == Unusable(layout')
           allowed == command.verb = "generate" /\ ~SketchesOnly => RootsAllowed(Call')
<1>8. IF error # "none" THEN Stop(error) ELSE Pass(allowed, "sources", "refused") BY DEF LoadLayout
<1>9. ~allowed => command.verb = "generate" OBVIOUS
<1>10. Unusable(layout)' = error BY <1>3 DEF Unusable, SketchesOnly
<1> HIDE DEF allowed, error
<1>11. \/ phase' = "over" /\ result' = error /\ error # "none"
       \/ phase' = "over" /\ result' = "refused" /\ command.verb = "generate"
       \/ phase' = "sources" /\ result' = "none" /\ error = "none"
  BY <1>3, <1>8, <1>9 DEF Stop, Pass, Move
<1>12. error \in {"layout", "empty", "conflict", "refused", "none"} BY DEF error, Unusable
<1>13. LedgerIsExact'
  <2>1. (phase # "print" /\ result \notin {"passed", "failed", "limit"})' BY <1>11, <1>12
  <2> QED BY <2>1, LedgerQuiet, PTL
<1>14. LaterCommandsAgree'
  <2>1. /\ (fresh.kind = "fresh" => Established(fresh))' /\ (root = before[1])' /\ Known'
        /\ (layout = Loaded(catalog, ceiling))' /\ (command.verb # "diff")'
    BY <1>1, <1>3, <1>4, <1>5, Zenon DEF Known, Extracts
  <2>2. (\/ result = Unusable(layout) /\ result # "none"
         \/ result = "none"
         \/ result = "refused" /\ command.verb = "generate")'
    BY <1>3, <1>10, <1>11
  <2> QED BY <1>7, <2>1, <2>2, LoadedRight, PTL
<1>15. Course'
  <2>1. CASE phase' = "over"
    <3>1. (phase = "over")' BY <2>1
    <3> QED BY <3>1, Over, PTL
  <2>2. CASE phase' = "sources" /\ error = "none"
    <3>1. Laid' BY <1>1, <1>3, <1>10, <2>2 DEF Laid, Known
    <3>2. /\ IsCommand(command)' /\ command'.verb # "edit" /\ asked' = {} /\ Nothing' /\ Extracts'
      BY <1>3 DEF Nothing, Extracts
    <3>3. PaidSoFar(ContractsRead)'
      <4>1. ContractsRead' = ContractsRead BY <1>3, ListsKept
      <4> QED BY <1>3, <4>1, PaidKept
    <3> QED BY <2>2, <3>1, <3>2, <3>3 DEF Course, Phases
  <2> QED BY <1>11, <2>1, <2>2
<1> QED BY <1>2, <1>6, <1>7, <1>13, <1>14, <1>15, SettledOn DEF UnderWay

\* Nothing is extracted without a compiler.
LEMMA NoExtractionRead ==
    ASSUME Typed, input.kind # "compiler" PROVE AllRead = SourcesRead
<1>1. SourcesRead \in Seq(Size) BY Lists
<1>2. SourcesRead \o <<>> = SourcesRead BY <1>1
<1> QED BY <1>2 DEF AllRead, ExtractionRead

LEMMA ReadSourcesStep == ASSUME UnderWay, ReadSources PROVE Settled' /\ Course'
<1>1. /\ phase = "sources" /\ UNCHANGED <<disk, world, contracts, crates, produced, verdicts, asked>>
      /\ sources' = IF IsEmpty(layout) THEN {p \in DOMAIN tree : p.rust} ELSE layout.sources
      /\ input' = IF SketchesOnly THEN SyntaxInput ELSE input
      /\ Spend(SourceSizes(sources'), IF SketchesOnly THEN "ask" ELSE "extraction")
  BY DEF ReadSources, Runs
<1>2. Still BY <1>1, RunsStill
<1>3. /\ UNCHANGED <<root, stored, tree, limits, ceiling, command, before, fresh, asked, previous, catalog,
                     layout, crates>>
      /\ asked = {} /\ Nothing /\ PaidSoFar(ContractsRead) /\ Laid /\ Extracts
      /\ IsCommand(command) /\ command.verb # "edit" /\ result = "none"
  BY <1>1, <1>2 DEF Still, contracts, UnderWay, Course, Roles
<1>4. root = before[1] BY <1>1 DEF UnderWay, DiskIsTouchedLast, disk
<1>5. Typed /\ CommandTypeOK /\ (fresh.kind = "fresh" => Established(fresh)) BY DEF UnderWay, Settled, Typed
<1>6. KitsAreToldTheTruth' BY <1>3, NotAsked
<1>7. limits \in Budget /\ IsTree(tree) /\ IsFiniteSet(layout.sources)
  BY <1>5, LayoutTyped DEF CommandTypeOK, Budget
<1>8. sources' \subseteq DOMAIN tree \cup layout.sources /\ IsFiniteSet(sources')
  <2>1. IsFiniteSet(DOMAIN tree) BY <1>7 DEF IsTree
  <2>2. IsFiniteSet({p \in DOMAIN tree : p.rust}) BY <2>1, FS_Subset
  <2> QED BY <1>1, <1>7, <2>2
<1> DEFINE sizes == SourceSizes(sources')
           next == IF SketchesOnly THEN "ask" ELSE "extraction"
<1>9. sizes \in Seq(Size) /\ (Unavailable \notin ToSet(sizes) <=> sources' \subseteq DOMAIN tree)
  BY <1>7, <1>8, SourcesSized
<1>10. ContractsRead \in Seq(Size) /\ Unavailable \notin ToSet(ContractsRead) BY <1>5, Lists
<1>11. ledger' = ChargeAll(ledger, sizes) /\ Spend(sizes, next) BY <1>1 DEF Spend
<1>12. (SourcesRead = ContractsRead \o SourceSizes(sources))' BY DEF SourcesRead
<1>12a. SourcesRead' = ContractsRead \o sizes
  BY <1>3, <1>12, ListsKept DEF SourceSizes
<1>13. next \in {"ask", "extraction"} /\ (next = "ask" <=> SketchesOnly) OBVIOUS
<1> HIDE DEF sizes, next
<1>14. PaidFor(ledger', ContractsRead \o sizes)
  BY <1>3, <1>7, <1>9, <1>10, <1>11, ChargedExactly DEF PaidSoFar
<1>15. ToSet(ContractsRead \o sizes) = ToSet(ContractsRead) \cup ToSet(sizes) BY <1>9, <1>10, Members
<1>16. /\ ledger' \in Ledger
       /\ ledger'.stopped = "none" => sources' \subseteq DOMAIN tree
       /\ ledger'.stopped = "sources" => ~(sources' \subseteq DOMAIN tree)
  BY <1>9, <1>10, <1>14, <1>15 DEF PaidFor
<1>17. \/ ledger'.stopped = "none" /\ phase' = next /\ result' = "none"
       \/ ledger'.stopped = "limit" /\ phase' = "over" /\ result' = "limit"
       \/ ledger'.stopped = "sources" /\ phase' = "over" /\ result' = "sources"
  BY <1>3, <1>11, <1>16, SpendIs
<1>18. Spent(SourcesRead)' /\ (ledger'.stopped = "none" => PaidSoFar(SourcesRead)')
  BY <1>3, <1>12a, <1>13, <1>14, <1>17, SpentNow
<1>19. Typed' BY <1>2, <1>3, <1>5, <1>8, <1>16, TypedOn DEF Typed, CommandTypeOK
<1>20. LedgerIsExact'
  <2>1. Extracts' BY <1>3 DEF Extracts
  <2> QED BY <1>18, <1>19, <2>1, LedgerSpent, PTL
<1>21. LaterCommandsAgree'
  <2>1. ASSUME Rechecks, ~(sources' \subseteq DOMAIN tree) PROVE FALSE
    <3>1. layout.error = "none" BY <1>3 DEF Laid, Unusable
    <3>2. layout.sources \subseteq DOMAIN tree /\ ~IsEmpty(layout)
      BY <1>3, <1>4, <1>5, <2>1, <3>1, Rechecked DEF Laid
    <3> QED BY <1>1, <2>1, <3>2
  <2>2. Rechecks' => Rechecks BY <1>3 DEF Rechecks, SourcesStand
  <2>3. (command.verb # "diff" /\ (Rechecks => result \notin Refusals))'
    BY <1>3, <1>16, <1>17, <2>1, <2>2 DEF Refusals, Extracts
  <2> QED BY <2>3, LaterCheck, PTL
<1>22. Course'
  <2>1. CASE phase' = "over"
    <3>1. (phase = "over")' BY <2>1
    <3> QED BY <3>1, Over, PTL
  <2>2. CASE phase' = next /\ ledger'.stopped = "none"
    <3>1. Gathered' BY <1>1, <1>3, <1>16, <2>2 DEF Gathered, Laid, Known, Unusable, SketchesOnly, Extracts, IsEmpty
    <3>2. /\ IsCommand(command)' /\ command'.verb # "edit" /\ asked' = {} /\ PaidSoFar(SourcesRead)'
          /\ SketchesOnly' = SketchesOnly
      BY <1>3, <1>18, <2>2 DEF SketchesOnly
    <3>3. CASE ~SketchesOnly
      <4>1. input' = NoInput /\ phase' = "extraction" BY <1>1, <1>3, <1>13, <2>2, <3>3 DEF Nothing
      <4> QED BY <3>1, <3>2, <3>3, <4>1 DEF Course, Phases
    <3>4. CASE SketchesOnly
      <4>1. input' = SyntaxInput /\ phase' = "ask" BY <1>1, <1>13, <2>2, <3>4
      <4>2. PaidSoFar(AllRead)'
        <5>1. (input.kind # "compiler")' BY <4>1 DEF SyntaxInput
        <5>2. (AllRead = SourcesRead)' BY <1>19, <5>1, NoExtractionRead, PTL
        <5> QED BY <3>2, <5>2
      <4>3. ~Establishing'
        BY <1>3, <3>4 DEF Establishing, Laid, Unusable, IsEmpty
      <4>4. Extracted' BY <3>2, <3>4, <4>1, <4>3 DEF Extracted, SyntaxInput
      <4>5. Prepared' BY <3>1, <4>2, <4>4 DEF Prepared
      <4>6. command.verb = "check" => kits' = <<"sketch">>
        BY <3>4 DEF ReadSources, SketchesOnly
      <4>7. command'.verb = "check" => kits' \in Seq({"sketch"}) /\ kits' # <<>>
        <5>1. <<"sketch">> \in Seq({"sketch"}) /\ <<"sketch">> # <<>> OBVIOUS
        <5> QED BY <1>3, <4>6, <5>1, Zenon
      <4> QED BY <3>2, <4>1, <4>5, <4>7 DEF Course, Phases
    <3> QED BY <3>3, <3>4
  <2> QED BY <1>17, <2>1, <2>2
<1> QED BY <1>2, <1>6, <1>19, <1>20, <1>21, <1>22, SettledOn DEF UnderWay

\* What has been established is extracted again.
LEMMA RecheckDecides ==
    ASSUME Typed, fresh.kind = "fresh" => Established(fresh), Rechecks, root = before[1], Laid
    PROVE  Decision(Call) # "refused" /\ (Decision(Call) # "syntax" => CrateCountIsRight(Call))
<1>1. layout.error = "none" BY DEF Laid, Unusable
<1>2. /\ layout.extraction.kind = command.extractor
      /\ command.extractor \in {"syntax", "compiler"}
      /\ command.extractor = "compiler" => Len(layout.extraction.crates) = 1
  BY <1>1, Rechecked DEF Laid
<1> DEFINE call == Call
<1>3. call.use = "check" /\ call.extractor = command.extractor /\ call.layout = layout.extraction
  BY DEF Call, Rechecks
<1> HIDE DEF call
<1>4. RootsAllowed(call) BY <1>3 DEF RootsAllowed
<1>5. Decision(call) = IF command.extractor = "syntax" THEN "syntax" ELSE "validate"
  BY <1>2, <1>3, <1>4 DEF Decision, Reconcile
<1>6. command.extractor = "compiler" => CrateCountIsRight(call)
  BY <1>2, <1>3, <1>5 DEF CrateCountIsRight, ExpectedCrates
<1> QED BY <1>2, <1>5, <1>6 DEF call

\* What the decision says of the call.
LEMMA Decided ==
    ASSUME IsCommand(command), command.verb # "edit"
    PROVE  /\ Decision(Call) \in {"refused", "syntax", "validate", "establish"}
           /\ Decision(Call) = "syntax" => command.extractor = "syntax" /\ layout.extraction.kind # "compiler"
           /\ Decision(Call) \in {"validate", "establish"} => command.extractor = "compiler"
           /\ Decision(Call) = "validate" => layout.extraction.kind = "compiler"
           /\ Decision(Call) = "establish" => layout.extraction.kind # "compiler"
<1>1. Call.extractor = command.extractor /\ Call.layout = layout.extraction BY DEF Call
<1>2. command.extractor \in {"syntax", "compiler"} BY DEF IsCommand
<1> DEFINE call == Call
<1>3. call.extractor = command.extractor /\ call.layout = layout.extraction BY <1>1
<1> HIDE DEF call
<1>4. /\ Decision(call) \in {"refused", "syntax", "validate", "establish"}
      /\ Decision(call) = "syntax" => command.extractor = "syntax" /\ layout.extraction.kind # "compiler"
      /\ Decision(call) \in {"validate", "establish"} => command.extractor = "compiler"
      /\ Decision(call) = "validate" => layout.extraction.kind = "compiler"
      /\ Decision(call) = "establish" => layout.extraction.kind # "compiler"
  BY <1>2, <1>3 DEF Decision, Reconcile
<1> QED BY <1>4 DEF call

LEMMA AcquireSyntaxStep == ASSUME UnderWay, AcquireSyntax PROVE Settled' /\ Course'
<1>1. /\ phase = "extraction" /\ UNCHANGED <<disk, world, ledger, contracts, sources, produced, answers>>
  BY DEF AcquireSyntax, Runs
<1>2. Still BY <1>1, RunsStill
<1>3. /\ UNCHANGED <<root, stored, tree, limits, ceiling, command, before, fresh, asked, previous, catalog,
                     layout, sources, ledger, kits>>
      /\ asked = {} /\ PaidSoFar(SourcesRead) /\ Gathered /\ ~SketchesOnly
      /\ IsCommand(command) /\ command.verb # "edit" /\ result = "none"
  BY <1>1, <1>2 DEF Still, contracts, answers, UnderWay, Course, Roles
<1>4. root = before[1] BY <1>1 DEF UnderWay, DiskIsTouchedLast, disk
<1>5. Typed /\ CommandTypeOK /\ (fresh.kind = "fresh" => Established(fresh)) BY DEF UnderWay, Settled, Typed
<1>6. KitsAreToldTheTruth' BY <1>3, NotAsked
<1>7. CASE Decision(Call) = "refused" /\ Stop("refused") /\ UNCHANGED <<input, crates>>
  <2>1. phase' = "over" /\ result' = "refused" /\ UNCHANGED <<input, crates>> BY <1>7 DEF Stop
  <2>2. Typed' BY <1>2, <1>3, <1>5, <2>1, TypedStays
  <2>3. (phase = "over" /\ phase # "print" /\ result \notin {"passed", "failed", "limit"})' BY <2>1
  <2>4. LedgerIsExact' /\ Course' BY <2>3, LedgerQuiet, Over, PTL
  <2>5. LaterCommandsAgree'
    <3>1. ~Rechecks BY <1>3, <1>4, <1>5, <1>7, RecheckDecides DEF Gathered
    <3>2. (command.verb # "diff" /\ (Rechecks => result \notin Refusals))'
      BY <1>3, <3>1 DEF Rechecks, SourcesStand, Gathered, Extracts
    <3> QED BY <3>2, LaterCheck, PTL
  <2> QED BY <1>2, <1>6, <2>2, <2>4, <2>5, SettledOn DEF UnderWay
<1>8. CASE /\ Decision(Call) = "syntax"
           /\ input' = SyntaxInput /\ crates' = IF Establishing THEN command.explicit ELSE <<>>
           /\ Move(IF Establishing THEN "target" ELSE "ask")
  <2>1. phase' = (IF Establishing THEN "target" ELSE "ask") /\ result' = "none" BY <1>3, <1>8 DEF Move
  <2>2. crates' \in Seq(CrateRoot)
    <3>1. Establishing => command.explicit \in Seq(CrateRoot) BY <1>3 DEF IsCommand, Establishing
    <3>2. <<>> \in Seq(CrateRoot) OBVIOUS
    <3> QED BY <1>8, <3>1, <3>2, Zenon
  <2>3. Typed' BY <1>2, <1>3, <1>5, <2>2, TypedOn DEF Typed, CommandTypeOK
  <2>4. Quietly' BY <2>1 DEF Quietly, Refusals
  <2>5. PaidSoFar(AllRead)'
    <3>1. (input.kind # "compiler")' BY <1>8 DEF SyntaxInput
    <3>2. (AllRead = SourcesRead)' BY <2>3, <3>1, NoExtractionRead, PTL
    <3>3. SourcesRead' = SourcesRead BY <1>3, ListsKept
    <3> QED BY <1>3, <3>2, <3>3, PaidKept
  <2>6. Establishing' = Establishing /\ SketchesOnly' = SketchesOnly
    BY <1>3 DEF Establishing, SketchesOnly, IsEmpty
  <2>7. Gathered' BY <1>3 DEF Gathered, Laid, Known, Unusable, SketchesOnly, Extracts, IsEmpty
  <2>8. Extracted'
    <3>1. command.extractor = "syntax" /\ layout.extraction.kind # "compiler" BY <1>3, <1>8, Decided
    <3> QED BY <1>3, <1>8, <2>6, <3>1 DEF Extracted, SyntaxInput
  <2>9. Prepared' BY <2>5, <2>7, <2>8 DEF Prepared
  <2>10. IsCommand(command)' /\ command'.verb # "edit" /\ asked' = {} /\ ~SketchesOnly'
         /\ (Establishing => command'.verb = "generate")
    BY <1>3, <2>6 DEF Establishing
  <2>11. Course' BY <2>1, <2>9, <2>10 DEF Course, Phases
  <2> QED BY <1>2, <1>6, <2>3, <2>4, <2>11, SettledQuietly DEF UnderWay
<1> QED BY <1>7, <1>8 DEF AcquireSyntax

LEMMA AcquireArtifactStep == ASSUME UnderWay, AcquireArtifact PROVE Settled' /\ Course'
<1>1. /\ phase = "extraction" /\ UNCHANGED <<disk, world, contracts, sources, produced, answers>>
      /\ Decision(Call) \in {"validate", "establish"}
  BY DEF AcquireArtifact, Runs
<1>2. Still BY <1>1, RunsStill
<1>3. /\ UNCHANGED <<root, stored, tree, limits, ceiling, command, before, fresh, asked, previous, catalog,
                     layout, sources, kits>>
      /\ asked = {} /\ PaidSoFar(SourcesRead) /\ Gathered /\ ~SketchesOnly
      /\ IsCommand(command) /\ command.verb # "edit" /\ result = "none"
  BY <1>1, <1>2 DEF Still, contracts, answers, UnderWay, Course, Roles
<1>4. root = before[1] BY <1>1 DEF UnderWay, DiskIsTouchedLast, disk
<1>5. Typed /\ CommandTypeOK /\ (fresh.kind = "fresh" => Established(fresh)) BY DEF UnderWay, Settled, Typed
<1>6. KitsAreToldTheTruth' BY <1>3, NotAsked
<1>7. ASSUME UNCHANGED <<ledger, input, crates>>, (Stop("crates") /\ ~CrateCountIsRight(Call)) \/ Stop("compiler")
      PROVE  Settled' /\ Course'
  <2>1. phase' = "over" /\ result' \in {"crates", "compiler"} BY <1>7 DEF Stop
  <2>2. Typed' BY <1>2, <1>3, <1>5, <1>7, TypedStays
  <2>3. (phase = "over" /\ phase # "print" /\ result \notin {"passed", "failed", "limit"})' BY <2>1
  <2>4. LedgerIsExact' /\ Course' BY <2>3, LedgerQuiet, Over, PTL
  <2>5. LaterCommandsAgree'
    <3>1. Rechecks => result' # "crates"
      BY <1>1, <1>3, <1>4, <1>5, <1>7, RecheckDecides DEF Gathered, Stop
    <3>2. (command.verb # "diff" /\ (Rechecks => result \notin Refusals))'
      BY <1>3, <2>1, <3>1 DEF Rechecks, SourcesStand, Gathered, Extracts, Refusals
    <3> QED BY <3>2, LaterCheck, PTL
  <2> QED BY <1>2, <1>6, <2>2, <2>4, <2>5, SettledOn DEF UnderWay
<1>8. ASSUME NEW artifact \in Artifacts, Produced(artifact),
             input' = [kind |-> "compiler", artifact |-> artifact],
             crates' = IF Establishing THEN artifact.crates ELSE <<>>,
             IF Establishing THEN Spend(SourceSizes(sources), "target")
             ELSE IF ContextAgrees(layout.extraction, artifact) THEN Spend(SourceSizes(sources), "ask")
             ELSE /\ ledger' = ChargeAll(ledger, SourceSizes(sources))
                  /\ Stop(IF ledger'.stopped = "none" THEN "context" ELSE Refusal(ledger'))
      PROVE  Settled' /\ Course'
  <2>1. artifact.crates \in Seq(CrateRoot) /\ Len(artifact.crates) = 1 BY ArtifactsAssumption
  <2>2. crates' \in Seq(CrateRoot)
    <3>1. <<>> \in Seq(CrateRoot) OBVIOUS
    <3> QED BY <1>8, <2>1, <3>1, Zenon
  <2> DEFINE sizes == SourceSizes(sources)
             next == IF Establishing THEN "target" ELSE "ask"
  <2>3. limits \in Budget /\ IsTree(tree) /\ IsFiniteSet(sources) /\ sources \subseteq DOMAIN tree
    BY <1>3, <1>5 DEF CommandTypeOK, Budget, Gathered
  <2>4. sizes \in Seq(Size) /\ Unavailable \notin ToSet(sizes) BY <2>3, SourcesSized
  <2>5. SourcesRead \in Seq(Size) BY <1>5, Lists
  <2>6. ledger' = ChargeAll(ledger, sizes)
    <3>1. CASE Establishing BY <1>8, <3>1 DEF Spend
    <3>2. CASE ~Establishing BY <1>8, <3>2 DEF Spend
    <3> QED BY <3>1, <3>2
  <2>7. input'.kind = "compiler" /\ input'.artifact = artifact BY <1>8
  <2>8. AllRead' = SourcesRead \o sizes
    <3>1. (AllRead = SourcesRead \o (IF input.kind = "compiler" THEN SourceSizes(sources) ELSE <<>>))'
      BY DEF AllRead, ExtractionRead
    <3>2. SourcesRead' = SourcesRead BY <1>3, ListsKept
    <3>3. SourceSizes(sources)' = sizes BY <1>3 DEF SourceSizes
    <3> QED BY <2>7, <3>1, <3>2, <3>3
  <2>9. next \in {"target", "ask"} OBVIOUS
  <2>9a. \/ Spend(sizes, next)
         \/ Stop(IF ledger'.stopped = "none" THEN "context" ELSE Refusal(ledger'))
    BY <1>8
  <2>9b. Spend(sizes, next) /\ ~Establishing => ContextAgrees(layout.extraction, artifact) \/ phase' = "over"
    BY <1>8 DEF Stop
  <2> HIDE DEF sizes
  <2>10. PaidFor(ledger', SourcesRead \o sizes)
    BY <1>3, <2>3, <2>4, <2>5, <2>6, ChargedExactly DEF PaidSoFar
  <2>11. ledger' \in Ledger /\ ledger'.stopped # "sources"
    <3>1. /\ ToSet(SourcesRead \o sizes) = ToSet(SourcesRead) \cup ToSet(sizes) BY <2>4, <2>5, Members
    <3>2. Unavailable \notin ToSet(SourcesRead) BY <1>3 DEF PaidSoFar, PaidFor
    <3> QED BY <2>4, <2>10, <3>1, <3>2 DEF PaidFor
  <2>12. ledger'.stopped \in {"none", "limit"} BY <2>11 DEF Ledger
  <2>13. \/ ledger'.stopped = "none" /\ phase' = next /\ result' = "none" /\ Spend(sizes, next)
         \/ ledger'.stopped = "limit" /\ phase' = "over" /\ result' = "limit"
         \/ phase' = "over" /\ result' = "context"
    <3>1. CASE Spend(sizes, next)
      <4> HIDE DEF next
      <4> QED BY <1>3, <2>11, <2>12, <3>1, SpendIs
    <3>2. CASE Stop(IF ledger'.stopped = "none" THEN "context" ELSE Refusal(ledger'))
      BY <2>12, <3>2 DEF Stop, Refusal
    <3> QED BY <2>9a, <3>1, <3>2
  <2>14. Spent(AllRead)' /\ (ledger'.stopped = "none" => PaidSoFar(AllRead)')
    BY <1>3, <2>8, <2>9, <2>10, <2>13, SpentNow
  <2>15. Typed' BY <1>2, <1>3, <1>5, <2>2, <2>11, TypedOn DEF Typed, CommandTypeOK
  <2>16. LedgerIsExact'
    <3>1. Extracts' BY <1>3 DEF Extracts, Gathered
    <3> QED BY <2>14, <2>15, <3>1, LedgerSpent, PTL
  <2>17. LaterCommandsAgree'
    <3>1. (command.verb # "diff" /\ (Rechecks => result \notin Refusals))'
      BY <1>3, <2>13 DEF Gathered, Extracts, Refusals
    <3> QED BY <3>1, LaterCheck, PTL
  <2>18. Course'
    <3>1. CASE phase' = "over"
      <4>1. (phase = "over")' BY <3>1
      <4> QED BY <4>1, Over, PTL
    <3>2. CASE phase' = next /\ ledger'.stopped = "none" /\ Spend(sizes, next)
      <4>1. Establishing' = Establishing /\ SketchesOnly' = SketchesOnly
        BY <1>3 DEF Establishing, SketchesOnly, IsEmpty
      <4>2. Gathered' BY <1>3 DEF Gathered, Laid, Known, Unusable, SketchesOnly, Extracts, IsEmpty
      <4>3. command.extractor = "compiler" BY <1>1, <1>3, Decided
      <4>4. ~Establishing => /\ layout.extraction.kind = "compiler" /\ layout.extraction.context = artifact.context
                             /\ layout.extraction.crates = artifact.crates
        <5> SUFFICES ASSUME ~Establishing
                     PROVE  /\ layout.extraction.kind = "compiler" /\ layout.extraction.context = artifact.context
                            /\ layout.extraction.crates = artifact.crates
          OBVIOUS
        <5>1. ContextAgrees(layout.extraction, artifact) BY <2>9, <2>9b, <3>2
        <5>2. layout.extraction.kind = "compiler" /\ layout.extraction.context = artifact.context
          BY <5>1 DEF ContextAgrees
        <5>3. Decision(Call) = "validate" BY <1>1, <1>3, <5>2, Decided
        <5>4. artifact.crates = ExpectedCrates(Call) BY <1>8, <5>3 DEF Produced, Inferring
        <5>5. ExpectedCrates(Call) = layout.extraction.crates BY <5>3 DEF ExpectedCrates, Call
        <5> QED BY <5>2, <5>4, <5>5
      <4>5. Extracted'
        BY <1>3, <1>8, <2>7, <4>1, <4>3, <4>4 DEF Extracted
      <4>6. Prepared' BY <2>14, <3>2, <4>2, <4>5 DEF Prepared
      <4>7. IsCommand(command)' /\ command'.verb # "edit" /\ asked' = {} /\ ~SketchesOnly'
            /\ (Establishing => command'.verb = "generate")
        BY <1>3, <4>1 DEF Establishing
      <4> QED BY <3>2, <4>6, <4>7 DEF Course, Phases
    <3> QED BY <2>13, <3>1, <3>2
  <2> QED BY <1>2, <1>6, <2>15, <2>16, <2>17, <2>18, SettledOn DEF UnderWay
<1>9. \/ ~CrateCountIsRight(Call) /\ Stop("crates") /\ UNCHANGED <<ledger, input, crates>>
      \/ Stop("compiler") /\ UNCHANGED <<ledger, input, crates>>
      \/ \E artifact \in Artifacts :
           /\ Produced(artifact)
           /\ input' = [kind |-> "compiler", artifact |-> artifact]
           /\ crates' = IF Establishing THEN artifact.crates ELSE <<>>
           /\ IF Establishing THEN Spend(SourceSizes(sources), "target")
              ELSE IF ContextAgrees(layout.extraction, artifact) THEN Spend(SourceSizes(sources), "ask")
              ELSE /\ ledger' = ChargeAll(ledger, SourceSizes(sources))
                   /\ Stop(IF ledger'.stopped = "none" THEN "context" ELSE Refusal(ledger'))
  BY Zenon DEF AcquireArtifact
<1> QED BY <1>7, <1>8, <1>9, Zenon

\* A crate of a fresh layout is typed.
LEMMA SelectedTyped ==
    ASSUME Typed, Gathered, Cardinality(Inferred) = 1
    PROVE  LET p == CHOOSE p \in Inferred : TRUE IN <<[id |-> p.name, root |-> p]>> \in Seq(CrateRoot)
<1> DEFINE p == CHOOSE p \in Inferred : TRUE
<1>1. Inferred \subseteq SourcePath
  <2>1. DOMAIN tree \subseteq SourcePath BY DEF Typed, CommandTypeOK, IsTree
  <2> QED BY <2>1 DEF Inferred, Gathered
<1>2. Inferred # {} BY FS_EmptySet
<1>3. p \in SourcePath BY <1>1, <1>2
<1> HIDE DEF p
<1>4. p.name \in STRING BY <1>3 DEF SourcePath
<1>5. [id |-> p.name, root |-> p] \in CrateRoot BY <1>3, <1>4 DEF CrateRoot
<1>6. PICK c \in CrateRoot : c = [id |-> p.name, root |-> p] BY <1>5
<1>7. <<c>> \in Seq(CrateRoot) OBVIOUS
<1> QED BY <1>6, <1>7, Zenon DEF p

LEMMA SelectCratesStep == ASSUME UnderWay, SelectCrates PROVE Settled' /\ Course'
<1>1. /\ phase = "target" /\ UNCHANGED <<disk, world, ledger, contracts, sources, input, produced, answers>>
  BY DEF SelectCrates, Runs
<1>2. Still BY <1>1, RunsStill
<1>3. /\ UNCHANGED <<root, stored, tree, limits, ceiling, command, before, fresh, asked, previous, catalog,
                     layout, sources, input, ledger, kits>>
      /\ asked = {} /\ Prepared /\ command.verb = "generate"
      /\ IsCommand(command) /\ command.verb # "edit" /\ result = "none"
  BY <1>1, <1>2 DEF Still, contracts, answers, UnderWay, Course, Roles
<1>4. Typed /\ CommandTypeOK BY DEF UnderWay, Settled, Typed
<1>5. KitsAreToldTheTruth' BY <1>3, NotAsked
<1>6. /\ crates # <<>> => UNCHANGED crates
      /\ crates = <<>> => crates' = IF Cardinality(Inferred) = 1
                             THEN LET p == CHOOSE p \in Inferred : TRUE IN <<[id |-> p.name, root |-> p]>>
                             ELSE <<>>
      /\ (phase' = "ask" /\ result' = "none") \/ (phase' = "over" /\ result' = "crate_root")
  BY <1>3 DEF SelectCrates, Pass, Move, Stop
<1>7. crates' \in Seq(CrateRoot)
  <2>1. crates \in Seq(CrateRoot) BY <1>4 DEF CommandTypeOK
  <2>2. <<>> \in Seq(CrateRoot) OBVIOUS
  <2>3. Gathered BY <1>3 DEF Prepared
  <2> QED BY <1>4, <1>6, <2>1, <2>2, <2>3, SelectedTyped, Zenon
<1>8. Typed' BY <1>2, <1>3, <1>4, <1>7, TypedOn DEF Typed, CommandTypeOK
<1>9. Quietly' BY <1>6 DEF Quietly, Refusals
<1>10. Course'
  <2>1. CASE phase' = "over"
    <3>1. (phase = "over")' BY <2>1
    <3> QED BY <3>1, Over, PTL
  <2>2. CASE phase' = "ask"
    <3>1. Establishing' = Establishing /\ SketchesOnly' = SketchesOnly
      BY <1>3 DEF Establishing, SketchesOnly, IsEmpty
    <3>2. Gathered' BY <1>3 DEF Prepared, Gathered, Laid, Known, Unusable, SketchesOnly, Extracts, IsEmpty
    <3>3. PaidSoFar(AllRead)'
      <4>1. AllRead' = AllRead BY <1>3, ListsKept
      <4> QED BY <1>3, <4>1, PaidKept DEF Prepared
    <3>4. Establishing /\ input.kind = "compiler" => crates # <<>>
      <4>1. SUFFICES ASSUME Establishing, input.kind = "compiler" PROVE crates # <<>> OBVIOUS
      <4>2. crates = input.artifact.crates /\ input.artifact \in Artifacts
        BY <1>3, <4>1 DEF Prepared, Extracted
      <4>3. Len(input.artifact.crates) = 1 BY <4>2, ArtifactsAssumption
      <4>4. Len(<<>>) = 0 OBVIOUS
      <4>5. Len(crates) # 0 BY <4>2, <4>3
      <4> QED BY <4>4, <4>5, Zenon
    <3>5. Extracted' BY <1>3, <1>6, <3>1, <3>4 DEF Prepared, Extracted
    <3>6. Prepared' BY <3>2, <3>3, <3>5 DEF Prepared
    <3>7. IsCommand(command)' /\ command'.verb = "generate" BY <1>3
    <3> QED BY <2>2, <3>6, <3>7 DEF Course, Phases
  <2> QED BY <1>6, <2>1, <2>2
<1> QED BY <1>2, <1>5, <1>8, <1>9, <1>10, SettledQuietly DEF UnderWay

-----------------------------------------------------------------------------
(* Archive and diff *)

LEMMA ValidateContractsStep == ASSUME UnderWay, ValidateContracts PROVE Settled' /\ Course'
<1>1. /\ phase = "validate" /\ UNCHANGED <<disk, world, ledger, contracts, extracted, produced, answers>>
  BY DEF ValidateContracts, Runs
<1>2. Still BY <1>1, RunsStill
<1>3. /\ UNCHANGED <<root, stored, tree, limits, ceiling, command, before, fresh, asked, previous, catalog,
                     layout, sources, input, crates, ledger, kits>>
      /\ asked = {} /\ command.verb \in {"archive", "diff"} /\ Known /\ PaidSoFar(ContractsRead)
      /\ IsCommand(command) /\ result = "none"
  BY <1>1, <1>2 DEF Still, contracts, extracted, answers, UnderWay, Course, Roles
<1>4. root = before[1] BY <1>1 DEF UnderWay, DiskIsTouchedLast, disk
<1>5. Typed' BY <1>2, <1>3, TypedStays DEF UnderWay, Settled
<1>6. KitsAreToldTheTruth' BY <1>3, NotAsked
<1> DEFINE sound == Validate(Unread(ceiling), catalog).error = "none"
<1>7. \/ sound /\ phase' = (IF command.verb = "archive" THEN "encode" ELSE "decode") /\ result' = "none"
      \/ ~sound /\ phase' = "over" /\ result' = "layout"
  BY <1>3 DEF ValidateContracts, Pass, Move, Stop
<1>8. LedgerIsExact'
  <2>1. (phase # "print" /\ result \notin {"passed", "failed", "limit"})' BY <1>7
  <2> QED BY <2>1, LedgerQuiet, PTL
<1>9. stored.kind = "archive" /\ stored.files = root.files => sound
  BY <1>3, <1>4 DEF UnderWay, Settled, WellPacked, Known
<1>10. LaterCommandsAgree'
  BY <1>3, <1>7, <1>9 DEF LaterCommandsAgree
<1>11. Course'
  <2>1. CASE phase' = "over"
    <3>1. (phase = "over")' BY <2>1
    <3> QED BY <3>1, Over, PTL
  <2>2. CASE sound /\ phase' = (IF command.verb = "archive" THEN "encode" ELSE "decode")
    <3>1. PaidSoFar(ContractsRead)'
      <4>1. ContractsRead' = ContractsRead BY <1>3, ListsKept
      <4> QED BY <1>3, <4>1, PaidKept
    <3>2. IsCommand(command)' /\ command' = command /\ Known' /\ asked' = {} BY <1>3 DEF Known
    <3>3. (Validate(Unread(ceiling), catalog).error = "none")' BY <1>3, <2>2
    <3> HIDE DEF sound
    <3> QED BY <1>3, <2>2, <3>1, <3>2, <3>3 DEF Course, Phases
  <2> QED BY <1>7, <2>1, <2>2
<1> QED BY <1>2, <1>5, <1>6, <1>8, <1>10, <1>11, SettledOn DEF UnderWay

LEMMA EncodeStep == ASSUME UnderWay, Encode PROVE Settled' /\ Course'
<1>1. /\ phase = "encode" /\ UNCHANGED <<disk, world, ledger, contracts, extracted, answers>>
  BY DEF Encode, Runs
<1>2. Still BY <1>1, RunsStill
<1>3. /\ UNCHANGED <<root, stored, tree, limits, ceiling, command, before, fresh, asked, previous, catalog,
                     layout, sources, input, crates, ledger, kits>>
      /\ asked = {} /\ command.verb = "archive" /\ Known /\ PaidSoFar(ContractsRead)
      /\ Validate(Unread(ceiling), catalog).error = "none"
      /\ IsCommand(command) /\ result = "none"
  BY <1>1, <1>2 DEF Still, contracts, extracted, answers, UnderWay, Course, Roles
<1>4. Typed' BY <1>2, <1>3, TypedStays DEF UnderWay, Settled
<1>5. KitsAreToldTheTruth' BY <1>3, NotAsked
<1>6. PICK packing \in Packings :
         /\ produced' = <<[kind |-> "archive", files |-> catalog, packing |-> packing,
                           sound |-> TRUE, clean |-> TRUE]>>
         /\ Pass(FitsWire(catalog, packing), "commit", "wire")
  BY DEF Encode
<1>7. \/ FitsWire(catalog, packing) /\ phase' = "commit" /\ result' = "none"
      \/ phase' = "over" /\ result' = "wire"
  BY <1>3, <1>6 DEF Pass, Move, Stop
<1>8. Quietly' BY <1>7 DEF Quietly, Refusals
<1>9. Course'
  <2>1. CASE phase' = "over"
    <3>1. (phase = "over")' BY <2>1
    <3> QED BY <3>1, Over, PTL
  <2>2. CASE FitsWire(catalog, packing) /\ phase' = "commit"
    <3> DEFINE a == [kind |-> "archive", files |-> catalog, packing |-> packing, sound |-> TRUE, clean |-> TRUE]
    <3>1. PaidSoFar(ContractsRead)'
      <4>1. ContractsRead' = ContractsRead BY <1>3, ListsKept
      <4> QED BY <1>3, <4>1, PaidKept
    <3>2. produced' = <<a>> BY <1>6
    <3>3. a.kind = "archive" /\ a.files = catalog /\ a.packing = packing /\ a.sound /\ a.clean OBVIOUS
    <3>4. IsArchive(a)
      <4>1. packing \in [expanded : Nat, compressed : Nat] BY PackingsAssumption
      <4>2. catalog \in Seq(ContractFile) BY DEF UnderWay, Settled, Typed, CommandTypeOK
      <4> QED BY <4>1, <4>2 DEF IsArchive
    <3> HIDE DEF a
    <3>5. produced'[1] = a BY <3>2
    <3>6. WellPacked(produced[1])'
      <4>1. FitsWire(catalog, packing) BY <2>2
      <4> QED BY <1>3, <3>3, <3>5, <4>1 DEF WellPacked
    <3>7. Encoded' BY <1>3, <3>1, <3>3, <3>4, <3>5, <3>6 DEF Encoded
    <3>8. IsCommand(command)' /\ command'.verb = "archive" BY <1>3
    <3> QED BY <2>2, <3>7, <3>8 DEF Course, Phases
  <2> QED BY <1>7, <2>1, <2>2
<1> QED BY <1>2, <1>4, <1>5, <1>8, <1>9, SettledQuietly DEF UnderWay

LEMMA Stay ==
    ASSUME Settled, Course, UNCHANGED <<disk, world, phase, result, ledger, contracts, extracted, produced, answers>>
    PROVE  Settled' /\ Course'
<1>1. /\ UNCHANGED <<root, stored, tree, limits, ceiling, queue, command, before, fresh, phase, result, ledger>>
      /\ UNCHANGED <<catalog, previous, layout, sources, input, crates, produced, kits, asked>>
  BY DEF disk, world, contracts, extracted, answers
<1>2. Still BY <1>1 DEF Still
<1>3. Typed' BY <1>1, <1>2, TypedStays DEF Settled
<1>4. KitsAreToldTheTruth' BY <1>1, KitsKept DEF Settled
<1>5. ReadingList' = ReadingList /\ AllRead' = AllRead /\ ContractsRead' = ContractsRead /\ SourcesRead' = SourcesRead
  BY <1>1, ListsKept
<1>6. LedgerIsExact'
  <2>1. Affordable(ReadingList)' <=> Affordable(ReadingList) BY <1>1, <1>5 DEF Affordable
  <2> QED BY <1>1, <1>5, <2>1 DEF LedgerIsExact, Settled
<1>7. LaterCommandsAgree'
  <2>1. SourcesStand' = SourcesStand BY <1>1 DEF SourcesStand
  <2> QED BY <1>1, <2>1 DEF LaterCommandsAgree, Settled
<1>8. /\ \A list : PaidSoFar(list) => PaidSoFar(list)'
  BY <1>1, PaidKept
<1>9. /\ Nothing' = Nothing /\ Known' = Known /\ Laid' = Laid /\ Gathered' = Gathered /\ Extracts' = Extracts
      /\ Extracted' = Extracted /\ SketchesOnly' = SketchesOnly /\ Establishing' = Establishing
  BY <1>1 DEF Nothing, Known, Laid, Gathered, Extracts, Extracted, SketchesOnly, Establishing, IsEmpty, Unusable
<1>10. (Prepared => Prepared') /\ (Decoded => Decoded')
  BY <1>1, <1>5, <1>8, <1>9 DEF Prepared, Decoded
<1>11. Encoded => Encoded'
  BY <1>1, <1>5, <1>8 DEF Encoded, WellPacked, FitsWire
<1>12. FreshDocument' = FreshDocument /\ Handed' = Handed
  BY <1>1, <1>9 DEF FreshDocument, FreshFile, Handed
<1>13. /\ PaidSoFar(ContractsRead) => PaidSoFar(ContractsRead)'
       /\ PaidSoFar(SourcesRead) => PaidSoFar(SourcesRead)'
       /\ PaidSoFar(ReadingList) => PaidSoFar(ReadingList)'
       /\ PaidSoFar(<<>>) => PaidSoFar(<<>>)'
  BY <1>5, <1>8
<1>14. Course'
  BY <1>1, <1>9, <1>10, <1>11, <1>12, <1>13 DEF Course
<1> QED BY <1>2, <1>3, <1>4, <1>6, <1>7, <1>14, SettledOn

LEMMA RequestStopStep == ASSUME UnderWay, RequestStop PROVE Settled' /\ Course'
BY Stay DEF RequestStop, UnderWay

LEMMA GiveUpStep == ASSUME UnderWay, GiveUp PROVE Settled' /\ Course'
<1>1. /\ UNCHANGED <<disk, world, ledger, contracts, extracted, produced, answers>>
      /\ phase' = "over" /\ result' = "canceled"
  BY DEF GiveUp, Stop
<1>2. Still BY <1>1, RunsStill
<1>3. UNCHANGED <<asked, layout, ledger, catalog, previous, sources, crates>>
  BY <1>1 DEF contracts, extracted, answers
<1>4. Typed' BY <1>2, <1>3, TypedStays DEF UnderWay, Settled
<1>5. KitsAreToldTheTruth' BY <1>2, <1>3, AskedStay DEF UnderWay
<1>6. Quietly' BY <1>1 DEF Quietly, Refusals
<1>7. (phase = "over")' BY <1>1
<1>8. Course' BY <1>7, Over, PTL
<1> QED BY <1>2, <1>4, <1>5, <1>6, <1>8, SettledQuietly DEF UnderWay

LEMMA PrintSummaryStep == ASSUME UnderWay, PrintSummary PROVE Settled' /\ Course'
<1>1. /\ UNCHANGED <<disk, world, ledger, contracts, extracted, produced, answers>> /\ phase = "print"
      /\ phase' = "over" /\ result' \in {"passed", "print"}
  BY DEF PrintSummary, Stop
<1>2. Still BY <1>1, RunsStill
<1>3. UNCHANGED <<asked, layout, ledger, catalog, previous, sources, crates, input, before,
                  command, tree, stored, limits>>
  BY <1>1, <1>2 DEF contracts, extracted, answers, Still
<1>4. Typed' BY <1>2, <1>3, TypedStays DEF UnderWay, Settled
<1>5. KitsAreToldTheTruth' BY <1>2, <1>3, AskedStay DEF UnderWay
<1>6. LedgerIsExact'
  <2>1. PaidSoFar(ReadingList) BY <1>1 DEF UnderWay, Course
  <2>2. ReadingList' = ReadingList BY <1>3, ListsKept
  <2>3. (PaidSoFar(ReadingList) /\ result # "limit")' BY <1>1, <1>3, <2>1, <2>2, PaidKept
  <2> QED BY <2>3, LedgerPaid, PTL
<1>7. LaterCommandsAgree'
  <2>1. (result \notin Refusals /\ result \notin {"archive", "layout"})' BY <1>1 DEF Refusals
  <2> QED BY <2>1, LaterQuiet, PTL
<1>8. (phase = "over")' BY <1>1
<1>9. Course' BY <1>8, Over, PTL
<1> QED BY <1>2, <1>4, <1>5, <1>6, <1>7, <1>9, SettledOn DEF UnderWay

LEMMA NextInQueue ==
    ASSUME Typed, queue # <<>>
    PROVE  /\ IsCommand(Head(queue))
           /\ Tail(queue) \in Seq(ToSet(Tail(queue))) /\ \A c \in ToSet(Tail(queue)) : IsCommand(c)
<1>1. queue \in Seq(ToSet(queue)) /\ \A c \in ToSet(queue) : IsCommand(c) BY DEF Typed, CommandTypeOK
<1> DEFINE S == ToSet(queue)
<1>2. ToSet(queue) = {queue[i] : i \in DOMAIN queue} BY DEF ToSet
<1>3. queue \in Seq(S) BY <1>1
<1> HIDE DEF S
<1>4. Head(queue) = queue[1] /\ 1 \in DOMAIN queue /\ Tail(queue) \in Seq(S) BY <1>3
<1>5. \A i \in DOMAIN Tail(queue) : Tail(queue)[i] \in S BY <1>4
<1>6. ToSet(Tail(queue)) \subseteq S BY <1>5 DEF ToSet
<1>7. Tail(queue) \in Seq(ToSet(Tail(queue)))
  <2>1. PICK t \in Seq(S) : t = Tail(queue) BY <1>4
  <2>2. t \in [1..Len(t) -> {t[i] : i \in DOMAIN t}] /\ Len(t) \in Nat OBVIOUS
  <2>3. t \in Seq({t[i] : i \in DOMAIN t}) BY <2>2
  <2> QED BY <2>1, <2>3 DEF ToSet
<1>8. Head(queue) \in S BY <1>2, <1>4 DEF S
<1> QED BY <1>1, <1>6, <1>7, <1>8 DEF S

\* A command begins with nothing, on the disk as it is.
LEMMA Begun ==
    ASSUME UnderWay, Forget, UNCHANGED <<stored, limits, ceiling, fresh>>, queue # <<>>,
           command' = Head(queue), queue' = Tail(queue), root' \in ContractsRoot, IsTree(tree)',
           phase' \in {"over", "contracts"}, result' \in {"none", "overlap"},
           phase' = "contracts" => command'.verb # "edit"
    PROVE  Settled' /\ Course'
<1>1. /\ before' = disk' /\ ledger' = NothingRead /\ catalog' = <<>> /\ previous' = <<>>
      /\ layout' = Loaded(<<>>, ceiling) /\ sources' = {} /\ input' = NoInput /\ crates' = <<>>
      /\ asked' = {}
  BY DEF Forget
<1>2. before'[1] = root' /\ before'[2] = stored' BY <1>1 DEF disk
<1>3. Typed /\ CommandTypeOK /\ limits \in Budget
  BY DEF UnderWay, Settled, Typed, CommandTypeOK, Budget
<1>4. IsCommand(command)' BY <1>3, NextInQueue
<1>5. queue' \in Seq(ToSet(queue')) /\ \A c \in ToSet(queue') : IsCommand(c) BY <1>3, NextInQueue
<1>6. (limits \in Budget)' BY <1>3
<1>7. (NothingRead \in Ledger)' /\ PaidFor(NothingRead, <<>>)' BY <1>6, NothingPaid, PTL
<1>8. Typed'
  <2>1. ledger' \in Ledger BY <1>1, <1>7
  <2>2. <<>> \in Seq(ContractFile) /\ <<>> \in Seq(CrateRoot) OBVIOUS
  <2>3. IsFiniteSet({}) BY FS_EmptySet
  <2>4. ledger'.entries \in Nat /\ ledger'.total \in Nat BY <2>1 DEF Ledger
  <2>5. /\ root' \in ContractsRoot /\ before'[1] \in ContractsRoot /\ IsArchive(stored)' /\ IsArchive(before[2])'
    BY <1>2, <1>3 DEF CommandTypeOK
  <2>6. limits' \in [entries : Nat, total : Nat, file : Nat] /\ ceiling' \in [Resources -> Nat]
    BY <1>3 DEF CommandTypeOK
  <2>7. catalog' \in Seq(ContractFile) /\ previous' \in Seq(ContractFile) /\ crates' \in Seq(CrateRoot)
    BY <1>1, <2>2, Zenon
  <2>8. sources' \subseteq DOMAIN tree' \cup layout'.sources /\ IsFiniteSet(sources') BY <1>1, <2>3
  <2>9. CommandTypeOK' BY <1>4, <1>5, <2>4, <2>5, <2>6, <2>7, <2>8 DEF CommandTypeOK
  <2>10. layout' = Loaded(<<>>, ceiling') BY <1>1, Zenon
  <2> QED BY <2>1, <2>9, <2>10, Zenon DEF Typed
<1>9. KitsAreToldTheTruth' BY <1>1, NotAsked
<1>10. Quietly' BY DEF Quietly, Refusals
<1>11. LedgerIsExact' /\ LaterCommandsAgree' BY <1>10, NothingSaid, PTL
<1>12. (stored.kind = "archive" => WellPacked(stored))' /\ (fresh.kind = "fresh" => Established(fresh))'
  BY PackedKept DEF UnderWay, Settled
<1>13. Course'
  <2>1. CASE phase' = "over"
    <3>1. (phase = "over")' BY <2>1
    <3> QED BY <3>1, Over, PTL
  <2>2. CASE phase' = "contracts"
    <3>1. Nothing' /\ asked' = {} /\ layout' = Loaded(<<>>, ceiling') BY <1>1, Zenon DEF Nothing
    <3>2. PaidSoFar(<<>>)' BY <1>1, <1>7 DEF PaidSoFar, NothingRead
    <3> QED BY <1>4, <2>2, <3>1, <3>2 DEF Course, Phases
  <2> QED BY <2>1, <2>2
<1> QED BY <1>8, <1>9, <1>11, <1>12, <1>13 DEF Settled

LEMMA BeginStep == ASSUME UnderWay, Begin PROVE Settled' /\ Course'
<1>1. /\ UNCHANGED <<disk, tree, limits, ceiling, fresh>> /\ Forget /\ queue # <<>> /\ Head(queue).verb # "edit"
      /\ command' = Head(queue) /\ queue' = Tail(queue)
      /\ phase' \in {"over", "contracts"} /\ result' \in {"none", "overlap"}
  BY DEF Begin, Stop
<1>2. UNCHANGED <<root, stored, tree>> BY <1>1 DEF disk
<1>3. root' \in ContractsRoot /\ IsTree(tree)'
  <2>1. root \in ContractsRoot /\ IsTree(tree) BY DEF UnderWay, Settled, Typed, CommandTypeOK
  <2> QED BY <1>2, <2>1 DEF IsTree
<1> QED BY <1>1, <1>2, <1>3, Begun

LEMMA EditStep == ASSUME UnderWay, Edit PROVE Settled' /\ Course'
<1>1. /\ UNCHANGED <<stored, limits, ceiling, fresh>> /\ Forget /\ queue # <<>> /\ Head(queue).verb = "edit"
      /\ command' = Head(queue) /\ queue' = Tail(queue)
      /\ root' = [root EXCEPT !.files = Head(queue).files] /\ tree' = Head(queue).tree
      /\ phase' = "over" /\ result' = "none"
  BY DEF Edit
<1>2. Typed /\ root \in ContractsRoot BY DEF UnderWay, Settled, Typed, CommandTypeOK
<1>3. IsCommand(Head(queue)) BY <1>1, <1>2, NextInQueue
<1>4. Head(queue).files \in Seq(ContractFile) /\ IsTree(Head(queue).tree) BY <1>1, <1>3 DEF IsCommand
<1>5. root' \in ContractsRoot BY <1>1, <1>2, <1>4 DEF ContractsRoot
<1>6. IsTree(tree)' BY <1>1, <1>4 DEF IsTree
<1> QED BY <1>1, <1>5, <1>6, Begun

\* What an archive adds to what has been read.
LEMMA ArchiveList ==
    ASSUME Typed, command.verb = "diff", stored # NoArchive
    PROVE  /\ stored.packing.compressed \in Nat /\ stored.files \in Seq(ContractFile)
           /\ SizesOf(stored.files) \in Seq(Size) /\ Unavailable \notin ToSet(SizesOf(stored.files))
           /\ Append(ContractsRead, stored.packing.compressed) \in Seq(Size)
           /\ Unavailable \notin ToSet(Append(ContractsRead, stored.packing.compressed))
           /\ ReadingList = Append(ContractsRead, stored.packing.compressed) \o SizesOf(stored.files)
<1> DEFINE n == stored.packing.compressed
<1>1. n \in Nat /\ stored.files \in Seq(ContractFile) BY DEF Typed, CommandTypeOK, IsArchive
<1>2. <<n>> \in Seq(Size) /\ SizesOf(stored.files) \in Seq(Size) /\ Unavailable \notin ToSet(SizesOf(stored.files))
  BY <1>1, OneSized, FilesSized
<1>3. ContractsRead \in Seq(Size) /\ Unavailable \notin ToSet(ContractsRead) BY Lists
<1>4. ReadingList = ContractsRead \o (<<n>> \o SizesOf(stored.files)) BY ReadingListIs DEF ArchiveRead
<1> HIDE DEF n
<1>5. n \in Size /\ n # Unavailable BY <1>1 DEF Size, Unavailable
<1>6. PICK m \in Seq(Size) : m = <<n>> BY <1>2
<1>7. PICK p \in Seq(Size) : p = SizesOf(stored.files) BY <1>2
<1>8. PICK q \in Seq(Size) : q = ContractsRead BY <1>3
<1>9. (q \o m) \o p = q \o (m \o p) BY InARow
<1>10. q \o <<n>> = Append(q, n) OBVIOUS
<1>11. q \o m = Append(q, n) BY <1>6, <1>10, Zenon
<1>12. ReadingList = q \o (m \o p) BY <1>4, <1>6, <1>7, <1>8, Zenon
<1>13. ReadingList = Append(q, n) \o p BY <1>9, <1>11, <1>12, Zenon
<1>14. Append(q, n) \in Seq(Size) /\ ToSet(Append(q, n)) = ToSet(q) \cup {n} BY <1>5, Members
<1>15. Unavailable \notin ToSet(Append(q, n)) BY <1>3, <1>5, <1>8, <1>14
<1> QED BY <1>1, <1>2, <1>7, <1>8, <1>13, <1>14, <1>15, Zenon DEF n

\* A diff finds fault with no archive that archive has written.
LEMMA LaterArchive ==
    ASSUME command.verb = "diff", result # "layout", result = "archive" => stored.kind # "archive"
    PROVE  LaterCommandsAgree
BY DEF LaterCommandsAgree

LEMMA DecodeStep == ASSUME UnderWay, Decode PROVE Settled' /\ Course'
<1>1. /\ phase = "decode" /\ UNCHANGED <<disk, world, catalog, layout, extracted, produced, answers>>
  BY DEF Decode, Runs
<1>2. Still BY <1>1, RunsStill
<1>3. /\ UNCHANGED <<root, stored, tree, limits, ceiling, command, before, fresh, asked, catalog,
                     layout, sources, input, crates, kits>>
      /\ asked = {} /\ command.verb = "diff" /\ Known /\ PaidSoFar(ContractsRead)
      /\ IsCommand(command) /\ result = "none"
  BY <1>1, <1>2 DEF Still, extracted, answers, UnderWay, Course, Roles
<1>4. Typed /\ CommandTypeOK /\ limits \in Budget
  BY DEF UnderWay, Settled, Typed, CommandTypeOK, Budget
<1>5. KitsAreToldTheTruth' BY <1>3, NotAsked
<1>6. ASSUME ledger' \in Ledger, previous' \in Seq(ContractFile) PROVE Typed'
  BY <1>2, <1>3, <1>4, <1>6, TypedOn DEF Typed, CommandTypeOK
<1>7. previous \in Seq(ContractFile) /\ ledger \in Ledger BY <1>4 DEF Typed, CommandTypeOK
<1>8. ASSUME stored.kind = "archive"
      PROVE  /\ stored # NoArchive /\ Decodes(stored) /\ stored.clean
             /\ ~(stored.packing.compressed > Wire.compressed)
  <2>1. WellPacked(stored) BY <1>8 DEF UnderWay, Settled
  <2>2. stored # NoArchive BY <1>8 DEF NoArchive
  <2>3. stored.packing.compressed \in Nat BY <1>3, <1>4, <2>2, ArchiveList
  <2>4. Wire.compressed \in Nat BY PackingsAssumption
  <2> QED BY <2>1, <2>2, <2>3, <2>4 DEF WellPacked, Decodes, FitsWire
<1>9. ASSUME phase' = "over", result' # "layout", result' = "archive" => stored.kind # "archive"
      PROVE  LaterCommandsAgree' /\ Course'
  <2>1. (command.verb = "diff" /\ result # "layout" /\ (result = "archive" => stored.kind # "archive"))'
    BY <1>3, <1>9
  <2>2. (phase = "over")' BY <1>9
  <2> QED BY <2>1, <2>2, LaterArchive, Over, PTL
<1> DEFINE n == stored.packing.compressed
           opened == Charge(ledger, n)
           entries == ChargeAll(opened, SizesOf(stored.files))
<1>10. CASE Stop("io") /\ UNCHANGED <<ledger, previous>>
  <2>1. phase' = "over" /\ result' = "io" /\ ledger' \in Ledger /\ previous' \in Seq(ContractFile)
    BY <1>7, <1>10 DEF Stop
  <2>2. Quietly' BY <2>1 DEF Quietly, Refusals
  <2> QED BY <1>2, <1>5, <1>6, <1>9, <2>1, <2>2, SettledQuietly DEF UnderWay
<1>11. CASE Stop("archive") /\ stored.kind # "archive" /\ ledger' \in Ledger /\ UNCHANGED previous
  <2>1. phase' = "over" /\ result' = "archive" /\ previous' \in Seq(ContractFile) BY <1>7, <1>11 DEF Stop
  <2>2. (phase # "print" /\ result \notin {"passed", "failed", "limit"})' BY <2>1
  <2>3. LedgerIsExact' BY <2>2, LedgerQuiet, PTL
  <2> QED BY <1>2, <1>5, <1>6, <1>9, <1>11, <2>1, <2>3, SettledOn DEF UnderWay
<1>12. CASE stored # NoArchive
  <2>1. /\ n \in Nat /\ stored.files \in Seq(ContractFile) /\ SizesOf(stored.files) \in Seq(Size)
        /\ Unavailable \notin ToSet(SizesOf(stored.files))
        /\ Append(ContractsRead, n) \in Seq(Size) /\ Unavailable \notin ToSet(Append(ContractsRead, n))
        /\ ReadingList = Append(ContractsRead, n) \o SizesOf(stored.files)
    BY <1>3, <1>4, <1>12, ArchiveList
  <2>2. PaidFor(opened, Append(ContractsRead, n))
    <3>1. ContractsRead \in Seq(Size) BY <1>4, Lists
    <3>2. PaidFor(ledger, ContractsRead) BY <1>3 DEF PaidSoFar
    <3>3. n \in Size BY <2>1 DEF Size
    <3> HIDE DEF n
    <3> QED BY <1>4, <3>1, <3>2, <3>3, PaidOneMore
  <2>3. PaidFor(entries, ReadingList)
    <3>1. PICK s \in Seq(Size) : s = Append(ContractsRead, n) BY <2>1
    <3>2. PaidFor(opened, s) BY <2>2, <3>1, Zenon
    <3>3. PICK t \in Seq(Size) : t = SizesOf(stored.files) BY <2>1
    <3> HIDE DEF opened
    <3>4. PaidFor(ChargeAll(opened, t), s \o t) BY <1>4, <3>2, ChargedExactly
    <3> QED BY <2>1, <3>1, <3>3, <3>4, Zenon
  <2>4. opened \in Ledger /\ entries \in Ledger /\ opened.stopped # "sources" /\ entries.stopped # "sources"
    <3>1. Unavailable \notin ToSet(ReadingList)
      <4>1. PICK s \in Seq(Size) : s = Append(ContractsRead, n) BY <2>1
      <4>2. PICK t \in Seq(Size) : t = SizesOf(stored.files) BY <2>1
      <4>3. ToSet(s \o t) = ToSet(s) \cup ToSet(t) BY Members
      <4>4. ToSet(ReadingList) = ToSet(s) \cup ToSet(t) BY <2>1, <4>1, <4>2, <4>3, Zenon
      <4> QED BY <2>1, <4>1, <4>2, <4>4
    <3> QED BY <2>1, <2>2, <2>3, <3>1 DEF PaidFor
  <2>5. Append(ContractsRead, n)' = Append(ContractsRead, n) /\ ReadingList' = ReadingList
    BY <1>3, ListsKept
  <2> HIDE DEF opened, entries
  <2>6. CASE opened.stopped # "none" /\ ledger' = opened /\ Stop("limit") /\ UNCHANGED previous
    <3>1. opened.stopped = "limit" BY <2>4, <2>6 DEF Ledger
    <3>2. phase' = "over" /\ result' = "limit" /\ ledger' \in Ledger /\ previous' \in Seq(ContractFile)
      BY <1>7, <2>4, <2>6 DEF Stop
    <3>3. Spent(Append(ContractsRead, n))' BY <1>3, <2>2, <2>5, <2>6, <3>1, <3>2, SpentNow
    <3>4. (command.verb = "diff" /\ stored # NoArchive /\ Spent(Append(ContractsRead, stored.packing.compressed)))'
      BY <1>3, <1>12, <3>3
    <3>5. Typed' BY <1>6, <3>2
    <3>6. LedgerIsExact' BY <3>4, <3>5, LedgerSpent, PTL
    <3> QED BY <1>2, <1>5, <1>9, <3>2, <3>5, <3>6, SettledOn DEF UnderWay
  <2>7. CASE entries.stopped # "none" /\ ledger' = entries /\ Stop("limit") /\ UNCHANGED previous
    <3>1. entries.stopped = "limit" BY <2>4, <2>7 DEF Ledger
    <3>2. phase' = "over" /\ result' = "limit" /\ ledger' \in Ledger /\ previous' \in Seq(ContractFile)
      BY <1>7, <2>4, <2>7 DEF Stop
    <3>3. Spent(ReadingList)' BY <1>3, <2>3, <2>5, <2>7, <3>1, <3>2, SpentNow
    <3>4. Typed' BY <1>6, <3>2
    <3>5. LedgerIsExact' BY <3>3, <3>4, LedgerSpent, PTL
    <3> QED BY <1>2, <1>5, <1>9, <3>2, <3>4, <3>5, SettledOn DEF UnderWay
  <2>8. CASE entries.stopped = "none" /\ ledger' = entries /\ previous' = stored.files /\ Move("revalidate")
    <3>1. phase' = "revalidate" /\ result' = "none" BY <1>3, <2>8 DEF Move
    <3>2. Typed' BY <1>6, <2>1, <2>4, <2>8
    <3>3. Quietly' BY <3>1 DEF Quietly, Refusals
    <3>4. PaidSoFar(ReadingList)' BY <1>3, <2>3, <2>5, <2>8, <3>1, SpentNow
    <3>5. Decoded' BY <1>3, <1>12, <2>8, <3>4 DEF Decoded, Known
    <3>6. IsCommand(command)' BY <1>3
    <3>7. Course' BY <1>3, <3>1, <3>5, <3>6 DEF Course, Phases
    <3> QED BY <1>2, <1>5, <3>2, <3>3, <3>7, SettledQuietly DEF UnderWay
  <2>9. CASE Stop("archive") /\ UNCHANGED previous /\ stored.kind # "archive" /\ ledger' \in {ledger, opened, entries}
    BY <1>7, <1>11, <2>4, <2>9
  <2>10. \/ Stop("archive") /\ UNCHANGED <<ledger, previous>> /\ n > Wire.compressed
         \/ opened.stopped # "none" /\ ledger' = opened /\ Stop("limit") /\ UNCHANGED previous
         \/ ledger' = opened /\ Stop("archive") /\ UNCHANGED previous /\ ~Decodes(stored)
         \/ entries.stopped # "none" /\ ledger' = entries /\ Stop("limit") /\ UNCHANGED previous
         \/ ledger' = entries /\ Stop("archive") /\ UNCHANGED previous /\ ~stored.clean
         \/ entries.stopped = "none" /\ ledger' = entries /\ previous' = stored.files /\ Move("revalidate")
    <3> HIDE DEF n
    <3>1. \/ Stop("archive") /\ UNCHANGED <<ledger, previous>> /\ n > Wire.compressed
          \/ opened.stopped # "none" /\ ledger' = opened /\ Stop("limit") /\ UNCHANGED previous
          \/ opened.stopped = "none" /\ ~Decodes(stored) /\ ledger' = opened /\ Stop("archive") /\ UNCHANGED previous
          \/ /\ ledger' = entries
             /\ \/ entries.stopped # "none" /\ Stop("limit") /\ UNCHANGED previous
                \/ ~stored.clean /\ Stop("archive") /\ UNCHANGED previous
                \/ entries.stopped = "none" /\ stored.clean /\ previous' = stored.files /\ Move("revalidate")
      BY <1>12, Zenon DEF Decode, opened, entries, n
    <3> QED BY <3>1
  <2> QED BY <1>8, <2>6, <2>7, <2>8, <2>9, <2>10
<1>13. stored = NoArchive => Stop("io") /\ UNCHANGED <<ledger, previous>> BY DEF Decode
<1> QED BY <1>10, <1>12, <1>13

LEMMA PreparedKept ==
    ASSUME UNCHANGED <<tree, limits, ceiling, command, before, catalog, layout, sources, input, crates, ledger>>
    PROVE  /\ Prepared => Prepared'
           /\ UNCHANGED <<stored, previous>> => (Decoded => Decoded')
           /\ UNCHANGED previous => Handed' = Handed
           /\ FreshDocument' = FreshDocument /\ Establishing' = Establishing /\ SketchesOnly' = SketchesOnly
<1>1. /\ Known' = Known /\ Laid' = Laid /\ Gathered' = Gathered /\ Extracts' = Extracts
      /\ Extracted' = Extracted /\ SketchesOnly' = SketchesOnly /\ Establishing' = Establishing
  BY DEF Known, Laid, Gathered, Extracts, Extracted, SketchesOnly, Establishing, IsEmpty, Unusable
<1>2. AllRead' = AllRead /\ (UNCHANGED stored => ReadingList' = ReadingList) BY ListsKept
<1>3. \A list : PaidSoFar(list) => PaidSoFar(list)' BY PaidKept
<1>4. Prepared => Prepared' BY <1>1, <1>2, <1>3 DEF Prepared
<1>5. UNCHANGED <<stored, previous>> => (Decoded => Decoded') BY <1>1, <1>2, <1>3 DEF Decoded
<1>6. FreshDocument' = FreshDocument BY DEF FreshDocument
<1>7. UNCHANGED previous => Handed' = Handed BY <1>1 DEF Handed, FreshFile, FreshDocument
<1> QED BY <1>1, <1>4, <1>5, <1>6, <1>7

\* What is accepted alone and not twice uses more than half of the ceiling.
MoreThanHalf(files, ceil) == \E r \in Resources : 2 * Total(files, r) > ceil[r]
LEMMA TwiceRefused ==
    ASSUME NEW c \in Seq(ContractFile), NEW ceil \in Amounts, Validate(Unread(ceil), c).error = "none",
           Validate(Validate(Unread(ceil), c), c).error # "none"
    PROVE  MoreThanHalf(DirectFiles(c), ceil)
<1>1. PICK z \in Seq(ContractFile) : z = <<>>
  <2>1. <<>> \in Seq(ContractFile) OBVIOUS
  <2> QED BY <2>1
<1>2. PICK d \in Seq(ContractFile) : d = DirectFiles(c)
  <2>1. DirectFiles(c) \in Seq(ContractFile) BY DirectAppended
  <2> QED BY <2>1
<1>3. Reads(Unread(ceil), z, ceil, TRUE) BY <1>1, NothingReads, Zenon
<1>4. Reads(Validate(Unread(ceil), c), z \o DirectFiles(c), ceil, TRUE) BY <1>3, ValidateReads
<1>5. z \o d = d
  <2>1. <<>> \o d = d OBVIOUS
  <2> QED BY <1>1, <2>1, Zenon
<1>6. Reads(Validate(Unread(ceil), c), d, ceil, TRUE) BY <1>2, <1>4, <1>5, Zenon
<1>7. Reads(Validate(Validate(Unread(ceil), c), c), d \o DirectFiles(c), ceil, TRUE) BY <1>6, ValidateReads
<1>8. Reads(Validate(Validate(Unread(ceil), c), c), d \o d, ceil, TRUE) BY <1>2, <1>7, Zenon
<1>9. Accepts(d, ceil) BY <1>6 DEF Reads
<1>10. ~Accepts(d \o d, ceil) BY <1>8 DEF Reads
<1>11. \E r \in Resources : 2 * Total(d, r) > ceil[r] BY <1>9, <1>10, ReadableTwice
<1>12. MoreThanHalf(d, ceil) BY <1>11 DEF MoreThanHalf
<1> QED BY <1>2, <1>12, Zenon

LEMMA LaterRefused ==
    ASSUME command.verb = "diff", result = "layout",
           stored.kind = "archive" /\ stored.files = root.files => MoreThanHalf(DirectFiles(root.files), ceiling)
    PROVE  LaterCommandsAgree
BY DEF LaterCommandsAgree, MoreThanHalf

LEMMA ValidatePreviousStep == ASSUME UnderWay, ValidatePrevious PROVE Settled' /\ Course'
<1>1. /\ phase = "revalidate" /\ UNCHANGED <<disk, world, ledger, contracts, extracted, produced, verdicts, asked>>
  BY DEF ValidatePrevious, Runs
<1>2. Still BY <1>1, RunsStill
<1>3. /\ UNCHANGED <<root, stored, tree, limits, ceiling, command, before, fresh, asked, catalog, previous,
                     layout, sources, input, crates, ledger>>
      /\ asked = {} /\ Decoded /\ command.verb = "diff" /\ IsCommand(command) /\ result = "none"
  BY <1>1, <1>2 DEF Still, extracted, contracts, UnderWay, Course, Roles, Decoded
<1>4. root = before[1] BY <1>1 DEF UnderWay, DiskIsTouchedLast, disk
<1>5. Typed' BY <1>2, <1>3, TypedStays DEF UnderWay, Settled
<1>6. KitsAreToldTheTruth' BY <1>3, NotAsked
<1> DEFINE sound == Validate(Validate(Unread(ceiling), catalog), previous).error = "none"
<1>7. \/ sound /\ phase' = "ask" /\ result' = "none"
      \/ ~sound /\ phase' = "over" /\ result' = "layout"
  BY <1>3 DEF ValidatePrevious, Pass, Move, Stop
<1>8. CASE sound /\ phase' = "ask" /\ result' = "none"
  <2>1. Quietly' BY <1>8 DEF Quietly, Refusals
  <2>2. Decoded' BY <1>3, PreparedKept
  <2>3. IsCommand(command)' /\ (command.verb = "diff")' BY <1>3
  <2>4. Course' BY <1>8, <2>2, <2>3 DEF Course, Phases
  <2> QED BY <1>2, <1>5, <1>6, <2>1, <2>4, SettledQuietly DEF UnderWay
<1>9. CASE ~sound /\ phase' = "over" /\ result' = "layout"
  <2>1. (phase = "over" /\ phase # "print" /\ result \notin {"passed", "failed", "limit"})' BY <1>9
  <2>2. LedgerIsExact' /\ Course' BY <2>1, LedgerQuiet, Over, PTL
  <2>3. ASSUME stored.kind = "archive", stored.files = root.files
        PROVE  MoreThanHalf(DirectFiles(root.files), ceiling)
    <3>1. root.files \in Seq(ContractFile) /\ ceiling \in Amounts
      BY DEF UnderWay, Settled, Typed, CommandTypeOK, ContractsRoot, Amounts
    <3>2. catalog = root.files /\ previous = root.files BY <1>3, <1>4, <2>3 DEF Decoded, Known
    <3>3. Validate(Unread(ceiling), root.files).error = "none"
      BY <2>3, Zenon DEF UnderWay, Settled, WellPacked
    <3>4. Validate(Validate(Unread(ceiling), root.files), root.files).error # "none"
      BY <1>9, <3>2, Zenon
    <3>5. PICK c \in Seq(ContractFile) : c = root.files BY <3>1
    <3>6. PICK a \in Amounts : a = ceiling BY <3>1
    <3>7. Validate(Unread(a), c).error = "none" /\ Validate(Validate(Unread(a), c), c).error # "none"
      BY <3>3, <3>4, <3>5, <3>6, Zenon
    <3>8. MoreThanHalf(DirectFiles(c), a) BY <3>7, TwiceRefused
    <3> QED BY <3>5, <3>6, <3>8, Zenon
  <2>4. (stored.kind = "archive" /\ stored.files = root.files => MoreThanHalf(DirectFiles(root.files), ceiling))'
    BY <1>3, <2>3
  <2>5. (command.verb = "diff" /\ result = "layout")' BY <1>3, <1>9
  <2>6. LaterCommandsAgree' BY <2>4, <2>5, LaterRefused, PTL
  <2> QED BY <1>2, <1>5, <1>6, <2>2, <2>6, SettledOn DEF UnderWay
<1> QED BY <1>7, <1>8, <1>9

-----------------------------------------------------------------------------
(* Ask *)

LEMMA ToldStill ==
    ASSUME UNCHANGED <<command, before, layout, tree>>, NEW a
    PROVE  ToldTruth(a)' <=> ToldTruth(a)
BY DEF ToldTruth, DocumentsAsked, Establishing, IsEmpty

\* The kits that are left.
LEMMA KitsLeft ==
    ASSUME NEW E, NEW s \in Seq(E), Len(s) > 1
    PROVE  Tail(s) \in Seq(E) /\ Tail(s) # <<>>
<1>1. PICK t \in Seq(E) : t = Tail(s)
  <2>1. Tail(s) \in Seq(E) OBVIOUS
  <2> QED BY <2>1
<1>2. Len(t) = Len(s) - 1 /\ Len(s) \in Nat
  <2>1. Len(Tail(s)) = Len(s) - 1 /\ Len(s) \in Nat OBVIOUS
  <2> QED BY <1>1, <2>1, Zenon
<1>3. Len(t) # 0
  <2>1. PICK n \in Nat : n = Len(s) BY <1>2, Zenon
  <2>2. n > 1 BY <2>1, Zenon
  <2>3. n - 1 # 0 BY <2>1, <2>2
  <2> QED BY <1>2, <2>1, <2>3, Zenon
<1>4. t # <<>>
  <2>1. Len(<<>>) = 0 OBVIOUS
  <2> QED BY <1>3, <2>1, Zenon
<1> QED BY <1>1, <1>4

LEMMA AskStep == ASSUME UnderWay, Ask PROVE Settled' /\ Course'
<1>1. phase = "ask" /\ UNCHANGED <<disk, world, ledger, contracts, extracted>>
  BY DEF Ask, Runs
<1>2. Still BY <1>1, RunsStill
<1>3. /\ UNCHANGED <<root, stored, tree, limits, ceiling, command, before, fresh, catalog, previous,
                     layout, sources, input, crates, ledger>>
      /\ (Prepared \/ Decoded) /\ IsCommand(command) /\ command.verb # "edit" /\ result = "none"
      /\ command.verb = "check" /\ SketchesOnly => kits \in Seq({"sketch"}) /\ kits # <<>>
      /\ disk = before
  BY <1>1, <1>2 DEF Still, extracted, contracts, UnderWay, Course, Roles, DiskIsTouchedLast
<1>4. Typed' BY <1>2, <1>3, TypedStays DEF UnderWay, Settled
<1>5. asked' = asked \cup {Question(Head(kits))} /\ kits' = Tail(kits) BY DEF Ask, Question
<1>6. KitsAreToldTheTruth'
  <2>1. command.verb = "check" /\ SketchesOnly => Head(kits) = "sketch" BY <1>3
  <2>2. ToldTruth(Question(Head(kits))) BY <1>3, <2>1, AskedTruth DEF UnderWay, Settled
  <2>3. \A a \in asked : ToldTruth(a) BY AllTold DEF UnderWay, Settled
  <2>4. \A a \in asked' : ToldTruth(a) BY <1>5, <2>2, <2>3
  <2>5. \A a \in asked' : ToldTruth(a)' BY <1>3, <2>4, ToldStill
  <2>6. (\A a \in asked : ToldTruth(a))' BY <2>5
  <2> QED BY <2>6, AllTold, PTL
<1>7. /\ Prepared => Prepared'
      /\ Decoded => Decoded'
      /\ Handed' = Handed
      /\ FreshDocument' = FreshDocument /\ Establishing' = Establishing /\ SketchesOnly' = SketchesOnly
  BY <1>3, PreparedKept
<1>8. CASE Stop("kit")
  <2>1. phase' = "over" /\ result' = "kit" BY <1>8 DEF Stop
  <2>2. Quietly' BY <2>1 DEF Quietly, Refusals
  <2>3. (phase = "over")' BY <2>1
  <2>4. Course' BY <2>3, Over, PTL
  <2> QED BY <1>2, <1>4, <1>6, <2>2, <2>4, SettledQuietly DEF UnderWay
<1> DEFINE next == IF Len(kits) > 1 THEN "ask" ELSE IF command.verb = "diff" THEN "print" ELSE "commit"
<1>9. CASE /\ Establishing => HeaderIsSound(FreshDocument)
           /\ produced' = (IF command.verb = "generate" THEN Handed ELSE produced)
           /\ Move(next)
  <2>1. phase' = next /\ result' = "none" BY <1>3, <1>9 DEF Move
  <2>2. (IsCommand(command) /\ command.verb # "edit")' BY <1>3
  <2>3. CASE Len(kits) > 1
    <3>1. phase' = "ask" BY <2>1, <2>3
    <3>2. kits \in Seq({"sketch"}) /\ kits # <<>> => kits' \in Seq({"sketch"}) /\ kits' # <<>>
      BY <1>5, <2>3, KitsLeft
    <3>3. command'.verb = "check" /\ SketchesOnly' => kits' \in Seq({"sketch"}) /\ kits' # <<>>
      BY <1>3, <1>7, <3>2
    <3>4. Prepared' \/ Decoded' BY <1>3, <1>7
    <3>5. Course' BY <2>2, <3>1, <3>3, <3>4 DEF Course, Phases
    <3>6. Quietly' BY <2>1, <3>1 DEF Quietly, Refusals
    <3> QED BY <1>2, <1>4, <1>6, <3>5, <3>6, SettledQuietly DEF UnderWay
  <2>4. CASE ~(Len(kits) > 1) /\ command.verb = "diff"
    <3>1. phase' = "print" BY <2>1, <2>4
    <3>2. Decoded' BY <1>3, <1>7, <2>4 DEF Prepared, Gathered, Extracts
    <3>3. (PaidSoFar(ReadingList) /\ result # "limit")' BY <2>1, <3>2 DEF Decoded
    <3>4. LedgerIsExact' BY <3>3, LedgerPaid, PTL
    <3>5. (result \notin Refusals /\ result \notin {"archive", "layout"})' BY <2>1 DEF Refusals
    <3>6. LaterCommandsAgree' BY <3>5, LaterQuiet, PTL
    <3>7. Course' BY <2>2, <3>1, <3>3 DEF Course, Phases
    <3> QED BY <1>2, <1>4, <1>6, <3>4, <3>6, <3>7, SettledOn DEF UnderWay
  <2>5. CASE ~(Len(kits) > 1) /\ command.verb # "diff"
    <3>1. phase' = "commit" BY <2>1, <2>5
    <3>2. Prepared' BY <1>3, <1>7, <2>5 DEF Decoded
    <3>3. (command.verb = "generate" => produced = Handed /\ (Establishing => HeaderIsSound(FreshDocument)))'
      BY <1>3, <1>7, <1>9
    <3>4. Quietly' BY <2>1, <3>1 DEF Quietly, Refusals
    <3>5. Course' BY <2>2, <3>1, <3>2, <3>3 DEF Course, Phases
    <3> QED BY <1>2, <1>4, <1>6, <3>4, <3>5, SettledQuietly DEF UnderWay
  <2> QED BY <2>3, <2>4, <2>5
<1> QED BY <1>8, <1>9 DEF Ask

LEMMA CommitReportStep == ASSUME UnderWay, CommitReport PROVE Settled' /\ Course'
<1>1. /\ phase = "commit" /\ UNCHANGED <<root, stored, world, ledger, contracts, extracted, produced, answers>>
      /\ command.verb = "check"
  BY DEF CommitReport, Runs
<1>2. /\ UNCHANGED <<root, stored, tree, limits, ceiling, queue, command, before, fresh, asked, catalog, previous,
                     layout, sources, input, crates, ledger>>
      /\ IsCommand(command) /\ result = "none" /\ (Prepared \/ Encoded)
  BY <1>1 DEF world, contracts, extracted, answers, UnderWay, Course, Roles
<1>3. Still BY <1>2 DEF Still
<1>4. Typed /\ Typed' BY <1>2, <1>3, TypedStays DEF UnderWay, Settled
<1>5. KitsAreToldTheTruth' BY <1>2, <1>3, AskedStay DEF UnderWay
<1>6. PaidSoFar(ReadingList)'
  <2>1. ReadingList = AllRead BY <1>1, <1>4, ReadingListIs
  <2>2. PaidSoFar(ReadingList) BY <1>1, <1>2, <2>1 DEF Prepared, Encoded
  <2>3. ReadingList' = ReadingList BY <1>2, ListsKept
  <2> QED BY <1>2, <2>2, <2>3, PaidKept
<1>7. \/ phase' = "over" /\ result' \in {"report", "failed"}
      \/ phase' = "print" /\ result' = "none"
  BY <1>2 DEF CommitReport, Pass, Move, Stop
<1>8. (PaidSoFar(ReadingList) /\ result # "limit")' BY <1>6, <1>7
<1>9. LedgerIsExact' BY <1>8, LedgerPaid, PTL
<1>10. (result \notin Refusals /\ result \notin {"archive", "layout"})' BY <1>7 DEF Refusals
<1>11. LaterCommandsAgree' BY <1>10, LaterQuiet, PTL
<1>12. Course'
  <2>1. CASE phase' = "over"
    <3>1. (phase = "over")' BY <2>1
    <3> QED BY <3>1, Over, PTL
  <2>2. CASE phase' = "print"
    <3>1. IsCommand(command)' /\ (command.verb # "edit")' BY <1>1, <1>2
    <3> QED BY <1>6, <2>2, <3>1 DEF Course, Phases
  <2> QED BY <1>7, <2>1, <2>2
<1> QED BY <1>3, <1>4, <1>5, <1>9, <1>11, <1>12, SettledOn DEF UnderWay

LEMMA CommitArchiveStep == ASSUME UnderWay, CommitArchive PROVE Settled' /\ Course'
<1>1. /\ phase = "commit" /\ UNCHANGED <<root, report, world, ledger, contracts, extracted, produced, answers>>
      /\ command.verb = "archive"
  BY DEF CommitArchive, Runs
<1>2. /\ UNCHANGED <<root, tree, limits, ceiling, queue, command, before, fresh, asked, catalog, previous,
                     layout, sources, input, crates, ledger>>
      /\ IsCommand(command) /\ result = "none" /\ Encoded
  BY <1>1 DEF world, contracts, extracted, answers, UnderWay, Course, Roles, Prepared, Gathered, Extracts
<1>3. Typed /\ CommandTypeOK BY DEF UnderWay, Settled, Typed
<1>4. KitsAreToldTheTruth' BY <1>2, KitsKept DEF UnderWay, Settled
<1>5. CASE Stop("publication") /\ UNCHANGED stored
  <2>1. Still /\ phase' = "over" /\ result' = "publication" BY <1>2, <1>5 DEF Still, Stop
  <2>2. Typed' BY <1>2, <1>3, <2>1, TypedStays
  <2>3. Quietly' BY <2>1 DEF Quietly, Refusals
  <2>4. (phase = "over")' BY <2>1
  <2>5. Course' BY <2>4, Over, PTL
  <2> QED BY <1>4, <2>1, <2>2, <2>3, <2>5, SettledQuietly DEF UnderWay
<1>6. CASE stored' = produced[1] /\ Move("print")
  <2>1. phase' = "print" /\ result' = "none" BY <1>2, <1>6 DEF Move
  <2>2. IsArchive(stored)' /\ WellPacked(produced[1]) BY <1>2, <1>6 DEF Encoded, IsArchive
  <2>3. CommandTypeOK' BY <1>2, <1>3, <2>2, Zenon DEF CommandTypeOK
  <2>4. Typed' BY <1>2, <1>3, <2>3, Zenon DEF Typed
  <2>5. WellPacked(stored)' BY <1>2, <1>6, <2>2 DEF WellPacked, FitsWire
  <2>6. (fresh.kind = "fresh" => Established(fresh))' BY <1>2, Zenon DEF UnderWay, Settled
  <2>7. PaidSoFar(ReadingList)'
    <3>1. (command.verb = "archive")' BY <1>1, <1>2
    <3>2. (ReadingList = ContractsRead)' BY <2>4, <3>1, ReadingListIs, PTL
    <3>3. ContractsRead' = ContractsRead BY <1>2, ListsKept
    <3> QED BY <1>2, <3>2, <3>3, PaidKept DEF Encoded
  <2>8. (PaidSoFar(ReadingList) /\ result # "limit")' BY <2>1, <2>7
  <2>9. LedgerIsExact' BY <2>8, LedgerPaid, PTL
  <2>10. (result \notin Refusals /\ result \notin {"archive", "layout"})' BY <2>1 DEF Refusals
  <2>11. LaterCommandsAgree' BY <2>10, LaterQuiet, PTL
  <2>12. Course'
    <3>1. IsCommand(command)' /\ (command.verb # "edit")' BY <1>1, <1>2
    <3> QED BY <2>1, <2>7, <3>1 DEF Course, Phases
  <2> QED BY <1>4, <2>4, <2>5, <2>6, <2>9, <2>11, <2>12 DEF Settled
<1> QED BY <1>5, <1>6 DEF CommitArchive

-----------------------------------------------------------------------------
(* The contracts are written *)

\* What the disk gets is a list of contracts, and a fresh layout has one document.
LEMMA Written ==
    ASSUME Typed, Prepared, command.verb = "generate", produced = Handed, root = before[1]
    PROVE  /\ Merged \in Seq(ContractFile)
           /\ Establishing => Established([kind |-> "fresh", by |-> command,
                                           root |-> [present |-> TRUE, files |-> Merged, manifest |-> 1]])
<1>1. /\ root.files \in Seq(ContractFile) /\ ceiling \in Amounts /\ catalog = root.files
      /\ layout = Loaded(catalog, ceiling) /\ layout.error = "none"
  BY DEF Typed, CommandTypeOK, ContractsRoot, Amounts, Prepared, Gathered, Laid, Known, Unusable
<1>2. DirectFiles(root.files) \in Seq(ContractFile) /\ layout.files = DirectFiles(root.files)
  <2>1. DirectFiles(root.files) \in Seq(ContractFile) BY <1>1, DirectAppended
  <2>2. PICK c \in Seq(ContractFile) : c = root.files BY <1>1
  <2>3. PICK a \in Amounts : a = ceiling BY <1>1
  <2>4. LoadIsExact(c, a, Loaded(c, a)) BY LoadedExactly
  <2>5. layout = Loaded(c, a) BY <1>1, <2>2, <2>3, Zenon
  <2>6. Loaded(c, a).error = "none" BY <1>1, <2>5, Zenon
  <2>7. Loaded(c, a).files = DirectFiles(c) BY <2>4, <2>6, Zenon DEF LoadIsExact
  <2> QED BY <2>1, <2>2, <2>5, <2>7, Zenon
<1>3. CASE Establishing
  <2>1. /\ FreshFile \in ContractFile /\ FreshFile.direct /\ FreshFile.documents = <<FreshDocument>>
        /\ FreshDocument \in Document /\ FreshDocument.extraction.kind = input.kind
        /\ input.kind = "compiler" => Len(FreshDocument.extraction.crates) = 1
    BY <1>3, FreshTyped
  <2>2. PICK f \in ContractFile : f = FreshFile BY <2>1
  <2>3. PICK s \in Seq(ContractFile) : s = root.files BY <1>1
  <2>4. DirectFiles(s) = <<>> BY <1>2, <1>3, <2>3, Zenon DEF Establishing, IsEmpty
  <2>5. f.direct BY <2>1, <2>2, Zenon
  <2>6. DirectFiles(Append(s, f)) = <<f>> /\ Append(s, f) \in Seq(ContractFile) BY <2>4, <2>5, OneDirect
  <2>7. produced = <<f>> BY <1>3, <2>2 DEF Handed
  <2>8. produced[1] = f BY <2>7
  <2>9. Merged = Append(s, f) BY <1>3, <2>3, <2>8, Zenon DEF Merged
  <2> DEFINE x == [kind |-> "fresh", by |-> command,
                   root |-> [present |-> TRUE, files |-> Merged, manifest |-> 1]]
  <2>10. x.root.files = Merged /\ x.by = command OBVIOUS
  <2> HIDE DEF x
  <2>11. DirectFiles(x.root.files) = <<f>> BY <2>6, <2>9, <2>10, Zenon
  <2>12. f.documents = <<FreshDocument>> BY <2>1, <2>2, Zenon
  <2>13. input.kind = command.extractor /\ input.kind \in {"syntax", "compiler"}
    BY <1>3 DEF Prepared, Extracted
  <2>14. \A g : <<g>>[1] = g OBVIOUS
  <2>15. DirectFiles(x.root.files)[1] = f BY <2>11, <2>14, Zenon
  <2>16. f.documents[1] = FreshDocument BY <2>12, <2>14, Zenon
  <2> DEFINE d == FreshDocument
  <2>17. /\ d \in Document /\ d.extraction.kind = x.by.extractor /\ x.by.extractor \in {"syntax", "compiler"}
         /\ d.extraction.kind = "compiler" => Len(d.extraction.crates) = 1
    BY <2>1, <2>10, <2>13
  <2> HIDE DEF d
  <2>18. Established(x) BY <2>11, <2>12, <2>15, <2>16, <2>17, Zenon DEF Established, d
  <2> QED BY <1>3, <2>6, <2>9, <2>18, Zenon DEF x
<1>4. CASE ~Establishing
  <2>1. produced = DirectFiles(root.files) BY <1>2, <1>4 DEF Handed
  <2>2. ToSet(DirectFiles(root.files)) = {f \in ToSet(root.files) : f.direct} BY <1>1, DirectMembers
  <2>3. \A f \in ToSet(root.files) : f \in ContractFile BY <1>1, Members
  <2>4. ASSUME NEW f \in ToSet(root.files), f.direct PROVE Replaced(f) \in ContractFile
    <3>1. \E g \in ToSet(produced) : g.path = f.path BY <2>1, <2>2, <2>4
    <3>2. Replaced(f) \in ToSet(produced) BY <3>1 DEF Replaced
    <3> QED BY <2>1, <2>2, <2>3, <3>2
  <2>5. \A i \in DOMAIN root.files : root.files[i] \in ToSet(root.files) BY <1>1 DEF ToSet
  <2>6. Merged = [i \in DOMAIN root.files |->
                    IF root.files[i].direct THEN Replaced(root.files[i]) ELSE root.files[i]]
    BY <1>4, Zenon DEF Merged
  <2>7. DOMAIN root.files = 1..Len(root.files) /\ Len(root.files) \in Nat BY <1>1
  <2>8. \A i \in DOMAIN root.files :
           (IF root.files[i].direct THEN Replaced(root.files[i]) ELSE root.files[i]) \in ContractFile
    BY <2>3, <2>4, <2>5
  <2>9. Merged \in Seq(ContractFile) BY <2>6, <2>7, <2>8
  <2> QED BY <1>4, <2>9
<1> QED BY <1>3, <1>4

\* What was paid for, and then three lists in a row.
LEMMA ChargedInARow ==
    ASSUME NEW l, NEW a \in Seq(Size), NEW b \in Seq(Size), NEW c \in Seq(Size),
           NEW d \in Seq(Size), limits \in Budget, PaidFor(l, a)
    PROVE  PaidFor(ChargeAll(l, (b \o c) \o d), ((a \o b) \o c) \o d)
<1> DEFINE u == b \o c
           t == u \o d
<1>1. u \in Seq(Size) OBVIOUS
<1>2. a \o u = (a \o b) \o c OBVIOUS
<1> HIDE DEF u
<1>3. t \in Seq(Size) BY <1>1
<1>4. a \o t = (a \o u) \o d BY <1>1
<1> HIDE DEF t
<1>5. PaidFor(ChargeAll(l, t), a \o t) BY <1>3, ChargedExactly
<1> QED BY <1>2, <1>4, <1>5, Zenon DEF t, u

LEMMA CommitGeneratedStep == ASSUME UnderWay, CommitGenerated PROVE Settled' /\ Course'
<1>1. /\ phase = "commit" /\ command.verb = "generate"
      /\ UNCHANGED <<stored, report, tree, limits, ceiling, queue, command, before, contracts,
                     extracted, produced, answers>>
  BY DEF CommitGenerated
<1>2. /\ UNCHANGED <<asked, catalog, previous, layout, sources, input, crates>>
      /\ IsCommand(command) /\ result = "none" /\ Prepared /\ disk = before
      /\ produced = Handed
  BY <1>1 DEF contracts, extracted, answers, UnderWay, Course, Roles, Encoded, DiskIsTouchedLast
<1>3. Typed /\ CommandTypeOK /\ limits \in Budget BY DEF UnderWay, Settled, Typed, CommandTypeOK, Budget
<1>4. root = before[1] BY <1>2 DEF disk
<1>5. KitsAreToldTheTruth' BY <1>1, <1>2, KitsKept DEF UnderWay, Settled
<1>6. ReadingList' = ReadingList BY <1>1, <1>2, ListsKept
<1>7. PaidFor(ledger', ReadingList)
  <2>1. ledger' = ChargeAll(ledger, ManifestSizes \o SizesOf(root.files) \o Outputs) BY DEF CommitGenerated
  <2>2. ManifestSizes = ManifestRead BY <1>4 DEF ManifestSizes, ManifestRead
  <2>3. PICK a \in Seq(Size) : a = AllRead BY <1>3, Lists
  <2>4. PICK m \in Seq(Size) : m = ManifestRead BY <1>3, Lists
  <2>5. PICK s \in Seq(Size) : s = SizesOf(before[1].files) BY <1>3, Lists
  <2>6. PICK o \in Seq(Size) : o = Outputs BY <1>3, Lists
  <2>7. SizesOf(root.files) = s BY <1>4, <2>5
  <2>8. ledger' = ChargeAll(ledger, (m \o s) \o o) BY <2>1, <2>2, <2>4, <2>6, <2>7, Zenon
  <2>9. PaidFor(ledger, a) BY <1>2, <2>3 DEF Prepared, PaidSoFar
  <2>10. PaidFor(ChargeAll(ledger, (m \o s) \o o), ((a \o m) \o s) \o o)
    BY <1>3, <2>9, ChargedInARow
  <2>11. ReadingList = ((a \o m) \o s) \o o
    <3>1. ReadingList = ((AllRead \o ManifestRead) \o SizesOf(before[1].files)) \o Outputs
      BY <1>1, <1>3, ReadingListIs
    <3> QED BY <2>3, <2>4, <2>5, <2>6, <3>1, Zenon
  <2> QED BY <2>8, <2>10, <2>11, Zenon
<1>8. ledger' \in Ledger /\ ledger'.entries \in Nat /\ ledger'.total \in Nat BY <1>7 DEF PaidFor, Ledger
<1>9. (command.verb = "generate" /\ command.verb # "diff" /\ ~Rechecks)' BY <1>1 DEF Rechecks
<1>10. LaterCommandsAgree' BY <1>9, LaterCheck, PTL
<1>11. (stored.kind = "archive" => WellPacked(stored))' BY <1>1 DEF UnderWay, Settled, WellPacked, FitsWire
<1>12. ASSUME root' \in ContractsRoot PROVE Typed'
  <2>1. CommandTypeOK' BY <1>1, <1>2, <1>3, <1>8, <1>12, Zenon DEF CommandTypeOK
  <2> QED BY <1>1, <1>2, <1>3, <1>8, <2>1, Zenon DEF Typed
<1>13. CASE Stop(IF ledger'.stopped = "none" THEN "publication" ELSE Refusal(ledger')) /\ UNCHANGED <<root, fresh>>
  <2>1. /\ phase' = "over" /\ result' \in {"publication", "limit", "sources"}
        /\ result' = "limit" => ledger'.stopped = "limit"
    BY <1>8, <1>13 DEF Stop, Refusal, Ledger
  <2>2. Typed' BY <1>3, <1>12, <1>13 DEF CommandTypeOK
  <2>3. Spent(ReadingList)' BY <1>1, <1>6, <1>7, <2>1, SpentNow
  <2>4. LedgerIsExact' BY <2>2, <2>3, LedgerSpent, PTL
  <2>5. (fresh.kind = "fresh" => Established(fresh))' BY <1>13, Zenon DEF UnderWay, Settled
  <2>6. (phase = "over")' BY <2>1
  <2>7. Course' BY <2>6, Over, PTL
  <2> QED BY <1>5, <1>10, <1>11, <2>2, <2>4, <2>5, <2>7 DEF Settled
<1>14. CASE /\ ledger'.stopped = "none" /\ Move("print")
            /\ root' = [present |-> TRUE, files |-> Merged, manifest |-> 1]
            /\ fresh' = IF Establishing THEN [kind |-> "fresh", by |-> command, root |-> root'] ELSE fresh
  <2>1. phase' = "print" /\ result' = "none" BY <1>2, <1>14 DEF Move
  <2>2. /\ Merged \in Seq(ContractFile)
        /\ Establishing => Established([kind |-> "fresh", by |-> command,
                                        root |-> [present |-> TRUE, files |-> Merged, manifest |-> 1]])
    BY <1>1, <1>2, <1>3, <1>4, Written
  <2>3. root' \in ContractsRoot BY <1>14, <2>2 DEF ContractsRoot
  <2>4. Typed' BY <1>12, <2>3
  <2>5. (fresh.kind = "fresh" => Established(fresh))'
    <3>1. CASE Establishing BY <1>14, <2>2, <3>1, Zenon
    <3>2. CASE ~Establishing BY <1>14, <3>2, Zenon DEF UnderWay, Settled
    <3> QED BY <3>1, <3>2
  <2>6. PaidSoFar(ReadingList)'
    <3>1. UNCHANGED limits /\ phase' = "print" BY <1>1, <2>1
    <3> QED BY <1>6, <1>7, <1>14, <3>1 DEF PaidSoFar, PaidFor, Affordable
  <2>7. (PaidSoFar(ReadingList) /\ result # "limit")' BY <2>1, <2>6
  <2>8. LedgerIsExact' BY <2>7, LedgerPaid, PTL
  <2>9. IsCommand(command)' /\ (command.verb # "edit")' BY <1>1, <1>2
  <2>10. Course' BY <2>1, <2>6, <2>9 DEF Course, Phases
  <2> QED BY <1>5, <1>10, <1>11, <2>4, <2>5, <2>8, <2>10 DEF Settled
<1> QED BY <1>13, <1>14 DEF CommitGenerated

-----------------------------------------------------------------------------

LEMMA CommandStep == UnderWay /\ [CommandNext]_commandVars => Settled' /\ Course'
<1> SUFFICES ASSUME UnderWay, [CommandNext]_commandVars PROVE Settled' /\ Course' OBVIOUS
<1>1. CASE UNCHANGED commandVars
  <2>1. UNCHANGED <<disk, world, phase, result, ledger, contracts, extracted, produced, answers>>
    BY <1>1 DEF commandVars, progress
  <2> QED BY <2>1, Stay DEF UnderWay
<1>2. CASE Edit BY <1>2, EditStep
<1>3. CASE Begin BY <1>3, BeginStep
<1>4. CASE ReadContracts BY <1>4, ReadContractsStep
<1>5. CASE LoadLayout BY <1>5, LoadLayoutStep
<1>6. CASE ReadSources BY <1>6, ReadSourcesStep
<1>7. CASE AcquireSyntax BY <1>7, AcquireSyntaxStep
<1>8. CASE AcquireArtifact BY <1>8, AcquireArtifactStep
<1>9. CASE SelectCrates BY <1>9, SelectCratesStep
<1>10. CASE ValidateContracts BY <1>10, ValidateContractsStep
<1>11. CASE Encode BY <1>11, EncodeStep
<1>12. CASE Decode BY <1>12, DecodeStep
<1>13. CASE ValidatePrevious BY <1>13, ValidatePreviousStep
<1>14. CASE Ask BY <1>14, AskStep
<1>15. CASE CommitReport BY <1>15, CommitReportStep
<1>16. CASE CommitGenerated BY <1>16, CommitGeneratedStep
<1>17. CASE CommitArchive BY <1>17, CommitArchiveStep
<1>18. CASE PrintSummary BY <1>18, PrintSummaryStep
<1>19. CASE RequestStop BY <1>19, RequestStopStep
<1>20. CASE GiveUp BY <1>20, GiveUpStep
<1> QED
  BY <1>1, <1>2, <1>3, <1>4, <1>5, <1>6, <1>7, <1>8, <1>9, <1>10, <1>11, <1>12, <1>13, <1>14, <1>15, <1>16,
     <1>17, <1>18, <1>19, <1>20 DEF CommandNext

\* An archive that is already there is foreign, or as archive writes one.
LEMMA SettledFirst ==
    CommandInit /\ CommandTypeOK /\ (stored.kind = "archive" => WellPacked(stored)) => Settled /\ Course
<1> SUFFICES ASSUME CommandInit, CommandTypeOK, stored.kind = "archive" => WellPacked(stored)
             PROVE  Settled /\ Course
  OBVIOUS
<1>1. /\ phase = "over" /\ result = "none" /\ fresh = NoInput /\ command = [verb |-> "none"]
      /\ ledger = NothingRead /\ layout = Loaded(<<>>, ceiling) /\ asked = {}
  BY DEF CommandInit
<1>2. limits \in Budget BY DEF CommandTypeOK, Budget
<1>3. Typed BY <1>1, <1>2, NothingPaid, Zenon DEF Typed
<1>4. Quietly BY <1>1 DEF Quietly, Refusals
<1>5. fresh.kind # "fresh" BY <1>1 DEF NoInput
<1> QED BY <1>1, <1>3, <1>4, <1>5, NothingAsked, NothingSaid, Over DEF Settled

\* For any contracts root, sources, archive, limits and budgets, any sequence of
\* commands and edits, whatever compilers, kits and the disk answer and whenever a
\* cancellation comes: a layout is what its documents declare together; the kits are
\* asked about what lay in the contracts root when the command began, and nothing that
\* contradicts it; every byte read is paid for once, and a limit is named only if what
\* is to be read exceeds it; the disk is touched last and only by a command that says
\* so; a check accepts what generate has established, and diff decodes what archive has
\* written.  An archive that is there from the beginning may be of any kind; if it is
\* said to be one that archive has written, it is as archive writes one.
THEOREM CommandExact ==
    CommandTypeOK /\ (stored.kind = "archive" => WellPacked(stored)) /\ CommandSpec => []CommandIsExact
<1>1. CommandInv /\ Settled /\ Course => UnderWay BY DEF CommandInv, UnderWay
<1>2. CommandInv /\ Settled => CommandIsExact
  BY LayoutTyped DEF CommandInv, Settled, Typed, CommandIsExact
<1> QED BY <1>1, <1>2, FirstCommandInv, NextCommandInv, SettledFirst, CommandStep, PTL DEF CommandSpec
=============================================================================

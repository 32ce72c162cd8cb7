--------------------- MODULE ContractPublicationProofs ---------------------
(***************************************************************************)
(* For any number of commands, names, failures, kills and power losses:    *)
(* the destination of an atomic publication is never partly written, and   *)
(* publish returns what happened; and a command that reads the documents   *)
(* meanwhile, without the lock, gets whole ones within its budgets.        *)
(***************************************************************************)
EXTENDS ContractReading, FiniteSetTheorems, TLAPS

\* Only the holder of the lock is between Acquire and Release.
Exclusive == \A w \in Writer : pc[w] # "idle" <=> lock = w

\* What a writer knows of its temporary and of the destination in each phase.
Known(w) ==
    /\ pc[w] \in {"clean", "create"} => temp[w] = NoName
    /\ pc[w] \in Open \cup {"renamed", "abort"} => temp[w] \in Name
    /\ pc[w] \in Open => tmp[temp[w]] # Missing
    /\ pc[w] \in {"written", "prepared"} => tmp[temp[w]] = bytes[w]
    /\ At(w, "prepared") => safe[temp[w]]
    /\ pc[w] \in {"clean", "create", "abort"} \cup Open => ~replaced[w]
    /\ At(w, "renamed") => replaced[w] /\ dest = bytes[w]
    /\ pc[w] \notin {"unlock", "idle"} => outcome[w] = "none"
    /\ At(w, "unlock") /\ outcome[w] = "published" =>
         replaced[w] /\ dest = bytes[w] /\ durable = bytes[w]
    /\ At(w, "unlock") /\ outcome[w] = "failed" /\ temp[w] # NoName =>
         tmp[temp[w]] = Missing
    /\ outcome[w] \in {"failed", "uncleaned", "unwound"} => ~replaced[w]

IInv == TypeOK /\ Exclusive /\ AllOrNothing /\ \A w \in Writer : Known(w)

-----------------------------------------------------------------------------
\* The steps of a publication keep the types.
LEMMA StepType == ASSUME IInv, UNCHANGED manifest, NEW w \in Writer, Step(w) PROVE TypeOK'
<1> USE DEF directory, temporaries, publication, result, bounds, At, Goto
<1>1. CASE Acquire(w) BY <1>1 DEF IInv, TypeOK, Acquire, Phases, Outcomes
<1>2. CASE Clean(w) BY <1>2 DEF IInv, TypeOK, Clean, Abandoned
<1>3. CASE Cleaned(w) BY <1>3 DEF IInv, TypeOK, Cleaned, Phases
<1>4. CASE Create(w)
  <2>1. PICK n \in Name \ tried[w] :
          IF tmp[n] = Missing
            THEN /\ tmp' = [tmp EXCEPT ![n] = Torn] /\ safe' = [safe EXCEPT ![n] = FALSE]
                 /\ temp' = [temp EXCEPT ![w] = n]
                 /\ pc' = [pc EXCEPT ![w] = "writing"]
                 /\ UNCHANGED tried
            ELSE /\ tried' = [tried EXCEPT ![w] = @ \cup {n}]
                 /\ UNCHANGED <<temporaries, temp, pc>>
    BY <1>4 DEF Create
  <2>2. CASE tmp[n] = Missing
    <3>1. /\ tmp' = [tmp EXCEPT ![n] = Torn] /\ safe' = [safe EXCEPT ![n] = FALSE]
          /\ temp' = [temp EXCEPT ![w] = n] /\ pc' = [pc EXCEPT ![w] = "writing"]
          /\ tried' = tried
      BY <2>1, <2>2
    <3>2. UNCHANGED <<directory, lock, bytes, canceled, result, bounds>> BY <1>4 DEF Create
    <3>3. /\ tmp' \in [Name -> Content \cup {Torn, Missing}] /\ safe' \in [Name -> BOOLEAN]
          /\ temp' \in [Writer -> Name \cup {NoName}]
      BY <3>1 DEF IInv, TypeOK
    <3>4. pc' \in [Writer -> Phases] BY <3>1 DEF IInv, TypeOK, Phases, Open
    <3> QED BY <3>1, <3>2, <3>3, <3>4 DEF IInv, TypeOK
  <2>3. CASE tmp[n] # Missing BY <1>4, <2>1, <2>3 DEF IInv, TypeOK, Create
  <2> QED BY <2>2, <2>3
<1>5. CASE CreateExhausted(w) BY <1>5 DEF IInv, TypeOK, CreateExhausted, Refuse, Phases, Outcomes
<1>6. CASE CreateCanceled(w) BY <1>6 DEF IInv, TypeOK, CreateCanceled, Refuse, Phases, Outcomes
<1>7. CASE Write(w) BY <1>7 DEF IInv, TypeOK, Write, Phases, Open
<1>8. CASE Prepare(w) BY <1>8 DEF IInv, TypeOK, Prepare, Phases, Open
<1>9. CASE Interrupt(w) BY <1>9 DEF IInv, TypeOK, Interrupt, Phases
<1>10. CASE Rename(w)
  <2>1. temp[w] \in Name BY <1>10 DEF IInv, Known, Rename, Open
  <2> QED BY <1>10, <2>1 DEF IInv, TypeOK, Rename, Phases
<1>11. CASE SyncParent(w)
  <2>1. dest \in Content \cup {Missing} BY DistinctBytes DEF IInv, TypeOK, AllOrNothing
  <2> QED BY <1>11, <2>1 DEF IInv, TypeOK, SyncParent, Phases, Outcomes
<1>12. CASE Abort(w) BY <1>12 DEF IInv, TypeOK, Abort, Phases, Outcomes
<1>13. CASE Release(w) BY <1>13 DEF IInv, TypeOK, Release, Phases
<1> QED
  BY <1>1, <1>2, <1>3, <1>4, <1>5, <1>6, <1>7, <1>8, <1>9, <1>10, <1>11, <1>12, <1>13
  DEF Step

\* A failing call counts against the bound.
LEMMA FailsType ==
    ASSUME IInv, Fails
    PROVE  failures' \in 0..MaxFailures /\ crashes' \in 0..MaxCrashes
BY Bounded DEF IInv, TypeOK, Fails

\* Failures, kills and cancellations keep the types.
LEMMA FaultType ==
    ASSUME IInv, UNCHANGED manifest, NEW w \in Writer, Fault(w) \/ Cancel(w)
    PROVE  TypeOK'
<1> USE DEF directory, temporaries, publication, result, At, Goto
<1>1. CASE CreateFails(w)
  <2>1. failures' \in 0..MaxFailures /\ crashes' \in 0..MaxCrashes
    BY <1>1, FailsType DEF CreateFails
  <2> QED BY <1>1, <2>1 DEF IInv, TypeOK, CreateFails, Refuse, Phases, Outcomes
<1>2. CASE StepFails(w)
  <2>1. failures' \in 0..MaxFailures /\ crashes' \in 0..MaxCrashes
    BY <1>2, FailsType DEF StepFails
  <2> QED BY <1>2, <2>1 DEF IInv, TypeOK, StepFails, Phases
<1>3. CASE SyncParentFails(w)
  <2>1. failures' \in 0..MaxFailures /\ crashes' \in 0..MaxCrashes
    BY <1>3, FailsType DEF SyncParentFails
  <2> QED BY <1>3, <2>1 DEF IInv, TypeOK, SyncParentFails, Phases, Outcomes
<1>4. CASE AbortFails(w)
  <2>1. failures' \in 0..MaxFailures /\ crashes' \in 0..MaxCrashes
    BY <1>4, FailsType DEF AbortFails
  <2> QED BY <1>4, <2>1 DEF IInv, TypeOK, AbortFails, Phases, Outcomes
<1>5. CASE Drop(w)
  <2>1. failures' \in 0..MaxFailures /\ crashes' \in 0..MaxCrashes
    BY <1>5, FailsType DEF Drop
  <2> QED BY <1>5, <2>1 DEF IInv, TypeOK, Drop, Phases, Outcomes
<1>6. CASE Kill(w) BY <1>6, Bounded DEF IInv, TypeOK, Kill, Phases, Outcomes
<1>7. CASE Cancel(w)
  <2>1. failures' \in 0..MaxFailures /\ crashes' \in 0..MaxCrashes
    BY <1>7, FailsType DEF Cancel
  <2> QED BY <1>7, <2>1 DEF IInv, TypeOK, Cancel
<1> QED BY <1>1, <1>2, <1>3, <1>4, <1>5, <1>6, <1>7 DEF Fault

\* A power loss keeps the types: the synchronized destination survives.
LEMMA PowerLossType == ASSUME IInv, UNCHANGED manifest, PowerLoss PROVE TypeOK'
BY Bounded, DistinctBytes
DEF IInv, TypeOK, AllOrNothing, PowerLoss, Phases, Outcomes, publication

\* The steps of a publication keep the rest of the invariant.
LEMMA StepKnown ==
    ASSUME IInv, NEW w \in Writer, Step(w)
    PROVE  Exclusive' /\ AllOrNothing' /\ \A v \in Writer : Known(v)'
<1> USE Sentinels, DistinctBytes
    DEF directory, temporaries, publication, result, bounds, At, Goto, IInv, TypeOK,
        Exclusive, AllOrNothing, Known, Open
<1>1. CASE Acquire(w) BY <1>1 DEF Acquire, LockFree
<1>2. CASE Clean(w) BY <1>2 DEF Clean, Abandoned
<1>3. CASE Cleaned(w) BY <1>3 DEF Cleaned
<1>4. CASE Create(w) BY <1>4 DEF Create
<1>5. CASE CreateExhausted(w) BY <1>5 DEF CreateExhausted, Refuse
<1>6. CASE CreateCanceled(w) BY <1>6 DEF CreateCanceled, Refuse
<1>7. CASE Write(w) BY <1>7 DEF Write
<1>8. CASE Prepare(w) BY <1>8 DEF Prepare
<1>9. CASE Interrupt(w) BY <1>9 DEF Interrupt
<1>10. CASE Rename(w) BY <1>10 DEF Rename
<1>11. CASE SyncParent(w) BY <1>11 DEF SyncParent
<1>12. CASE Abort(w) BY <1>12 DEF Abort
<1>13. CASE Release(w) BY <1>13 DEF Release
<1> QED
  BY <1>1, <1>2, <1>3, <1>4, <1>5, <1>6, <1>7, <1>8, <1>9, <1>10, <1>11, <1>12, <1>13
  DEF Step

\* Failures, kills and cancellations keep the rest of the invariant.
LEMMA FaultKnown ==
    ASSUME IInv, NEW w \in Writer, Fault(w) \/ Cancel(w)
    PROVE  Exclusive' /\ AllOrNothing' /\ \A v \in Writer : Known(v)'
<1> USE Sentinels, DistinctBytes
    DEF directory, temporaries, publication, result, bounds, At, Goto, IInv, TypeOK,
        Exclusive, AllOrNothing, Known, Open
<1>1. CASE CreateFails(w) BY <1>1 DEF CreateFails, Refuse
<1>2. CASE StepFails(w) BY <1>2 DEF StepFails
<1>3. CASE SyncParentFails(w) BY <1>3 DEF SyncParentFails
<1>4. CASE AbortFails(w) BY <1>4 DEF AbortFails
<1>5. CASE Drop(w) BY <1>5 DEF Drop
<1>6. CASE Kill(w) BY <1>6 DEF Kill
<1>7. CASE Cancel(w) BY <1>7 DEF Cancel
<1> QED BY <1>1, <1>2, <1>3, <1>4, <1>5, <1>6, <1>7 DEF Fault

\* A power loss ends every publication; nobody is left to be told a result.
LEMMA PowerLossKnown ==
    ASSUME IInv, PowerLoss
    PROVE  Exclusive' /\ AllOrNothing' /\ \A v \in Writer : Known(v)'
BY Sentinels, DistinctBytes
DEF IInv, TypeOK, AllOrNothing, Exclusive, Known, PowerLoss, Open, At, publication

\* The invariant holds before any publication, and every step keeps it.
LEMMA InitIInv == Init => IInv
<1> SUFFICES ASSUME Init PROVE IInv OBVIOUS
<1>1. TypeOK BY Bounded DEF Init, TypeOK, Phases, Outcomes
<1>2. Exclusive /\ AllOrNothing
  BY Sentinels, DistinctBytes DEF Init, Exclusive, AllOrNothing
<1>3. \A w \in Writer : Known(w) BY DEF Init, Known, Open, At
<1> QED BY <1>1, <1>2, <1>3 DEF IInv

\* The inductive step.
LEMMA NextIInv == IInv /\ [Next]_vars => IInv'
<1> SUFFICES ASSUME IInv, [Next]_vars PROVE IInv' OBVIOUS
<1>1. ASSUME UNCHANGED manifest, NEW w \in Writer, Step(w) PROVE IInv'
  BY <1>1, StepType, StepKnown DEF IInv
<1>2. ASSUME UNCHANGED manifest, NEW w \in Writer, Fault(w) \/ Cancel(w) PROVE IInv'
  BY <1>2, FaultType, FaultKnown DEF IInv
<1>3. CASE UNCHANGED manifest /\ PowerLoss BY <1>3, PowerLossType, PowerLossKnown DEF IInv
<1>4. CASE UNCHANGED vars
  BY <1>4 DEF vars, directory, temporaries, publication, result, bounds, IInv, TypeOK,
              Exclusive, AllOrNothing, Known, At
<1> QED BY <1>1, <1>2, <1>3, <1>4 DEF Next

\* The strengthening both theorems below rest on.
THEOREM IInvHolds == Spec => []IInv
BY InitIInv, NextIInv, PTL DEF Spec

\* The destination is never seen partly written, not even after a power loss.
THEOREM NeverTorn == Spec => []AllOrNothing
<1>1. IInv => AllOrNothing BY DEF IInv
<1> QED BY <1>1, IInvHolds, PTL

\* The result of publish is definitive: success means replaced and durable,
\* failure means untouched, whenever the cancellation arrives.
THEOREM Truthful == Spec => []ResultIsTruthful
<1>1. IInv => ResultIsTruthful BY DEF IInv, Known, ResultIsTruthful
<1> QED BY <1>1, IInvHolds, PTL

-----------------------------------------------------------------------------
\* Whoever publishes the manifest has swept the directory before it creates its
\* temporary, and nobody else creates one while it holds the lock.
Swept(w) ==
    /\ At(w, "create") => \A n \in Name : tmp[n] = Missing
    /\ pc[w] \in Open => \A n \in Name : tmp[n] # Missing => n = temp[w]
SweepInv == manifest => \A w \in Writer : Swept(w)

\* A step that removes temporaries, or none, and takes no writer into a later
\* phase but those after its temporary, keeps the directory swept.
LEMMA SweptStays ==
    ASSUME IInv, SweepInv, UNCHANGED manifest,
           \A n \in Name : tmp'[n] # Missing => tmp[n] # Missing,
           \A w \in Writer :
               /\ pc'[w] = "create" => pc[w] = "create" \/ \A n \in Name : tmp[n] = Missing
               /\ pc'[w] \in Open => pc[w] \in Open /\ temp'[w] = temp[w]
    PROVE  SweepInv'
BY DEF SweepInv, Swept, At

\* Every step of a publication keeps the directory swept.
LEMMA StepSwept ==
    ASSUME IInv, SweepInv, UNCHANGED manifest, NEW w \in Writer, Step(w)
    PROVE  SweepInv'
<1> USE DEF temporaries, publication, At, Goto, Open
<1> pc \in [Writer -> Phases] /\ tmp \in [Name -> Content \cup {Torn, Missing}]
    /\ bytes \in [Writer -> Content] /\ temp \in [Writer -> Name \cup {NoName}]
  BY DEF IInv, TypeOK
<1>1. CASE Acquire(w) BY <1>1, SweptStays DEF Acquire
<1>2. CASE Clean(w) BY <1>2, SweptStays DEF Clean, Abandoned
<1>3. CASE Cleaned(w)
  <2>1. CASE manifest
    <3>1. \A n \in Name : tmp[n] = Missing BY <1>3, <2>1 DEF Cleaned, Abandoned
    <3> QED BY <1>3, <3>1, SweptStays DEF Cleaned
  <2>2. CASE ~manifest BY <2>2 DEF SweepInv
  <2> QED BY <2>1, <2>2
<1>4. CASE Create(w)
  <2> SUFFICES ASSUME manifest PROVE \A v \in Writer : Swept(v)' BY DEF SweepInv
  <2>1. \A n \in Name : tmp[n] = Missing BY <1>4 DEF Create, SweepInv, Swept
  <2>2. PICK n \in Name :
          /\ tmp' = [tmp EXCEPT ![n] = Torn] /\ temp' = [temp EXCEPT ![w] = n]
          /\ pc' = [pc EXCEPT ![w] = "writing"]
    BY <1>4, <2>1 DEF Create
  <2>3. \A v \in Writer \ {w} : pc[v] = "idle" BY <1>4 DEF Create, IInv, Exclusive
  <2> QED BY <2>1, <2>2, <2>3 DEF Swept
<1>5. CASE CreateExhausted(w) BY <1>5, SweptStays DEF CreateExhausted, Refuse
<1>6. CASE CreateCanceled(w) BY <1>6, SweptStays DEF CreateCanceled, Refuse
<1>7. CASE Write(w)
  <2>1. tmp[temp[w]] # Missing /\ temp[w] \in Name BY <1>7 DEF Write, IInv, Known
  <2> QED BY <1>7, <2>1, SweptStays DEF Write
<1>8. CASE Prepare(w) BY <1>8, SweptStays DEF Prepare
<1>9. CASE Interrupt(w) BY <1>9, SweptStays DEF Interrupt
<1>10. CASE Rename(w) BY <1>10, SweptStays DEF Rename
<1>11. CASE SyncParent(w) BY <1>11, SweptStays DEF SyncParent
<1>12. CASE Abort(w) BY <1>12, SweptStays DEF Abort
<1>13. CASE Release(w) BY <1>13, SweptStays DEF Release
<1> QED
  BY <1>1, <1>2, <1>3, <1>4, <1>5, <1>6, <1>7, <1>8, <1>9, <1>10, <1>11, <1>12, <1>13
  DEF Step

\* So do failures, kills and cancellations.
LEMMA FaultSwept ==
    ASSUME IInv, SweepInv, UNCHANGED manifest, NEW w \in Writer, Fault(w) \/ Cancel(w)
    PROVE  SweepInv'
<1> USE DEF temporaries, publication, At, Goto, Open
<1> pc \in [Writer -> Phases] /\ tmp \in [Name -> Content \cup {Torn, Missing}]
  BY DEF IInv, TypeOK
<1>1. CASE CreateFails(w) BY <1>1, SweptStays DEF CreateFails, Refuse
<1>2. CASE StepFails(w) BY <1>2, SweptStays DEF StepFails
<1>3. CASE SyncParentFails(w) BY <1>3, SweptStays DEF SyncParentFails
<1>4. CASE AbortFails(w) BY <1>4, SweptStays DEF AbortFails
<1>5. CASE Drop(w) BY <1>5, SweptStays DEF Drop
<1>6. CASE Kill(w) BY <1>6, SweptStays DEF Kill
<1>7. CASE Cancel(w) BY <1>7, SweptStays DEF Cancel
<1> QED BY <1>1, <1>2, <1>3, <1>4, <1>5, <1>6, <1>7 DEF Fault

\* Temporaries are accounted for: no sweep and no collision of names takes the
\* one a live publication writes, and what killed commands left is gone once a
\* later command writes the manifest.
THEOREM Accounted == Spec => []TemporariesAreAccounted
<1>1. Init => SweepInv BY DEF Init, SweepInv, Swept, At, Open
<1>2. IInv /\ SweepInv /\ [Next]_vars => SweepInv'
  <2> SUFFICES ASSUME IInv, SweepInv, [Next]_vars PROVE SweepInv' OBVIOUS
  <2>1. CASE UNCHANGED manifest /\ \E w \in Writer : Step(w) \/ Fault(w) \/ Cancel(w)
    BY <2>1, StepSwept, FaultSwept
  <2>2. CASE UNCHANGED manifest /\ PowerLoss
    BY <2>2 DEF PowerLoss, SweepInv, Swept, At, Open
  <2>3. CASE UNCHANGED vars
    BY <2>3 DEF vars, temporaries, publication, SweepInv, Swept, At
  <2> QED BY <2>1, <2>2, <2>3 DEF Next
<1>3. IInv /\ SweepInv => TemporariesAreAccounted
  BY DEF IInv, Known, SweepInv, Swept, TemporariesAreAccounted
<1> QED BY <1>1, <1>2, <1>3, IInvHolds, PTL DEF Spec

-----------------------------------------------------------------------------
(***************************************************************************)
(* A reader beside the publications.  It changes none of their state, so   *)
(* all that holds of them alone holds beside it.                           *)
(***************************************************************************)

\* Every step of the composition is one of a publication or leaves it alone.
LEMMA ReaderIsPassive == [ReadNext]_allVars => [Next]_vars
<1> SUFFICES ASSUME [ReadNext]_allVars PROVE [Next]_vars OBVIOUS
<1>1. CASE ReaderStep BY <1>1 DEF ReaderStep
<1>2. CASE PublisherStep BY <1>2 DEF PublisherStep, Next
<1>3. CASE PowerFails BY <1>3 DEF PowerFails, Next
<1>4. CASE UNCHANGED allVars BY <1>4 DEF allVars
<1> QED BY <1>1, <1>2, <1>3, <1>4 DEF ReadNext

\* A publication beside a reader is a publication.
THEOREM ReaderDisturbsNobody == ReadSpec => Spec
<1>1. ReadInit => Init BY DEF ReadInit
<1> QED BY <1>1, ReaderIsPassive, PTL DEF ReadSpec, Spec

-----------------------------------------------------------------------------
\* A temporary that is being written is still empty.
Unwritten == \A w \in Writer : At(w, "writing") => tmp[temp[w]] = Torn

\* Only its writer fills a temporary, and then it is written.
LEMMA StepUnwritten == IInv /\ Unwritten /\ [Next]_vars => Unwritten'
<1> SUFFICES ASSUME IInv, Unwritten, [Next]_vars PROVE Unwritten' OBVIOUS
<1> USE Sentinels, DistinctBytes
    DEF directory, temporaries, publication, result, bounds, At, Goto, IInv, TypeOK,
        Exclusive, Unwritten
<1>1. ASSUME NEW w \in Writer, Step(w) PROVE Unwritten'
  <2>1. CASE Acquire(w) BY <2>1 DEF Acquire, LockFree
  <2>2. CASE Clean(w) BY <2>2 DEF Clean, Abandoned
  <2>3. CASE Cleaned(w) BY <2>3 DEF Cleaned
  <2>4. CASE Create(w) BY <2>4 DEF Create
  <2>5. CASE CreateExhausted(w) BY <2>5 DEF CreateExhausted, Refuse
  <2>6. CASE CreateCanceled(w) BY <2>6 DEF CreateCanceled, Refuse
  <2>7. CASE Write(w) BY <2>7 DEF Write
  <2>8. CASE Prepare(w) BY <2>8 DEF Prepare
  <2>9. CASE Interrupt(w) BY <2>9 DEF Interrupt
  <2>10. CASE Rename(w) BY <2>10 DEF Rename
  <2>11. CASE SyncParent(w) BY <2>11 DEF SyncParent
  <2>12. CASE Abort(w) BY <2>12 DEF Abort
  <2>13. CASE Release(w) BY <2>13 DEF Release
  <2> QED
    BY <1>1, <2>1, <2>2, <2>3, <2>4, <2>5, <2>6, <2>7, <2>8, <2>9, <2>10, <2>11, <2>12, <2>13
    DEF Step
<1>2. ASSUME NEW w \in Writer, Fault(w) \/ Cancel(w) PROVE Unwritten'
  BY <1>2 DEF Fault, CreateFails, Refuse, StepFails, SyncParentFails, AbortFails, Drop, Kill,
              Cancel, Open
<1>3. CASE PowerLoss BY <1>3 DEF PowerLoss
<1>4. CASE UNCHANGED vars BY <1>4 DEF vars
<1> QED BY <1>1, <1>2, <1>3, <1>4 DEF Next

\* What a publication does to the files somebody else has open or is about to
\* open: the destination never goes, and a temporary goes or is left as it is,
\* unless it was still empty.
LEMMA FilesOnlyGrow ==
    ASSUME IInv, Unwritten, NEW w \in Writer, Step(w) \/ Fault(w) \/ Cancel(w)
    PROVE  /\ dest # Missing => dest' # Missing
           /\ \A n \in Name : tmp[n] \in {Missing, Torn} \/ tmp'[n] \in {Missing, tmp[n]}
<1> USE DistinctBytes
    DEF directory, temporaries, At, Goto, IInv, TypeOK, Unwritten
<1>1. CASE Step(w)
  <2>1. CASE Acquire(w) BY <2>1 DEF Acquire
  <2>2. CASE Clean(w) BY <2>2 DEF Clean, Abandoned
  <2>3. CASE Cleaned(w) BY <2>3 DEF Cleaned
  <2>4. CASE Create(w) BY <2>4 DEF Create
  <2>5. CASE CreateExhausted(w) BY <2>5 DEF CreateExhausted, Refuse
  <2>6. CASE CreateCanceled(w) BY <2>6 DEF CreateCanceled, Refuse
  <2>7. CASE Write(w) BY <2>7 DEF Write
  <2>8. CASE Prepare(w) BY <2>8 DEF Prepare
  <2>9. CASE Interrupt(w) BY <2>9 DEF Interrupt
  <2>10. CASE Rename(w) BY <2>10 DEF Rename
  <2>11. CASE SyncParent(w) BY <2>11 DEF SyncParent
  <2>12. CASE Abort(w) BY <2>12 DEF Abort
  <2>13. CASE Release(w) BY <2>13 DEF Release
  <2> QED
    BY <1>1, <2>1, <2>2, <2>3, <2>4, <2>5, <2>6, <2>7, <2>8, <2>9, <2>10, <2>11, <2>12, <2>13
    DEF Step
<1>2. CASE Fault(w) \/ Cancel(w)
  BY <1>2 DEF Fault, CreateFails, Refuse, StepFails, SyncParentFails, AbortFails, Drop, Kill, Cancel
<1> QED BY <1>1, <1>2

-----------------------------------------------------------------------------
\* The smaller of two budgets.
LEMMA MinOfTwo ==
    ASSUME NEW a \in Nat, NEW b \in Nat
    PROVE  Min({a, b}) \in {a, b} /\ Min({a, b}) <= a /\ Min({a, b}) <= b
<1>1. \E x \in {a, b} : \A y \in {a, b} : x <= y OBVIOUS
<1> QED BY <1>1 DEF Min

\* A document more is charged its own bytes.
LEMMA OneMoreDocument ==
    \A documents, more, e : \A bytesRead \in Seq(Byte) :
        /\ IsFiniteSet(BytesOf(documents)) /\ e \notin DOMAIN documents
        /\ DOMAIN more = DOMAIN documents \cup {e} /\ more[e] = bytesRead
        /\ \A d \in DOMAIN documents : more[d] = documents[d]
        => /\ IsFiniteSet(BytesOf(more))
           /\ Cardinality(BytesOf(more)) = Cardinality(BytesOf(documents)) + Len(bytesRead)
<1> SUFFICES
      ASSUME NEW documents, NEW more, NEW e, NEW bytesRead \in Seq(Byte),
             IsFiniteSet(BytesOf(documents)), e \notin DOMAIN documents,
             DOMAIN more = DOMAIN documents \cup {e}, more[e] = bytesRead,
             \A d \in DOMAIN documents : more[d] = documents[d]
      PROVE  /\ IsFiniteSet(BytesOf(more))
             /\ Cardinality(BytesOf(more)) = Cardinality(BytesOf(documents)) + Len(bytesRead)
  OBVIOUS
<1>1. /\ DOMAIN more = DOMAIN documents \cup {e} /\ more[e] = bytesRead
      /\ \A d \in DOMAIN documents : more[d] = documents[d]
  OBVIOUS
<1>2. BytesOf(more) = BytesOf(documents) \cup ({e} \X DOMAIN bytesRead)
  <2>1. ASSUME NEW x
        PROVE  x \in BytesOf(more) <=>
                 x \in BytesOf(documents) \cup ({e} \X DOMAIN bytesRead)
    <3>1. x \in BytesOf(more) <=> \E d \in DOMAIN more : x \in {d} \X DOMAIN more[d] BY DEF BytesOf
    <3>2. x \in BytesOf(documents) <=> \E d \in DOMAIN documents : x \in {d} \X DOMAIN documents[d]
      BY DEF BytesOf
    <3>3. ASSUME NEW d \in DOMAIN more, x \in {d} \X DOMAIN more[d]
          PROVE  x \in BytesOf(documents) \cup ({e} \X DOMAIN bytesRead)
      <4>1. CASE d = e BY <1>1, <3>3, <4>1
      <4>2. CASE d # e BY <1>1, <3>2, <3>3, <4>2
      <4> QED BY <4>1, <4>2
    <3>4. ASSUME NEW d \in DOMAIN documents, x \in {d} \X DOMAIN documents[d]
          PROVE  x \in BytesOf(more)
      BY <1>1, <3>1, <3>4
    <3>5. x \in {e} \X DOMAIN bytesRead => x \in BytesOf(more)
      <4> SUFFICES ASSUME x \in {e} \X DOMAIN bytesRead PROVE x \in BytesOf(more) OBVIOUS
      <4>1. e \in DOMAIN more /\ x \in {e} \X DOMAIN more[e] BY <1>1
      <4> QED BY <3>1, <4>1
    <3> QED BY <3>1, <3>2, <3>3, <3>4, <3>5
  <2> QED BY <2>1
<1>3. BytesOf(documents) \cap ({e} \X DOMAIN bytesRead) = {} BY DEF BytesOf
<1>4. Len(bytesRead) \in Nat /\ DOMAIN bytesRead = 1..Len(bytesRead) OBVIOUS
<1>5. IsFiniteSet(DOMAIN bytesRead) /\ Cardinality(DOMAIN bytesRead) = Len(bytesRead)
  <2> DEFINE n == Len(bytesRead)
  <2>1. 1 \in Int /\ n \in Int BY <1>4
  <2>2. IsFiniteSet(1..n) /\ Cardinality(1..n) = IF 1 > n THEN 0 ELSE n - 1 + 1
    BY <2>1, FS_Interval
  <2>3. Cardinality(1..n) = n BY <1>4, <2>2
  <2> QED BY <1>4, <2>2, <2>3
<1>6. IsFiniteSet({e}) /\ Cardinality({e}) = 1 BY FS_Singleton
<1>7. /\ IsFiniteSet({e} \X DOMAIN bytesRead)
      /\ Cardinality({e} \X DOMAIN bytesRead) = Len(bytesRead)
  <2>1. /\ IsFiniteSet({e} \X DOMAIN bytesRead)
        /\ Cardinality({e} \X DOMAIN bytesRead) = Cardinality({e}) * Cardinality(DOMAIN bytesRead)
    BY <1>5, <1>6, FS_Product
  <2> QED BY <1>4, <1>5, <1>6, <2>1
<1>8. Cardinality(BytesOf(documents)) \in Nat BY FS_CardinalityType
<1>9. Cardinality({}) = 0 BY FS_EmptySet
<1>10. /\ IsFiniteSet(BytesOf(documents) \cup ({e} \X DOMAIN bytesRead))
       /\ Cardinality(BytesOf(documents) \cup ({e} \X DOMAIN bytesRead))
            = Cardinality(BytesOf(documents)) + Cardinality({e} \X DOMAIN bytesRead)
                - Cardinality(BytesOf(documents) \cap ({e} \X DOMAIN bytesRead))
  BY <1>7, FS_Union
<1>11. Cardinality(BytesOf(more)) = Cardinality(BytesOf(documents)) + Len(bytesRead) - 0
  BY <1>2, <1>3, <1>7, <1>9, <1>10
<1>12. IsFiniteSet(BytesOf(more)) BY <1>2, <1>10
<1>13. Cardinality(BytesOf(more)) = Cardinality(BytesOf(documents)) + Len(bytesRead)
  <2> DEFINE c == Cardinality(BytesOf(documents))  l == Len(bytesRead)
  <2>1. c \in Nat /\ l \in Nat BY <1>4, <1>8
  <2>2. c + l - 0 = c + l
    <3> HIDE DEF c, l
    <3> QED BY <2>1
  <2> QED BY <1>11, <2>2
<1> QED BY <1>12, <1>13

-----------------------------------------------------------------------------
\* Every variable of the reader keeps to its values.
ReadTypes ==
    /\ walk \in {"idle", "nobody", "list", "entry", "reading"} \cup Over
    /\ limits \in ReadLimits
    /\ ledger \in [traversal : Nat, entries : Nat, total : Nat]
    /\ pending \subseteq Name \cup {Dest} /\ current \in Name \cup {Dest}
    /\ handle \in Name \cup {NoName}
    /\ image \in Seq(Byte) /\ got \in Seq(Byte)
    /\ \A e \in DOMAIN catalog : catalog[e] \in Seq(Byte)
    /\ IsFiniteSet(DOMAIN catalog) /\ IsFiniteSet(BytesOf(catalog))
    /\ since \subseteq Content \cup {Missing}

\* A handle on a temporary sees its bytes, until a power loss takes the reader too.
HandleInv ==
    /\ walk # "killed" /\ handle # NoName => tmp[handle] # Missing /\ image = TextOf(tmp[handle])
    /\ walk = "nobody" => handle = NoName

\* What was read is a beginning of the file, and the destination's file is one content.
ReadingInv ==
    walk = "reading" =>
        /\ Len(got) <= Len(image) /\ \A i \in 1..Len(got) : got[i] = image[i]
        /\ current \notin pending \cup DOMAIN catalog
        /\ current = Dest => handle = NoName /\ \E b \in since \cap Content : image = Text[b]

\* The destination is listed, being read or read, if it was there all along, and
\* every entry charged was read or is being read.
WalkInv ==
    /\ walk \in {"list", "entry", "reading"} => dest \in since
    /\ walk \in {"idle", "list"} => DOMAIN catalog = {} /\ ledger.entries = 0
    /\ walk \in {"entry", "reading"} =>
          /\ pending \cap DOMAIN catalog = {}
          /\ Dest \in pending => dest # Missing
          /\ Missing \notin since =>
                Dest \in pending \cup DOMAIN catalog \/ (walk = "reading" /\ current = Dest)
    /\ walk = "entry" => ledger.entries = Cardinality(DOMAIN catalog)
    /\ walk = "reading" => ledger.entries = Cardinality(DOMAIN catalog) + 1
    /\ Dest \in DOMAIN catalog => \E b \in since \cap Content : catalog[Dest] = Text[b]

ReadInv == ReadTypes /\ HandleInv /\ ReadingInv /\ WalkInv /\ ReadIsExact

\* The budgets are numbers, and a content is bytes.
LEMMA Limits ==
    ASSUME ReadTypes
    PROVE  /\ limits.traversal \in Nat /\ limits.entries \in Nat
           /\ limits.total \in Nat /\ limits.file \in Nat
           /\ ledger.traversal \in Nat /\ ledger.entries \in Nat /\ ledger.total \in Nat
           /\ Cardinality(DOMAIN catalog) \in Nat
BY Budgeted, FS_CardinalityType DEF ReadTypes

\* Whatever a file holds reads as bytes.
LEMMA TextIsBytes == \A c : TextOf(c) \in Seq(Byte)
BY TextOfContent DEF TextOf

\* The read limit is a byte more than either budget leaves, and one of them is met by it.
LEMMA LimitOfRead ==
    ASSUME ReadTypes, ledger.total <= limits.total
    PROVE  /\ ReadLimit \in Nat
           /\ ReadLimit = limits.file + 1 \/ ReadLimit = limits.total - ledger.total + 1
           /\ ReadLimit <= limits.file + 1 /\ ReadLimit <= limits.total - ledger.total + 1
<1>1. limits.file \in Nat /\ limits.total \in Nat /\ ledger.total \in Nat BY Limits
<1>2. limits.total - ledger.total \in Nat BY <1>1
<1> DEFINE a == limits.file  b == limits.total - ledger.total
<1>3. Min({a, b}) \in {a, b} /\ Min({a, b}) <= a /\ Min({a, b}) <= b
  BY <1>1, <1>2, MinOfTwo
<1>4. ReadLimit = Min({a, b}) + 1 BY DEF ReadLimit
<1>5. a \in Nat /\ b \in Nat BY <1>1, <1>2
<1> HIDE DEF a, b
<1>6. /\ ReadLimit \in Nat
      /\ ReadLimit = a + 1 \/ ReadLimit = b + 1
      /\ ReadLimit <= a + 1 /\ ReadLimit <= b + 1
  BY <1>3, <1>4, <1>5
<1> QED BY <1>6 DEF a, b

-----------------------------------------------------------------------------
\* The steps of the reader keep the invariant.
LEMMA StartKeeps == ASSUME IInv, ReadInv, BeginRead \/ List, UNCHANGED vars PROVE ReadInv'
<1> USE DEF vars, directory, temporaries, file
<1>1. IsFiniteSet(Entries) /\ Cardinality(Entries) \in Nat
  <2>1. Entries \subseteq Name \cup {Dest} BY DEF Entries
  <2>2. IsFiniteSet(Name \cup {Dest}) BY Budgeted, FS_AddElement
  <2>3. IsFiniteSet(Entries) BY <2>1, <2>2, FS_Subset
  <2> QED BY <2>3, FS_CardinalityType
<1>2. /\ UNCHANGED <<limits, current, handle, image, got, catalog, tmp, dest>>
      /\ walk' \in {"list", "entry", "traversal"}
      /\ walk' = "list" => walk = "idle"
      /\ walk \in {"idle", "list"}
      /\ ledger'.entries = ledger.entries /\ ledger'.total = ledger.total
  BY DEF BeginRead, List, Visited, Move, ReaderAt, ReadInv, ReadTypes
<1>3. /\ ledger' \in [traversal : Nat, entries : Nat, total : Nat]
      /\ ledger'.traversal <= limits.traversal
  <2>1. CASE UNCHANGED ledger BY <2>1 DEF ReadInv, ReadTypes, ReadIsExact, ReadIsBudgeted
  <2>2. CASE ~UNCHANGED ledger
    <3>1. /\ ledger' = [ledger EXCEPT !.traversal = ledger.traversal + Cardinality(Entries)]
          /\ ~(ledger.traversal + Cardinality(Entries) > limits.traversal)
      BY <2>2 DEF BeginRead, List, Visited
    <3>2. ledger.traversal + Cardinality(Entries) \in Nat /\ limits.traversal \in Nat
      BY <1>1, Limits DEF ReadInv
    <3> QED BY <3>1, <3>2 DEF ReadInv, ReadTypes
  <2> QED BY <2>1, <2>2
<1>4. /\ pending' \subseteq Name \cup {Dest}
      /\ since' \subseteq Content \cup {Missing} /\ dest' \in since'
  BY <1>2, DistinctBytes
  DEF BeginRead, List, Entries, ReaderAt, ReadInv, ReadTypes, WalkInv, IInv, TypeOK, AllOrNothing
<1>5. ReadTypes' BY <1>2, <1>3, <1>4 DEF ReadInv, ReadTypes, Over, Refused
<1>6. HandleInv' BY <1>2 DEF ReadInv, HandleInv, TextOf
<1>7. ReadingInv' BY <1>2 DEF ReadingInv
<1>8. walk' = "entry" => pending' = Entries /\ since' = since /\ dest \in since
  BY <1>2 DEF List, BeginRead, Visited, Move, ReaderAt, ReadInv, WalkInv
<1>9. Cardinality(DOMAIN catalog) = 0 /\ ledger.entries = 0 /\ DOMAIN catalog = {}
  <2>1. DOMAIN catalog = {} /\ ledger.entries = 0 BY <1>2 DEF ReadInv, WalkInv
  <2>2. IsFiniteSet(DOMAIN catalog) BY DEF ReadInv, ReadTypes
  <2>3. Cardinality(DOMAIN catalog) = 0 BY <2>1, <2>2, FS_EmptySet
  <2> QED BY <2>1, <2>3
<1>10. WalkInv' BY <1>2, <1>4, <1>8, <1>9, DestIsNoTemporary DEF WalkInv, Entries
<1>11. Charged' = Charged BY <1>2 DEF Charged
<1>12. ReadIsExact'
  BY <1>2, <1>3, <1>11, <1>9 DEF ReadInv, ReadIsExact, ReadIsWhole, ReadIsBudgeted
<1> QED BY <1>5, <1>6, <1>7, <1>10, <1>12 DEF ReadInv

\* An entry is charged and opened, or it is refused or gone; only a temporary is gone.
LEMMA OpenKeeps == ASSUME IInv, ReadInv, OpenEntry, UNCHANGED vars PROVE ReadInv'
<1> USE DEF vars, directory, temporaries, file
<1>1. PICK e \in pending :
        /\ pending' = pending \ {e} /\ current' = e
        /\ IF ledger.entries = limits.entries
             THEN Move("entries") /\ UNCHANGED <<ledger, handle, image, got>>
             ELSE /\ ledger' = [ledger EXCEPT !.entries = @ + 1]
                  /\ IF (IF e = Dest THEN dest ELSE tmp[e]) = Missing
                       THEN Move("vanished") /\ UNCHANGED <<handle, image, got>>
                       ELSE /\ Move(Preflight(Len(TextOf(IF e = Dest THEN dest ELSE tmp[e]))))
                            /\ handle' = IF e = Dest THEN NoName ELSE e
                            /\ image' = TextOf(IF e = Dest THEN dest ELSE tmp[e])
                            /\ got' = <<>>
  BY DEF OpenEntry
<1> DEFINE found == IF e = Dest THEN dest ELSE tmp[e]
<1>2. walk = "entry" /\ UNCHANGED <<limits, catalog, since, tmp, dest>> BY DEF OpenEntry, ReaderAt
<1>3. Charged' = Charged BY <1>2 DEF Charged
<1>4. /\ e \in Name \cup {Dest} /\ e \notin DOMAIN catalog
      /\ ledger.entries = Cardinality(DOMAIN catalog)
      /\ ReadTypes /\ ReadIsExact /\ WalkInv
      /\ ledger.entries <= limits.entries /\ ledger.total = Charged
  BY <1>2 DEF ReadInv, ReadTypes, WalkInv, ReadIsExact, ReadIsBudgeted
<1>5. CASE ledger.entries = limits.entries
  <2>1. walk' = "entries" /\ UNCHANGED <<ledger, handle, image, got>> BY <1>1, <1>5 DEF Move
  <2>2. ReadTypes' BY <1>1, <1>2, <1>4, <2>1 DEF ReadTypes, Over, Refused
  <2>3. HandleInv' /\ ReadingInv' BY <1>2, <2>1 DEF ReadInv, HandleInv, ReadingInv, TextOf
  <2>4. WalkInv' BY <1>2, <1>4, <2>1 DEF WalkInv
  <2>5. ReadIsExact'
    BY <1>2, <1>3, <1>4, <1>5, <2>1 DEF ReadIsExact, ReadIsWhole, ReadIsBudgeted
  <2> QED BY <2>2, <2>3, <2>4, <2>5 DEF ReadInv
<1>6. CASE ledger.entries # limits.entries
  <2>1. /\ ledger' \in [traversal : Nat, entries : Nat, total : Nat]
        /\ ledger'.traversal = ledger.traversal /\ ledger'.total = ledger.total
        /\ ledger'.entries = ledger.entries + 1 /\ ledger'.entries <= limits.entries
    <3>1. ledger' = [ledger EXCEPT !.entries = ledger.entries + 1] BY <1>1, <1>6
    <3>2. ledger.entries + 1 \in Nat /\ ledger.entries + 1 <= limits.entries BY <1>4, <1>6, Limits
    <3> QED BY <1>4, <3>1, <3>2 DEF ReadTypes
  <2>2. Cardinality(DOMAIN catalog) <= ledger'.entries BY <1>4, <2>1, Limits
  <2>3. CASE found = Missing
    <3>1. walk' = "vanished" /\ UNCHANGED <<handle, image, got>> BY <1>1, <1>6, <2>3 DEF Move
    <3>2. e # Dest BY <1>2, <1>4, <2>3 DEF WalkInv
    <3>3. ReadTypes' BY <1>1, <1>2, <1>4, <2>1, <3>1 DEF ReadTypes, Over
    <3>4. HandleInv' /\ ReadingInv' BY <1>2, <3>1 DEF ReadInv, HandleInv, ReadingInv, TextOf
    <3>5. WalkInv' BY <1>2, <1>4, <3>1 DEF WalkInv
    <3>6. ReadIsExact'
      BY <1>1, <1>2, <1>3, <1>4, <2>1, <2>2, <3>1, <3>2 DEF ReadIsExact, ReadIsWhole, ReadIsBudgeted
    <3> QED BY <3>3, <3>4, <3>5, <3>6 DEF ReadInv
  <2>4. CASE found # Missing
    <3>1. /\ walk' = Preflight(Len(TextOf(found))) /\ image' = TextOf(found) /\ got' = <<>>
          /\ handle' = IF e = Dest THEN NoName ELSE e
      BY <1>1, <1>6, <2>4 DEF Move
    <3>2. walk' \in {"file", "total", "reading"} BY <3>1 DEF Preflight
    <3>3. image' \in Seq(Byte) /\ Len(image') \in Nat BY <3>1, TextIsBytes
    <3>4. ReadTypes'
      BY <1>1, <1>2, <1>4, <2>1, <3>1, <3>2, <3>3 DEF ReadTypes, Over, Refused
    <3>5. HandleInv' BY <1>2, <1>4, <2>4, <3>1, <3>2, Sentinels DEF HandleInv, TextOf
    <3>6. ReadingInv'
      <4>1. e = Dest => handle' = NoName /\ \E b \in since \cap Content : image' = Text[b]
        <5> SUFFICES ASSUME e = Dest PROVE \E b \in since \cap Content : image' = Text[b]
          BY <3>1
        <5>1. dest \in since /\ dest \in Content
          BY <1>2, <1>4, <2>4 DEF WalkInv, IInv, TypeOK, AllOrNothing
        <5> QED BY <3>1, <5>1 DEF TextOf
      <4> QED BY <1>1, <1>2, <1>4, <3>1, <3>3, <4>1 DEF ReadingInv
    <3>7. WalkInv' BY <1>1, <1>2, <1>4, <2>1, <3>2 DEF WalkInv
    <3>8. /\ walk' = "reading" => Len(got') <= ReadLimit'
          /\ walk' = "file" => Len(image') > limits.file
          /\ walk' = "total" => Len(image') + ledger.total > limits.total
      <4>1. Len(got') = 0 BY <3>1
      <4>2. ReadLimit \in Nat BY <1>3, <1>4, LimitOfRead DEF ReadIsExact, ReadIsBudgeted
      <4>3. ReadLimit' = ReadLimit BY <1>2, <2>1 DEF ReadLimit
      <4>4. walk' = "file" => Len(image') > limits.file BY <3>1 DEF Preflight
      <4>5. walk' = "total" => Len(image') + ledger.total > limits.total
        BY <1>4, <3>1, <3>3, Limits DEF Preflight
      <4> QED BY <4>1, <4>2, <4>3, <4>4, <4>5
    <3>9. ReadIsExact'
      BY <1>2, <1>3, <1>4, <2>1, <2>2, <3>2, <3>8 DEF ReadIsExact, ReadIsWhole, ReadIsBudgeted
    <3> QED BY <3>4, <3>5, <3>6, <3>7, <3>9 DEF ReadInv
  <2> QED BY <2>3, <2>4
<1> QED BY <1>5, <1>6

\* A piece continues what was read.
LEMMA PieceKeeps == ASSUME IInv, ReadInv, ReadPiece, UNCHANGED vars PROVE ReadInv'
<1> USE DEF vars, directory, temporaries, file
<1>1. /\ walk = "reading" /\ Len(got) < ReadLimit /\ Len(got) < Len(image)
      /\ UNCHANGED <<walk, limits, ledger, pending, current, handle, image, catalog, since,
                     tmp, dest>>
  BY DEF ReadPiece, ReaderAt
<1>2. PICK n \in (Len(got) + 1)..Min({Len(image), ReadLimit}) :
        got' = got \o SubSeq(image, Len(got) + 1, n)
  BY DEF ReadPiece
<1>3. got \in Seq(Byte) /\ image \in Seq(Byte) /\ ReadLimit \in Nat
  BY LimitOfRead DEF ReadInv, ReadTypes, ReadIsExact, ReadIsBudgeted
<1>4. Len(got) \in Nat /\ Len(image) \in Nat BY <1>3
<1>5. n \in Nat /\ Len(got) < n /\ n <= Len(image) /\ n <= ReadLimit
  <2> DEFINE a == Len(image)
  <2>1. /\ Min({a, ReadLimit}) \in {a, ReadLimit}
        /\ Min({a, ReadLimit}) <= a /\ Min({a, ReadLimit}) <= ReadLimit
    BY <1>3, <1>4, MinOfTwo
  <2> HIDE DEF a
  <2>2. n \in (Len(got) + 1)..Min({a, ReadLimit}) BY <1>2 DEF a
  <2>3. a \in Nat BY <1>4 DEF a
  <2>4. n \in Nat /\ Len(got) < n /\ n <= a /\ n <= ReadLimit BY <1>3, <1>4, <2>1, <2>2, <2>3
  <2> QED BY <2>4 DEF a
<1>6. /\ got' \in Seq(Byte) /\ Len(got') = n
      /\ \A i \in 1..n : got'[i] = IF i <= Len(got) THEN got[i] ELSE image[i]
  <2> DEFINE piece == SubSeq(image, Len(got) + 1, n)
  <2>1. /\ piece \in Seq(Byte) /\ Len(piece) = n - Len(got)
        /\ \A i \in 1..(n - Len(got)) : piece[i] = image[Len(got) + i]
    BY <1>3, <1>4, <1>5
  <2> HIDE DEF piece
  <2>2. got' = got \o piece BY <1>2 DEF piece
  <2>3. got' \in Seq(Byte) /\ Len(got') = n BY <1>3, <1>4, <1>5, <2>1, <2>2
  <2>4. ASSUME NEW i \in 1..n PROVE got'[i] = IF i <= Len(got) THEN got[i] ELSE image[i]
    <3>1. CASE i <= Len(got) BY <1>3, <1>4, <1>5, <2>1, <2>2, <3>1
    <3>2. CASE i > Len(got)
      <4>1. got'[i] = piece[i - Len(got)] BY <1>3, <1>4, <1>5, <2>1, <2>2, <3>2
      <4>2. i - Len(got) \in 1..(n - Len(got)) /\ Len(got) + (i - Len(got)) = i
        BY <1>4, <1>5, <3>2
      <4> QED BY <1>4, <2>1, <3>2, <4>1, <4>2
    <3> QED BY <1>4, <3>1, <3>2
  <2> QED BY <2>3, <2>4
<1>7. ReadTypes' BY <1>1, <1>6 DEF ReadInv, ReadTypes
<1>8. HandleInv' /\ WalkInv' BY <1>1 DEF ReadInv, HandleInv, WalkInv, TextOf
<1>9. ReadingInv'
  <2>1. \A i \in 1..Len(got') : got'[i] = image[i] BY <1>1, <1>4, <1>5, <1>6 DEF ReadInv, ReadingInv
  <2> QED BY <1>1, <1>5, <1>6, <2>1 DEF ReadInv, ReadingInv
<1>10. ReadIsExact'
  <2>1. ReadLimit' = ReadLimit /\ Charged' = Charged BY <1>1 DEF ReadLimit, Charged
  <2> QED BY <1>1, <1>5, <1>6, <2>1 DEF ReadInv, ReadIsExact, ReadIsWhole, ReadIsBudgeted
<1> QED BY <1>7, <1>8, <1>9, <1>10 DEF ReadInv

\* Only a file read to its end is kept, and it costs what it has.
LEMMA FinishKeeps == ASSUME IInv, ReadInv, FinishFile, UNCHANGED vars PROVE ReadInv'
<1> USE DEF vars, directory, temporaries, file
<1>1. /\ walk = "reading" /\ (Len(got) = ReadLimit \/ Len(got) >= Len(image))
      /\ UNCHANGED <<limits, pending, current, image, got, since, tmp, dest>>
  BY DEF FinishFile, ReaderAt
<1>2. ReadTypes /\ HandleInv /\ ReadingInv /\ WalkInv /\ ReadIsExact BY DEF ReadInv
<1>3. /\ got \in Seq(Byte) /\ image \in Seq(Byte) /\ Len(got) \in Nat /\ Len(image) \in Nat
      /\ ledger.total = Charged /\ ledger.total <= limits.total
  BY <1>2 DEF ReadTypes, ReadIsExact, ReadIsBudgeted
<1>4. Len(got) <= Len(image) BY <1>1, <1>2 DEF ReadingInv
<1>5. CASE Preflight(Len(got)) # "reading"
  <2>1. /\ walk' = Preflight(Len(got)) /\ UNCHANGED <<ledger, catalog, handle>>
    BY <1>5 DEF FinishFile, Move
  <2>2. /\ walk' \in {"file", "total"}
        /\ walk' = "file" => Len(got) > limits.file
        /\ walk' = "total" => ledger.total + Len(got) > limits.total
    BY <1>5, <2>1 DEF Preflight
  <2>3. Charged' = Charged BY <2>1 DEF Charged
  <2>4. ReadTypes' BY <1>1, <1>2, <2>1, <2>2 DEF ReadTypes, Over, Refused
  <2>5. HandleInv' /\ ReadingInv' BY <1>1, <1>2, <2>1, <2>2 DEF HandleInv, ReadingInv, TextOf
  <2>6. WalkInv' BY <1>1, <1>2, <2>1, <2>2 DEF WalkInv
  <2>7. ReadIsExact'
    <3>1. /\ walk' = "file" => Len(image) > limits.file
          /\ walk' = "total" => Len(image) + ledger.total > limits.total
      BY <1>2, <1>3, <1>4, <2>2, Limits
    <3>2. Cardinality(DOMAIN catalog) <= ledger.entries BY <1>1, <1>2, Limits DEF WalkInv
    <3> QED BY <1>1, <1>2, <1>3, <2>1, <2>2, <2>3, <3>1, <3>2
        DEF ReadIsExact, ReadIsWhole, ReadIsBudgeted
  <2> QED BY <2>4, <2>5, <2>6, <2>7 DEF ReadInv
<1>6. CASE Preflight(Len(got)) = "reading"
  <2>1. /\ walk' = "entry" /\ handle' = NoName
        /\ ledger' = [ledger EXCEPT !.total = ledger.total + Len(got)]
        /\ catalog' = [e \in DOMAIN catalog \cup {current} |->
                          IF e = current THEN got ELSE catalog[e]]
    BY <1>6 DEF FinishFile, Move
  <2>2. Len(got) <= limits.file /\ ledger.total + Len(got) <= limits.total
    BY <1>2, <1>3, <1>6, Limits DEF Preflight
  <2>3. Len(got) = Len(image)
    <3>1. Len(got) # ReadLimit BY <1>2, <1>3, <2>2, Limits, LimitOfRead
    <3> QED BY <1>1, <1>3, <1>4, <3>1
  <2>4. got = image BY <1>1, <1>2, <1>3, <2>3 DEF ReadingInv
  <2>5. current \notin DOMAIN catalog /\ current \in Name \cup {Dest}
    BY <1>1, <1>2 DEF ReadingInv, ReadTypes
  <2>6. /\ DOMAIN catalog' = DOMAIN catalog \cup {current}
        /\ catalog'[current] = got
        /\ \A e \in DOMAIN catalog : catalog'[e] = catalog[e]
    BY <2>1, <2>5
  <2>7. /\ IsFiniteSet(BytesOf(catalog')) /\ Charged' = Charged + Len(got)
    <3>1. IsFiniteSet(BytesOf(catalog)) BY <1>2 DEF ReadTypes
    <3>2. /\ IsFiniteSet(BytesOf(catalog'))
          /\ Cardinality(BytesOf(catalog')) = Cardinality(BytesOf(catalog)) + Len(got)
      BY <1>3, <2>5, <2>6, <3>1, OneMoreDocument
    <3> QED BY <3>2 DEF Charged
  <2>8. /\ IsFiniteSet(DOMAIN catalog')
        /\ Cardinality(DOMAIN catalog') = Cardinality(DOMAIN catalog) + 1
    BY <1>2, <2>5, <2>6, FS_AddElement DEF ReadTypes
  <2>9. /\ ledger' \in [traversal : Nat, entries : Nat, total : Nat]
        /\ ledger'.total = ledger.total + Len(got)
        /\ ledger'.entries = ledger.entries /\ ledger'.traversal = ledger.traversal
    BY <1>2, <1>3, <2>1 DEF ReadTypes
  <2>10. \A e \in DOMAIN catalog' : catalog'[e] \in Seq(Byte) /\ Len(catalog'[e]) <= limits.file
    BY <1>2, <1>3, <2>2, <2>6 DEF ReadTypes, ReadIsExact, ReadIsBudgeted
  <2>11. ReadTypes'
    BY <1>1, <1>2, <2>1, <2>7, <2>8, <2>9, <2>10 DEF ReadTypes
  <2>12. HandleInv' /\ ReadingInv' BY <2>1 DEF HandleInv, ReadingInv
  <2>13. Dest \in DOMAIN catalog' => \E b \in since \cap Content : catalog'[Dest] = Text[b]
    <3>1. CASE current = Dest BY <1>1, <1>2, <2>4, <2>6, <3>1 DEF ReadingInv
    <3>2. CASE current # Dest BY <1>2, <2>6, <3>2 DEF WalkInv
    <3> QED BY <3>1, <3>2
  <2>14. ledger.entries = Cardinality(DOMAIN catalog) + 1 BY <1>1, <1>2 DEF WalkInv
  <2>15. WalkInv'
    <3>1. pending' \cap DOMAIN catalog' = {}
      BY <1>1, <1>2, <2>6 DEF WalkInv, ReadingInv
    <3> QED BY <1>1, <1>2, <2>1, <2>6, <2>8, <2>9, <2>13, <2>14, <3>1 DEF WalkInv
  <2>16. ReadIsExact'
    <3>1. ledger'.total = Charged' /\ Charged' <= limits.total BY <1>3, <2>2, <2>7, <2>9
    <3>2. Cardinality(DOMAIN catalog') <= ledger'.entries BY <1>2, <2>8, <2>9, <2>14, Limits
    <3>3. ledger'.entries <= limits'.entries /\ ledger'.traversal <= limits'.traversal
      BY <1>1, <1>2, <2>9 DEF ReadIsExact, ReadIsBudgeted
    <3> QED BY <1>1, <2>1, <2>10, <3>1, <3>2, <3>3 DEF ReadIsExact, ReadIsWhole, ReadIsBudgeted
  <2> QED BY <2>11, <2>12, <2>15, <2>16 DEF ReadInv
<1> QED BY <1>5, <1>6

\* A walk that ends has met the destination; one that fails promises nothing.
LEMMA EndKeeps == ASSUME IInv, ReadInv, EndRead \/ ReadFails, UNCHANGED vars PROVE ReadInv'
<1> USE DEF vars, directory, temporaries, file
<1>1. /\ UNCHANGED <<limits, ledger, pending, current, handle, image, got, catalog, since,
                     tmp, dest>>
      /\ \/ walk' = "complete" /\ walk = "entry" /\ pending = {}
         \/ walk' = "failed"
  BY DEF EndRead, ReadFails, Move, ReaderAt
<1>2. ReadTypes' /\ HandleInv' /\ ReadingInv' /\ WalkInv'
  <2>1. ReadTypes' BY <1>1 DEF ReadInv, ReadTypes, Over
  <2>2. walk # "killed" BY DEF EndRead, ReadFails, ReaderAt, Over
  <2>3. HandleInv' BY <1>1, <2>2 DEF ReadInv, HandleInv, TextOf
  <2>4. ReadingInv' BY <1>1 DEF ReadingInv
  <2>5. WalkInv' BY <1>1 DEF ReadInv, WalkInv
  <2> QED BY <2>1, <2>3, <2>4, <2>5
<1>3. walk' = "complete" => (Missing \notin since => Dest \in DOMAIN catalog)
  BY <1>1 DEF ReadInv, WalkInv
<1>4. Dest \in DOMAIN catalog => \E b \in since \cap Content : catalog[Dest] = Text[b]
  BY DEF ReadInv, WalkInv
<1>5. Charged' = Charged BY <1>1 DEF Charged
<1>6. ReadIsExact'
  BY <1>1, <1>3, <1>4, <1>5 DEF ReadInv, ReadIsExact, ReadIsWhole, ReadIsBudgeted
<1> QED BY <1>2, <1>6 DEF ReadInv

\* Nothing a publication does to the files disturbs the reader: the file it has
\* open grows at most, and only from nothing.
LEMMA PublisherKeeps ==
    ASSUME IInv, IInv', Unwritten, ReadInv, PublisherStep
    PROVE  ReadInv'
<1>1. UNCHANGED <<walk, limits, ledger, pending, current, got, catalog>> /\ Follow
  BY DEF PublisherStep, Follow
<1>2. /\ dest # Missing => dest' # Missing
      /\ \A n \in Name : tmp[n] \in {Missing, Torn} \/ tmp'[n] \in {Missing, tmp[n]}
  BY FilesOnlyGrow DEF PublisherStep
<1>3. ReadTypes /\ HandleInv /\ ReadingInv /\ WalkInv /\ ReadIsExact BY DEF ReadInv
<1>4. dest' \in Content \cup {Missing} BY DEF IInv, TypeOK, AllOrNothing
<1>5. /\ since' \subseteq Content \cup {Missing} /\ since \subseteq since'
      /\ walk \in {"list", "entry", "reading"} => dest' \in since'
      /\ walk \notin {"list", "entry", "reading"} => since' = since
  BY <1>1, <1>3, <1>4 DEF Follow, ReadTypes, Over, Refused
<1>6. handle' \in {handle, NoName} /\ image' \in Seq(Byte)
  BY <1>1, <1>3, TextIsBytes DEF Follow, ReadTypes
<1>7. ReadTypes' BY <1>1, <1>3, <1>5, <1>6 DEF ReadTypes
<1>8. walk # "killed" => image' = image \/ image = <<>>
  <2> SUFFICES ASSUME walk # "killed", handle # NoName, tmp'[handle] # Missing
               PROVE  image' = image \/ image = <<>>
    BY <1>1 DEF Follow
  <2>1. handle \in Name /\ tmp[handle] # Missing /\ image = TextOf(tmp[handle])
    BY <1>3 DEF ReadTypes, HandleInv
  <2>2. image' = TextOf(tmp'[handle]) BY <1>1 DEF Follow
  <2>3. tmp[handle] = Torn \/ tmp'[handle] = tmp[handle] BY <1>2, <2>1
  <2> QED BY <2>1, <2>2, <2>3, DistinctBytes DEF TextOf
<1>9. handle = NoName => handle' = NoName /\ image' = image BY <1>1 DEF Follow
<1>10. HandleInv' BY <1>1, <1>3 DEF Follow, HandleInv, TextOf
<1>11. /\ Len(image) \in Nat /\ Len(image') \in Nat /\ Len(got) \in Nat
       /\ image = <<>> => Len(image) = 0
  BY <1>3, <1>6 DEF ReadTypes
<1>12. ReadingInv'
  <2> SUFFICES ASSUME walk = "reading" PROVE ReadingInv' BY <1>1 DEF ReadingInv
  <2>1. image' = image \/ image = <<>> BY <1>8
  <2>2. Len(got) <= Len(image') /\ \A i \in 1..Len(got) : got[i] = image'[i]
    <3>1. CASE image' = image BY <1>3, <3>1 DEF ReadingInv
    <3>2. CASE image = <<>> BY <1>3, <1>11, <3>2 DEF ReadingInv
    <3> QED BY <2>1, <3>1, <3>2
  <2>3. current = Dest => handle' = NoName /\ \E b \in since' \cap Content : image' = Text[b]
    BY <1>3, <1>5, <1>9 DEF ReadingInv
  <2> QED BY <1>1, <1>3, <2>2, <2>3 DEF ReadingInv
<1>13. WalkInv' BY <1>1, <1>2, <1>3, <1>5 DEF WalkInv
<1>14. ReadIsExact'
  <2>1. Charged' = Charged BY <1>1 DEF Charged
  <2>2. ReadLimit' = ReadLimit BY <1>1 DEF ReadLimit
  <2>3. ReadIsWhole' BY <1>1, <1>3, <1>5 DEF ReadIsExact, ReadIsWhole, Over
  <2>4. walk \in {"file", "total"} => Len(image') >= Len(image)
    BY <1>8, <1>11
  <2>5. /\ walk = "file" => Len(image') > limits.file
        /\ walk = "total" => Len(image') + Charged > limits.total
    <3>1. /\ walk = "file" => Len(image) > limits.file
          /\ walk = "total" => Len(image) + Charged > limits.total
          /\ Charged \in Nat /\ limits.file \in Nat /\ limits.total \in Nat
      BY <1>3, Limits DEF ReadIsExact, ReadIsBudgeted
    <3> QED BY <1>11, <2>4, <3>1
  <2>6. ReadIsBudgeted' BY <1>1, <1>3, <2>1, <2>2, <2>5 DEF ReadIsExact, ReadIsBudgeted
  <2> QED BY <2>3, <2>6 DEF ReadIsExact
<1> QED BY <1>7, <1>10, <1>12, <1>13, <1>14 DEF ReadInv

\* A power loss takes the reader with it.
LEMMA PowerFailsKeeps == ASSUME ReadInv, PowerFails PROVE ReadInv'
<1> USE DEF file
<1>1. /\ UNCHANGED <<limits, ledger, pending, current, handle, image, got, catalog, since>>
      /\ walk' = "killed" \/ (walk = "nobody" /\ walk' = "nobody")
  BY DEF PowerFails
<1>2. ReadTypes' BY <1>1 DEF ReadInv, ReadTypes, Over
<1>3. HandleInv' BY <1>1 DEF ReadInv, HandleInv
<1>4. ReadingInv' /\ WalkInv' BY <1>1 DEF ReadInv, ReadingInv, WalkInv
<1>5. Charged' = Charged BY <1>1 DEF Charged
<1>6. ReadIsExact' BY <1>1, <1>5 DEF ReadInv, ReadIsExact, ReadIsWhole, ReadIsBudgeted
<1> QED BY <1>2, <1>3, <1>4, <1>6 DEF ReadInv

\* At the start nothing is read and nothing is charged.
LEMMA InitRead == ReadInit => ReadInv
<1> SUFFICES ASSUME ReadInit PROVE ReadInv OBVIOUS
<1> DEFINE empty == <<>>
<1>1. /\ catalog = <<>> /\ image = <<>> /\ got = <<>> /\ pending = {} /\ since = {}
      /\ current = Dest /\ handle = NoName /\ walk \in {"idle", "nobody"}
      /\ ledger = [traversal |-> 0, entries |-> 0, total |-> 0] /\ limits \in ReadLimits
  <2>1. (CHOOSE l \in ReadLimits : TRUE) \in ReadLimits BY Budgeted
  <2> QED BY <2>1 DEF ReadInit
<1>2. DOMAIN catalog = {} BY <1>1
<1>3. BytesOf(catalog) = {} BY <1>2 DEF BytesOf
<1>4. /\ IsFiniteSet(DOMAIN catalog) /\ IsFiniteSet(BytesOf(catalog))
      /\ Cardinality(DOMAIN catalog) = 0 /\ Cardinality(BytesOf(catalog)) = 0
  BY <1>2, <1>3, FS_EmptySet, Zenon
<1>5. ReadTypes BY <1>1, <1>2, <1>4 DEF ReadTypes
<1>6. HandleInv /\ ReadingInv /\ WalkInv BY <1>1, <1>2 DEF HandleInv, ReadingInv, WalkInv
<1>7. ReadIsWhole BY <1>1 DEF ReadIsWhole
<1>8. ReadIsBudgeted
  <2>1. limits.total \in Nat /\ limits.entries \in Nat /\ limits.traversal \in Nat BY <1>5, Limits
  <2>2. Charged = 0 BY <1>4 DEF Charged
  <2> QED BY <1>1, <1>2, <1>4, <2>1, <2>2 DEF ReadIsBudgeted
<1> QED BY <1>5, <1>6, <1>7, <1>8 DEF ReadInv, ReadIsExact

\* The inductive step: a step of the reader, of a publication or a power loss.
LEMMA NextRead ==
    IInv /\ IInv' /\ Unwritten /\ ReadInv /\ [ReadNext]_allVars => ReadInv'
<1> SUFFICES ASSUME IInv, IInv', Unwritten, ReadInv, [ReadNext]_allVars PROVE ReadInv' OBVIOUS
<1>1. CASE ReaderStep
  BY <1>1, StartKeeps, OpenKeeps, PieceKeeps, FinishKeeps, EndKeeps DEF ReaderStep
<1>2. CASE PublisherStep BY <1>2, PublisherKeeps
<1>3. CASE PowerFails BY <1>3, PowerFailsKeeps
<1>4. CASE UNCHANGED allVars
  <2>1. UNCHANGED <<walk, limits, ledger, pending, current, handle, image, got, catalog, since,
                    tmp, dest>>
    BY <1>4 DEF allVars, vars, reader, directory, temporaries, file
  <2>2. Charged' = Charged /\ ReadLimit' = ReadLimit BY <2>1 DEF Charged, ReadLimit
  <2>3. ReadIsExact' BY <2>1, <2>2 DEF ReadInv, ReadIsExact, ReadIsWhole, ReadIsBudgeted
  <2> QED BY <2>1, <2>3 DEF ReadInv, ReadTypes, HandleInv, ReadingInv, WalkInv, TextOf
<1> QED BY <1>1, <1>2, <1>3, <1>4 DEF ReadNext

\* A read without the lock gives whole documents, whatever is replaced, removed or
\* grows beside it, and its ledger is the bytes it kept and never over a limit.
THEOREM ReadExact == ReadSpec => []ReadIsExact
<1>1. Init => Unwritten BY DEF Init, Unwritten, At
<1>2. Spec => []IInv /\ []Unwritten BY <1>1, StepUnwritten, IInvHolds, PTL DEF Spec
<1>3. ReadInv => ReadIsExact BY DEF ReadInv
<1> QED BY <1>2, <1>3, InitRead, NextRead, ReaderDisturbsNobody, PTL DEF ReadSpec
=============================================================================

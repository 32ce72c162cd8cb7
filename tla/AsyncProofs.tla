---------------------------- MODULE AsyncProofs -----------------------------
(***************************************************************************)
(* For any number of operations, threads and kits and any capacities:      *)
(* permits are conserved, and whoever waits gets the job's own answer.     *)
(* For any interleaving of poll, handler and command: no wakeup is lost    *)
(* and a completed result wins.                                            *)
(***************************************************************************)
EXTENDS WorkPool, CancellationRace, FiniteSetTheorems, TLAPS

\* PoolTypeOK without the upper bounds on permits, which follow from conservation.
Types ==
    /\ admitted \in [Kit -> Nat] /\ running \in [Kit -> Nat]
    /\ future \in [Operation -> {"idle", "full", "waiting", "submitted", "dropping",
                                 "dropped", "resolved", "panicked", "abandoned"}]
    /\ job \in [Operation -> {"none", "queued", "working", "returned", "released",
                              "finished", "sent", "gone"}]
    /\ answer \in [Operation -> {"none", "value", "panic", "canceled"}]
    /\ probe \in [Operation -> BOOLEAN]
    /\ stack \in [Thread -> Seq(Operation)]

\* What the future, the closure and the answer of one operation know of each other.
Coherent(o) ==
    /\ future[o] \in {"idle", "full", "waiting"} => job[o] = "none"
    /\ probe[o] => future[o] = "dropped"
    /\ job[o] \in {"none", "queued", "working"} => answer[o] = "none"
    /\ future[o] \in {"submitted", "resolved"} => answer[o] # "canceled"
    /\ future[o] = "submitted" /\ job[o] \in {"returned", "released", "finished", "sent"} =>
         answer[o] # "none"
    /\ future[o] = "submitted" => job[o] # "gone"
    /\ job[o] \in {"queued", "working", "returned", "released"} =>
         future[o] \in {"submitted", "dropping", "dropped"}
    /\ future[o] # "abandoned"

IInv == Types /\ PermitsConserved /\ \A o \in Operation : Coherent(o)

-----------------------------------------------------------------------------
\* A set with one element more, and one element less.
LEMMA OneMore ==
    ASSUME NEW S, NEW x, IsFiniteSet(S), x \notin S
    PROVE  Cardinality(S \cup {x}) = Cardinality(S) + 1
BY FS_AddElement

LEMMA OneLess ==
    ASSUME NEW S, NEW x, IsFiniteSet(S), x \in S
    PROVE  Cardinality(S \ {x}) = Cardinality(S) - 1
BY FS_RemoveElement

\* The holders of a kit are finitely many.
LEMMA FiniteHolders ==
    ASSUME NEW k \in Kit
    PROVE  /\ IsFiniteSet(HoldAdmitted(k)) /\ Cardinality(HoldAdmitted(k)) \in Nat
           /\ IsFiniteSet(HoldRunning(k)) /\ Cardinality(HoldRunning(k)) \in Nat
<1>1. HoldAdmitted(k) \subseteq Operation /\ HoldRunning(k) \subseteq Operation
  BY DEF HoldAdmitted, HoldRunning
<1> QED BY <1>1, FiniteAssumption, FS_Subset, FS_CardinalityType

\* Conserved permits stay within their bounds.
LEMMA Bounded == IInv => PoolTypeOK
<1> SUFFICES ASSUME IInv PROVE PoolTypeOK OBVIOUS
<1>1. ASSUME NEW k \in Kit PROVE admitted[k] \in 0..Capacity /\ running[k] \in 0..InFlight
  <2>1. admitted[k] + Cardinality(HoldAdmitted(k)) = Capacity
        /\ running[k] + Cardinality(HoldRunning(k)) = InFlight
    BY DEF IInv, PermitsConserved
  <2>2. admitted[k] \in Nat /\ running[k] \in Nat BY DEF IInv, Types
  <2>3. Capacity \in Nat /\ InFlight \in Nat BY CapacityAssumption DEF Capacity
  <2>4. admitted[k] <= Capacity /\ running[k] <= InFlight BY <2>1, <2>2, <2>3, FiniteHolders
  <2> QED BY <2>1, <2>2, <2>3, <2>4, FiniteHolders
<1> QED BY <1>1 DEF IInv, Types, PoolTypeOK

\* A step of a thread is a step of the operation innermost on its stack.
LEMMA InnerOperation ==
    ASSUME Types, NEW t \in Thread, stack[t] # <<>>
    PROVE  Innermost(t) \in Operation
<1>1. stack[t] \in Seq(Operation) BY DEF Types
<1>2. Len(stack[t]) \in 1..Len(stack[t]) BY <1>1
<1> QED BY <1>1, <1>2 DEF Innermost

\* Leaving a job shortens a stack.
LEMMA PoppedStack ==
    ASSUME Types, NEW t \in Thread, stack[t] # <<>>
    PROVE  SubSeq(stack[t], 1, Len(stack[t]) - 1) \in Seq(Operation)
<1>1. stack[t] \in Seq(Operation) BY DEF Types
<1> QED BY <1>1

\* Every step keeps the types.
LEMMA NextTypes == ASSUME IInv, [PoolNext]_poolVars PROVE Types'
<1> USE KitAssumption DEF IInv, permits, Becomes, Job, Gain, Lose
<1>1. ASSUME NEW o \in Operation, Submit(o) PROVE Types'
  <2>1. CASE admitted[KitOf[o]] = 0 BY <1>1, <2>1 DEF Submit, Types
  <2>2. CASE admitted[KitOf[o]] # 0
    <3>1. admitted[KitOf[o]] - 1 \in Nat BY <2>2 DEF Types
    <3> QED BY <1>1, <2>2, <3>1 DEF Submit, Types
  <2> QED BY <2>1, <2>2
<1>2. ASSUME NEW o \in Operation, AcquireRunning(o) PROVE Types' BY <1>2 DEF AcquireRunning, Types
<1>3. ASSUME NEW o \in Operation, Receive(o) PROVE Types'
  <2>1. CASE job[o] = "gone" BY <1>3, <2>1 DEF Receive, Types
  <2>2. CASE job[o] = "sent" /\ answer[o] = "panic" BY <1>3, <2>2 DEF Receive, Types
  <2>3. CASE job[o] = "sent" /\ answer[o] # "panic" BY <1>3, <2>3 DEF Receive, Types
  <2> QED BY <1>3, <2>1, <2>2, <2>3 DEF Receive
<1>4. ASSUME NEW o \in Operation, CancelProbe(o) PROVE Types' BY <1>4 DEF CancelProbe, Types
<1>5. ASSUME NEW o \in Operation, DropWaiting(o) PROVE Types' BY <1>5 DEF DropWaiting, Types
<1>6. ASSUME NEW o \in Operation, DropReceiver(o) PROVE Types' BY <1>6 DEF DropReceiver, Types
<1>7. ASSUME NEW t \in Thread, NEW o \in Operation, Pick(t, o) PROVE Types'
  BY <1>7 DEF Pick, Types
<1>8. ASSUME NEW t \in Thread, Return(t) PROVE Types'
  BY <1>8, InnerOperation DEF Return, InnermostIsAt, Types
<1>9. ASSUME NEW t \in Thread, ReleaseRunning(t) PROVE Types'
  BY <1>9, InnerOperation DEF ReleaseRunning, InnermostIsAt, Types
<1>10. ASSUME NEW t \in Thread, ReleaseAdmitted(t) PROVE Types'
  BY <1>10, InnerOperation DEF ReleaseAdmitted, InnermostIsAt, Types
<1>11. ASSUME NEW t \in Thread, Send(t) PROVE Types'
  <2>1. Innermost(t) \in Operation BY <1>11, InnerOperation DEF Send, InnermostIsAt
  <2>2. SubSeq(stack[t], 1, Len(stack[t]) - 1) \in Seq(Operation)
    BY <1>11, PoppedStack DEF Send, InnermostIsAt
  <2> QED BY <1>11, <2>1, <2>2 DEF Send, Types
<1>12. CASE UNCHANGED poolVars BY <1>12 DEF poolVars, Types
<1> QED
  BY <1>1, <1>2, <1>3, <1>4, <1>5, <1>6, <1>7, <1>8, <1>9, <1>10, <1>11, <1>12
  DEF PoolNext, Caller, DropFuture, Worker

\* Every step keeps what future, closure and answer know of each other.
LEMMA NextCoherent == ASSUME IInv, [PoolNext]_poolVars, NEW p \in Operation PROVE Coherent(p)'
<1>0. Coherent(p) BY DEF IInv
<1> USE <1>0 DEF IInv, Types, Coherent, permits, Becomes, Job
<1>1. ASSUME NEW o \in Operation, Submit(o) PROVE Coherent(p)' BY <1>1 DEF Submit
<1>2. ASSUME NEW o \in Operation, AcquireRunning(o) PROVE Coherent(p)' BY <1>2 DEF AcquireRunning
<1>3. ASSUME NEW o \in Operation, Receive(o) PROVE Coherent(p)' BY <1>3 DEF Receive
<1>4. ASSUME NEW o \in Operation, CancelProbe(o) PROVE Coherent(p)' BY <1>4 DEF CancelProbe
<1>5. ASSUME NEW o \in Operation, DropWaiting(o) PROVE Coherent(p)' BY <1>5 DEF DropWaiting
<1>6. ASSUME NEW o \in Operation, DropReceiver(o) PROVE Coherent(p)' BY <1>6 DEF DropReceiver
<1>7. ASSUME NEW t \in Thread, NEW o \in Operation, Pick(t, o) PROVE Coherent(p)'
  BY <1>7 DEF Pick
<1>8. ASSUME NEW t \in Thread, Return(t) PROVE Coherent(p)'
  BY <1>8, InnerOperation DEF Return, InnermostIsAt
<1>9. ASSUME NEW t \in Thread, ReleaseRunning(t) PROVE Coherent(p)'
  BY <1>9, InnerOperation DEF ReleaseRunning, InnermostIsAt
<1>10. ASSUME NEW t \in Thread, ReleaseAdmitted(t) PROVE Coherent(p)'
  BY <1>10, InnerOperation DEF ReleaseAdmitted, InnermostIsAt
<1>11. ASSUME NEW t \in Thread, Send(t) PROVE Coherent(p)'
  BY <1>11, InnerOperation DEF Send, InnermostIsAt
<1>12. CASE UNCHANGED poolVars BY <1>12 DEF poolVars
<1> QED
  BY <1>1, <1>2, <1>3, <1>4, <1>5, <1>6, <1>7, <1>8, <1>9, <1>10, <1>11, <1>12
  DEF PoolNext, Caller, DropFuture, Worker

-----------------------------------------------------------------------------
\* A permit of a semaphore P is taken, or given back, by an operation that
\* enters, or leaves, the holders S of its kit.
LEMMA PermitTaken ==
    ASSUME NEW P \in [Kit -> Nat], NEW o \in Operation, NEW k \in Kit, NEW C \in Nat,
           NEW S \in SUBSET Operation, NEW T, P[k] + Cardinality(S) = C,
           IF k = KitOf[o] THEN o \notin S /\ T = S \cup {o} ELSE T = S
    PROVE  Lose(P, o)[k] + Cardinality(T) = C
<1>1. IsFiniteSet(S) /\ Cardinality(S) \in Nat
  BY FiniteAssumption, FS_Subset, FS_CardinalityType
<1>2. CASE k = KitOf[o]
  <2>1. Cardinality(T) = Cardinality(S) + 1 BY <1>1, <1>2, OneMore
  <2> QED BY <1>1, <1>2, <2>1 DEF Lose
<1>3. CASE k # KitOf[o] BY <1>3 DEF Lose
<1> QED BY <1>2, <1>3

LEMMA PermitGiven ==
    ASSUME NEW P \in [Kit -> Nat], NEW o \in Operation, NEW k \in Kit, NEW C \in Nat,
           NEW S \in SUBSET Operation, NEW T, P[k] + Cardinality(S) = C,
           IF k = KitOf[o] THEN o \in S /\ T = S \ {o} ELSE T = S
    PROVE  Gain(P, o)[k] + Cardinality(T) = C
<1>1. IsFiniteSet(S) /\ Cardinality(S) \in Nat
  BY FiniteAssumption, FS_Subset, FS_CardinalityType
<1>2. CASE k = KitOf[o]
  <2>1. Cardinality(T) = Cardinality(S) - 1 BY <1>1, <1>2, OneLess
  <2> QED BY <1>1, <1>2, <2>1 DEF Gain
<1>3. CASE k # KitOf[o] BY <1>3 DEF Gain
<1> QED BY <1>2, <1>3

\* The two halves of conservation, for one kit.
AdmittedConserved(k) == admitted[k] + Cardinality(HoldAdmitted(k)) = Capacity
RunningConserved(k) == running[k] + Cardinality(HoldRunning(k)) = InFlight

\* Admission is conserved: Submit takes it, DropWaiting and ReleaseAdmitted give
\* it back, and every other step leaves its holders alone.
LEMMA NextAdmitted == ASSUME IInv, [PoolNext]_poolVars, NEW k \in Kit PROVE AdmittedConserved(k)'
<1>a. /\ Types /\ AdmittedConserved(k) /\ Capacity \in Nat /\ HoldAdmitted(k) \in SUBSET Operation
      /\ \A o \in Operation : Coherent(o) /\ KitOf[o] \in Kit
  BY KitAssumption, CapacityAssumption
  DEF IInv, PermitsConserved, AdmittedConserved, HoldAdmitted, Capacity
<1>b. admitted \in [Kit -> Nat] BY <1>a DEF Types
<1>c. ASSUME UNCHANGED admitted, HoldAdmitted(k)' = HoldAdmitted(k) PROVE AdmittedConserved(k)'
  BY <1>a, <1>c DEF AdmittedConserved
<1>t. ASSUME NEW o \in Operation, admitted' = Lose(admitted, o),
             IF k = KitOf[o] THEN o \notin HoldAdmitted(k) /\ HoldAdmitted(k)' = HoldAdmitted(k) \cup {o}
                             ELSE HoldAdmitted(k)' = HoldAdmitted(k)
      PROVE  AdmittedConserved(k)'
  BY <1>a, <1>b, <1>t, PermitTaken DEF AdmittedConserved
<1>g. ASSUME NEW o \in Operation, admitted' = Gain(admitted, o),
             IF k = KitOf[o] THEN o \in HoldAdmitted(k) /\ HoldAdmitted(k)' = HoldAdmitted(k) \ {o}
                             ELSE HoldAdmitted(k)' = HoldAdmitted(k)
      PROVE  AdmittedConserved(k)'
  BY <1>a, <1>b, <1>g, PermitGiven DEF AdmittedConserved
<1> USE <1>a DEF Types, Coherent, HoldAdmitted, permits, Becomes, Job
<1>1. ASSUME NEW o \in Operation, Submit(o) PROVE AdmittedConserved(k)'
  <2>1. CASE admitted[KitOf[o]] = 0 BY <1>1, <2>1, <1>c DEF Submit
  <2>2. CASE admitted[KitOf[o]] # 0
    <3>1. future[o] = "idle" /\ job[o] = "none" BY <1>1 DEF Submit
    <3>2. future' = [future EXCEPT ![o] = "waiting"] /\ UNCHANGED job BY <1>1, <2>2 DEF Submit
    <3>3. HoldAdmitted(k)' = IF k = KitOf[o] THEN HoldAdmitted(k) \cup {o} ELSE HoldAdmitted(k)
      BY <3>1, <3>2
    <3>4. admitted' = Lose(admitted, o) BY <1>1, <2>2 DEF Submit
    <3>5. o \notin HoldAdmitted(k) BY <3>1
    <3> QED BY <3>3, <3>4, <3>5, <1>t
  <2> QED BY <2>1, <2>2
<1>2. ASSUME NEW o \in Operation, DropWaiting(o) PROVE AdmittedConserved(k)'
  <2>1. future[o] = "waiting" /\ job[o] = "none" BY <1>2 DEF DropWaiting
  <2>2. future' = [future EXCEPT ![o] = "dropped"] /\ UNCHANGED job BY <1>2 DEF DropWaiting
  <2>3. HoldAdmitted(k)' = IF k = KitOf[o] THEN HoldAdmitted(k) \ {o} ELSE HoldAdmitted(k)
    BY <2>1, <2>2
  <2>4. admitted' = Gain(admitted, o) BY <1>2 DEF DropWaiting
  <2>5. k = KitOf[o] => o \in HoldAdmitted(k) BY <2>1
  <2> QED BY <2>3, <2>4, <2>5, <1>g
<1>3. ASSUME NEW t \in Thread, ReleaseAdmitted(t) PROVE AdmittedConserved(k)'
  <2> DEFINE o == Innermost(t)
  <2>1. o \in Operation BY <1>3, InnerOperation DEF ReleaseAdmitted, InnermostIsAt
  <2>2. job[o] = "released" BY <1>3 DEF ReleaseAdmitted, InnermostIsAt
  <2>3. job' = [job EXCEPT ![o] = "finished"] /\ UNCHANGED future BY <1>3 DEF ReleaseAdmitted
  <2>4. admitted' = Gain(admitted, o) BY <1>3 DEF ReleaseAdmitted
  <2> HIDE DEF o
  <2>5. future[o] \in {"submitted", "dropping", "dropped"} BY <2>1, <2>2
  <2>6. HoldAdmitted(k)' = IF k = KitOf[o] THEN HoldAdmitted(k) \ {o} ELSE HoldAdmitted(k)
    BY <2>1, <2>2, <2>3, <2>5
  <2>7. k = KitOf[o] => o \in HoldAdmitted(k) BY <2>1, <2>2
  <2> QED BY <2>1, <2>4, <2>6, <2>7, <1>g
<1>4. ASSUME NEW o \in Operation, AcquireRunning(o) \/ Receive(o) \/ CancelProbe(o) \/ DropReceiver(o)
      PROVE  AdmittedConserved(k)'
  BY <1>4, <1>c DEF AcquireRunning, Receive, CancelProbe, DropReceiver
<1>5. ASSUME NEW t \in Thread, NEW o \in Operation, Pick(t, o) PROVE AdmittedConserved(k)'
  BY <1>5, <1>c DEF Pick
<1>6. ASSUME NEW t \in Thread, Return(t) \/ ReleaseRunning(t) \/ Send(t) PROVE AdmittedConserved(k)'
  BY <1>6, <1>c, InnerOperation DEF Return, ReleaseRunning, Send, InnermostIsAt
<1>7. CASE UNCHANGED poolVars BY <1>7, <1>c DEF poolVars
<1> QED BY <1>1, <1>2, <1>3, <1>4, <1>5, <1>6, <1>7 DEF PoolNext, Caller, DropFuture, Worker

\* So are active slots: AcquireRunning takes one and ReleaseRunning gives it back.
LEMMA NextRunning == ASSUME IInv, [PoolNext]_poolVars, NEW k \in Kit PROVE RunningConserved(k)'
<1>a. /\ Types /\ RunningConserved(k) /\ InFlight \in Nat /\ HoldRunning(k) \in SUBSET Operation
      /\ \A o \in Operation : Coherent(o) /\ KitOf[o] \in Kit
  BY KitAssumption, CapacityAssumption
  DEF IInv, PermitsConserved, RunningConserved, HoldRunning, Capacity
<1>b. running \in [Kit -> Nat] BY <1>a DEF Types
<1>c. ASSUME UNCHANGED running, HoldRunning(k)' = HoldRunning(k) PROVE RunningConserved(k)'
  BY <1>a, <1>c DEF RunningConserved
<1>t. ASSUME NEW o \in Operation, running' = Lose(running, o),
             IF k = KitOf[o] THEN o \notin HoldRunning(k) /\ HoldRunning(k)' = HoldRunning(k) \cup {o}
                             ELSE HoldRunning(k)' = HoldRunning(k)
      PROVE  RunningConserved(k)'
  BY <1>a, <1>b, <1>t, PermitTaken DEF RunningConserved
<1>g. ASSUME NEW o \in Operation, running' = Gain(running, o),
             IF k = KitOf[o] THEN o \in HoldRunning(k) /\ HoldRunning(k)' = HoldRunning(k) \ {o}
                             ELSE HoldRunning(k)' = HoldRunning(k)
      PROVE  RunningConserved(k)'
  BY <1>a, <1>b, <1>g, PermitGiven DEF RunningConserved
<1> USE <1>a DEF Types, Coherent, HoldRunning, permits, Becomes, Job
<1>1. ASSUME NEW o \in Operation, AcquireRunning(o) PROVE RunningConserved(k)'
  <2>1. running' = Lose(running, o) BY <1>1 DEF AcquireRunning
  <2>2. CASE k = KitOf[o]
    <3>1. o \notin HoldRunning(k) BY <1>1 DEF AcquireRunning
    <3>2. HoldRunning(k)' = HoldRunning(k) \cup {o} BY <1>1, <2>2 DEF AcquireRunning
    <3> QED BY <2>1, <2>2, <3>1, <3>2, <1>t
  <2>3. CASE k # KitOf[o]
    <3>1. HoldRunning(k)' = HoldRunning(k) BY <1>1, <2>3 DEF AcquireRunning
    <3> QED BY <2>1, <2>3, <3>1, <1>t
  <2> QED BY <2>2, <2>3
<1>2. ASSUME NEW t \in Thread, ReleaseRunning(t) PROVE RunningConserved(k)'
  <2>1. Innermost(t) \in Operation BY <1>2, InnerOperation DEF ReleaseRunning, InnermostIsAt
  <2> DEFINE o == Innermost(t)
  <2>2. running' = Gain(running, o) BY <1>2 DEF ReleaseRunning
  <2>3. CASE k = KitOf[o]
    <3>1. o \in HoldRunning(k) BY <1>2, <2>1, <2>3 DEF ReleaseRunning, InnermostIsAt
    <3>2. HoldRunning(k)' = HoldRunning(k) \ {o} BY <1>2, <2>1, <2>3 DEF ReleaseRunning, InnermostIsAt
    <3> QED BY <2>1, <2>2, <2>3, <3>1, <3>2, <1>g
  <2>4. CASE k # KitOf[o]
    <3>1. HoldRunning(k)' = HoldRunning(k) BY <1>2, <2>1, <2>4 DEF ReleaseRunning, InnermostIsAt
    <3> QED BY <2>1, <2>2, <2>4, <3>1, <1>g
  <2> QED BY <2>3, <2>4
<1>3. ASSUME NEW o \in Operation, Submit(o) \/ Receive(o) \/ CancelProbe(o) \/ DropWaiting(o) \/ DropReceiver(o)
      PROVE  RunningConserved(k)'
  BY <1>3, <1>c DEF Submit, Receive, CancelProbe, DropWaiting, DropReceiver
<1>4. ASSUME NEW t \in Thread, NEW o \in Operation, Pick(t, o) PROVE RunningConserved(k)'
  BY <1>4, <1>c DEF Pick
<1>5. ASSUME NEW t \in Thread, Return(t) \/ ReleaseAdmitted(t) \/ Send(t) PROVE RunningConserved(k)'
  BY <1>5, <1>c, InnerOperation DEF Return, ReleaseAdmitted, Send, InnermostIsAt
<1>6. CASE UNCHANGED poolVars BY <1>6, <1>c DEF poolVars
<1> QED BY <1>1, <1>2, <1>3, <1>4, <1>5, <1>6 DEF PoolNext, Caller, DropFuture, Worker

-----------------------------------------------------------------------------
\* At the start every permit is free and nobody holds one.
LEMMA InitIInv == PoolInit => IInv
<1> SUFFICES ASSUME PoolInit PROVE IInv OBVIOUS
<1>1. Types BY CapacityAssumption DEF PoolInit, Types, Capacity
<1>2. ASSUME NEW k \in Kit
      PROVE  /\ admitted[k] + Cardinality(HoldAdmitted(k)) = Capacity
             /\ running[k] + Cardinality(HoldRunning(k)) = InFlight
  <2>1. HoldAdmitted(k) = {} /\ HoldRunning(k) = {} BY DEF PoolInit, HoldAdmitted, HoldRunning
  <2>2. admitted[k] = Capacity /\ running[k] = InFlight BY DEF PoolInit
  <2>3. Capacity \in Nat /\ InFlight \in Nat BY CapacityAssumption DEF Capacity
  <2> QED BY <2>1, <2>2, <2>3, FS_EmptySet
<1>3. PermitsConserved BY <1>2 DEF PermitsConserved
<1>4. \A o \in Operation : Coherent(o) BY DEF PoolInit, Coherent
<1> QED BY <1>1, <1>3, <1>4 DEF IInv

\* The strengthening the theorems below rest on.
THEOREM IInvHolds == PoolSpec => []IInv
<1>1. IInv /\ [PoolNext]_poolVars => IInv'
  <2> SUFFICES ASSUME IInv, [PoolNext]_poolVars PROVE IInv' OBVIOUS
  <2>1. PermitsConserved'
    BY NextAdmitted, NextRunning DEF AdmittedConserved, RunningConserved, PermitsConserved
  <2> QED BY <2>1, NextTypes, NextCoherent DEF IInv
<1> QED BY <1>1, InitIInv, PTL DEF PoolSpec

\* Permits are conserved and never exceed a capacity.
THEOREM Conserved == PoolSpec => [](PoolTypeOK /\ PermitsConserved)
<1>1. IInv => PoolTypeOK /\ PermitsConserved BY Bounded DEF IInv
<1> QED BY <1>1, IInvHolds, PTL

\* Whoever waits gets the job's own answer.
THEOREM Answered == PoolSpec => []NobodyAbandoned
<1>1. IInv => NobodyAbandoned BY DEF IInv, Coherent, NobodyAbandoned
<1> QED BY <1>1, IInvHolds, PTL

\* A refusal is due: Submit finds no permit, so Capacity operations of the kit
\* hold one, and each of them is still waited for or with a worker.
LEMMA RefusalStep == ASSUME IInv, [PoolNext]_poolVars PROVE RefusedWhenFull
<1> SUFFICES ASSUME NEW o \in Operation, future[o] = "idle", future'[o] = "full"
             PROVE  Cardinality({p \in Operation : KitOf[p] = KitOf[o] /\ Occupies(p)}) >= Capacity
  BY DEF RefusedWhenFull
<1> DEFINE k == KitOf[o]
           Occupants == {p \in Operation : KitOf[p] = k /\ Occupies(p)}
<1>1. k \in Kit BY KitAssumption
<1>2. admitted[k] = 0
  <2> USE DEF IInv, Types, permits, Becomes
  <2>1. ASSUME NEW p \in Operation, Submit(p) PROVE admitted[k] = 0 BY <2>1 DEF Submit
  <2>2. ASSUME NEW p \in Operation, Caller(p) \/ DropFuture(p) PROVE FALSE
    BY <2>2 DEF Caller, DropFuture, AcquireRunning, Receive, CancelProbe, DropWaiting, DropReceiver
  <2>3. ASSUME NEW t \in Thread, Worker(t) PROVE FALSE
    BY <2>3 DEF Worker, Pick, Return, ReleaseRunning, ReleaseAdmitted, Send
  <2>4. CASE UNCHANGED poolVars BY <2>4 DEF poolVars
  <2> QED BY <2>1, <2>2, <2>3, <2>4 DEF PoolNext
<1>3. Cardinality(HoldAdmitted(k)) = Capacity
  <2>1. admitted[k] + Cardinality(HoldAdmitted(k)) = Capacity
    BY <1>1 DEF IInv, PermitsConserved
  <2> QED BY <1>1, <1>2, <2>1, FiniteHolders
<1>4. HoldAdmitted(k) \subseteq Occupants
  BY DEF HoldAdmitted, Occupies, IInv, Types, Coherent
<1>5. IsFiniteSet(Occupants) BY FiniteAssumption, FS_Subset
<1>6. Cardinality(HoldAdmitted(k)) <= Cardinality(Occupants) /\ Cardinality(Occupants) \in Nat
  BY <1>4, <1>5, FS_Subset, FS_CardinalityType
<1>7. Capacity \in Nat BY CapacityAssumption DEF Capacity
<1> QED BY <1>3, <1>6, <1>7

\* No operation is refused while its kit has room.
THEOREM Refused == PoolSpec => RefusalIsDue
<1>1. IInv /\ [PoolNext]_poolVars => [RefusedWhenFull]_poolVars BY RefusalStep
<1> QED BY <1>1, IInvHolds, PTL DEF PoolSpec, RefusalIsDue

-----------------------------------------------------------------------------
(***************************************************************************)
(* For any wakers, any number of signals and any executor: no wake-up is   *)
(* lost, a completed command is not reported as canceled, and no waker     *)
(* outlives its race.                                                      *)
(***************************************************************************)

\* The mutex is held across the second check only, with this poll's waker in it.
Registered ==
    /\ mutex = "task" <=> task = "recheck"
    /\ task = "recheck" => waker = current
    /\ task \in {"register", "recheck"} => current # None

\* Once the handler has taken the waker of a request, a waker can only be put
\* back by a poll that is about to see the flag.
TakenOut == requested /\ handler # "take" => waker = None \/ task = "recheck"

\* A poll that passed the second check is woken again, or can still be.
Reachable ==
    task \in {"command", "after", "parked"} =>
        woken \/ (current # None /\ (waker = current \/ (handler = "wake" /\ taken = current)))

\* A result is there exactly when the race is over.
Result ==
    /\ outcome # "none" <=> task \in {"drop", "ended"}
    /\ completed => outcome = "value"
    /\ outcome = "canceled" => requested

\* Nobody is registered once the race is over.
Deregistered == task = "ended" => waker = None

RaceIInv ==
    /\ RaceTypeOK /\ Registered /\ TakenOut /\ Reachable /\ Result /\ Deregistered

\* The first state.
LEMMA InitRaceIInv == RaceInit => RaceIInv
<1> SUFFICES ASSUME RaceInit PROVE RaceIInv OBVIOUS
<1>1. RaceTypeOK
  <2>1. signals \in 0..MaxSignals /\ wakes \in 0..MaxSignals BY SignalsAssumption DEF RaceInit
  <2>2. requested \in BOOLEAN /\ woken \in BOOLEAN /\ completed \in BOOLEAN BY DEF RaceInit
  <2> QED BY <2>1, <2>2 DEF RaceInit, RaceTypeOK
<1>2. Registered BY WakerAssumption DEF RaceInit, Registered
<1>3. TakenOut /\ Reachable /\ Result /\ Deregistered
  BY DEF RaceInit, TakenOut, Reachable, Result, Deregistered
<1> QED BY <1>1, <1>2, <1>3 DEF RaceIInv

\* Every step keeps the types.
LEMMA NextType == ASSUME RaceIInv, [RaceNext]_raceVars PROVE RaceTypeOK'
<1> USE WakerAssumption, SignalsAssumption DEF RaceIInv, RaceTypeOK, command, raceBounds
<1>1. CASE Task
  <2>1. CASE Poll \/ Register \/ Recheck BY <2>1 DEF Poll, Register, Recheck, Resolve
  <2>2. CASE CommandReady \/ CommandPending BY <2>2 DEF CommandReady, CommandPending, Resolve
  <2>3. CASE After \/ ClearWaker BY <2>3 DEF After, ClearWaker, Resolve
  <2> QED BY <1>1, <2>1, <2>2, <2>3 DEF Task
<1>2. CASE Handler
  <2>1. CASE Take BY <2>1 DEF Take
  <2>2. CASE Wake \/ InsideWake BY <2>2 DEF Wake, InsideWake
  <2>3. CASE RequestReturns BY <2>3 DEF RequestReturns
  <2> QED BY <1>2, <2>1, <2>2, <2>3 DEF Handler
<1>3. CASE AbandonRace BY <1>3 DEF AbandonRace, Resolve
<1>4. CASE Signal BY <1>4 DEF Signal
<1>5. CASE WakeByCommand BY <1>5 DEF WakeByCommand
<1>6. CASE UNCHANGED raceVars BY <1>6 DEF raceVars
<1> QED BY <1>1, <1>2, <1>3, <1>4, <1>5, <1>6 DEF RaceNext

\* Every step of the executor keeps the rest of the invariant.
LEMMA TaskIInv ==
    ASSUME RaceIInv, Task
    PROVE  Registered' /\ TakenOut' /\ Reachable' /\ Result' /\ Deregistered'
<1> USE WakerAssumption
    DEF RaceIInv, RaceTypeOK, Registered, TakenOut, Reachable, Result, Deregistered, command, raceBounds
<1>1. CASE Poll BY <1>1 DEF Poll, Resolve
<1>2. CASE Register BY <1>2 DEF Register
<1>3. CASE Recheck BY <1>3 DEF Recheck, Resolve
<1>4. CASE CommandReady BY <1>4 DEF CommandReady, Resolve
<1>5. CASE CommandPending BY <1>5 DEF CommandPending
<1>6. CASE After BY <1>6 DEF After, Resolve
<1>7. CASE ClearWaker BY <1>7 DEF ClearWaker
<1> QED BY <1>1, <1>2, <1>3, <1>4, <1>5, <1>6, <1>7 DEF Task

\* So does every step of the handler, and everything else.
LEMMA OtherIInv ==
    ASSUME RaceIInv, Handler \/ AbandonRace \/ Signal \/ WakeByCommand
    PROVE  Registered' /\ TakenOut' /\ Reachable' /\ Result' /\ Deregistered'
<1> USE WakerAssumption
    DEF RaceIInv, RaceTypeOK, Registered, TakenOut, Reachable, Result, Deregistered, command, raceBounds
<1>1. CASE Take BY <1>1 DEF Take
<1>2. CASE Wake BY <1>2 DEF Wake
<1>3. CASE InsideWake \/ RequestReturns BY <1>3 DEF InsideWake, RequestReturns
<1>4. CASE AbandonRace BY <1>4 DEF AbandonRace, Resolve
<1>5. CASE Signal BY <1>5 DEF Signal
<1>6. CASE WakeByCommand BY <1>6 DEF WakeByCommand
<1> QED BY <1>1, <1>2, <1>3, <1>4, <1>5, <1>6 DEF Handler

\* The inductive step.
LEMMA NextIInv == RaceIInv /\ [RaceNext]_raceVars => RaceIInv'
<1> SUFFICES ASSUME RaceIInv, [RaceNext]_raceVars PROVE RaceIInv' OBVIOUS
<1>1. RaceTypeOK' BY NextType
<1>2. CASE Task BY <1>1, <1>2, TaskIInv DEF RaceIInv
<1>3. CASE Handler \/ AbandonRace \/ Signal \/ WakeByCommand BY <1>1, <1>3, OtherIInv DEF RaceIInv
<1>4. CASE UNCHANGED raceVars
  BY <1>1, <1>4 DEF raceVars, command, RaceIInv, Registered, TakenOut, Reachable, Result, Deregistered
<1> QED BY <1>2, <1>3, <1>4 DEF RaceNext

\* The strengthening the theorems below rest on.
THEOREM RaceIInvHolds == RaceSpec => []RaceIInv
BY InitRaceIInv, NextIInv, PTL DEF RaceSpec

\* No signal is lost, wherever it falls between the checks of a poll, and no
\* waker outlives its race.
THEOREM WakeupDelivered == RaceSpec => []NoLostWakeup
<1>1. RaceIInv => NoLostWakeup
  BY WakerAssumption DEF RaceIInv, RaceTypeOK, TakenOut, Reachable, Deregistered, NoLostWakeup
<1> QED BY <1>1, RaceIInvHolds, PTL

\* A completed command keeps its result.
THEOREM ResultKept == RaceSpec => []CompletedWins
<1>1. RaceIInv => CompletedWins BY DEF RaceIInv, Result, CompletedWins
<1> QED BY <1>1, RaceIInvHolds, PTL
=============================================================================

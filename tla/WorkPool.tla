------------------------------ MODULE WorkPool ------------------------------
(***************************************************************************)
(* Root operations on a shared worker pool: AsyncWorkPool::execute in      *)
(* conkit-signature/work.rs and, with the same code, conkit-sketch/work.rs.*)
(* Each kit admits InFlight + Pending operations and runs InFlight of      *)
(* them; both kits share the Rayon threads (conkit/context.rs).  The two   *)
(* permits of an operation move from its future into a worker closure, the *)
(* result comes back through a one-shot channel, and the future may be     *)
(* dropped at either of its awaits.  A thread that waits inside a nested   *)
(* parallel loop takes up other queued work, so its jobs form a stack.     *)
(***************************************************************************)
EXTENDS Integers, Sequences, FiniteSets

CONSTANTS
    Operation, Thread, Kit,
    KitOf,      \* the kit of each operation
    InFlight,   \* max_in_flight_operations
    Pending     \* max_pending_operations

ASSUME KitAssumption == KitOf \in [Operation -> Kit]
ASSUME CapacityAssumption == InFlight \in Nat \ {0} /\ Pending \in Nat
ASSUME FiniteAssumption == IsFiniteSet(Operation)

Capacity == InFlight + Pending

VARIABLES
    admitted, running,  \* free permits of the two semaphores of each kit
    future,             \* what the caller of execute sees
    job,                \* where the worker closure of an operation is
    answer,             \* what the job returned, once it has
    probe,              \* the CancellationProbe
    stack               \* the jobs each thread is in, innermost last

permits == <<admitted, running>>
poolVars == <<permits, future, job, answer, probe, stack>>

-----------------------------------------------------------------------------
PoolInit ==
    /\ admitted = [k \in Kit |-> Capacity]
    /\ running = [k \in Kit |-> InFlight]
    /\ future = [o \in Operation |-> "idle"]
    /\ job = [o \in Operation |-> "none"]
    /\ answer = [o \in Operation |-> "none"]
    /\ probe = [o \in Operation |-> FALSE]
    /\ stack = [t \in Thread |-> <<>>]

Becomes(o, state) == future' = [future EXCEPT ![o] = state]
Job(o, step) == job' = [job EXCEPT ![o] = step]
Gain(semaphore, o) == [semaphore EXCEPT ![KitOf[o]] = @ + 1]
Lose(semaphore, o) == [semaphore EXCEPT ![KitOf[o]] = @ - 1]

(* The caller's future *)

\* The first poll of execute: try_acquire_arc, or QueueFull at once.
Submit(o) ==
    /\ future[o] = "idle"
    /\ IF admitted[KitOf[o]] = 0
         THEN Becomes(o, "full") /\ UNCHANGED admitted
         ELSE Becomes(o, "waiting") /\ admitted' = Lose(admitted, o)
    /\ UNCHANGED <<running, job, answer, probe, stack>>

\* acquire_arc resolves: the channel and the probe are made and the closure is
\* handed to the pool in the same poll.
AcquireRunning(o) ==
    /\ future[o] = "waiting" /\ running[KitOf[o]] > 0
    /\ running' = Lose(running, o)
    /\ Becomes(o, "submitted")
    /\ Job(o, "queued")
    /\ UNCHANGED <<admitted, answer, probe, stack>>

\* The receiver resolves; a panic resumes on the polling thread.
Receive(o) ==
    /\ future[o] = "submitted" /\ job[o] \in {"sent", "gone"}
    /\ Becomes(o, CASE job[o] = "gone" -> "abandoned"       \* WorkerDropped
                    [] answer[o] = "panic" -> "panicked"
                    [] OTHER -> "resolved")
    /\ UNCHANGED <<permits, job, answer, probe, stack>>

DropAndKeep(o) ==
    /\ future[o] = "waiting"
    /\ Becomes(o, "dropped")
    /\ UNCHANGED <<permits, job, answer, probe, stack>>
\* The future is dropped before it has a running permit.
DropWaiting(o) ==
    /\ future[o] = "waiting"
    /\ Becomes(o, "dropped")
    /\ admitted' = Gain(admitted, o)
    /\ UNCHANGED <<running, job, answer, probe, stack>>

\* The future is dropped after the hand-over: first its receiver, ...
DropReceiver(o) ==
    /\ future[o] = "submitted"
    /\ Becomes(o, "dropping")
    /\ UNCHANGED <<permits, job, answer, probe, stack>>

\* ... then WorkCancellation, which cancels the probe.
CancelProbe(o) ==
    /\ future[o] = "dropping"
    /\ Becomes(o, "dropped")
    /\ probe' = [probe EXCEPT ![o] = TRUE]
    /\ UNCHANGED <<permits, job, answer, stack>>

(* The worker closure *)

Innermost(t) == stack[t][Len(stack[t])]
TakesMore(t) == stack[t] # <<>> => job[Innermost(t)] = "working"

\* A thread takes a queued closure, which does nothing if nobody waits for it.
Pick(t, o) ==
    /\ job[o] = "queued" /\ TakesMore(t)
    /\ stack' = [stack EXCEPT ![t] = Append(@, o)]
    /\ Job(o, IF future[o] # "submitted" \/ probe[o] THEN "returned" ELSE "working")
    /\ UNCHANGED <<permits, future, answer, probe>>

\* The innermost job of a thread is at a step of the closure.
InnermostIsAt(t, step) == stack[t] # <<>> /\ job[Innermost(t)] = step

Unwind(t) ==
    /\ InnermostIsAt(t, "working")
    /\ \E result \in {"value", "panic"} \cup (IF probe[Innermost(t)] THEN {"canceled"} ELSE {}) :
         answer' = IF result = "panic" THEN answer ELSE [answer EXCEPT ![Innermost(t)] = result]
    /\ Job(Innermost(t), "returned")
    /\ UNCHANGED <<permits, future, probe, stack>>
\* catch_unwind(job) returns; only a canceled probe makes it answer canceled.
Return(t) ==
    /\ InnermostIsAt(t, "working")
    /\ \E result \in {"value", "panic"} \cup (IF probe[Innermost(t)] THEN {"canceled"} ELSE {}) :
         answer' = [answer EXCEPT ![Innermost(t)] = result]
    /\ Job(Innermost(t), "returned")
    /\ UNCHANGED <<permits, future, probe, stack>>

SkipKeepsRunning(t) ==
    /\ InnermostIsAt(t, "returned")
    /\ running' = IF answer[Innermost(t)] = "none" THEN running ELSE Gain(running, Innermost(t))
    /\ Job(Innermost(t), "released")
    /\ UNCHANGED <<admitted, future, answer, probe, stack>>
\* drop(running), on either path of the closure.
ReleaseRunning(t) ==
    /\ InnermostIsAt(t, "returned")
    /\ running' = Gain(running, Innermost(t))
    /\ Job(Innermost(t), "released")
    /\ UNCHANGED <<admitted, future, answer, probe, stack>>

ReleaseAfterSend(t) ==
    \/ /\ InnermostIsAt(t, "released") /\ answer[Innermost(t)] # "none"
       /\ Job(Innermost(t), "sent")
       /\ UNCHANGED <<permits, future, answer, probe, stack>>
    \/ /\ InnermostIsAt(t, "sent") \/ (InnermostIsAt(t, "released") /\ answer[Innermost(t)] = "none")
       /\ admitted' = Gain(admitted, Innermost(t))
       /\ stack' = [stack EXCEPT ![t] = SubSeq(@, 1, Len(@) - 1)]
       /\ IF InnermostIsAt(t, "sent") THEN UNCHANGED job ELSE Job(Innermost(t), "gone")
       /\ UNCHANGED <<running, future, answer, probe>>
\* drop(admitted).
ReleaseAdmitted(t) ==
    /\ InnermostIsAt(t, "released")
    /\ admitted' = Gain(admitted, Innermost(t))
    /\ Job(Innermost(t), "finished")
    /\ UNCHANGED <<running, future, answer, probe, stack>>

\* The answer is sent, or the sender is dropped without one; the closure ends.
Send(t) ==
    /\ InnermostIsAt(t, "finished")
    /\ Job(Innermost(t), IF answer[Innermost(t)] = "none" THEN "gone" ELSE "sent")
    /\ stack' = [stack EXCEPT ![t] = SubSeq(@, 1, Len(@) - 1)]
    /\ UNCHANGED <<permits, future, answer, probe>>

Caller(o) == AcquireRunning(o) \/ Receive(o) \/ CancelProbe(o)
DropFuture(o) == DropWaiting(o) \/ DropReceiver(o)
Worker(t) ==
    \/ \E o \in Operation : Pick(t, o)
    \/ Return(t) \/ ReleaseRunning(t) \/ ReleaseAdmitted(t) \/ Send(t)

PoolNext ==
    \/ \E o \in Operation : Submit(o) \/ Caller(o) \/ DropFuture(o)
    \/ \E t \in Thread : Worker(t)

PoolSpec == PoolInit /\ [][PoolNext]_poolVars

\* The executor polls a future that can go on, a future being dropped is
\* dropped, and threads run; jobs are finite.
PoolLiveSpec ==
    /\ PoolSpec
    /\ \A o \in Operation : WF_poolVars(Caller(o))
    /\ \A t \in Thread : WF_poolVars(Worker(t))

-----------------------------------------------------------------------------
(* Properties *)

\* Every variable keeps to its values; permits never go below zero.
PoolTypeOK ==
    /\ admitted \in [Kit -> 0..Capacity]
    /\ running \in [Kit -> 0..InFlight]
    /\ future \in [Operation -> {"idle", "full", "waiting", "submitted", "dropping",
                                 "dropped", "resolved", "panicked", "abandoned"}]
    /\ job \in [Operation -> {"none", "queued", "working", "returned", "released",
                              "finished", "sent", "gone"}]
    /\ answer \in [Operation -> {"none", "value", "panic", "canceled"}]
    /\ probe \in [Operation -> BOOLEAN]
    /\ stack \in [Thread -> Seq(Operation)]

\* The operations that hold a permit of a kit.
HoldAdmitted(k) ==
    {o \in Operation : KitOf[o] = k /\
       (future[o] = "waiting" \/ job[o] \in {"queued", "working", "returned", "released"})}
HoldRunning(k) ==
    {o \in Operation : KitOf[o] = k /\ job[o] \in {"queued", "working", "returned"}}

\* No permit is ever lost or made up, wherever futures are dropped and jobs
\* panic: the free permits and the operations that hold one add up.
PermitsConserved ==
    \A k \in Kit :
        /\ admitted[k] + Cardinality(HoldAdmitted(k)) = Capacity
        /\ running[k] + Cardinality(HoldRunning(k)) = InFlight

\* An operation is refused only while its own kit has InFlight + Pending
\* others whose caller still waits, or which were dropped and are still with a
\* worker.  An operation whose result was seen never stands in the way, and
\* neither does the other kit.
Occupies(p) ==
    \/ future[p] \in {"waiting", "submitted"}
    \/ future[p] \in {"dropping", "dropped"} /\ job[p] \notin {"none", "sent", "gone"}
RefusedWhenFull ==
    \A o \in Operation : future[o] = "idle" /\ future'[o] = "full" =>
        Cardinality({p \in Operation : KitOf[p] = KitOf[o] /\ Occupies(p)}) >= Capacity
RefusalIsDue == [][RefusedWhenFull]_poolVars

\* Whoever waits gets the job's own answer: never a dropped worker, and never
\* a cancellation nobody asked for.
NobodyAbandoned ==
    \A o \in Operation :
        /\ future[o] # "abandoned"
        /\ future[o] \in {"submitted", "resolved"} => answer[o] # "canceled"

\* In the end nobody who was admitted still waits and all capacity is back, with
\* however few threads and however deep the threads are nested.
OperationsEnd ==
    <>[](/\ \A o \in Operation : future[o] \notin {"waiting", "submitted", "dropping"}
         /\ \A k \in Kit : admitted[k] = Capacity /\ running[k] = InFlight)
=============================================================================

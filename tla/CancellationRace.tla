-------------------------- MODULE CancellationRace --------------------------
(***************************************************************************)
(* A command raced against Ctrl-C: ApplicationCancellation in              *)
(* conkit/context.rs.  The signal handler's thread sets a flag, takes the  *)
(* registered waker out of a mutex and wakes it after the mutex is free;   *)
(* the executor polls the race, which checks the flag, registers the waker *)
(* of this poll, checks again, polls the command and checks once more.     *)
(* An executor may poll each time with another waker, and a waker may poll *)
(* the race inside wake, in the handler's own thread.                      *)
(***************************************************************************)
EXTENDS Naturals

CONSTANTS
    Waker,      \* wakers an executor polls with
    None,
    Inline,     \* whether a waker polls the race inside wake
    MaxSignals  \* bound on requests, and on wake-ups by the command itself

ASSUME WakerAssumption == None \notin Waker /\ None # "task" /\ Waker # {}
ASSUME InlineAssumption == Inline \in BOOLEAN
ASSUME SignalsAssumption == MaxSignals \in Nat

VARIABLES
    requested,  \* ApplicationCancellation::requested
    waker,      \* ApplicationCancellation::waker
    mutex,      \* who holds the mutex from one step to the next
    task,       \* where the executor is in the race
    current,    \* the waker of the latest poll: only it wakes the task
    woken,      \* the executor was told to poll again
    completed,  \* the command's future returned Ready
    outcome,    \* what the race returned
    handler,    \* where the signal handler is in request
    taken,      \* the waker the handler took out
    signals, wakes

command == <<woken, completed>>
raceBounds == <<signals, wakes>>
raceVars == <<requested, waker, mutex, task, current, command, outcome, handler, taken, raceBounds>>

-----------------------------------------------------------------------------
RaceInit ==
    /\ requested = FALSE /\ waker = None /\ mutex = None
    /\ task = "parked" /\ current = None /\ woken = TRUE    \* the first poll is due
    /\ completed = FALSE /\ outcome = "none"
    /\ handler = "idle" /\ taken = None
    /\ signals = 0 /\ wakes = 0

\* The race returns; its registration is dropped next.
Resolve(result) == outcome' = result /\ task' = "drop"

(* The executor *)

\* poll_requested begins: a requested race ends without polling the command.
Poll ==
    /\ task = "parked" /\ woken
    /\ woken' = FALSE
    /\ current' \in Waker
    /\ IF requested THEN Resolve("canceled") ELSE task' = "register" /\ UNCHANGED outcome
    /\ UNCHANGED <<requested, waker, mutex, completed, handler, taken, raceBounds>>

RegisterFirst ==
    /\ task = "register" /\ mutex = None
    /\ mutex' = "task"
    /\ waker' = IF waker = None THEN current ELSE waker
    /\ task' = "recheck"
    /\ UNCHANGED <<requested, current, command, outcome, handler, taken, raceBounds>>
\* The mutex is taken and the waker of this poll replaces another one.
Register ==
    /\ task = "register" /\ mutex = None
    /\ mutex' = "task"
    /\ waker' = current
    /\ task' = "recheck"
    /\ UNCHANGED <<requested, current, command, outcome, handler, taken, raceBounds>>

\* The second check, still under the mutex, which is then released.
Recheck ==
    /\ task = "recheck"
    /\ mutex' = None
    /\ IF requested
         THEN waker' = None /\ Resolve("canceled")
         ELSE task' = "command" /\ UNCHANGED <<waker, outcome>>
    /\ UNCHANGED <<requested, current, command, handler, taken, raceBounds>>

FlagBeforeResult ==
    /\ task = "command" /\ completed' = TRUE
    /\ Resolve(IF requested THEN "canceled" ELSE "value")
    /\ UNCHANGED <<requested, waker, mutex, current, woken, handler, taken, raceBounds>>
\* The command's future is ready: its value wins this poll.
CommandReady ==
    /\ task = "command" /\ completed' = TRUE
    /\ Resolve("value")
    /\ UNCHANGED <<requested, waker, mutex, current, woken, handler, taken, raceBounds>>

\* The command is pending.
CommandPending ==
    /\ task = "command"
    /\ task' = "after"
    /\ UNCHANGED <<requested, waker, mutex, current, command, outcome, handler, taken, raceBounds>>

\* The last check of a poll, then Pending.
After ==
    /\ task = "after"
    /\ IF requested THEN Resolve("canceled") ELSE task' = "parked" /\ UNCHANGED outcome
    /\ UNCHANGED <<requested, waker, mutex, current, command, handler, taken, raceBounds>>

\* The owner drops the pending race.
AbandonRace ==
    /\ task = "parked"
    /\ Resolve("dropped")
    /\ UNCHANGED <<requested, waker, mutex, current, command, handler, taken, raceBounds>>

\* CancellationRegistration::drop: clear_waker.
ClearWaker ==
    /\ task = "drop" /\ mutex = None
    /\ waker' = None
    /\ task' = "ended"
    /\ UNCHANGED <<requested, mutex, current, command, outcome, handler, taken, raceBounds>>

(* The signal handler: request *)

\* The flag is set first.
Signal ==
    /\ handler = "idle" /\ signals < MaxSignals
    /\ signals' = signals + 1
    /\ requested' = TRUE
    /\ handler' = "take"
    /\ UNCHANGED <<waker, mutex, task, current, command, outcome, taken, wakes>>

TakeAndHold ==
    /\ handler = "take" /\ mutex = None
    /\ taken' = waker /\ waker' = None
    /\ mutex' = IF waker = None THEN None ELSE "handler"
    /\ handler' = "wake"
    /\ UNCHANGED <<requested, task, current, command, outcome, raceBounds>>
\* The waker is taken out; the mutex is free again before it is invoked.
Take ==
    /\ handler = "take" /\ mutex = None
    /\ taken' = waker /\ waker' = None
    /\ handler' = "wake"
    /\ UNCHANGED <<requested, mutex, task, current, command, outcome, raceBounds>>

\* wake(): the waker of an earlier poll wakes nobody.
Wake ==
    /\ handler = "wake"
    /\ woken' = (woken \/ (taken # None /\ taken = current))
    /\ handler' = IF Inline /\ taken # None THEN "inside" ELSE "return"
    /\ UNCHANGED <<requested, waker, mutex, task, current, completed, outcome, taken, raceBounds>>

\* An inline waker returns when the poll it makes is over.
InsideWake ==
    /\ handler = "inside"
    /\ task = "ended" \/ (task = "parked" /\ ~woken)
    /\ handler' = "return"
    /\ UNCHANGED <<requested, waker, mutex, task, current, command, outcome, taken, raceBounds>>

RequestReturns ==
    /\ handler = "return"
    /\ handler' = "idle" /\ taken' = None
    /\ UNCHANGED <<requested, waker, mutex, task, current, command, outcome, raceBounds>>

\* Something the command waits for, or nothing at all, wakes the executor.
WakeByCommand ==
    /\ task \in {"command", "after", "parked"} /\ ~woken /\ wakes < MaxSignals
    /\ woken' = TRUE /\ wakes' = wakes + 1
    /\ UNCHANGED <<requested, waker, mutex, task, current, completed, outcome, handler, taken, signals>>

Task == Poll \/ Register \/ Recheck \/ CommandReady \/ CommandPending \/ After \/ ClearWaker
Handler == Take \/ Wake \/ InsideWake \/ RequestReturns
RaceNext == Task \/ Handler \/ AbandonRace \/ Signal \/ WakeByCommand

RaceSpec == RaceInit /\ [][RaceNext]_raceVars

\* The executor polls a woken task and the handler's thread runs; the command
\* need never complete and no signal need ever come.
RaceLiveSpec == RaceSpec /\ WF_raceVars(Task) /\ WF_raceVars(Handler)

-----------------------------------------------------------------------------
(* Properties *)

\* Every variable keeps to its values; the handler never holds the mutex while
\* it wakes.
RaceTypeOK ==
    /\ requested \in BOOLEAN
    /\ waker \in Waker \cup {None}
    /\ mutex \in {"task", None}
    /\ task \in {"parked", "register", "recheck", "command", "after", "drop", "ended"}
    /\ current \in Waker \cup {None}
    /\ woken \in BOOLEAN /\ completed \in BOOLEAN
    /\ outcome \in {"none", "value", "canceled", "dropped"}
    /\ handler \in {"idle", "take", "wake", "inside", "return"}
    /\ taken \in Waker \cup {None}
    /\ signals \in 0..MaxSignals /\ wakes \in 0..MaxSignals

\* A waker is invoked when it is needed and never after.  Once a request has run to
\* its end, a race that is parked is about to be polled again, whichever check the
\* signal fell between and whichever waker was registered when it came; and a race
\* that has ended leaves no waker behind for a later signal.
NoLostWakeup ==
    /\ requested /\ handler = "idle" /\ task = "parked" => woken
    /\ task = "ended" => waker = None

\* The race reports a cancellation only after a request, and never instead of
\* the result of a command that has completed.
CompletedWins == outcome = "canceled" => requested /\ ~completed

\* A requested race ends although its command may never complete, even when
\* the waker polls the race inside the signal handler.
RequestEndsRace == requested ~> task = "ended"
=============================================================================

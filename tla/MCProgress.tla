----------------------------- MODULE MCProgress -----------------------------
(***************************************************************************)
(* What must come to an end: commands on one contracts root, or a command  *)
(* raced against Ctrl-C.  The two share no state, so the subject is chosen *)
(* at the start and the other is at rest.                                  *)
(***************************************************************************)
EXTENDS MCOwnership, CancellationRace

CONSTANTS w1, w2

VARIABLE subject
everything == <<vars, raceVars, subject>>

NoRace ==
    /\ requested = FALSE /\ waker = None /\ mutex = None /\ task = "ended" /\ current = None
    /\ woken = FALSE /\ completed = TRUE /\ outcome = "value" /\ handler = "idle" /\ taken = None
    /\ signals = 0 /\ wakes = 0

ProgressInit ==
    /\ Init /\ subject \in {"root", "race"}
    /\ IF subject = "race" THEN RaceInit /\ disk = Nothing ELSE NoRace
OnRoot(A) == subject = "root" /\ A /\ UNCHANGED <<raceVars, subject>>
InRace(A) == subject = "race" /\ A /\ UNCHANGED <<vars, subject>>
ProgressNext == OnRoot(Next) \/ InRace(RaceNext)

\* The fairness of LiveSpec and of RaceLiveSpec, each while its part is the subject.
ProgressSpec ==
    /\ ProgressInit /\ [][ProgressNext]_everything
    /\ \A q \in Process : WF_everything(OnRoot(Step(q))) /\ WF_everything(OnRoot(Start(q)))
    /\ WF_everything(InRace(Task)) /\ WF_everything(InRace(Handler))
=============================================================================

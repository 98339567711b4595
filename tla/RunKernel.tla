------------------------------ MODULE RunKernel ------------------------------
(***************************************************************************)
(* The pure projection kernel of run integrity                             *)
(* (run_integrity/kernel.py): what one evidence event does to the          *)
(* projection of one run.                                                  *)
(*                                                                         *)
(* A snapshot s is a value, not a variable: the store and the authority    *)
(* append several events in one SQLite transaction, so their commands are  *)
(* compositions of the operators below.  For each evidence type,           *)
(* Accepts...(s, ...) holds when apply_evidence raises no ValueError, and  *)
(* the operator named after the event is the projection it returns.        *)
(* Identifiers are fresh (uuid4), so what an identifier stands for is a    *)
(* constant: OpOf, KindOf, KeyOf and TurnOf.                               *)
(***************************************************************************)
CONSTANTS
    Turns, Operations, Attempts,   \* identifiers
    OpOf,                          \* attempt |-> its operation
    KindOf,                        \* operation |-> provider, tool or other kind
    KeyOf,                         \* operation |-> idempotency key
    TurnOf,                        \* operation |-> its turn or NoTurn
    Keys, NoTurn,
    Leases, NoLease                \* the kernel never looks inside a lease

OperationKind == {"provider", "tool", "other"}

ASSUME IdentityAssumption ==
    /\ OpOf \in [Attempts -> Operations]
    /\ KindOf \in [Operations -> OperationKind]
    /\ KeyOf \in [Operations -> Keys]
    /\ TurnOf \in [Operations -> Turns \cup {NoTurn}]
    /\ NoTurn \notin Turns
    /\ NoLease \notin Leases

KnownTerminalRun == {"completed", "failed", "cancelled"}
TerminalRun      == KnownTerminalRun \cup {"outcome_unknown"}
RunStatus        == {"pending", "running", "waiting"} \cup TerminalRun

Confirmed         == {"completed", "failed", "cancelled"}   \* closed with a receipt
TerminalOperation == Confirmed \cup {"outcome_unknown"}
OpenOperation     == {"pending", "running", "waiting"}
OperationStatus   == OpenOperation \cup TerminalOperation

TerminalAttempt == {"succeeded", "failed", "cancelled", "outcome_unknown"}
AttemptStatus   == {"running"} \cup TerminalAttempt

(***************************************************************************)
(* The projection.  "absent" marks a run, an operation or an attempt no    *)
(* event has created.  effect and partial are kept per attempt: the kernel *)
(* sets the operation's flag in the same event and never clears either.    *)
(***************************************************************************)
Snapshot ==
    [run        : RunStatus \cup {"absent"},
     lease      : Leases \cup {NoLease},
     turns      : SUBSET Turns,
     op         : [Operations -> OperationStatus \cup {"absent"}],
     dispatched : SUBSET Operations,       \* operations with dispatch_recorded
     receipt    : SUBSET Operations,       \* operations with receipt_recorded
     att        : [Attempts -> AttemptStatus \cup {"absent"}],
     sent       : SUBSET Attempts,         \* attempts with dispatch_recorded
     effect     : SUBSET Attempts,         \* attempts with effect_started
     partial    : SUBSET Attempts]         \* attempts with partial_output

EmptySnapshot ==
    [run |-> "absent", lease |-> NoLease, turns |-> {},
     op |-> [o \in Operations |-> "absent"], dispatched |-> {}, receipt |-> {},
     att |-> [a \in Attempts |-> "absent"],
     sent |-> {}, effect |-> {}, partial |-> {}]

OpenRun(s)           == s.run \in {"pending", "running", "waiting"}
AttemptsOf(o)        == {a \in Attempts : OpOf[a] = o}
HasRunning(s, o)     == \E a \in AttemptsOf(o) : s.att[a] = "running"
HasUnknown(s, o)     == \E a \in AttemptsOf(o) : s.att[a] = "outcome_unknown"
EffectStarted(s, o)  == \E a \in AttemptsOf(o) : a \in s.effect
PartialOutput(s, o)  == \E a \in AttemptsOf(o) : a \in s.partial
ActiveDispatch(s, o) == \E a \in AttemptsOf(o) : s.att[a] = "running" /\ a \in s.sent
Unfinished(s)        == {o \in Operations : s.op[o] \in OpenOperation}

-----------------------------------------------------------------------------
(* run_created, run_transitioned and the lease events.                     *)

AcceptsRunCreated(s) == s.run = "absent"
RunCreated(s, l)     == [s EXCEPT !.run = "pending", !.lease = l]

AllowedTarget(status) ==
    CASE status = "pending" -> {"running", "cancelled"}
      [] status = "running" -> {"waiting"} \cup TerminalRun
      [] status = "waiting" -> {"running", "cancelled", "outcome_unknown"}
      [] OTHER              -> {}

\* An operation whose effect nobody confirmed.
Unconfirmed(s, o) ==
    \/ s.op[o] = "outcome_unknown"
    \/ o \in s.dispatched /\ o \notin s.receipt

\* Seeded fault: a terminal status is accepted next to unconfirmed effects.
TransitionIgnoringEffects(s, target) ==
    /\ OpenRun(s)
    /\ target \in AllowedTarget(s.run)
    /\ target \in TerminalRun =>
         /\ \A o \in Operations : s.op[o] \notin OpenOperation
         /\ \A a \in Attempts : s.att[a] # "running"
AcceptsRunTransition(s, target) ==
    /\ OpenRun(s)
    /\ target \in AllowedTarget(s.run)
    /\ target = "completed" =>
         \A o \in Operations : s.op[o] # "absent" =>
             s.op[o] \in TerminalOperation /\ o \in s.receipt
    /\ target \in KnownTerminalRun => \A o \in Operations : ~ Unconfirmed(s, o)
    /\ target \in TerminalRun =>
         /\ \A o \in Operations : s.op[o] \notin OpenOperation
         /\ \A a \in Attempts : s.att[a] # "running"
RunTransitioned(s, target) == [s EXCEPT !.run = target]

LeaseAcquired(s, l) == [s EXCEPT !.lease = l]
LeaseCleared(s)     == [s EXCEPT !.lease = NoLease]   \* released or expired

-----------------------------------------------------------------------------
(* turn_created and operation_created.                                     *)

AcceptsTurnCreated(s, t) == OpenRun(s) /\ t \in Turns \ s.turns
TurnCreated(s, t)        == [s EXCEPT !.turns = @ \cup {t}]

AcceptsOperationCreated(s, o) ==
    /\ OpenRun(s)
    /\ s.op[o] = "absent"
    /\ TurnOf[o] \in s.turns \cup {NoTurn}
    /\ \A p \in Operations : s.op[p] # "absent" => KeyOf[p] # KeyOf[o]
OperationCreated(s, o) == [s EXCEPT !.op[o] = "pending"]

-----------------------------------------------------------------------------
(* attempt_started, the dispatch and effect boundaries, attempt_finished.  *)

\* Seeded fault: an attempt whose outcome is unknown may be retried.
RetryOfUnknown(s, a) ==
    /\ OpenRun(s)
    /\ s.att[a] = "absent"
    /\ s.op[OpOf[a]] \in OpenOperation
    /\ \A b \in AttemptsOf(OpOf[a]) : s.att[b] \notin {"running", "succeeded"}
AcceptsAttemptStarted(s, a) ==
    /\ OpenRun(s)
    /\ s.att[a] = "absent"
    /\ s.op[OpOf[a]] \in OpenOperation
    /\ \A b \in AttemptsOf(OpOf[a]) :
           s.att[b] \notin {"running", "succeeded", "outcome_unknown"}
AttemptStarted(s, a) == [s EXCEPT !.att[a] = "running"]

AcceptsDispatched(s, a) ==
    /\ OpenRun(s)
    /\ s.att[a] = "running"
    /\ a \notin s.sent
    /\ s.op[OpOf[a]] \in OpenOperation
Dispatched(s, a) ==
    [s EXCEPT !.sent = @ \cup {a},
              !.op[OpOf[a]] = "running",
              !.dispatched = @ \cup {OpOf[a]}]

AcceptsEffectStarted(s, a) ==
    /\ OpenRun(s)
    /\ s.att[a] = "running"
    /\ a \in s.sent
    /\ a \notin s.effect
    /\ OpOf[a] \in s.dispatched
    /\ s.op[OpOf[a]] \in OpenOperation
EffectMarked(s, a) == [s EXCEPT !.effect = @ \cup {a}]

AcceptsPartialOutput(s, a) ==
    /\ OpenRun(s)
    /\ KindOf[OpOf[a]] = "provider"
    /\ OpOf[a] \in s.dispatched
    /\ s.att[a] = "running"
    /\ a \in s.sent
    /\ s.op[OpOf[a]] \in OpenOperation
PartialMarked(s, a) == [s EXCEPT !.partial = @ \cup {a}]

\* Seeded faults: a second report about an attempt takes the place of the first;
\* an attempt past its effect boundary may be written off.
FinishedAgain(s, a, st) ==
    /\ OpenRun(s)
    /\ s.att[a] # "absent"
    /\ st \in TerminalAttempt
    /\ st \in {"succeeded", "outcome_unknown"} => a \in s.sent
    /\ st \in {"failed", "cancelled"} => a \notin s.effect \cup s.partial
FinishPastEffect(s, a, st) ==
    /\ OpenRun(s)
    /\ s.att[a] = "running"
    /\ st \in TerminalAttempt
    /\ st \in {"succeeded", "outcome_unknown"} => a \in s.sent
AcceptsAttemptFinished(s, a, st) ==
    /\ OpenRun(s)
    /\ s.att[a] = "running"
    /\ st \in TerminalAttempt
    /\ st \in {"succeeded", "outcome_unknown"} => a \in s.sent
    /\ st \in {"failed", "cancelled"} => a \notin s.effect \cup s.partial
AttemptFinished(s, a, st) == [s EXCEPT !.att[a] = st]

-----------------------------------------------------------------------------
(* operation_waiting, _completed, _failed, _cancelled, _outcome_unknown.   *)

AcceptsOperationWaiting(s, o) == OpenRun(s) /\ s.op[o] \in OpenOperation

AcceptsOperationCompleted(s, o) ==
    /\ OpenRun(s)
    /\ s.op[o] \in OpenOperation
    /\ ~ HasRunning(s, o)
    /\ ~ HasUnknown(s, o)
    /\ KindOf[o] \in {"provider", "tool"} =>
         /\ o \in s.dispatched
         /\ \E a \in AttemptsOf(o) : s.att[a] = "succeeded" /\ a \in s.sent

AcceptsOperationFailed(s, o) ==        \* operation_cancelled has the same rules
    /\ OpenRun(s)
    /\ s.op[o] \in OpenOperation
    /\ ~ HasRunning(s, o)
    /\ ~ HasUnknown(s, o)

AcceptsOperationUnknown(s, o) ==
    /\ OpenRun(s)
    /\ s.op[o] \in OpenOperation
    /\ ~ HasRunning(s, o)

AcceptsOperationMoved(s, o, st) ==
    \/ st = "waiting" /\ AcceptsOperationWaiting(s, o)
    \/ st = "completed" /\ AcceptsOperationCompleted(s, o)
    \/ st \in {"failed", "cancelled"} /\ AcceptsOperationFailed(s, o)
    \/ st = "outcome_unknown" /\ AcceptsOperationUnknown(s, o)
\* Seeded fault: an outcome_unknown operation gets a receipt too.
ReceiptForUnknown(s, o, st) ==
    [s EXCEPT !.op[o] = st,
              !.receipt = IF st \in TerminalOperation THEN @ \cup {o} ELSE @]
OperationMoved(s, o, st) ==
    [s EXCEPT !.op[o] = st,
              !.receipt = IF st \in Confirmed THEN @ \cup {o} ELSE @]

-----------------------------------------------------------------------------
(* Recovery and the end of a turn walk over every unfinished operation,    *)
(* finish its running attempts and then move it.  Events on different      *)
(* operations do not read each other's state, so the walk is one update:   *)
(* verdict[a] is the status a running attempt gets, status[o] the status   *)
(* an unfinished operation gets.                                           *)

AcceptsSweep(s, verdict) ==
    \A a \in Attempts : s.att[a] = "running" => AcceptsAttemptFinished(s, a, verdict[a])
AttemptsSwept(s, verdict) ==
    [s EXCEPT !.att = [a \in Attempts |->
                          IF s.att[a] = "running" THEN verdict[a] ELSE s.att[a]]]

AcceptsClosing(s, status) ==
    \A o \in Unfinished(s) : AcceptsOperationMoved(s, o, status[o])
OperationsClosed(s, status) ==
    [s EXCEPT !.op = [o \in Operations |->
                         IF s.op[o] \in OpenOperation THEN status[o] ELSE s.op[o]],
              !.receipt = @ \cup {o \in Unfinished(s) : status[o] \in Confirmed}]

-----------------------------------------------------------------------------
(* What a snapshot promises.  The conjuncts are inductive together: each   *)
(* event preserves all of them (RunKernelProofs).                          *)

\* An attempt and its operation exist together, and a boundary is recorded
\* only after the one before it.
BoundariesInOrder(s) ==
    /\ s.run = "absent" => \A o \in Operations : s.op[o] = "absent"
    /\ \A a \in Attempts :
         /\ s.att[a] # "absent" => s.op[OpOf[a]] # "absent"
         /\ a \in s.sent => s.att[a] # "absent" /\ OpOf[a] \in s.dispatched
         /\ a \in s.effect \cup s.partial => a \in s.sent
         /\ s.att[a] \in {"succeeded", "outcome_unknown"} => a \in s.sent
    /\ \A o \in s.dispatched : s.op[o] # "absent"

\* A terminal operation has no running attempt, and it carries a receipt
\* exactly when its outcome is confirmed.
ReceiptsMatchStatus(s) ==
    /\ \A a \in Attempts : s.att[a] = "running" => s.op[OpOf[a]] \in OpenOperation
    /\ \A o \in Operations : o \in s.receipt <=> s.op[o] \in Confirmed
    /\ \A a \in Attempts : s.att[a] = "outcome_unknown" => s.op[OpOf[a]] \notin Confirmed
    /\ \A o \in Operations :
         s.op[o] = "completed" /\ KindOf[o] \in {"provider", "tool"} =>
             \E a \in AttemptsOf(o) : s.att[a] = "succeeded"

\* Retries never follow an attempt that may have taken effect: at most one
\* attempt of an operation runs, succeeded or is unknown, and an attempt past
\* its effect boundary is never written off as failed or cancelled.
NoRetryPastEffect(s) ==
    /\ \A a, b \in Attempts :
         /\ OpOf[a] = OpOf[b]
         /\ s.att[a] \in {"running", "succeeded", "outcome_unknown"}
         /\ s.att[b] \in {"running", "succeeded", "outcome_unknown"}
         => a = b
    /\ \A a \in s.effect \cup s.partial : s.att[a] \notin {"failed", "cancelled"}

\* A terminal run is settled, and a run with an unconfirmed operation can
\* only have ended as outcome_unknown.
TerminalRunSettled(s) ==
    /\ s.run \in TerminalRun => \A o \in Operations : s.op[o] \notin OpenOperation
    /\ s.run \in KnownTerminalRun => \A o \in Operations : ~ Unconfirmed(s, o)

\* What the run's status tells its user (RunOutcome).
OutcomeOf(s) ==
    IF s.run \in KnownTerminalRun THEN "known"
    ELSE IF s.run = "outcome_unknown" THEN "unknown" ELSE "open"

SnapshotInv(s) ==
    /\ s \in Snapshot
    /\ BoundariesInOrder(s)
    /\ ReceiptsMatchStatus(s)
    /\ NoRetryPastEffect(s)
    /\ TerminalRunSettled(s)
=============================================================================

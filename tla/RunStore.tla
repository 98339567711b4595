------------------------------- MODULE RunStore ------------------------------
(***************************************************************************)
(* The durable run store (run_integrity/store.py) for one run: every       *)
(* public command that appends evidence, called by anyone in any order.    *)
(* A command is one step: it runs between BEGIN IMMEDIATE and COMMIT, and  *)
(* it changes nothing when the kernel rejects one of its events (the       *)
(* exception rolls the transaction back).  Only owned_transaction,         *)
(* finalize_run, release_lease and acquire_lease look at the lease.        *)
(*                                                                         *)
(* Observations (retry_observed, usage_observed, ...) do not change the    *)
(* projection and are left out.                                            *)
(***************************************************************************)
EXTENDS RunCommands

CONSTANT MaxTime       \* bound: the clock stops here

ASSUME StoreAssumption == MaxTime \in Nat

VARIABLES snap,   \* the projection
          now     \* the clock the callers read

vars == <<snap, now>>

Init == snap = EmptySnapshot /\ now = 0

Tick == now < MaxTime /\ now' = now + 1 /\ UNCHANGED snap

Commit(s) == snap' = s /\ UNCHANGED now

-----------------------------------------------------------------------------
(* Runs, leases and turns.                                                 *)

CreateRun(l) == AcceptsRunCreated(snap) /\ Commit(RunCreated(snap, l))

BeginRun(l, t) ==
    /\ AcceptsRunCreated(snap)
    /\ t \notin snap.turns
    /\ Commit(Begun(snap, l, t))

TransitionRun(target) ==
    /\ AcceptsRunTransition(snap, target)
    /\ Commit(RunTransitioned(snap, target))

AcquireLease(l) ==
    /\ OpenRun(snap)
    /\ l.expires > now
    /\ Unexpired(snap, now) => HeldBy(snap, l.owner)
    /\ Commit(LeaseAcquired(snap, l))

ReleaseLease(p) ==
    /\ OpenRun(snap)
    /\ HeldBy(snap, p)
    /\ Commit(LeaseCleared(snap))

RenewLease(p) ==
    /\ Owns(snap, p, now)
    /\ Renewed(snap, p, now).lease \in Leases
    /\ Commit(Renewed(snap, p, now))

FinalizeRun(p, target) ==
    /\ AcceptsFinalize(snap, p, target, now)
    /\ Commit(Finalized(snap, target))

CreateTurn(t) == AcceptsTurnCreated(snap, t) /\ Commit(TurnCreated(snap, t))

-----------------------------------------------------------------------------
(* Operations and attempts.  ensure_operation appends only when no         *)
(* operation of the run has the key; otherwise it returns the existing     *)
(* operation or raises, and nothing changes.                               *)

EnsureOperation(o) ==
    AcceptsOperationCreated(snap, o) /\ Commit(OperationCreated(snap, o))
StartAttempt(a) ==
    AcceptsAttemptStarted(snap, a) /\ Commit(AttemptStarted(snap, a))
DispatchOperation(a) ==
    AcceptsDispatched(snap, a) /\ Commit(Dispatched(snap, a))
RecordEffectStarted(a) ==
    AcceptsEffectStarted(snap, a) /\ Commit(EffectMarked(snap, a))
RecordPartialOutput(a) ==
    AcceptsPartialOutput(snap, a) /\ Commit(PartialMarked(snap, a))
FinishAttempt(a, st) ==
    AcceptsAttemptFinished(snap, a, st) /\ Commit(AttemptFinished(snap, a, st))
MoveOperation(o, st) ==     \* wait, complete, fail, cancel, mark outcome_unknown
    AcceptsOperationMoved(snap, o, st) /\ Commit(OperationMoved(snap, o, st))

-----------------------------------------------------------------------------
(* recover_expired: close what an expired owner left open.                 *)

RecoverExpired ==
    /\ Expired(snap, now)
    /\ AcceptsRecovery(snap)
    /\ Commit(Recovered(snap))

-----------------------------------------------------------------------------
Next ==
    \/ Tick
    \/ \E l \in Leases \cup {NoLease} : CreateRun(l)
    \/ \E l \in Leases, t \in Turns : BeginRun(l, t)
    \/ \E target \in RunStatus : TransitionRun(target)
    \/ \E l \in Leases : AcquireLease(l)
    \/ \E p \in Owners : ReleaseLease(p) \/ RenewLease(p)
    \/ \E p \in Owners, target \in TerminalRun : FinalizeRun(p, target)
    \/ \E t \in Turns : CreateTurn(t)
    \/ \E o \in Operations : EnsureOperation(o)
    \/ \E a \in Attempts :
         \/ StartAttempt(a)
         \/ DispatchOperation(a)
         \/ RecordEffectStarted(a)
         \/ RecordPartialOutput(a)
    \/ \E a \in Attempts, st \in TerminalAttempt : FinishAttempt(a, st)
    \/ \E o \in Operations, st \in OperationStatus : MoveOperation(o, st)
    \/ RecoverExpired

Spec == Init /\ [][Next]_vars

-----------------------------------------------------------------------------
(* Properties.                                                             *)

\* The type invariant and the inductive one: the projection has the types of
\* models.py, and everything the kernel's rules keep true of a projection
\* holds, whatever the callers do.
LedgerInv == SnapshotInv(snap)

\* kernel.py 142-161 refuses a known terminal status next to an unconfirmed
\* operation; over a whole history this means: when a run ended completed,
\* failed or cancelled, every attempt that crossed its effect boundary or
\* showed partial output had succeeded.
KnownOutcomeIsConfirmed ==
    snap.run \in KnownTerminalRun =>
        \A a \in snap.effect \cup snap.partial : snap.att[a] = "succeeded"

\* Retries, recovery and resumption never let two attempts of one operation
\* cross the effect boundary or show output (kernel.py 335-386).
AtMostOneEffect ==
    \A a, b \in snap.effect \cup snap.partial : OpOf[a] = OpOf[b] => a = b

\* What is closed stays as it is, whatever commands come late or twice: a
\* terminal run; a closed operation with its dispatch, its receipt and its
\* attempts; and an attempt that has finished, its boundaries included, though
\* its operation is open.  And no recorded boundary is ever taken back
\* (kernel.py 93, 124, 198-248, 314-366).
Closed(s)   == {o \in Operations : s.op[o] \in TerminalOperation}
Finished(s) ==
    {a \in Attempts : s.att[a] \in TerminalAttempt \/ OpOf[a] \in Closed(s)}
\* Marks are only added, and to nothing in the set fixed.
Adds(marks, after, fixed) == marks \subseteq after /\ after \cap fixed \subseteq marks
ClosedStaysClosed ==
    [][LET closed   == Closed(snap)
           finished == Finished(snap)
       IN  /\ \A o \in closed : snap'.op[o] = snap.op[o]
           /\ \A a \in finished : snap'.att[a] = snap.att[a]
           /\ Adds(snap.dispatched, snap'.dispatched, closed)
           /\ Adds(snap.receipt, snap'.receipt, closed)
           /\ Adds(snap.sent, snap'.sent, finished)
           /\ Adds(snap.effect, snap'.effect, finished)
           /\ Adds(snap.partial, snap'.partial, finished)
           /\ snap.run \in TerminalRun => snap' = snap]_snap

\* The abstract promise (RunOutcome), read off the ledger: an operation's
\* effect has begun with the first effect_started or partial-output event and
\* is confirmed by the operation's receipt.
EffectOf(s, o) ==
    IF ~ (EffectStarted(s, o) \/ PartialOutput(s, o)) THEN "none"
    ELSE IF o \in s.receipt THEN "confirmed" ELSE "begun"

Promise == INSTANCE RunOutcome WITH
    outcome <- OutcomeOf(snap),
    effects <- [o \in Operations |-> EffectOf(snap, o)]
KeepsPromise == Promise!Spec
=============================================================================

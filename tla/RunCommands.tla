----------------------------- MODULE RunCommands -----------------------------
(***************************************************************************)
(* The bodies of the run store's multi-event transactions                  *)
(* (run_integrity/store.py), as operators on snapshots: begin_run,         *)
(* owned_transaction, finalize_run and recover_expired.  Each is a         *)
(* composition of kernel events; Accepts... holds when the kernel rejects  *)
(* none of them, that is, when the transaction commits.                    *)
(***************************************************************************)
EXTENDS RunKernel, Integers

CONSTANTS
    Owners,
    Duration      \* lease_duration of an owner that renews

ASSUME CommandAssumption ==
    /\ Leases \subseteq [owner : Owners, expires : Nat]
    /\ Duration \in Nat \ {0}

-----------------------------------------------------------------------------
(* Beginning a run, leases, and ending a run.                              *)

\* create_run, transition_run and create_turn in one transaction.
Begun(s, l, t) == TurnCreated(RunTransitioned(RunCreated(s, l), "running"), t)

HeldBy(s, p)       == s.lease # NoLease /\ s.lease.owner = p
Unexpired(s, time) == s.lease # NoLease /\ s.lease.expires > time

\* owned_transaction: who may write, and the renewal of a lease past half of
\* its duration.
Owns(s, p, time) == OpenRun(s) /\ HeldBy(s, p) /\ Unexpired(s, time)
Renewed(s, p, time) ==
    IF 2 * (s.lease.expires - time) <= Duration
    THEN LeaseAcquired(s, [owner |-> p, expires |-> time + Duration])
    ELSE s

\* finalize_run: lease_released, then the terminal run_transitioned.
AcceptsFinalize(s, p, target, time) ==
    /\ HeldBy(s, p)
    /\ Unexpired(s, time)
    /\ target \in TerminalRun
    /\ AcceptsRunTransition(LeaseCleared(s), target)
Finalized(s, target) == RunTransitioned(LeaseCleared(s), target)

-----------------------------------------------------------------------------
(* recover_expired: close what an expired owner left open.                 *)

\* Seeded fault: recovery overlooks tools whose effect has started.
UnsafeWithoutTools(s, o) ==
    \/ s.op[o] = "outcome_unknown"
    \/ /\ s.op[o] # "absent"
       /\ o \notin s.receipt
       /\ KindOf[o] # "tool"
       /\ PartialOutput(s, o) \/ ActiveDispatch(s, o)
\* Seeded fault: recovery trusts a dispatched provider call without output.
UnsafeWithoutDispatch(s, o) ==
    \/ s.op[o] = "outcome_unknown"
    \/ s.op[o] # "absent" /\ o \notin s.receipt /\ (PartialOutput(s, o) \/ EffectStarted(s, o))
UnsafeOperation(s, o) ==
    \/ s.op[o] = "outcome_unknown"
    \/ /\ s.op[o] # "absent"
       /\ o \notin s.receipt
       /\ \/ KindOf[o] = "provider" /\ (PartialOutput(s, o) \/ ActiveDispatch(s, o))
          \/ KindOf[o] = "tool" /\ EffectStarted(s, o)
          \/ KindOf[o] \notin {"provider", "tool"} /\ ActiveDispatch(s, o)

UnsafeAttempt(s, a) ==
    \/ a \in s.effect \cup s.partial
    \/ KindOf[OpOf[a]] # "tool" /\ a \in s.sent

ResumeAllowed(s) == \A o \in Operations : ~ UnsafeOperation(s, o)

RecoveredAttempt(s) ==
    [a \in Attempts |-> IF UnsafeOperation(s, OpOf[a]) /\ UnsafeAttempt(s, a)
                        THEN "outcome_unknown" ELSE "failed"]
RecoveredOperation(s) ==
    [o \in Operations |-> IF ResumeAllowed(s) THEN "waiting"
                          ELSE IF UnsafeOperation(s, o) THEN "outcome_unknown"
                          ELSE "failed"]

\* The snapshot once the expired lease is dropped, the running attempts are
\* finished and the unfinished operations are moved.
SweptAttempts(s) == AttemptsSwept(LeaseCleared(s), RecoveredAttempt(s))
Swept(s)         == OperationsClosed(SweptAttempts(s), RecoveredOperation(s))

AcceptsRecovery(s) ==
    /\ AcceptsSweep(s, RecoveredAttempt(s))
    /\ AcceptsClosing(SweptAttempts(s), RecoveredOperation(s))
    /\ ~ ResumeAllowed(s) => AcceptsRunTransition(Swept(s), "outcome_unknown")
Recovered(s) ==
    IF ~ ResumeAllowed(s) THEN RunTransitioned(Swept(s), "outcome_unknown")
    ELSE IF s.run = "running" THEN RunTransitioned(Swept(s), "waiting")
    ELSE Swept(s)

Expired(s, time) == OpenRun(s) /\ s.lease # NoLease /\ s.lease.expires <= time
=============================================================================

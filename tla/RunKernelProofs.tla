--------------------------- MODULE RunKernelProofs ---------------------------
(***************************************************************************)
(* Every evidence event the kernel accepts preserves SnapshotInv: one      *)
(* lemma per event.  The store's and the authority's commands are          *)
(* compositions of these events, so their proofs cite the lemmas by name.  *)
(***************************************************************************)
EXTENDS RunCommands, TLAPS

\* The projection before run_created satisfies the invariant.
LEMMA EmptyInv == SnapshotInv(EmptySnapshot)
<1> DEFINE s == EmptySnapshot
<1>1. s \in Snapshot
  BY DEF EmptySnapshot, Snapshot, RunStatus
<1>2. BoundariesInOrder(s)
  BY DEF EmptySnapshot, BoundariesInOrder
<1>3. ReceiptsMatchStatus(s)
  BY IdentityAssumption DEF EmptySnapshot, ReceiptsMatchStatus, Confirmed, OpenOperation, AttemptsOf
<1>4. NoRetryPastEffect(s)
  BY DEF EmptySnapshot, NoRetryPastEffect
<1>5. TerminalRunSettled(s)
  BY DEF EmptySnapshot, TerminalRunSettled, TerminalRun, KnownTerminalRun
<1> QED
  BY <1>1, <1>2, <1>3, <1>4, <1>5 DEF SnapshotInv

\* run_created
LEMMA RunCreatedInv ==
    ASSUME NEW s, NEW l \in Leases \cup {NoLease}, SnapshotInv(s), AcceptsRunCreated(s)
    PROVE  SnapshotInv(RunCreated(s, l))
<1> DEFINE n == RunCreated(s, l)
<1> USE IdentityAssumption
<1>1. s \in Snapshot /\ s.run = "absent"
  BY DEF SnapshotInv, AcceptsRunCreated
<1>2. n = [s EXCEPT !.run = "pending", !.lease = l]
  BY DEF RunCreated
<1>3. n \in Snapshot
  BY <1>1, <1>2 DEF Snapshot, RunStatus
<1>4. /\ n.run = "pending" /\ n.op = s.op /\ n.dispatched = s.dispatched
      /\ n.receipt = s.receipt /\ n.att = s.att /\ n.sent = s.sent
      /\ n.effect = s.effect /\ n.partial = s.partial
  BY <1>1, <1>2 DEF Snapshot
<1>5. BoundariesInOrder(n)
  BY <1>4 DEF SnapshotInv, BoundariesInOrder
<1>6. ReceiptsMatchStatus(n)
  BY <1>4 DEF SnapshotInv, ReceiptsMatchStatus
<1>7. NoRetryPastEffect(n)
  BY <1>4 DEF SnapshotInv, NoRetryPastEffect
<1>8. TerminalRunSettled(n)
  BY <1>4 DEF TerminalRunSettled, TerminalRun, KnownTerminalRun
<1> HIDE DEF n
<1> QED
  BY <1>3, <1>5, <1>6, <1>7, <1>8 DEF SnapshotInv, n

\* run_transitioned: a terminal target settles the run.
LEMMA RunTransitionedInv ==
    ASSUME NEW s, NEW target,
           SnapshotInv(s), AcceptsRunTransition(s, target)
    PROVE  SnapshotInv(RunTransitioned(s, target))
<1> DEFINE n == RunTransitioned(s, target)
<1> USE IdentityAssumption
<1>1. s \in Snapshot /\ OpenRun(s) /\ target \in RunStatus
  BY DEF SnapshotInv, AcceptsRunTransition, AllowedTarget, OpenRun,
             RunStatus, TerminalRun, KnownTerminalRun
<1>2. n = [s EXCEPT !.run = target]
  BY DEF RunTransitioned
<1>3. n \in Snapshot
  BY <1>1, <1>2 DEF Snapshot
<1>4. /\ n.run = target /\ n.op = s.op /\ n.dispatched = s.dispatched
      /\ n.receipt = s.receipt /\ n.att = s.att /\ n.sent = s.sent
      /\ n.effect = s.effect /\ n.partial = s.partial
  BY <1>1, <1>2 DEF Snapshot
<1>5. BoundariesInOrder(n)
  BY <1>1, <1>4 DEF SnapshotInv, BoundariesInOrder, RunStatus, TerminalRun, KnownTerminalRun
<1>6. ReceiptsMatchStatus(n)
  BY <1>1, <1>4 DEF SnapshotInv, ReceiptsMatchStatus
<1>7. NoRetryPastEffect(n)
  BY <1>1, <1>4 DEF SnapshotInv, NoRetryPastEffect
<1>8. TerminalRunSettled(n)
  BY <1>1, <1>4 DEF SnapshotInv, TerminalRunSettled, AcceptsRunTransition, Unconfirmed, TerminalRun, KnownTerminalRun
<1> HIDE DEF n
<1> QED
  BY <1>3, <1>5, <1>6, <1>7, <1>8 DEF SnapshotInv, n

\* lease_acquired, lease_released, ownership_expired: the lease is no part of
\* the invariant.
LEMMA LeaseAcquiredInv ==
    ASSUME NEW s, NEW l \in Leases \cup {NoLease},
           SnapshotInv(s), TRUE
    PROVE  SnapshotInv(LeaseAcquired(s, l))
<1> DEFINE n == LeaseAcquired(s, l)
<1> USE IdentityAssumption
<1>1. s \in Snapshot
  BY DEF SnapshotInv, Snapshot
<1>2. n = [s EXCEPT !.lease = l]
  BY DEF LeaseAcquired
<1>3. n \in Snapshot
  BY <1>1, <1>2 DEF Snapshot
<1>4. /\ n.run = s.run /\ n.op = s.op /\ n.dispatched = s.dispatched
      /\ n.receipt = s.receipt /\ n.att = s.att /\ n.sent = s.sent
      /\ n.effect = s.effect /\ n.partial = s.partial
  BY <1>1, <1>2 DEF Snapshot
<1>5. BoundariesInOrder(n)
  BY <1>1, <1>4 DEF SnapshotInv, BoundariesInOrder
<1>6. ReceiptsMatchStatus(n)
  BY <1>1, <1>4 DEF SnapshotInv, ReceiptsMatchStatus
<1>7. NoRetryPastEffect(n)
  BY <1>1, <1>4 DEF SnapshotInv, NoRetryPastEffect
<1>8. TerminalRunSettled(n)
  BY <1>1, <1>4 DEF SnapshotInv, TerminalRunSettled, Unconfirmed
<1> HIDE DEF n
<1> QED
  BY <1>3, <1>5, <1>6, <1>7, <1>8 DEF SnapshotInv, n

\* turn_created
LEMMA TurnCreatedInv ==
    ASSUME NEW s, NEW t,
           SnapshotInv(s), AcceptsTurnCreated(s, t)
    PROVE  SnapshotInv(TurnCreated(s, t))
<1> DEFINE n == TurnCreated(s, t)
<1> USE IdentityAssumption
<1>1. s \in Snapshot /\ t \in Turns
  BY DEF SnapshotInv, AcceptsTurnCreated
<1>2. n = [s EXCEPT !.turns = s.turns \cup {t}]
  BY DEF TurnCreated
<1>3. n \in Snapshot
  BY <1>1, <1>2 DEF Snapshot
<1>4. /\ n.run = s.run /\ n.op = s.op /\ n.dispatched = s.dispatched
      /\ n.receipt = s.receipt /\ n.att = s.att /\ n.sent = s.sent
      /\ n.effect = s.effect /\ n.partial = s.partial
  BY <1>1, <1>2 DEF Snapshot
<1>5. BoundariesInOrder(n)
  BY <1>1, <1>4 DEF SnapshotInv, BoundariesInOrder
<1>6. ReceiptsMatchStatus(n)
  BY <1>1, <1>4 DEF SnapshotInv, ReceiptsMatchStatus
<1>7. NoRetryPastEffect(n)
  BY <1>1, <1>4 DEF SnapshotInv, NoRetryPastEffect
<1>8. TerminalRunSettled(n)
  BY <1>1, <1>4 DEF SnapshotInv, TerminalRunSettled, Unconfirmed
<1> HIDE DEF n
<1> QED
  BY <1>3, <1>5, <1>6, <1>7, <1>8 DEF SnapshotInv, n

\* operation_created
LEMMA OperationCreatedInv ==
    ASSUME NEW s, NEW o \in Operations,
           SnapshotInv(s), AcceptsOperationCreated(s, o)
    PROVE  SnapshotInv(OperationCreated(s, o))
<1> DEFINE n == OperationCreated(s, o)
<1> USE IdentityAssumption
<1>1. s \in Snapshot /\ OpenRun(s) /\ s.op[o] = "absent"
  BY DEF SnapshotInv, AcceptsOperationCreated
<1>2. n = [s EXCEPT !.op = [s.op EXCEPT ![o] = "pending"]]
  BY DEF OperationCreated
<1>3. n \in Snapshot
  BY <1>1, <1>2 DEF Snapshot, OperationStatus, OpenOperation
<1>4. /\ n.run = s.run /\ n.op = [s.op EXCEPT ![o] = "pending"]
      /\ n.dispatched = s.dispatched /\ n.receipt = s.receipt
      /\ n.att = s.att /\ n.sent = s.sent /\ n.effect = s.effect
      /\ n.partial = s.partial
      /\ s.op \in [Operations -> OperationStatus \cup {"absent"}]
      /\ n.run \in {"pending", "running", "waiting"}
  BY <1>1, <1>2 DEF Snapshot, OpenRun
<1>5. BoundariesInOrder(n)
  BY <1>1, <1>4 DEF SnapshotInv, BoundariesInOrder
<1>6. ReceiptsMatchStatus(n)
  BY <1>1, <1>4 DEF SnapshotInv, ReceiptsMatchStatus, AttemptsOf, Confirmed, OpenOperation
<1>7. NoRetryPastEffect(n)
  BY <1>1, <1>4 DEF SnapshotInv, NoRetryPastEffect
<1>8. TerminalRunSettled(n)
  BY <1>1, <1>4 DEF SnapshotInv, TerminalRunSettled, TerminalRun, KnownTerminalRun, OpenOperation
<1> HIDE DEF n
<1> QED
  BY <1>3, <1>5, <1>6, <1>7, <1>8 DEF SnapshotInv, n

\* attempt_started
LEMMA AttemptStartedInv ==
    ASSUME NEW s, NEW a \in Attempts,
           SnapshotInv(s), AcceptsAttemptStarted(s, a)
    PROVE  SnapshotInv(AttemptStarted(s, a))
<1> DEFINE n == AttemptStarted(s, a)
<1> USE IdentityAssumption
<1>1. s \in Snapshot /\ OpenRun(s) /\ s.att[a] = "absent"
  BY DEF SnapshotInv, AcceptsAttemptStarted
<1>2. n = [s EXCEPT !.att = [s.att EXCEPT ![a] = "running"]]
  BY DEF AttemptStarted
<1>3. n \in Snapshot
  BY <1>1, <1>2 DEF Snapshot, AttemptStatus
<1>4. /\ n.run = s.run /\ n.op = s.op /\ n.dispatched = s.dispatched
      /\ n.receipt = s.receipt /\ n.att = [s.att EXCEPT ![a] = "running"]
      /\ n.sent = s.sent /\ n.effect = s.effect /\ n.partial = s.partial
      /\ s.att \in [Attempts -> AttemptStatus \cup {"absent"}]
      /\ n.run \in {"pending", "running", "waiting"}
  BY <1>1, <1>2 DEF Snapshot, OpenRun
<1>5. BoundariesInOrder(n)
  BY <1>1, <1>4 DEF SnapshotInv, BoundariesInOrder, AcceptsAttemptStarted, OpenOperation
<1>6. ReceiptsMatchStatus(n)
  BY <1>1, <1>4 DEF SnapshotInv, ReceiptsMatchStatus, AttemptsOf, AcceptsAttemptStarted, Confirmed, OpenOperation
<1>7. NoRetryPastEffect(n)
  BY <1>1, <1>4 DEF SnapshotInv, NoRetryPastEffect, AcceptsAttemptStarted, AttemptsOf, BoundariesInOrder
<1>8. TerminalRunSettled(n)
  BY <1>1, <1>4 DEF SnapshotInv, TerminalRunSettled, TerminalRun, KnownTerminalRun
<1> HIDE DEF n
<1> QED
  BY <1>3, <1>5, <1>6, <1>7, <1>8 DEF SnapshotInv, n

\* operation_dispatched
LEMMA DispatchedInv ==
    ASSUME NEW s, NEW a \in Attempts,
           SnapshotInv(s), AcceptsDispatched(s, a)
    PROVE  SnapshotInv(Dispatched(s, a))
<1> DEFINE n == Dispatched(s, a)
<1> USE IdentityAssumption
<1>1. s \in Snapshot /\ OpenRun(s) /\ s.att[a] = "running" /\ s.op[OpOf[a]] \in OpenOperation
  BY DEF SnapshotInv, AcceptsDispatched
<1>2. n = [s EXCEPT !.sent = s.sent \cup {a},
                     !.op = [s.op EXCEPT ![OpOf[a]] = "running"],
                     !.dispatched = s.dispatched \cup {OpOf[a]}]
  BY DEF Dispatched
<1>t. [s.op EXCEPT ![OpOf[a]] = "running"] \in [Operations -> OperationStatus \cup {"absent"}]
  BY <1>1 DEF Snapshot, OperationStatus, OpenOperation
<1>u. /\ s.dispatched \cup {OpOf[a]} \in SUBSET Operations
      /\ s.sent \cup {a} \in SUBSET Attempts
  BY <1>1 DEF Snapshot
<1>3. n \in Snapshot
  BY <1>1, <1>2, <1>t, <1>u, ZenonT(30) DEF Snapshot
<1>4. /\ n.run = s.run /\ n.op = [s.op EXCEPT ![OpOf[a]] = "running"]
      /\ n.dispatched = s.dispatched \cup {OpOf[a]}
      /\ n.receipt = s.receipt /\ n.att = s.att
      /\ n.sent = s.sent \cup {a} /\ n.effect = s.effect
      /\ n.partial = s.partial
      /\ s.op \in [Operations -> OperationStatus \cup {"absent"}]
      /\ n.run \in {"pending", "running", "waiting"}
  BY <1>1, <1>2 DEF Snapshot, OpenRun
<1>5. BoundariesInOrder(n)
  BY <1>1, <1>4 DEF SnapshotInv, BoundariesInOrder
<1>6. ReceiptsMatchStatus(n)
  BY <1>1, <1>4 DEF SnapshotInv, ReceiptsMatchStatus, AttemptsOf, Confirmed, OpenOperation
<1>7. NoRetryPastEffect(n)
  BY <1>1, <1>4 DEF SnapshotInv, NoRetryPastEffect
<1>8. TerminalRunSettled(n)
  BY <1>1, <1>4 DEF SnapshotInv, TerminalRunSettled, TerminalRun, KnownTerminalRun
<1> HIDE DEF n
<1> QED
  BY <1>3, <1>5, <1>6, <1>7, <1>8 DEF SnapshotInv, n

\* operation_effect_started
LEMMA EffectMarkedInv ==
    ASSUME NEW s, NEW a \in Attempts,
           SnapshotInv(s), AcceptsEffectStarted(s, a)
    PROVE  SnapshotInv(EffectMarked(s, a))
<1> DEFINE n == EffectMarked(s, a)
<1> USE IdentityAssumption
<1>1. s \in Snapshot /\ OpenRun(s) /\ s.att[a] = "running" /\ a \in s.sent
  BY DEF SnapshotInv, AcceptsEffectStarted
<1>2. n = [s EXCEPT !.effect = s.effect \cup {a}]
  BY DEF EffectMarked
<1>3. n \in Snapshot
  BY <1>1, <1>2 DEF Snapshot
<1>4. /\ n.run = s.run /\ n.op = s.op /\ n.dispatched = s.dispatched
      /\ n.receipt = s.receipt /\ n.att = s.att /\ n.sent = s.sent
      /\ n.effect = s.effect \cup {a} /\ n.partial = s.partial
      /\ n.run \in {"pending", "running", "waiting"}
  BY <1>1, <1>2 DEF Snapshot, OpenRun
<1>5. BoundariesInOrder(n)
  BY <1>1, <1>4 DEF SnapshotInv, BoundariesInOrder
<1>6. ReceiptsMatchStatus(n)
  BY <1>1, <1>4 DEF SnapshotInv, ReceiptsMatchStatus
<1>7. NoRetryPastEffect(n)
  BY <1>1, <1>4 DEF SnapshotInv, NoRetryPastEffect
<1>8. TerminalRunSettled(n)
  BY <1>1, <1>4 DEF SnapshotInv, TerminalRunSettled, TerminalRun, KnownTerminalRun
<1> HIDE DEF n
<1> QED
  BY <1>3, <1>5, <1>6, <1>7, <1>8 DEF SnapshotInv, n

\* provider_partial_output
LEMMA PartialMarkedInv ==
    ASSUME NEW s, NEW a \in Attempts,
           SnapshotInv(s), AcceptsPartialOutput(s, a)
    PROVE  SnapshotInv(PartialMarked(s, a))
<1> DEFINE n == PartialMarked(s, a)
<1> USE IdentityAssumption
<1>1. s \in Snapshot /\ OpenRun(s) /\ s.att[a] = "running" /\ a \in s.sent
  BY DEF SnapshotInv, AcceptsPartialOutput
<1>2. n = [s EXCEPT !.partial = s.partial \cup {a}]
  BY DEF PartialMarked
<1>3. n \in Snapshot
  BY <1>1, <1>2 DEF Snapshot
<1>4. /\ n.run = s.run /\ n.op = s.op /\ n.dispatched = s.dispatched
      /\ n.receipt = s.receipt /\ n.att = s.att /\ n.sent = s.sent
      /\ n.effect = s.effect /\ n.partial = s.partial \cup {a}
      /\ n.run \in {"pending", "running", "waiting"}
  BY <1>1, <1>2 DEF Snapshot, OpenRun
<1>5. BoundariesInOrder(n)
  BY <1>1, <1>4 DEF SnapshotInv, BoundariesInOrder
<1>6. ReceiptsMatchStatus(n)
  BY <1>1, <1>4 DEF SnapshotInv, ReceiptsMatchStatus
<1>7. NoRetryPastEffect(n)
  BY <1>1, <1>4 DEF SnapshotInv, NoRetryPastEffect
<1>8. TerminalRunSettled(n)
  BY <1>1, <1>4 DEF SnapshotInv, TerminalRunSettled, TerminalRun, KnownTerminalRun
<1> HIDE DEF n
<1> QED
  BY <1>3, <1>5, <1>6, <1>7, <1>8 DEF SnapshotInv, n

\* attempt_finished
LEMMA AttemptFinishedInv ==
    ASSUME NEW s, NEW a \in Attempts, NEW st,
           SnapshotInv(s), AcceptsAttemptFinished(s, a, st)
    PROVE  SnapshotInv(AttemptFinished(s, a, st))
<1> DEFINE n == AttemptFinished(s, a, st)
<1> USE IdentityAssumption
<1>1. s \in Snapshot /\ OpenRun(s) /\ s.att[a] = "running" /\ st \in TerminalAttempt
  BY DEF SnapshotInv, AcceptsAttemptFinished
<1>2. n = [s EXCEPT !.att = [s.att EXCEPT ![a] = st]]
  BY DEF AttemptFinished
<1>3. n \in Snapshot
  BY <1>1, <1>2, SMTT(20) DEF Snapshot, AttemptStatus
<1>4. /\ n.run = s.run /\ n.op = s.op /\ n.dispatched = s.dispatched
      /\ n.receipt = s.receipt /\ n.att = [s.att EXCEPT ![a] = st]
      /\ n.sent = s.sent /\ n.effect = s.effect /\ n.partial = s.partial
      /\ s.att \in [Attempts -> AttemptStatus \cup {"absent"}]
      /\ n.run \in {"pending", "running", "waiting"}
  BY <1>1, <1>2 DEF Snapshot, OpenRun
<1>5. BoundariesInOrder(n)
  BY <1>1, <1>4 DEF SnapshotInv, BoundariesInOrder, AcceptsAttemptFinished, TerminalAttempt
<1>6. ReceiptsMatchStatus(n)
  BY <1>1, <1>4 DEF SnapshotInv, ReceiptsMatchStatus, TerminalAttempt, Confirmed, OpenOperation, AttemptsOf
<1>7. NoRetryPastEffect(n)
  BY <1>1, <1>4 DEF SnapshotInv, NoRetryPastEffect, AcceptsAttemptFinished, TerminalAttempt
<1>8. TerminalRunSettled(n)
  BY <1>1, <1>4 DEF SnapshotInv, TerminalRunSettled, TerminalRun, KnownTerminalRun
<1> HIDE DEF n
<1> QED
  BY <1>3, <1>5, <1>6, <1>7, <1>8 DEF SnapshotInv, n

\* operation_waiting, _completed, _failed, _cancelled, _outcome_unknown
LEMMA OperationMovedInv ==
    ASSUME NEW s, NEW o \in Operations, NEW st,
           SnapshotInv(s), AcceptsOperationMoved(s, o, st)
    PROVE  SnapshotInv(OperationMoved(s, o, st))
<1> DEFINE n == OperationMoved(s, o, st)
<1> USE IdentityAssumption
<1>1. s \in Snapshot /\ OpenRun(s) /\ s.op[o] \in OpenOperation
      /\ st \in {"waiting", "completed", "failed", "cancelled", "outcome_unknown"}
  BY DEF SnapshotInv, AcceptsOperationMoved, AcceptsOperationWaiting,
        AcceptsOperationCompleted, AcceptsOperationFailed, AcceptsOperationUnknown
<1>2. n = [s EXCEPT !.op = [s.op EXCEPT ![o] = st],
                     !.receipt = IF st \in Confirmed THEN s.receipt \cup {o} ELSE s.receipt]
  BY DEF OperationMoved
<1>t. [s.op EXCEPT ![o] = st] \in [Operations -> OperationStatus \cup {"absent"}]
  BY <1>1 DEF Snapshot, OperationStatus, OpenOperation, TerminalOperation, Confirmed
<1>u. (IF st \in Confirmed THEN s.receipt \cup {o} ELSE s.receipt) \in SUBSET Operations
  BY <1>1 DEF Snapshot
<1>3. n \in Snapshot
  BY <1>1, <1>2, <1>t, <1>u, ZenonT(30) DEF Snapshot
<1>4. /\ n.run = s.run /\ n.op = [s.op EXCEPT ![o] = st]
      /\ n.dispatched = s.dispatched
      /\ n.receipt = IF st \in Confirmed THEN s.receipt \cup {o} ELSE s.receipt
      /\ n.att = s.att /\ n.sent = s.sent /\ n.effect = s.effect
      /\ n.partial = s.partial
      /\ s.op \in [Operations -> OperationStatus \cup {"absent"}]
      /\ n.run \in {"pending", "running", "waiting"}
  BY <1>1, <1>2 DEF Snapshot, OpenRun
<1>5. BoundariesInOrder(n)
  BY <1>1, <1>4 DEF SnapshotInv, BoundariesInOrder
<1>6. ReceiptsMatchStatus(n)
  BY <1>1, <1>4 DEF SnapshotInv, ReceiptsMatchStatus, AttemptsOf, Confirmed, OpenOperation, AcceptsOperationMoved, AcceptsOperationWaiting, AcceptsOperationCompleted, AcceptsOperationFailed, AcceptsOperationUnknown, HasRunning, HasUnknown
<1>7. NoRetryPastEffect(n)
  BY <1>1, <1>4 DEF SnapshotInv, NoRetryPastEffect
<1>8. TerminalRunSettled(n)
  BY <1>1, <1>4 DEF SnapshotInv, TerminalRunSettled, TerminalRun, KnownTerminalRun
<1> HIDE DEF n
<1> QED
  BY <1>3, <1>5, <1>6, <1>7, <1>8 DEF SnapshotInv, n

\* Finishing every running attempt at once.
LEMMA AttemptsSweptInv ==
    ASSUME NEW s, NEW verdict,
           SnapshotInv(s), AcceptsSweep(s, verdict), OpenRun(s)
    PROVE  SnapshotInv(AttemptsSwept(s, verdict))
<1> DEFINE n == AttemptsSwept(s, verdict)
<1> USE IdentityAssumption
<1>1. /\ s \in Snapshot
      /\ \A a \in Attempts : s.att[a] = "running" => verdict[a] \in TerminalAttempt
  BY DEF SnapshotInv, AcceptsSweep, AcceptsAttemptFinished
<1>2. n = [s EXCEPT !.att = [a \in Attempts |->
                           IF s.att[a] = "running" THEN verdict[a] ELSE s.att[a]]]
  BY DEF AttemptsSwept
<1>3. n \in Snapshot
  BY <1>1, <1>2 DEF Snapshot, AttemptStatus
<1>4. /\ n.run = s.run /\ n.op = s.op /\ n.dispatched = s.dispatched
      /\ n.receipt = s.receipt
      /\ n.att = [a \in Attempts |-> IF s.att[a] = "running" THEN verdict[a] ELSE s.att[a]]
      /\ n.sent = s.sent /\ n.effect = s.effect /\ n.partial = s.partial
      /\ s.att \in [Attempts -> AttemptStatus \cup {"absent"}]
      /\ n.run \in {"pending", "running", "waiting"}
  BY <1>1, <1>2 DEF Snapshot, OpenRun
<1>5. BoundariesInOrder(n)
  BY <1>1, <1>4 DEF SnapshotInv, BoundariesInOrder, AcceptsSweep, AcceptsAttemptFinished, TerminalAttempt
<1>6. ReceiptsMatchStatus(n)
  BY <1>1, <1>4 DEF SnapshotInv, ReceiptsMatchStatus, TerminalAttempt, Confirmed, OpenOperation, AttemptsOf
<1>v. \A a \in Attempts : n.att[a] \in {"running", "succeeded", "outcome_unknown"} =>
         s.att[a] \in {"running", "succeeded", "outcome_unknown"}
  BY <1>1, <1>4 DEF TerminalAttempt
<1>7. NoRetryPastEffect(n)
  <2>1. \A a \in s.effect \cup s.partial : n.att[a] \notin {"failed", "cancelled"}
    BY <1>1, <1>4 DEF SnapshotInv, NoRetryPastEffect, AcceptsSweep, AcceptsAttemptFinished, Snapshot
  <2> QED
    BY <1>v, <1>4, <2>1 DEF SnapshotInv, NoRetryPastEffect
<1>8. TerminalRunSettled(n)
  BY <1>1, <1>4 DEF SnapshotInv, TerminalRunSettled, TerminalRun, KnownTerminalRun
<1> HIDE DEF n
<1> QED
  BY <1>3, <1>5, <1>6, <1>7, <1>8 DEF SnapshotInv, n

\* Moving every unfinished operation at once.
LEMMA OperationsClosedInv ==
    ASSUME NEW s, NEW status,
           SnapshotInv(s), AcceptsClosing(s, status), OpenRun(s)
    PROVE  SnapshotInv(OperationsClosed(s, status))
<1> DEFINE n == OperationsClosed(s, status)
<1> USE IdentityAssumption
<1>1. /\ s \in Snapshot
      /\ \A o \in Operations : s.op[o] \in OpenOperation =>
           status[o] \in {"waiting", "completed", "failed", "cancelled", "outcome_unknown"}
  BY DEF SnapshotInv, AcceptsClosing, Unfinished, AcceptsOperationMoved
<1>2. n = [s EXCEPT !.op = [o \in Operations |->
                          IF s.op[o] \in OpenOperation THEN status[o] ELSE s.op[o]],
                     !.receipt = s.receipt \cup {o \in Unfinished(s) : status[o] \in Confirmed}]
  BY DEF OperationsClosed
<1>t. [o \in Operations |-> IF s.op[o] \in OpenOperation THEN status[o] ELSE s.op[o]]
         \in [Operations -> OperationStatus \cup {"absent"}]
  BY <1>1 DEF Snapshot, OperationStatus, OpenOperation, TerminalOperation, Confirmed
<1>u. s.receipt \cup {o \in Unfinished(s) : status[o] \in Confirmed} \in SUBSET Operations
  BY <1>1 DEF Snapshot, Unfinished
<1>3. n \in Snapshot
  BY <1>1, <1>2, <1>t, <1>u, ZenonT(30) DEF Snapshot
<1>4. /\ n.run = s.run
      /\ n.op = [o \in Operations |->
                  IF s.op[o] \in OpenOperation THEN status[o] ELSE s.op[o]]
      /\ n.dispatched = s.dispatched
      /\ n.receipt = s.receipt \cup {o \in Unfinished(s) : status[o] \in Confirmed}
      /\ n.att = s.att /\ n.sent = s.sent /\ n.effect = s.effect
      /\ n.partial = s.partial
      /\ s.op \in [Operations -> OperationStatus \cup {"absent"}]
      /\ n.run \in {"pending", "running", "waiting"}
  BY <1>1, <1>2 DEF Snapshot, OpenRun
<1>v. \A o \in Operations : n.op[o] = "absent" <=> s.op[o] = "absent"
  BY <1>1, <1>4 DEF OpenOperation
<1>5. BoundariesInOrder(n)
  <2>1. /\ n.run # "absent" /\ n.att = s.att /\ n.sent = s.sent /\ n.effect = s.effect
        /\ n.partial = s.partial /\ n.dispatched = s.dispatched
    BY <1>4
  <2> QED
    BY <1>1, <1>v, <2>1 DEF SnapshotInv, BoundariesInOrder, Snapshot
<1>6. ReceiptsMatchStatus(n)
  BY <1>1, <1>4 DEF SnapshotInv, ReceiptsMatchStatus, AttemptsOf, Confirmed, OpenOperation, Unfinished, AcceptsClosing, AcceptsOperationMoved, AcceptsOperationWaiting, AcceptsOperationCompleted, AcceptsOperationFailed, AcceptsOperationUnknown, HasRunning, HasUnknown
<1>7. NoRetryPastEffect(n)
  BY <1>1, <1>4 DEF SnapshotInv, NoRetryPastEffect
<1>8. TerminalRunSettled(n)
  BY <1>1, <1>4 DEF SnapshotInv, TerminalRunSettled, TerminalRun, KnownTerminalRun
<1> HIDE DEF n
<1> QED
  BY <1>3, <1>5, <1>6, <1>7, <1>8 DEF SnapshotInv, n

-----------------------------------------------------------------------------
(* The store's multi-event commands.                                       *)

\* create_run, transition_run and create_turn of begin_run, composed.
LEMMA BegunInv ==
    ASSUME NEW s, NEW l \in Leases, NEW t \in Turns,
           SnapshotInv(s), AcceptsRunCreated(s), t \notin s.turns
    PROVE  SnapshotInv(Begun(s, l, t))
<1> DEFINE c == RunCreated(s, l)
           r == RunTransitioned(c, "running")
<1>1. /\ SnapshotInv(c)
      /\ c.run = "pending" /\ c.turns = s.turns
  BY RunCreatedInv DEF RunCreated, SnapshotInv, Snapshot
<1> HIDE DEF c
<1>2. AcceptsRunTransition(c, "running")
  BY <1>1 DEF AcceptsRunTransition, OpenRun, AllowedTarget, TerminalRun, KnownTerminalRun
<1>3. SnapshotInv(r)
  BY <1>1, <1>2, RunTransitionedInv
<1>4. r.run = "running" /\ r.turns = s.turns
  BY <1>1 DEF RunTransitioned, SnapshotInv, Snapshot
<1> HIDE DEF r
<1>5. AcceptsTurnCreated(r, t)
  BY <1>4 DEF AcceptsTurnCreated, OpenRun
<1>6. SnapshotInv(TurnCreated(r, t))
  BY <1>3, <1>5, TurnCreatedInv
<1> QED
  BY <1>6 DEF Begun, c, r

\* finalize_run: lease_released, then the terminal run_transitioned.
LEMMA FinalizedInv ==
    ASSUME NEW s, NEW p, NEW target, NEW time,
           SnapshotInv(s), AcceptsFinalize(s, p, target, time)
    PROVE  SnapshotInv(Finalized(s, target))
<1>1. SnapshotInv(LeaseCleared(s))
  BY LeaseAcquiredInv DEF LeaseCleared, LeaseAcquired
<1> QED
  BY <1>1, RunTransitionedInv DEF AcceptsFinalize, Finalized

\* recover_expired: the sweep of the running attempts, the closing of the
\* unfinished operations, and the run's transition.
LEMMA RecoveredInv ==
    ASSUME NEW s, SnapshotInv(s), OpenRun(s), AcceptsRecovery(s)
    PROVE  SnapshotInv(Recovered(s))
<1> DEFINE c == LeaseCleared(s)
           u == SweptAttempts(s)
           w == Swept(s)
<1>1. /\ SnapshotInv(c)
      /\ c.run = s.run /\ OpenRun(c) /\ c.att = s.att
      /\ AcceptsSweep(c, RecoveredAttempt(s))
  <2>1. SnapshotInv(c)
    BY LeaseAcquiredInv DEF LeaseCleared, LeaseAcquired
  <2>2. /\ c.run = s.run /\ c.att = s.att /\ c.sent = s.sent
        /\ c.effect = s.effect /\ c.partial = s.partial
    BY DEF LeaseCleared, SnapshotInv, Snapshot
  <2> QED
    BY <2>1, <2>2 DEF OpenRun, AcceptsRecovery, AcceptsSweep, AcceptsAttemptFinished
<1>2. SnapshotInv(u)
  BY <1>1, AttemptsSweptInv DEF SweptAttempts
<1>3. u.run = s.run /\ OpenRun(u)
  BY <1>1 DEF SweptAttempts, AttemptsSwept, SnapshotInv, Snapshot, OpenRun
<1>4. SnapshotInv(w)
  BY <1>2, <1>3, OperationsClosedInv DEF Swept, AcceptsRecovery
<1>5. w.run = s.run /\ OpenRun(w)
  BY <1>2, <1>3 DEF Swept, OperationsClosed, SnapshotInv, Snapshot, OpenRun
<1>6. CASE ~ ResumeAllowed(s)
  BY <1>4, <1>6, RunTransitionedInv DEF AcceptsRecovery, Recovered
<1>7. CASE ResumeAllowed(s) /\ s.run = "running"
  <2>1. AcceptsRunTransition(w, "waiting")
    BY <1>5, <1>7 DEF AcceptsRunTransition, AllowedTarget, TerminalRun, KnownTerminalRun
  <2> QED
    BY <1>4, <1>7, <2>1, RunTransitionedInv DEF Recovered
<1>8. CASE ResumeAllowed(s) /\ s.run # "running"
  BY <1>4, <1>8 DEF Recovered
<1> QED
  BY <1>6, <1>7, <1>8

\* owned_transaction renews a lease or leaves the snapshot alone.
LEMMA RenewedInv ==
    ASSUME NEW s, NEW p, NEW time, SnapshotInv(s), Renewed(s, p, time).lease \in Leases
    PROVE  SnapshotInv(Renewed(s, p, time))
<1>1. CASE Renewed(s, p, time) = s
  BY <1>1
<1>2. CASE Renewed(s, p, time) # s
  <2> DEFINE l == [owner |-> p, expires |-> time + Duration]
  <2>1. Renewed(s, p, time) = LeaseAcquired(s, l)
    BY <1>2 DEF Renewed
  <2>2. l \in Leases
    BY <2>1 DEF LeaseAcquired, SnapshotInv, Snapshot
  <2> QED
    BY <2>1, <2>2, LeaseAcquiredInv
<1> QED
  BY <1>1, <1>2
=============================================================================

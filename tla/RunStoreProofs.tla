--------------------------- MODULE RunStoreProofs ----------------------------
(***************************************************************************)
(* What holds of the durable store for any operations, attempts, owners    *)
(* and leases, whatever its callers do.  The inductive invariant is        *)
(* SnapshotInv of the projection; a command is a composition of evidence   *)
(* events, so each step cites the event lemmas of RunKernelProofs.         *)
(***************************************************************************)
EXTENDS RunStore, RunKernelProofs

\* The projection satisfies the kernel's invariant after every command.
THEOREM LedgerInvariant == Spec => []LedgerInv
<1>1. Init => LedgerInv
  BY EmptyInv DEF Init, LedgerInv
<1>2. LedgerInv /\ [Next]_vars => LedgerInv'
  <2> SUFFICES ASSUME LedgerInv, [Next]_vars
               PROVE  LedgerInv'
    OBVIOUS
  <2> USE DEF LedgerInv, Commit
  <2>1. CASE Tick
    BY <2>1 DEF Tick
  <2>2. CASE \E l \in Leases \cup {NoLease} : CreateRun(l)
    BY <2>2, RunCreatedInv DEF CreateRun
  <2>3. CASE \E l \in Leases, t \in Turns : BeginRun(l, t)
    BY <2>3, BegunInv DEF BeginRun
  <2>4. CASE \E target \in RunStatus : TransitionRun(target)
    BY <2>4, RunTransitionedInv DEF TransitionRun
  <2>5. CASE \E l \in Leases : AcquireLease(l)
    BY <2>5, LeaseAcquiredInv DEF AcquireLease
  <2>6. CASE \E p \in Owners : ReleaseLease(p)
    BY <2>6, LeaseAcquiredInv DEF ReleaseLease, LeaseCleared, LeaseAcquired
  <2>7. CASE \E p \in Owners : RenewLease(p)
    BY <2>7, RenewedInv DEF RenewLease
  <2>8. CASE \E p \in Owners, target \in TerminalRun : FinalizeRun(p, target)
    BY <2>8, FinalizedInv DEF FinalizeRun
  <2>9. CASE \E t \in Turns : CreateTurn(t)
    BY <2>9, TurnCreatedInv DEF CreateTurn
  <2>10. CASE \E o \in Operations : EnsureOperation(o)
    BY <2>10, OperationCreatedInv DEF EnsureOperation
  <2>11. CASE \E a \in Attempts : StartAttempt(a)
    BY <2>11, AttemptStartedInv DEF StartAttempt
  <2>12. CASE \E a \in Attempts : DispatchOperation(a)
    BY <2>12, DispatchedInv DEF DispatchOperation
  <2>13. CASE \E a \in Attempts : RecordEffectStarted(a)
    BY <2>13, EffectMarkedInv DEF RecordEffectStarted
  <2>14. CASE \E a \in Attempts : RecordPartialOutput(a)
    BY <2>14, PartialMarkedInv DEF RecordPartialOutput
  <2>15. CASE \E a \in Attempts, st \in TerminalAttempt : FinishAttempt(a, st)
    BY <2>15, AttemptFinishedInv DEF FinishAttempt
  <2>16. CASE \E o \in Operations, st \in OperationStatus : MoveOperation(o, st)
    BY <2>16, OperationMovedInv DEF MoveOperation
  <2>17. CASE RecoverExpired
    BY <2>17, RecoveredInv DEF RecoverExpired, Expired
  <2>18. CASE UNCHANGED vars
    BY <2>18 DEF vars
  <2> QED
    BY <2>1, <2>2, <2>3, <2>4, <2>5, <2>6, <2>7, <2>8, <2>9, <2>10, <2>11,
       <2>12, <2>13, <2>14, <2>15, <2>16, <2>17, <2>18 DEF Next
<1> QED
  BY <1>1, <1>2, PTL DEF Spec

-----------------------------------------------------------------------------
\* A run that ended with a known outcome confirmed every effect.
THEOREM KnownOutcome == Spec => []KnownOutcomeIsConfirmed
<1>1. LedgerInv => KnownOutcomeIsConfirmed
  <2> SUFFICES ASSUME SnapshotInv(snap), snap.run \in KnownTerminalRun,
                      NEW a \in snap.effect \cup snap.partial
               PROVE  snap.att[a] = "succeeded"
    BY DEF LedgerInv, KnownOutcomeIsConfirmed
  <2>1. a \in Attempts /\ OpOf[a] \in Operations
    BY IdentityAssumption DEF SnapshotInv, Snapshot
  <2>2. a \in snap.sent /\ snap.att[a] # "absent" /\ OpOf[a] \in snap.dispatched
    BY <2>1 DEF SnapshotInv, BoundariesInOrder
  <2>3. /\ snap.op[OpOf[a]] \notin OpenOperation
        /\ snap.op[OpOf[a]] # "outcome_unknown"
        /\ OpOf[a] \in snap.receipt
    BY <2>1, <2>2 DEF SnapshotInv, TerminalRunSettled, Unconfirmed, TerminalRun
  <2>4. snap.op[OpOf[a]] \in Confirmed
    BY <2>1, <2>3 DEF SnapshotInv, ReceiptsMatchStatus
  <2>5. snap.att[a] \notin {"running", "outcome_unknown"}
    BY <2>1, <2>3, <2>4 DEF SnapshotInv, ReceiptsMatchStatus
  <2>6. snap.att[a] \notin {"failed", "cancelled"}
    BY DEF SnapshotInv, NoRetryPastEffect
  <2> QED
    BY <2>1, <2>2, <2>5, <2>6 DEF SnapshotInv, Snapshot, AttemptStatus, TerminalAttempt
<1> QED
  BY <1>1, LedgerInvariant, PTL

\* No two attempts of an operation cross its effect boundary or show output: such
\* an attempt is neither failed nor cancelled, and one is never retried.
LEMMA OneEffect == ASSUME LedgerInv PROVE AtMostOneEffect
<1> SUFFICES ASSUME NEW a \in snap.effect \cup snap.partial,
                    NEW b \in snap.effect \cup snap.partial, OpOf[a] = OpOf[b]
             PROVE  a = b
  BY DEF AtMostOneEffect
<1>1. a \in Attempts /\ b \in Attempts
  BY DEF LedgerInv, SnapshotInv, Snapshot
<1>2. snap.att[a] # "absent" /\ snap.att[b] # "absent"
  BY <1>1 DEF LedgerInv, SnapshotInv, BoundariesInOrder
<1>3. snap.att[a] \notin {"failed", "cancelled"} /\ snap.att[b] \notin {"failed", "cancelled"}
  BY DEF LedgerInv, SnapshotInv, NoRetryPastEffect
<1>4. /\ snap.att[a] \in {"running", "succeeded", "outcome_unknown"}
      /\ snap.att[b] \in {"running", "succeeded", "outcome_unknown"}
  BY <1>1, <1>2, <1>3 DEF LedgerInv, SnapshotInv, Snapshot, AttemptStatus, TerminalAttempt
<1> QED
  BY <1>1, <1>4 DEF LedgerInv, SnapshotInv, NoRetryPastEffect

THEOREM OneEffectPerOperation == Spec => []AtMostOneEffect
  BY LedgerInvariant, OneEffect, PTL

-----------------------------------------------------------------------------
(* What is closed stays closed.                                            *)

\* From projection s to projection n what is closed or finished stays as it is,
\* and marks are only added, and to nothing that is closed or finished.
Kept(s, n) ==
    /\ \A o \in Closed(s) : n.op[o] = s.op[o]
    /\ \A a \in Finished(s) : n.att[a] = s.att[a]
    /\ Adds(s.dispatched, n.dispatched, Closed(s))
    /\ Adds(s.receipt, n.receipt, Closed(s))
    /\ Adds(s.sent, n.sent, Finished(s))
    /\ Adds(s.effect, n.effect, Finished(s))
    /\ Adds(s.partial, n.partial, Finished(s))

\* An event that writes neither a status of an operation or of an attempt nor a mark.
LEMMA KeptUntouched ==
    ASSUME NEW s, NEW n, n.op = s.op, n.att = s.att, n.dispatched = s.dispatched,
           n.receipt = s.receipt, n.sent = s.sent, n.effect = s.effect, n.partial = s.partial
    PROVE  Kept(s, n)
  BY DEF Kept, Adds

\* An event that writes the status of one attempt, its marks, and the status and
\* the dispatch of its operation: the attempt must not have finished.
LEMMA KeptByAttempt ==
    ASSUME NEW s, NEW n, NEW a \in Attempts, a \notin Finished(s),
           \A b \in Attempts \ {a} : n.att[b] = s.att[b],
           \A p \in Operations \ {OpOf[a]} : n.op[p] = s.op[p],
           n.dispatched \in {s.dispatched, s.dispatched \cup {OpOf[a]}},
           n.receipt = s.receipt,
           n.sent \in {s.sent, s.sent \cup {a}},
           n.effect \in {s.effect, s.effect \cup {a}},
           n.partial \in {s.partial, s.partial \cup {a}}
    PROVE  Kept(s, n)
<1>1. OpOf[a] \notin Closed(s) /\ Finished(s) \subseteq Attempts /\ Closed(s) \subseteq Operations
  BY DEF Finished, Closed
<1> QED
  BY <1>1 DEF Kept, Adds

\* An event that writes the status of one operation and its receipt: the operation
\* must be open, or not there yet.
LEMMA KeptByOperation ==
    ASSUME NEW s, NEW n, NEW o \in Operations, s.op[o] \notin TerminalOperation,
           \A p \in Operations \ {o} : n.op[p] = s.op[p],
           n.att = s.att, n.dispatched = s.dispatched,
           n.receipt \in {s.receipt, s.receipt \cup {o}},
           n.sent = s.sent, n.effect = s.effect, n.partial = s.partial
    PROVE  Kept(s, n)
<1>1. o \notin Closed(s) /\ Closed(s) \subseteq Operations
  BY DEF Closed
<1> QED
  BY <1>1 DEF Kept, Adds

\* Recovery finishes running attempts, which belong to open operations, and
\* moves open operations; it crosses no boundary.
LEMMA KeptByRecovery ==
    ASSUME NEW s, SnapshotInv(s)
    PROVE  Kept(s, Recovered(s))
<1> DEFINE c == LeaseCleared(s)
           u == SweptAttempts(s)
           w == Swept(s)
           Same(x) == /\ x.dispatched = s.dispatched
                      /\ x.sent = s.sent /\ x.effect = s.effect /\ x.partial = s.partial
<1>1. /\ s \in Snapshot
      /\ \A a \in Attempts : s.att[a] = "running" => s.op[OpOf[a]] \in OpenOperation
  BY DEF SnapshotInv, ReceiptsMatchStatus
<1>2. /\ c \in Snapshot /\ c.op = s.op /\ c.att = s.att /\ c.receipt = s.receipt
      /\ Same(c)
  BY <1>1 DEF LeaseCleared, Snapshot
<1>3. /\ u = [c EXCEPT !.att = u.att] /\ u.op = s.op
      /\ \A a \in Attempts : s.att[a] # "running" => u.att[a] = s.att[a]
      /\ u.receipt = s.receipt /\ Same(u)
  BY <1>2 DEF SweptAttempts, AttemptsSwept, Snapshot
<1>4. /\ w.att = u.att
      /\ \A o \in Operations : s.op[o] \notin OpenOperation => w.op[o] = s.op[o]
      /\ w.receipt = s.receipt \cup {o \in Unfinished(u) : RecoveredOperation(s)[o] \in Confirmed}
      /\ Same(w)
  BY <1>2, <1>3 DEF Swept, OperationsClosed, Snapshot
<1>5. \A target : /\ RunTransitioned(w, target).op = w.op
                  /\ RunTransitioned(w, target).att = w.att
                  /\ RunTransitioned(w, target).receipt = w.receipt
                  /\ Same(RunTransitioned(w, target))
  BY <1>2, <1>3, <1>4 DEF Swept, OperationsClosed, RunTransitioned, Snapshot
<1>6. Unfinished(u) \cap Closed(s) = {}
  BY <1>3 DEF Unfinished, Closed, TerminalOperation, Confirmed, OpenOperation
<1> DEFINE n == Recovered(s)
<1>7. n.op = w.op /\ n.att = w.att /\ n.receipt = w.receipt /\ Same(n)
  <2> HIDE DEF w
  <2> QED BY <1>4, <1>5 DEF Recovered, w
<1>8. \A o \in Closed(s) : o \in Operations /\ s.op[o] \notin OpenOperation
  BY DEF Closed, TerminalOperation, Confirmed, OpenOperation
<1>9. \A a \in Finished(s) : a \in Attempts /\ s.att[a] # "running"
  <2> SUFFICES ASSUME NEW a \in Finished(s), s.att[a] = "running" PROVE FALSE
    BY DEF Finished
  <2>1. a \in Attempts /\ OpOf[a] \in Closed(s)
    BY DEF Finished, TerminalAttempt
  <2> QED BY <1>1, <1>8, <2>1
<1> HIDE DEF c, u, w, n
<1>10. /\ \A o \in Closed(s) : n.op[o] = s.op[o]
       /\ \A a \in Finished(s) : n.att[a] = s.att[a]
  BY <1>3, <1>4, <1>7, <1>8, <1>9
<1>11. Adds(s.receipt, n.receipt, Closed(s))
  BY <1>4, <1>6, <1>7 DEF Adds
<1> QED BY <1>7, <1>10, <1>11 DEF Kept, Adds, n

\* Every command but the clock's needs an open run, or none at all, and keeps
\* what is closed.
LEMMA ClosedStep ==
    ASSUME LedgerInv, Next
    PROVE  /\ Kept(snap, snap')
           /\ snap.run \in TerminalRun => snap' = snap
<1> USE DEF LedgerInv, Commit
<1>0. snap \in Snapshot
  BY DEF SnapshotInv
<1>a. ASSUME OpenRun(snap) \/ snap.run = "absent" PROVE snap.run \notin TerminalRun
  BY <1>a DEF OpenRun, TerminalRun, KnownTerminalRun
<1>b. ASSUME NEW status \in OpenOperation \cup {"absent"} PROVE status \notin TerminalOperation
  BY DEF OpenOperation, TerminalOperation, Confirmed
<1>c. ASSUME snap'.op = snap.op, snap'.att = snap.att, snap'.dispatched = snap.dispatched,
             snap'.receipt = snap.receipt, snap'.sent = snap.sent,
             snap'.effect = snap.effect, snap'.partial = snap.partial
      PROVE  Kept(snap, snap')
  BY <1>c, KeptUntouched
<1>d. ASSUME NEW a \in Attempts, snap.att[a] \in {"absent", "running"},
             snap.op[OpOf[a]] \in OpenOperation
      PROVE  a \notin Finished(snap)
  BY <1>b, <1>d DEF Finished, Closed, TerminalAttempt
<1>1. CASE Tick
  BY <1>1, <1>c DEF Tick
<1>2. CASE \E l \in Leases \cup {NoLease} : CreateRun(l)
  <2> PICK l \in Leases \cup {NoLease} : CreateRun(l)
    BY <1>2
  <2>1. snap' = RunCreated(snap, l) /\ snap.run = "absent"
    BY DEF CreateRun, AcceptsRunCreated
  <2> QED BY <1>0, <1>a, <1>c, <2>1 DEF RunCreated, Snapshot
<1>3. CASE \E l \in Leases, t \in Turns : BeginRun(l, t)
  <2> PICK l \in Leases, t \in Turns : BeginRun(l, t)
    BY <1>3
  <2>1. snap' = Begun(snap, l, t) /\ snap.run = "absent"
    BY DEF BeginRun, AcceptsRunCreated
  <2> QED
    BY <1>0, <1>a, <1>c, <2>1 DEF Begun, TurnCreated, RunTransitioned, RunCreated, Snapshot
<1>4. CASE \E target \in RunStatus : TransitionRun(target)
  BY <1>0, <1>4, <1>a, <1>c DEF TransitionRun, RunTransitioned, AcceptsRunTransition, Snapshot
<1>5. CASE \E l \in Leases : AcquireLease(l)
  BY <1>0, <1>5, <1>a, <1>c DEF AcquireLease, LeaseAcquired, Snapshot
<1>6. CASE \E p \in Owners : ReleaseLease(p)
  BY <1>0, <1>6, <1>a, <1>c DEF ReleaseLease, LeaseCleared, Snapshot
<1>7. CASE \E p \in Owners : RenewLease(p)
  BY <1>0, <1>7, <1>a, <1>c DEF RenewLease, Owns, Renewed, LeaseAcquired, Snapshot
<1>8. CASE \E p \in Owners, target \in TerminalRun : FinalizeRun(p, target)
  <2> PICK p \in Owners, target \in TerminalRun : FinalizeRun(p, target)
    BY <1>8
  <2>1. snap' = RunTransitioned(LeaseCleared(snap), target) /\ OpenRun(LeaseCleared(snap))
    BY DEF FinalizeRun, AcceptsFinalize, AcceptsRunTransition, Finalized
  <2>2. OpenRun(snap)
    BY <1>0, <2>1 DEF OpenRun, LeaseCleared, Snapshot
  <2> QED
    BY <1>0, <1>a, <1>c, <2>1, <2>2 DEF RunTransitioned, LeaseCleared, Snapshot
<1>9. CASE \E t \in Turns : CreateTurn(t)
  BY <1>0, <1>9, <1>a, <1>c DEF CreateTurn, TurnCreated, AcceptsTurnCreated, Snapshot
<1>10. CASE \E o \in Operations : EnsureOperation(o)
  <2> PICK o \in Operations : EnsureOperation(o)
    BY <1>10
  <2>1. snap' = OperationCreated(snap, o) /\ OpenRun(snap) /\ snap.op[o] = "absent"
    BY DEF EnsureOperation, AcceptsOperationCreated
  <2>2. snap.op[o] \notin TerminalOperation
    BY <1>b, <2>1
  <2>3. Kept(snap, snap')
    <3>1. /\ \A p \in Operations \ {o} : snap'.op[p] = snap.op[p]
          /\ snap'.att = snap.att /\ snap'.dispatched = snap.dispatched
          /\ snap'.receipt = snap.receipt /\ snap'.sent = snap.sent
          /\ snap'.effect = snap.effect /\ snap'.partial = snap.partial
      BY <1>0, <2>1 DEF OperationCreated, Snapshot
    <3> QED BY <2>2, <3>1, KeptByOperation
  <2> QED BY <1>a, <2>1, <2>3
<1>11. ASSUME NEW a \in Attempts,
              \/ StartAttempt(a) \/ DispatchOperation(a)
              \/ RecordEffectStarted(a) \/ RecordPartialOutput(a)
              \/ \E st \in TerminalAttempt : FinishAttempt(a, st)
       PROVE  Kept(snap, snap') /\ snap.run \notin TerminalRun
  <2>1. OpOf[a] \in Operations
    BY IdentityAssumption
  <2>2. OpenRun(snap) /\ snap.op[OpOf[a]] \in OpenOperation /\ snap.att[a] \in {"absent", "running"}
    BY <1>11 DEF StartAttempt, AcceptsAttemptStarted, DispatchOperation, AcceptsDispatched,
       RecordEffectStarted, AcceptsEffectStarted, RecordPartialOutput, AcceptsPartialOutput,
       FinishAttempt, AcceptsAttemptFinished, SnapshotInv, ReceiptsMatchStatus
  <2>3. /\ snap'.receipt = snap.receipt
        /\ \A b \in Attempts \ {a} : snap'.att[b] = snap.att[b]
        /\ \A p \in Operations \ {OpOf[a]} : snap'.op[p] = snap.op[p]
        /\ snap'.dispatched \in {snap.dispatched, snap.dispatched \cup {OpOf[a]}}
        /\ snap'.sent \in {snap.sent, snap.sent \cup {a}}
        /\ snap'.effect \in {snap.effect, snap.effect \cup {a}}
        /\ snap'.partial \in {snap.partial, snap.partial \cup {a}}
    <3>1. CASE StartAttempt(a)
      BY <1>0, <3>1 DEF StartAttempt, AttemptStarted, Snapshot
    <3>2. CASE DispatchOperation(a)
      BY <1>0, <2>1, <3>2 DEF DispatchOperation, Dispatched, Snapshot
    <3>3. CASE RecordEffectStarted(a)
      BY <1>0, <3>3 DEF RecordEffectStarted, EffectMarked, Snapshot
    <3>4. CASE RecordPartialOutput(a)
      BY <1>0, <3>4 DEF RecordPartialOutput, PartialMarked, Snapshot
    <3>5. CASE \E st \in TerminalAttempt : FinishAttempt(a, st)
      BY <1>0, <3>5 DEF FinishAttempt, AttemptFinished, Snapshot
    <3> QED BY <1>11, <3>1, <3>2, <3>3, <3>4, <3>5
  <2> QED BY <1>a, <1>d, <2>2, <2>3, KeptByAttempt
<1>12. CASE \E o \in Operations, st \in OperationStatus : MoveOperation(o, st)
  <2> PICK o \in Operations, st \in OperationStatus : MoveOperation(o, st)
    BY <1>12
  <2>1. OpenRun(snap) /\ snap.op[o] \in OpenOperation
    BY DEF MoveOperation, AcceptsOperationMoved, AcceptsOperationWaiting,
           AcceptsOperationCompleted, AcceptsOperationFailed, AcceptsOperationUnknown
  <2>2. /\ \A p \in Operations \ {o} : snap'.op[p] = snap.op[p]
        /\ snap'.att = snap.att /\ snap'.dispatched = snap.dispatched
        /\ snap'.receipt \in {snap.receipt, snap.receipt \cup {o}}
        /\ snap'.sent = snap.sent /\ snap'.effect = snap.effect /\ snap'.partial = snap.partial
    BY <1>0 DEF MoveOperation, OperationMoved, Snapshot
  <2>3. snap.op[o] \notin TerminalOperation /\ snap.run \notin TerminalRun
    BY <1>a, <1>b, <2>1
  <2>4. Kept(snap, snap')
    BY <2>2, <2>3, KeptByOperation
  <2> QED BY <2>3, <2>4
<1>13. CASE RecoverExpired
  BY <1>13, <1>a, KeptByRecovery DEF RecoverExpired, Expired
<1> QED
  BY <1>1, <1>2, <1>3, <1>4, <1>5, <1>6, <1>7, <1>8, <1>9, <1>10, <1>11, <1>12, <1>13
     DEF Next

\* Whatever its callers do: a closed operation keeps its status, its dispatch, its
\* receipt and its attempts, a finished attempt its status and its boundaries, no
\* boundary is taken back, and a run that ended never changes again.
THEOREM ClosedForGood == Spec => ClosedStaysClosed
<1>1. LedgerInv /\ [Next]_vars =>
        [LET closed   == Closed(snap)
             finished == Finished(snap)
         IN  /\ \A o \in closed : snap'.op[o] = snap.op[o]
             /\ \A a \in finished : snap'.att[a] = snap.att[a]
             /\ Adds(snap.dispatched, snap'.dispatched, closed)
             /\ Adds(snap.receipt, snap'.receipt, closed)
             /\ Adds(snap.sent, snap'.sent, finished)
             /\ Adds(snap.effect, snap'.effect, finished)
             /\ Adds(snap.partial, snap'.partial, finished)
             /\ snap.run \in TerminalRun => snap' = snap]_snap
  BY ClosedStep DEF Kept, vars
<1> QED
  BY <1>1, LedgerInvariant, PTL DEF Spec, ClosedStaysClosed

-----------------------------------------------------------------------------
(* The store keeps the promise of RunOutcome.                              *)

\* Events that touch neither boundary nor receipt nor end the run change
\* nothing the promise speaks about.
LEMMA Invisible ==
    ASSUME NEW s, NEW n, n.effect = s.effect, n.partial = s.partial,
           n.receipt = s.receipt, OutcomeOf(n) = OutcomeOf(s)
    PROVE  /\ OutcomeOf(n) = OutcomeOf(s)
           /\ \A o \in Operations : EffectOf(n, o) = EffectOf(s, o)
  BY DEF EffectOf, EffectStarted, PartialOutput

\* Crossing a boundary of an open operation begins its effect.
LEMMA BoundaryBegins ==
    ASSUME NEW s, NEW n, NEW a \in Attempts, SnapshotInv(s),
           s.op[OpOf[a]] \in OpenOperation,
           \/ n.effect = s.effect \cup {a} /\ n.partial = s.partial
           \/ n.partial = s.partial \cup {a} /\ n.effect = s.effect,
           n.receipt = s.receipt
    PROVE  /\ EffectOf(n, OpOf[a]) = "begun"
           /\ EffectOf(s, OpOf[a]) \in {"none", "begun"}
           /\ \A o \in Operations \ {OpOf[a]} : EffectOf(n, o) = EffectOf(s, o)
<1>1. OpOf[a] \in Operations /\ OpOf[a] \notin s.receipt
  BY IdentityAssumption DEF SnapshotInv, ReceiptsMatchStatus, OpenOperation, Confirmed
<1> QED
  BY <1>1, IdentityAssumption DEF EffectOf, EffectStarted, PartialOutput, AttemptsOf

\* When a run may end with a known outcome, no effect is still begun.
LEMMA NothingBegun ==
    ASSUME NEW s, NEW target \in KnownTerminalRun, SnapshotInv(s),
           AcceptsRunTransition(s, target), NEW o \in Operations
    PROVE  EffectOf(s, o) # "begun"
<1> SUFFICES ASSUME NEW a \in Attempts, OpOf[a] = o, a \in s.effect \cup s.partial
             PROVE  o \in s.receipt
  BY DEF EffectOf, EffectStarted, PartialOutput, AttemptsOf
<1>1. o \in s.dispatched
  BY DEF SnapshotInv, BoundariesInOrder
<1> QED
  BY <1>1 DEF AcceptsRunTransition, Unconfirmed

\* A step that only gives the run a terminal status ends the promise's run.
LEMMA Ended ==
    ASSUME snap'.effect = snap.effect, snap'.partial = snap.partial,
           snap'.receipt = snap.receipt, snap'.run \in TerminalRun,
           OutcomeOf(snap) = "open",
           snap'.run \in KnownTerminalRun =>
               \A o \in Operations : EffectOf(snap, o) # "begun"
    PROVE  Promise!End(OutcomeOf(snap'))
<1>1. \A o \in Operations : EffectOf(snap', o) = EffectOf(snap, o)
  BY DEF EffectOf, EffectStarted, PartialOutput
<1>2. /\ OutcomeOf(snap') \in {"known", "unknown"}
      /\ OutcomeOf(snap') = "known" => snap'.run \in KnownTerminalRun
  BY DEF OutcomeOf, TerminalRun
<1>3. \A o \in Operations : EffectOf(snap', o) \in {"none", "begun", "confirmed"}
  BY DEF EffectOf
<1> QED
  BY <1>1, <1>2, <1>3 DEF Promise!End

\* Every command of the store is a step or a stutter of the promise.
LEMMA PromiseStep ==
    ASSUME LedgerInv, Next
    PROVE  Promise!Next \/ UNCHANGED Promise!vars
<1> DEFINE Same == /\ OutcomeOf(snap') = OutcomeOf(snap)
                   /\ \A o \in Operations : EffectOf(snap', o) = EffectOf(snap, o)
<1>a. ASSUME Same PROVE UNCHANGED Promise!vars
  BY <1>a DEF Promise!vars
<1>b. ASSUME snap'.effect = snap.effect, snap'.partial = snap.partial,
             snap'.receipt = snap.receipt, OutcomeOf(snap') = OutcomeOf(snap)
      PROVE  UNCHANGED Promise!vars
  BY <1>a, <1>b, Invisible
<1> USE DEF LedgerInv, Commit
<1>0. snap \in Snapshot
  BY DEF SnapshotInv
<1>1. CASE Tick
  BY <1>a, <1>1 DEF Tick
<1>2. CASE \E l \in Leases \cup {NoLease} : CreateRun(l)
  BY <1>0, <1>2, <1>b DEF CreateRun, RunCreated, AcceptsRunCreated, Snapshot, OutcomeOf, KnownTerminalRun
<1>3. CASE \E l \in Leases, t \in Turns : BeginRun(l, t)
  BY <1>0, <1>3, <1>b DEF BeginRun, Begun, TurnCreated, RunTransitioned, RunCreated,
     AcceptsRunCreated, Snapshot, OutcomeOf, KnownTerminalRun
<1>4. CASE \E target \in RunStatus : TransitionRun(target)
  <2> PICK target \in RunStatus : TransitionRun(target)
    BY <1>4
  <2>1. /\ snap'.effect = snap.effect /\ snap'.partial = snap.partial
        /\ snap'.receipt = snap.receipt /\ snap'.run = target
        /\ OutcomeOf(snap) = "open"
    BY <1>0 DEF TransitionRun, RunTransitioned, Snapshot, AcceptsRunTransition, OpenRun,
       OutcomeOf, KnownTerminalRun
  <2>2. CASE target \notin TerminalRun
    BY <1>b, <2>1, <2>2 DEF OutcomeOf, TerminalRun
  <2>3. CASE target \in TerminalRun
    <3>1. \A o \in Operations : target \in KnownTerminalRun => EffectOf(snap, o) # "begun"
      BY NothingBegun DEF TransitionRun
    <3>2. Promise!End(OutcomeOf(snap'))
      BY <2>1, <2>3, <3>1, Ended
    <3> QED
      BY <2>1, <2>3, <3>2 DEF Promise!Next, OutcomeOf, TerminalRun
  <2> QED
    BY <2>2, <2>3
<1>5. CASE \E l \in Leases : AcquireLease(l)
  BY <1>0, <1>5, <1>b DEF AcquireLease, LeaseAcquired, Snapshot, OutcomeOf
<1>6. CASE \E p \in Owners : ReleaseLease(p)
  BY <1>0, <1>6, <1>b DEF ReleaseLease, LeaseCleared, Snapshot, OutcomeOf
<1>7. CASE \E p \in Owners : RenewLease(p)
  <2> PICK p \in Owners : snap' = Renewed(snap, p, now)
    BY <1>7 DEF RenewLease
  <2>1. CASE snap' = snap
    BY <1>a, <2>1
  <2>2. CASE snap' = LeaseAcquired(snap, [owner |-> p, expires |-> now + Duration])
    BY <1>0, <1>b, <2>2 DEF LeaseAcquired, Snapshot, OutcomeOf
  <2> QED
    BY <2>1, <2>2 DEF Renewed
<1>8. CASE \E p \in Owners, target \in TerminalRun : FinalizeRun(p, target)
  <2> PICK p \in Owners, target \in TerminalRun : FinalizeRun(p, target)
    BY <1>8
  <2> DEFINE c == LeaseCleared(snap)
  <2>1. /\ SnapshotInv(c) /\ c.effect = snap.effect /\ c.partial = snap.partial
        /\ c.receipt = snap.receipt /\ c.run = snap.run
    BY <1>0, LeaseAcquiredInv DEF LeaseCleared, LeaseAcquired, Snapshot
  <2>2. snap' = RunTransitioned(c, target) /\ AcceptsRunTransition(c, target)
    BY DEF FinalizeRun, Finalized, AcceptsFinalize
  <2>3. OutcomeOf(c) = OutcomeOf(snap) /\ \A o \in Operations : EffectOf(c, o) = EffectOf(snap, o)
    BY <2>1, Invisible DEF OutcomeOf
  <2> HIDE DEF c
  <2>4. /\ snap'.effect = snap.effect /\ snap'.partial = snap.partial
        /\ snap'.receipt = snap.receipt /\ snap'.run = target
    BY <2>1, <2>2 DEF RunTransitioned, SnapshotInv, Snapshot
  <2>5. OutcomeOf(snap) = "open"
    BY <2>1, <2>2 DEF AcceptsRunTransition, OpenRun, OutcomeOf, KnownTerminalRun
  <2>6. \A o \in Operations : target \in KnownTerminalRun => EffectOf(snap, o) # "begun"
    BY <2>1, <2>2, <2>3, NothingBegun
  <2>7. Promise!End(OutcomeOf(snap'))
    BY <2>4, <2>5, <2>6, Ended
  <2> QED
    BY <2>4, <2>7 DEF Promise!Next, OutcomeOf, TerminalRun
<1>9. CASE \E t \in Turns : CreateTurn(t)
  BY <1>0, <1>9, <1>b DEF CreateTurn, TurnCreated, Snapshot, OutcomeOf
<1>10. CASE \E o \in Operations : EnsureOperation(o)
  BY <1>0, <1>10, <1>b DEF EnsureOperation, OperationCreated, Snapshot, OutcomeOf
<1>11. CASE \E a \in Attempts : StartAttempt(a)
  BY <1>0, <1>11, <1>b DEF StartAttempt, AttemptStarted, Snapshot, OutcomeOf
<1>12. CASE \E a \in Attempts : DispatchOperation(a)
  BY <1>0, <1>12, <1>b DEF DispatchOperation, Dispatched, Snapshot, OutcomeOf
<1>13. ASSUME NEW a \in Attempts, RecordEffectStarted(a) \/ RecordPartialOutput(a)
       PROVE  Promise!Next \/ UNCHANGED Promise!vars
  <2>1. /\ snap.op[OpOf[a]] \in OpenOperation
        /\ \/ snap'.effect = snap.effect \cup {a} /\ snap'.partial = snap.partial
           \/ snap'.partial = snap.partial \cup {a} /\ snap'.effect = snap.effect
        /\ snap'.receipt = snap.receipt
        /\ snap'.run = snap.run
        /\ OutcomeOf(snap) = "open"
    BY <1>0, <1>13 DEF RecordEffectStarted, RecordPartialOutput, EffectMarked, PartialMarked,
       Snapshot, AcceptsEffectStarted, AcceptsPartialOutput, OpenRun, OutcomeOf, KnownTerminalRun
  <2>2. /\ EffectOf(snap', OpOf[a]) = "begun"
        /\ EffectOf(snap, OpOf[a]) \in {"none", "begun"}
        /\ \A o \in Operations \ {OpOf[a]} : EffectOf(snap', o) = EffectOf(snap, o)
    BY <2>1, BoundaryBegins
  <2>3. OutcomeOf(snap') = OutcomeOf(snap)
    BY <2>1 DEF OutcomeOf
  <2>4. CASE EffectOf(snap, OpOf[a]) = "begun"
    BY <1>a, <2>2, <2>3, <2>4
  <2>5. CASE EffectOf(snap, OpOf[a]) = "none"
    <3>1. Promise!Begin(OpOf[a])
      BY <2>1, <2>2, <2>3, <2>5, IdentityAssumption DEF Promise!Begin
    <3> QED
      BY <3>1, IdentityAssumption DEF Promise!Next
  <2> QED
    BY <2>2, <2>4, <2>5
<1>15. CASE \E a \in Attempts, st \in TerminalAttempt : FinishAttempt(a, st)
  BY <1>0, <1>15, <1>b DEF FinishAttempt, AttemptFinished, Snapshot, OutcomeOf
<1>16. CASE \E o \in Operations, st \in OperationStatus : MoveOperation(o, st)
  <2> PICK o \in Operations, st \in OperationStatus : MoveOperation(o, st)
    BY <1>16
  <2>1. /\ snap'.effect = snap.effect /\ snap'.partial = snap.partial /\ snap'.run = snap.run
        /\ snap'.receipt = IF st \in Confirmed THEN snap.receipt \cup {o} ELSE snap.receipt
        /\ OutcomeOf(snap) = "open" /\ OutcomeOf(snap') = OutcomeOf(snap)
    BY <1>0 DEF MoveOperation, OperationMoved, Snapshot, AcceptsOperationMoved,
       AcceptsOperationWaiting, AcceptsOperationCompleted, AcceptsOperationFailed,
       AcceptsOperationUnknown, OpenRun, OutcomeOf, KnownTerminalRun
  <2>2. \A p \in Operations \ {o} : EffectOf(snap', p) = EffectOf(snap, p)
    BY <2>1 DEF EffectOf, EffectStarted, PartialOutput
  <2>3. CASE EffectOf(snap', o) = EffectOf(snap, o)
    BY <1>a, <2>1, <2>2, <2>3
  <2>4. CASE EffectOf(snap', o) # EffectOf(snap, o)
    <3>1. EffectOf(snap, o) = "begun" /\ EffectOf(snap', o) = "confirmed"
      BY <2>1, <2>4 DEF EffectOf, EffectStarted, PartialOutput
    <3>2. Promise!Confirm(o)
      BY <2>1, <2>2, <3>1 DEF Promise!Confirm
    <3> QED
      BY <3>2 DEF Promise!Next
  <2> QED
    BY <2>3, <2>4
<1>17. CASE RecoverExpired
  <2>1. /\ snap'.effect = snap.effect /\ snap'.partial = snap.partial
        /\ snap.receipt \subseteq snap'.receipt
        /\ OutcomeOf(snap) = "open"
        /\ OutcomeOf(snap') = IF ResumeAllowed(snap) THEN "open" ELSE "unknown"
        /\ ResumeAllowed(snap) => snap'.receipt = snap.receipt
    <3> DEFINE c == LeaseCleared(snap)
               u == SweptAttempts(snap)
               w == Swept(snap)
    <3>1. /\ c \in Snapshot /\ c.effect = snap.effect /\ c.partial = snap.partial
          /\ c.receipt = snap.receipt /\ c.run = snap.run
      BY <1>0 DEF LeaseCleared, Snapshot
    <3>2. /\ u.effect = snap.effect /\ u.partial = snap.partial
          /\ u.receipt = snap.receipt /\ u.run = snap.run
          /\ u = [c EXCEPT !.att = u.att] /\ u.lease = c.lease
      BY <3>1 DEF SweptAttempts, AttemptsSwept, Snapshot
    <3>3. /\ w.effect = snap.effect /\ w.partial = snap.partial /\ w.run = snap.run
          /\ w.receipt = snap.receipt \cup {o \in Unfinished(u) : RecoveredOperation(snap)[o] \in Confirmed}
          /\ \A target : /\ RunTransitioned(w, target).effect = w.effect
                         /\ RunTransitioned(w, target).partial = w.partial
                         /\ RunTransitioned(w, target).receipt = w.receipt
                         /\ RunTransitioned(w, target).run = target
      BY <3>1, <3>2 DEF Swept, OperationsClosed, Snapshot, RunTransitioned
    <3>4. ResumeAllowed(snap) => w.receipt = snap.receipt
      BY <3>3 DEF RecoveredOperation, Confirmed, Unfinished
    <3>5. snap' = Recovered(snap) /\ snap.run \in {"pending", "running", "waiting"}
      BY <1>17 DEF RecoverExpired, Expired, OpenRun
    <3> HIDE DEF c, u, w
    <3>6. CASE ResumeAllowed(snap)
      <4>1. snap' = RunTransitioned(w, "waiting") \/ snap' = w
        BY <3>5, <3>6 DEF Recovered, w
      <4> QED
        BY <3>3, <3>4, <3>5, <3>6, <4>1, ZenonT(30) DEF OutcomeOf, KnownTerminalRun
    <3>7. CASE ~ ResumeAllowed(snap)
      <4>1. snap' = RunTransitioned(w, "outcome_unknown")
        BY <3>5, <3>7 DEF Recovered, w
      <4> QED
        BY <3>3, <3>5, <3>7, <4>1 DEF OutcomeOf, KnownTerminalRun
    <3> QED
      BY <3>6, <3>7
  <2>2. CASE ResumeAllowed(snap)
    BY <1>b, <2>1, <2>2
  <2>3. CASE ~ ResumeAllowed(snap)
    <3>1. \A o \in Operations : EffectOf(snap', o) # EffectOf(snap, o) =>
             EffectOf(snap, o) = "begun" /\ EffectOf(snap', o) = "confirmed"
      BY <2>1 DEF EffectOf, EffectStarted, PartialOutput
    <3>2. Promise!End("unknown")
      BY <2>1, <2>3, <3>1 DEF Promise!End, EffectOf
    <3> QED
      BY <3>2 DEF Promise!Next
  <2> QED
    BY <2>2, <2>3
<1> QED
  BY <1>1, <1>2, <1>3, <1>4, <1>5, <1>6, <1>7, <1>8, <1>9, <1>10, <1>11, <1>12,
     <1>13, <1>15, <1>16, <1>17 DEF Next

\* RunStore implements RunOutcome: whatever its callers do, effects happen at
\* most once per operation, and the run ends at most once, with a known
\* outcome only if every effect is confirmed.
THEOREM StoreKeepsPromise == Spec => KeepsPromise
<1>1. Init => Promise!Init
  BY DEF Init, EmptySnapshot, Promise!Init, OutcomeOf, EffectOf, EffectStarted, PartialOutput,
     KnownTerminalRun
<1>2. LedgerInv /\ [Next]_vars => [Promise!Next]_(Promise!vars)
  <2>1. CASE UNCHANGED vars
    BY <2>1 DEF vars, Promise!vars
  <2> QED
    BY <2>1, PromiseStep
<1> QED
  BY <1>1, <1>2, LedgerInvariant, PTL DEF Spec, KeepsPromise, Promise!Spec
=============================================================================

-------------------------- MODULE RunAuthorityProofs -------------------------
(***************************************************************************)
(* RunAuthority for any operations, attempts, owners and clock bounds.     *)
(* HostInv: the projection stays within the kernel's invariant, evidence   *)
(* precedes every external call, no call under way is written off.         *)
(* TurnInv: the ledger keeps to the order of the host's steps, so that     *)
(* recovery is never refused, an owner can always end its turn, and a run  *)
(* left for resumption is quiet.  The protocol implements RunOutcome for   *)
(* the tools that really ran.                                              *)
(***************************************************************************)
EXTENDS RunAuthority, RunKernelProofs

\* The snapshot a command's transaction starts from.
LEMMA HeldInv ==
    ASSUME HostInv, stamp # NoStamp, Owns(snap, Self, stamp)
    PROVE  /\ SnapshotInv(Held) /\ OpenRun(Held)
           /\ Held.sent = snap.sent /\ Held.effect = snap.effect /\ Held.att = snap.att
<1>1. snap \in Snapshot /\ SnapshotInv(snap) /\ stamp \in 0..MaxTime
  BY DEF HostInv, TypeOK, SnapshotInv
<1>2. snap.lease \in Leases /\ OpenRun(snap)
  BY <1>1 DEF Owns, Unexpired, Snapshot
<1>3. [owner |-> Self, expires |-> stamp + Duration] \in Leases
  BY <1>1, AuthorityAssumption, CommandAssumption
<1>4. CASE Held = snap
  BY <1>1, <1>2, <1>4
<1>5. CASE Held = LeaseAcquired(snap, [owner |-> Self, expires |-> stamp + Duration])
  <2>1. SnapshotInv(Held)
    BY <1>1, <1>3, <1>5, LeaseAcquiredInv
  <2>2. /\ Held.run = snap.run /\ Held.sent = snap.sent /\ Held.effect = snap.effect
        /\ Held.att = snap.att
    BY <1>1, <1>5 DEF LeaseAcquired, Snapshot
  <2> QED BY <2>1, <2>2, <1>2 DEF OpenRun
<1> QED BY <1>4, <1>5 DEF Held, Renewed

\* Phase started: creation, attempt, dispatch and, for a tool, the effect
\* boundary are admissible one after the other.
LEMMA AnnouncedInv ==
    ASSUME NEW s, NEW a \in Attempts, SnapshotInv(s), OpenRun(s),
           s.op[OpOf[a]] = "absent" => AcceptsOperationCreated(s, OpOf[a]),
           AcceptsAttemptStarted(Created(s, OpOf[a]), a)
    PROVE  /\ SnapshotInv(Announced(s, a))
           /\ Announced(s, a).sent = s.sent \cup {a}
           /\ Announced(s, a).effect =
                IF KindOf[OpOf[a]] = "tool" THEN s.effect \cup {a} ELSE s.effect
           /\ Announced(s, a).att[a] = "running"
           /\ \A b \in Attempts \ {a} : Announced(s, a).att[b] = s.att[b]
<1> DEFINE o == OpOf[a]
           c == Created(s, o)
           b == AttemptStarted(c, a)
           d == Dispatched(b, a)
<1>0. o \in Operations
  BY IdentityAssumption
<1>1. SnapshotInv(c) /\ c.sent = s.sent /\ c.effect = s.effect /\ c.att = s.att
  <2>1. CASE s.op[o] = "absent"
    BY <1>0, <2>1, OperationCreatedInv DEF Created, OperationCreated, SnapshotInv, Snapshot
  <2>2. CASE s.op[o] # "absent"
    BY <2>2 DEF Created
  <2> QED BY <2>1, <2>2
<1> HIDE DEF c
<1>2. SnapshotInv(b) /\ a \notin c.sent /\ a \notin c.effect
  BY <1>1, AttemptStartedInv DEF AcceptsAttemptStarted, SnapshotInv, BoundariesInOrder, c
<1>3. /\ b.sent = c.sent /\ b.effect = c.effect /\ b.att[a] = "running"
      /\ b.op = c.op /\ b.run = c.run
      /\ \A x \in Attempts \ {a} : b.att[x] = c.att[x]
  BY <1>1 DEF AttemptStarted, SnapshotInv, Snapshot
<1>4. OpenRun(b) /\ b.op[o] \in OpenOperation
  BY <1>3 DEF AcceptsAttemptStarted, OpenRun, c
<1> HIDE DEF b
<1>5. AcceptsDispatched(b, a)
  BY <1>2, <1>3, <1>4 DEF AcceptsDispatched
<1>6. /\ SnapshotInv(d) /\ d.sent = b.sent \cup {a} /\ d.effect = b.effect
      /\ d.att = b.att /\ d.run = b.run /\ d.op[o] = "running" /\ o \in d.dispatched
  <2>1. SnapshotInv(d)
    BY <1>2, <1>5, DispatchedInv
  <2>2. b \in Snapshot
    BY <1>2 DEF SnapshotInv
  <2> QED BY <1>0, <2>1, <2>2 DEF Dispatched, Snapshot
<1> HIDE DEF d
<1>7. AcceptsEffectStarted(d, a)
  BY <1>2, <1>3, <1>4, <1>6 DEF AcceptsEffectStarted, OpenRun, OpenOperation
<1>8. /\ SnapshotInv(EffectMarked(d, a)) /\ EffectMarked(d, a).sent = d.sent
      /\ EffectMarked(d, a).effect = d.effect \cup {a} /\ EffectMarked(d, a).att = d.att
  <2>1. SnapshotInv(EffectMarked(d, a))
    BY <1>6, <1>7, EffectMarkedInv
  <2>2. d \in Snapshot
    BY <1>6 DEF SnapshotInv
  <2>3. /\ EffectMarked(d, a).sent = d.sent /\ EffectMarked(d, a).att = d.att
        /\ EffectMarked(d, a).effect = d.effect \cup {a}
    BY <2>2 DEF EffectMarked, Snapshot
  <2> QED BY <2>1, <2>3
<1> QED
  BY <1>1, <1>3, <1>6, <1>8, ZenonT(30) DEF Announced, b, c, d

\* The end of a turn.
LEMMA EndedInv ==
    ASSUME NEW s, NEW status, NEW time, SnapshotInv(s), OpenRun(s),
           AcceptsEnd(s, status, time)
    PROVE  /\ SnapshotInv(Ended(s, status))
           /\ Ended(s, status).sent = s.sent /\ Ended(s, status).effect = s.effect
<1> DEFINE u == FinalSweep(s, status)
           w == FinalClosed(s, status)
<1>1. SnapshotInv(u)
  BY AttemptsSweptInv DEF FinalSweep, AcceptsEnd
<1>2. u.run = s.run /\ u.sent = s.sent /\ u.effect = s.effect
  BY DEF FinalSweep, AttemptsSwept, SnapshotInv, Snapshot
<1>3. SnapshotInv(w)
  BY <1>1, <1>2, OperationsClosedInv DEF FinalClosed, AcceptsEnd, OpenRun
<1>4. w.sent = s.sent /\ w.effect = s.effect
  BY <1>1, <1>2 DEF FinalClosed, OperationsClosed, SnapshotInv, Snapshot
<1>5. SnapshotInv(Finalized(w, status))
  BY <1>3, FinalizedInv DEF AcceptsEnd
<1>6. Finalized(w, status).sent = w.sent /\ Finalized(w, status).effect = w.effect
  BY <1>3 DEF Finalized, RunTransitioned, LeaseCleared, SnapshotInv, Snapshot
<1> QED BY <1>4, <1>5, <1>6 DEF Ended

\* A running attempt that crossed its boundaries belongs to an operation whose
\* effect is uncertain.
LEMMA RunningIsUncertain ==
    ASSUME NEW s, NEW a \in Attempts, SnapshotInv(s), s.att[a] = "running",
           a \in s.sent, KindOf[OpOf[a]] = "tool" => a \in s.effect
    PROVE  UncertainOperation(s, OpOf[a]) /\ UncertainAttempt(s, a)
<1>1. OpOf[a] \in Operations /\ KindOf[OpOf[a]] \in {"provider", "tool"}
  BY IdentityAssumption, AuthorityAssumption
<1>2. s.op[OpOf[a]] # "absent" /\ OpOf[a] \notin s.receipt
  BY <1>1 DEF SnapshotInv, ReceiptsMatchStatus, OpenOperation, Confirmed
<1>3. UncertainOperation(s, OpOf[a])
  BY <1>1, <1>2 DEF UncertainOperation, ActiveDispatch, EffectStarted, AttemptsOf
<1>4. UncertainAttempt(s, a)
  BY <1>1 DEF UncertainAttempt
<1> QED BY <1>3, <1>4

\* An end of the turn that asks for outcome_unknown finishes such an attempt as
\* outcome_unknown, and no end changes an attempt that is no longer running.
LEMMA EndKeepsOpen ==
    ASSUME NEW s, NEW status, NEW a \in Attempts, SnapshotInv(s),
           s.att[a] \in {"running", "outcome_unknown"},
           a \in s.sent, KindOf[OpOf[a]] = "tool" => a \in s.effect,
           s.att[a] = "running" => status = "outcome_unknown"
    PROVE  Ended(s, status).att[a] = "outcome_unknown"
<1> DEFINE u == FinalSweep(s, status)
           w == FinalClosed(s, status)
<1>1. u = [s EXCEPT !.att = u.att]
      /\ u.att = [b \in Attempts |-> IF s.att[b] = "running"
                                     THEN FinalAttempt(s, status)[b] ELSE s.att[b]]
  BY DEF FinalSweep, AttemptsSwept, SnapshotInv, Snapshot
<1>2. w.att = u.att /\ Ended(s, status).att = w.att
  BY <1>1 DEF FinalClosed, OperationsClosed, Ended, Finalized, RunTransitioned,
              LeaseCleared, SnapshotInv, Snapshot
<1>3. CASE s.att[a] = "outcome_unknown"
  BY <1>1, <1>2, <1>3
<1>4. CASE s.att[a] = "running"
  <2>1. FinalAttempt(s, status)[a] = "outcome_unknown"
    BY <1>4, RunningIsUncertain DEF FinalAttempt
  <2> QED BY <1>1, <1>2, <1>4, <2>1
<1> QED BY <1>3, <1>4

\* recover_expired keeps every boundary, and finishes a running attempt that
\* crossed one as outcome_unknown.
LEMMA RecoveryKeepsBoundaries ==
    ASSUME SnapshotInv(snap), Recover
    PROVE  /\ SnapshotInv(snap)'
           /\ snap'.sent = snap.sent /\ snap'.effect = snap.effect
           /\ \A a \in Attempts :
                /\ a \in snap.sent
                /\ KindOf[OpOf[a]] = "tool" => a \in snap.effect
                /\ snap.att[a] \in {"running", "outcome_unknown"}
                => snap'.att[a] = "outcome_unknown"
<1> DEFINE u == SweptAttempts(snap)
           w == Swept(snap)
<1>1. snap \in Snapshot /\ OpenRun(snap) /\ snap' = Recovered(snap)
  BY DEF Recover, Expired, SnapshotInv
<1>2. SnapshotInv(snap)'
  BY <1>1, RecoveredInv DEF Recover
<1>3. /\ u.sent = snap.sent /\ u.effect = snap.effect
      /\ u.att = [a \in Attempts |-> IF snap.att[a] = "running"
                                     THEN RecoveredAttempt(snap)[a] ELSE snap.att[a]]
      /\ w.sent = u.sent /\ w.effect = u.effect /\ w.att = u.att
      /\ \A target : /\ RunTransitioned(w, target).sent = w.sent
                     /\ RunTransitioned(w, target).effect = w.effect
                     /\ RunTransitioned(w, target).att = w.att
  BY <1>1 DEF SweptAttempts, Swept, AttemptsSwept, LeaseCleared, OperationsClosed,
              RunTransitioned, Snapshot
<1>4. snap'.sent = snap.sent /\ snap'.effect = snap.effect /\ snap'.att = u.att
  <2> HIDE DEF u, w
  <2>1. snap' = w \/ \E target : snap' = RunTransitioned(w, target)
    BY <1>1 DEF Recovered, w
  <2> QED BY <1>3, <2>1
<1>5. ASSUME NEW a \in Attempts, a \in snap.sent,
             KindOf[OpOf[a]] = "tool" => a \in snap.effect,
             snap.att[a] = "running"
      PROVE  RecoveredAttempt(snap)[a] = "outcome_unknown"
  <2>1. OpOf[a] \in Operations /\ KindOf[OpOf[a]] \in {"provider", "tool"}
    BY IdentityAssumption, AuthorityAssumption
  <2>2. snap.op[OpOf[a]] \in OpenOperation
    BY <1>5 DEF SnapshotInv, ReceiptsMatchStatus
  <2>3. snap.op[OpOf[a]] # "absent" /\ OpOf[a] \notin snap.receipt
    BY <2>1, <2>2 DEF SnapshotInv, ReceiptsMatchStatus, OpenOperation, Confirmed
  <2>4. UnsafeOperation(snap, OpOf[a])
    BY <1>5, <2>1, <2>3 DEF UnsafeOperation, ActiveDispatch, EffectStarted, AttemptsOf
  <2>5. UnsafeAttempt(snap, a)
    BY <1>5, <2>1 DEF UnsafeAttempt
  <2> QED BY <2>4, <2>5 DEF RecoveredAttempt
<1> QED BY <1>2, <1>3, <1>4, <1>5

LEMMA CancellationKeepsBoundaries ==
    ASSUME SnapshotInv(snap), CancelWaiting
    PROVE  /\ SnapshotInv(snap)'
           /\ snap'.sent = snap.sent /\ snap'.effect = snap.effect /\ snap'.att = snap.att
<1> DEFINE cancel == [o \in Operations |-> "cancelled"]
           w == OperationsClosed(snap, cancel)
<1>1. snap \in Snapshot /\ OpenRun(snap) /\ AcceptsClosing(snap, cancel)
      /\ AcceptsFinalize(w, Other, "cancelled", now) /\ snap' = Finalized(w, "cancelled")
  BY DEF CancelWaiting, Owns, SnapshotInv
<1>2. SnapshotInv(w)
  BY <1>1, OperationsClosedInv
<1>3. w.sent = snap.sent /\ w.effect = snap.effect /\ w.att = snap.att
  BY <1>1 DEF OperationsClosed, Snapshot
<1> HIDE DEF w
<1>4. SnapshotInv(Finalized(w, "cancelled"))
  BY <1>1, <1>2, FinalizedInv
<1>5. /\ Finalized(w, "cancelled").sent = w.sent
      /\ Finalized(w, "cancelled").effect = w.effect
      /\ Finalized(w, "cancelled").att = w.att
  BY <1>2 DEF Finalized, RunTransitioned, LeaseCleared, SnapshotInv, Snapshot
<1> QED BY <1>1, <1>3, <1>4, <1>5

-----------------------------------------------------------------------------
(* The host's steps.                                                       *)

\* The calls under way after a step are among those before it, and the ledger
\* does not write one off.
StillOpen ==
    /\ open' \subseteq open
    /\ \A a \in open' : snap'.att[a] \in {"running", "outcome_unknown"}

\* A step that makes no external call need only keep the kernel's invariant,
\* every boundary already recorded, and the calls under way.
LEMMA QuietStep ==
    ASSUME HostInv, SnapshotInv(snap)', Company', StillOpen,
           snap.sent \subseteq snap'.sent, snap.effect \subseteq snap'.effect,
           now' \in 0..MaxTime, pc' \in Place \ {"announced"},
           cur' \in Attempts \cup {NoAttempt},
           queue' \subseteq ToolAttempts, raised' \in BOOLEAN,
           result' \in {"none", "ok", "error", "partial", "refused"} \cup TerminalRun,
           stamp' \in (0..MaxTime) \cup {NoStamp},
           active' \in BOOLEAN, garbled' \in BOOLEAN, world' = world
    PROVE  HostInv'
<1>1. TypeOK'
  BY DEF HostInv, TypeOK, StillOpen
<1>2. EffectsAreAnnounced'
  BY DEF HostInv, EffectsAreAnnounced
<1>3. InFlightNotWrittenOff'
  BY DEF InFlightNotWrittenOff, StillOpen
<1> QED
  BY <1>1, <1>2, <1>3 DEF HostInv

\* ... and one that leaves the projection alone as well keeps them all.
LEMMA LoopStep ==
    ASSUME HostInv, snap' = snap, now' = now, world' = world, Company',
           open' \subseteq open, pc' \in Place \ {"announced"},
           cur' \in Attempts \cup {NoAttempt},
           queue' \subseteq ToolAttempts, raised' \in BOOLEAN,
           result' \in {"none", "ok", "error", "partial", "refused"} \cup TerminalRun,
           stamp' \in (0..MaxTime) \cup {NoStamp},
           active' \in BOOLEAN, garbled' \in BOOLEAN
    PROVE  HostInv'
<1>1. SnapshotInv(snap)' /\ now' \in 0..MaxTime
  BY DEF HostInv, TypeOK
<1>2. StillOpen
  BY DEF HostInv, InFlightNotWrittenOff, StillOpen
<1>3. snap.sent \subseteq snap'.sent /\ snap.effect \subseteq snap'.effect
  OBVIOUS
<1> QED
  BY <1>1, <1>2, <1>3, QuietStep

\* A step of another process: the host's variables and the clock stay, and a
\* running attempt past its boundaries can at most become outcome_unknown.
LEMMA OtherStep ==
    ASSUME HostInv, SnapshotInv(snap)', UNCHANGED <<now, host, stamp, world>>,
           snap'.sent = snap.sent, snap'.effect = snap.effect,
           \A a \in Attempts :
                /\ a \in snap.sent
                /\ KindOf[OpOf[a]] = "tool" => a \in snap.effect
                /\ snap.att[a] \in {"running", "outcome_unknown"}
                => snap'.att[a] \in {"running", "outcome_unknown"}
    PROVE  HostInv'
<1> USE DEF host, tasks
<1>1. TypeOK' /\ Company'
  BY DEF HostInv, TypeOK, Company, ToolAttempts, Busy
<1>2. EffectsAreAnnounced'
  BY DEF HostInv, EffectsAreAnnounced
<1>3. \A a \in open : a \in Attempts /\ Evident(a)
  BY DEF HostInv, TypeOK, EffectsAreAnnounced, Evident
<1>4. InFlightNotWrittenOff'
  BY <1>3 DEF HostInv, InFlightNotWrittenOff, Evident
<1>5. pc = "announced" => /\ cur \in Attempts /\ Evident(cur)
                          /\ snap.att[cur] \in {"running", "outcome_unknown"}
  BY DEF HostInv, Company, Busy
<1>6. (pc = "announced" => Evident(cur) /\ snap.att[cur] \in {"running", "outcome_unknown"})'
  BY <1>5 DEF Evident
<1> QED
  BY <1>1, <1>2, <1>4, <1>6 DEF HostInv

\* The commands that record an answer, one by one: the new snapshot satisfies
\* the kernel's invariant, no boundary is forgotten, and only the attempt the
\* host is busy with, which is not under way any more, changes its status.
LEMMA RecordKeeps ==
    ASSUME HostInv,
           \/ CreateTool \/ RecordSuccess \/ RecordProviderError \/ RecordUnknown
           \/ (\E st \in {"completed", "failed"}, A \in Fallbacks : CompleteTool(st, A))
    PROVE  /\ SnapshotInv(snap)' /\ snap'.sent = snap.sent /\ snap'.effect = snap.effect
           /\ \A a \in open : snap'.att[a] = snap.att[a]
<1>1. stamp # NoStamp /\ Owns(snap, Self, stamp)
  BY DEF CreateTool, RecordSuccess, RecordProviderError, RecordUnknown, CompleteTool, Owned
<1>2. /\ SnapshotInv(Held) /\ OpenRun(Held)
      /\ Held.sent = snap.sent /\ Held.effect = snap.effect /\ Held.att = snap.att
  BY <1>1, HeldInv
<1>3. cur \in Attempts /\ OpOf[cur] \in Operations
  BY IdentityAssumption
     DEF HostInv, Company, Busy, CreateTool, RecordSuccess, RecordProviderError,
         RecordUnknown, CompleteTool, Owned
<1>4. ASSUME NEW s, SnapshotInv(s)
      PROVE  /\ \A o : OperationCreated(s, o).sent = s.sent
             /\ \A o : OperationCreated(s, o).effect = s.effect
             /\ \A o : OperationCreated(s, o).att = s.att
             /\ \A a, st : AttemptFinished(s, a, st).sent = s.sent
             /\ \A a, st : AttemptFinished(s, a, st).effect = s.effect
             /\ \A a, st : \A x \in Attempts \ {a} : AttemptFinished(s, a, st).att[x] = s.att[x]
             /\ \A a : PartialMarked(s, a).sent = s.sent
             /\ \A a : PartialMarked(s, a).effect = s.effect
             /\ \A a : PartialMarked(s, a).att = s.att
             /\ \A o, st : OperationMoved(s, o, st).sent = s.sent
             /\ \A o, st : OperationMoved(s, o, st).effect = s.effect
             /\ \A o, st : OperationMoved(s, o, st).att = s.att
  BY <1>4 DEF SnapshotInv, Snapshot, OperationCreated, AttemptFinished, PartialMarked,
              OperationMoved
<1>5. open \subseteq Attempts
  BY DEF HostInv, TypeOK
<1>6. pc = "recording" => open \subseteq Attempts \ {cur}
  BY <1>5 DEF HostInv, Company
<1>7. CASE CreateTool
  BY <1>2, <1>3, <1>4, <1>7, OperationCreatedInv DEF CreateTool, Commit
<1>8. CASE RecordSuccess
  <2> DEFINE s == AttemptFinished(Held, cur, "succeeded")
  <2>1. pc = "recording" /\ AcceptsAttemptFinished(Held, cur, "succeeded")
    BY <1>8 DEF RecordSuccess, Owned
  <2>2. /\ SnapshotInv(s) /\ s.sent = snap.sent /\ s.effect = snap.effect
        /\ \A a \in open : s.att[a] = snap.att[a]
    BY <1>2, <1>3, <1>4, <1>6, <2>1, AttemptFinishedInv
  <2>3. \/ snap' = s
        \/ /\ AcceptsOperationMoved(s, OpOf[cur], "completed")
           /\ snap' = OperationMoved(s, OpOf[cur], "completed")
    BY <1>8 DEF RecordSuccess, Commit
  <2> HIDE DEF s
  <2> QED
    BY <1>3, <1>4, <2>2, <2>3, OperationMovedInv
<1>9. CASE RecordProviderError
  <2> DEFINE s == AttemptFinished(Held, cur, "failed")
  <2>1. pc = "recording" /\ AcceptsAttemptFinished(Held, cur, "failed")
    BY <1>9 DEF RecordProviderError, Owned
  <2>2. /\ SnapshotInv(s) /\ s.sent = snap.sent /\ s.effect = snap.effect
        /\ \A a \in open : s.att[a] = snap.att[a]
    BY <1>2, <1>3, <1>4, <1>6, <2>1, AttemptFinishedInv
  <2>3. \/ snap' = s
        \/ /\ AcceptsOperationMoved(s, OpOf[cur], "failed")
           /\ snap' = OperationMoved(s, OpOf[cur], "failed")
    BY <1>9 DEF RecordProviderError, Commit
  <2> HIDE DEF s
  <2> QED
    BY <1>3, <1>4, <2>2, <2>3, OperationMovedInv
<1>10. CASE RecordUnknown
  <2> DEFINE s == IF result = "partial" THEN PartialMarked(Held, cur) ELSE Held
             u == AttemptFinished(s, cur, "outcome_unknown")
  <2>1. /\ pc = "recording"
        /\ result = "partial" => AcceptsPartialOutput(Held, cur)
        /\ AcceptsAttemptFinished(s, cur, "outcome_unknown")
        /\ AcceptsOperationMoved(u, OpOf[cur], "outcome_unknown")
        /\ snap' = OperationMoved(u, OpOf[cur], "outcome_unknown")
    BY <1>10 DEF RecordUnknown, Commit, Owned
  <2>2. /\ SnapshotInv(s) /\ s.sent = snap.sent /\ s.effect = snap.effect
        /\ s.att = snap.att
    BY <1>2, <1>3, <1>4, <2>1, PartialMarkedInv
  <2> HIDE DEF s
  <2>3. /\ SnapshotInv(u) /\ u.sent = snap.sent /\ u.effect = snap.effect
        /\ \A a \in open : u.att[a] = snap.att[a]
    BY <1>3, <1>4, <1>6, <2>1, <2>2, AttemptFinishedInv
  <2> HIDE DEF u
  <2> QED
    BY <1>3, <1>4, <2>1, <2>3, OperationMovedInv
<1>11. CASE \E st \in {"completed", "failed"}, A \in Fallbacks : CompleteTool(st, A)
  BY <1>2, <1>3, <1>4, <1>11, OperationMovedInv DEF CompleteTool, Commit
<1> QED BY <1>7, <1>8, <1>9, <1>10, <1>11

\* The end of the turn, in order or not: a call left under way was abandoned,
\* and then the turn asks for outcome_unknown; or an exception left it, and
\* then fail_turn finds its operation uncertain.
LEMMA EndKeeps ==
    ASSUME HostInv, FinishTurn \/ FailTurn
    PROVE  /\ SnapshotInv(snap)' /\ snap'.sent = snap.sent /\ snap'.effect = snap.effect
           /\ StillOpen
<1>1. stamp # NoStamp /\ Owns(snap, Self, stamp)
  BY DEF FinishTurn, FailTurn, Owned
<1>2. /\ SnapshotInv(Held) /\ OpenRun(Held)
      /\ Held.sent = snap.sent /\ Held.effect = snap.effect /\ Held.att = snap.att
  BY <1>1, HeldInv
<1>3. open' = open
  BY DEF FinishTurn, FailTurn, tasks
<1>4. ASSUME NEW a \in open
      PROVE  /\ a \in Attempts /\ a \in Held.sent
             /\ KindOf[OpOf[a]] = "tool" => a \in Held.effect
             /\ Held.att[a] \in {"running", "outcome_unknown"}
  BY <1>2 DEF HostInv, TypeOK, EffectsAreAnnounced, InFlightNotWrittenOff
<1>5. PICK status :
        /\ AcceptsEnd(Held, status, now)
        /\ snap' = Ended(Held, status)
        /\ \A a \in open : Held.att[a] = "running" => status = "outcome_unknown"
  <2> HIDE DEF Held
  <2>1. CASE FinishTurn
    <3>1. pc = "finishing" /\ (open = {} \/ result = "outcome_unknown")
      BY <2>1 DEF FinishTurn, Owned, HostInv, Company
    <3>2. open # {} => TurnStatus(Held, result) = "outcome_unknown"
      BY <3>1 DEF TurnStatus
    <3> QED BY <2>1, <3>2 DEF FinishTurn, Commit
  <2>2. CASE FailTurn
    <3>1. \A a \in open : Held.att[a] = "running" =>
            UncertainOperation(Held, OpOf[a]) /\ OpOf[a] \in Operations
      BY <1>2, <1>4, RunningIsUncertain, IdentityAssumption
    <3>2. (\E a \in open : Held.att[a] = "running")
            => TurnStatus(Held, FailureStatus(Held)) = "outcome_unknown"
      BY <3>1 DEF TurnStatus, FailureStatus
    <3> QED BY <2>2, <3>2 DEF FailTurn, Commit
  <2> QED BY <2>1, <2>2
<1> HIDE DEF Held
<1>6. SnapshotInv(snap)' /\ snap'.sent = snap.sent /\ snap'.effect = snap.effect
  BY <1>2, <1>5, EndedInv
<1>7. \A a \in open : snap'.att[a] = "outcome_unknown"
  BY <1>2, <1>4, <1>5, EndKeepsOpen
<1> QED BY <1>3, <1>6, <1>7 DEF StillOpen

-----------------------------------------------------------------------------
(* HostInv is inductive.                                                   *)

\* The steps of the loop that touch neither the projection nor the world.
LEMMA LoopKeeps ==
    ASSUME HostInv,
           \/ (\E a \in Attempts : Request(a) \/ Retry(a) \/ BeginCall(a))
           \/ (\E A \in SUBSET ToolAttempts : Batch(A)) \/ Gathered
           \/ (\E a \in Attempts, r \in {"ok", "error", "partial"} : Answer(a, r))
           \/ (\E st \in {"completed", "failed", "outcome_unknown"} : Return(st))
           \/ Refuse \/ Abandon \/ Raise \/ ReadClock \/ CommandRaises
    PROVE  HostInv'
<1>0. /\ now \in 0..MaxTime /\ pc \in Place
      /\ cur \in Attempts \cup {NoAttempt}
      /\ queue \subseteq ToolAttempts /\ open \subseteq Attempts /\ raised \in BOOLEAN
      /\ result \in {"none", "ok", "error", "partial", "refused"} \cup TerminalRun
      /\ stamp \in (0..MaxTime) \cup {NoStamp}
      /\ active \in BOOLEAN /\ garbled \in BOOLEAN
      /\ Company
  BY DEF HostInv, TypeOK
<1> USE DEF Place, Commanding, Company, Busy, tasks, host, Done
<1>1. CASE \E a \in Attempts : Request(a) \/ Retry(a)
  <2>1. PICK a \in Attempts : Request(a) \/ Retry(a)
    BY <1>1
  <2>2. Company'
    <3>1. OpOf[a] \in Operations /\ KindOf[OpOf[a]] = "tool" => a \in ToolAttempts
      BY DEF ToolAttempts
    <3>2. CASE Request(a)
      BY <1>0, <2>1, <3>2 DEF Request
    <3>3. CASE Retry(a)
      <4>1. cur \in Attempts /\ OpOf[a] = OpOf[cur] /\ cur' = a /\ pc' = "starting"
        BY <1>0, <3>3 DEF Retry
      <4>2. a \in ToolAttempts <=> cur \in ToolAttempts
        BY <4>1 DEF ToolAttempts
      <4> QED BY <1>0, <3>3, <4>1, <4>2 DEF Retry
    <3> QED BY <2>1, <3>2, <3>3
  <2> QED BY <1>0, <2>1, <2>2, LoopStep DEF Request, Retry
<1>2. CASE \E a \in Attempts : BeginCall(a)
  BY <1>0, <1>2, LoopStep DEF BeginCall
<1>3. CASE \E A \in SUBSET ToolAttempts : Batch(A)
  BY <1>0, <1>3, LoopStep DEF Batch
<1>4. CASE Gathered
  BY <1>0, <1>4, LoopStep DEF Gathered
<1>5. CASE \E a \in Attempts, r \in {"ok", "error", "partial"} : Answer(a, r)
  <2>1. PICK a \in Attempts, r \in {"ok", "error", "partial"} : Answer(a, r)
    BY <1>5
  <2>2. Company'
    BY <1>0, <2>1 DEF Answer
  <2> QED BY <1>0, <2>1, <2>2, LoopStep DEF Answer
<1>6. CASE \E st \in {"completed", "failed", "outcome_unknown"} : Return(st)
  BY <1>0, <1>6, LoopStep DEF Return, TerminalRun, KnownTerminalRun
<1>7. CASE Refuse \/ Abandon \/ Raise
  BY <1>0, <1>7, LoopStep DEF Refuse, Abandon, Raise, TerminalRun
<1>8. CASE ReadClock
  BY <1>0, <1>8, LoopStep DEF ReadClock
<1>9. CASE CommandRaises
  <2>1. Company'
    BY <1>0, <1>9 DEF CommandRaises
  <2> QED BY <1>0, <1>9, <2>1, LoopStep DEF CommandRaises
<1> QED BY <1>1, <1>2, <1>3, <1>4, <1>5, <1>6, <1>7, <1>8, <1>9

\* The commands that record an answer leave the host free, busy with the same
\* call, or at a provider's retry.
LEMMA RecordCompany ==
    ASSUME HostInv,
           \/ CreateTool \/ RecordSuccess \/ RecordProviderError \/ RecordUnknown
           \/ (\E st \in {"completed", "failed"}, A \in Fallbacks : CompleteTool(st, A))
    PROVE  /\ Company'
           /\ UNCHANGED <<now, open, world>> /\ stamp' = NoStamp
           /\ active' \in BOOLEAN /\ garbled' \in BOOLEAN /\ raised' \in BOOLEAN
           /\ pc' \in Place \ {"announced"}
           /\ cur' \in {cur, NoAttempt} /\ result' \in {result, "none"}
           /\ queue' \subseteq ToolAttempts
<1>0. /\ pc \in Place /\ queue \subseteq ToolAttempts
      /\ raised \in BOOLEAN /\ active \in BOOLEAN /\ garbled \in BOOLEAN
      /\ Company
      /\ cur \in Attempts => OpOf[cur] \in Operations
  BY IdentityAssumption DEF HostInv, TypeOK
<1> USE DEF Place, Commanding, Company, Busy, tasks, Owned, Commit, Done
<1>1. CASE CreateTool
  BY <1>0, <1>1 DEF CreateTool
<1>2. CASE RecordSuccess
  <2>1. cur \in ToolAttempts <=> KindOf[OpOf[cur]] # "provider"
    BY <1>0, <1>2, AuthorityAssumption DEF RecordSuccess, ToolAttempts
  <2> QED BY <1>0, <1>2, <2>1 DEF RecordSuccess
<1>3. CASE RecordProviderError
  <2>1. cur \notin ToolAttempts
    BY <1>3 DEF RecordProviderError, ToolAttempts
  <2> QED BY <1>0, <1>3, <2>1 DEF RecordProviderError
<1>4. CASE RecordUnknown
  <2>1. garbled' \in BOOLEAN /\ raised' \in BOOLEAN
    BY <1>0, <1>4, Zenon DEF RecordUnknown
  <2> QED BY <1>0, <1>4, <2>1 DEF RecordUnknown
<1>5. CASE \E st \in {"completed", "failed"}, A \in Fallbacks : CompleteTool(st, A)
  BY <1>0, <1>5 DEF CompleteTool, Fallbacks
<1> QED BY <1>1, <1>2, <1>3, <1>4, <1>5

\* Phase started: the attempt is running and evident, and nothing else changes.
LEMMA StartKeeps ==
    ASSUME HostInv, StartAttempt
    PROVE  HostInv'
<1>1. /\ cur \in Attempts /\ stamp # NoStamp /\ Owns(snap, Self, stamp)
      /\ open \subseteq Attempts
  BY DEF HostInv, TypeOK, Company, Busy, StartAttempt, Owned
<1>2. /\ SnapshotInv(Held) /\ OpenRun(Held)
      /\ Held.sent = snap.sent /\ Held.effect = snap.effect /\ Held.att = snap.att
  BY <1>1, HeldInv
<1>3. /\ SnapshotInv(snap)' /\ snap'.sent = snap.sent \cup {cur}
      /\ snap'.effect = IF KindOf[OpOf[cur]] = "tool" THEN snap.effect \cup {cur}
                        ELSE snap.effect
      /\ snap'.att[cur] = "running"
      /\ \A b \in Attempts \ {cur} : snap'.att[b] = snap.att[b]
  <2>1. /\ Held.op[OpOf[cur]] = "absent" => AcceptsOperationCreated(Held, OpOf[cur])
        /\ AcceptsAttemptStarted(Created(Held, OpOf[cur]), cur)
        /\ snap' = Announced(Held, cur)
    BY DEF StartAttempt, Commit
  <2>2. /\ SnapshotInv(Announced(Held, cur))
        /\ Announced(Held, cur).sent = Held.sent \cup {cur}
        /\ Announced(Held, cur).effect =
             IF KindOf[OpOf[cur]] = "tool" THEN Held.effect \cup {cur} ELSE Held.effect
        /\ Announced(Held, cur).att[cur] = "running"
        /\ \A b \in Attempts \ {cur} : Announced(Held, cur).att[b] = Held.att[b]
    <3> HIDE DEF Held
    <3> QED BY <1>1, <1>2, <2>1, AnnouncedInv
  <2> QED
    BY <1>2, <2>1, <2>2
<1>4. /\ UNCHANGED <<now, cur, queue, open, raised, result, active, garbled, world>>
      /\ stamp' = NoStamp /\ pc = "starting" /\ pc' = "announced"
  BY DEF StartAttempt, Commit, tasks, Owned
<1>5. TypeOK' /\ Company'
  BY <1>3, <1>4 DEF HostInv, TypeOK, Place, Company, Busy, ToolAttempts
<1>6. EffectsAreAnnounced'
  BY <1>3, <1>4 DEF HostInv, EffectsAreAnnounced
<1>7. InFlightNotWrittenOff'
  BY <1>1, <1>3, <1>4 DEF HostInv, InFlightNotWrittenOff
<1>8. (Evident(cur) /\ snap.att[cur] \in {"running", "outcome_unknown"})'
  BY <1>3, <1>4 DEF Evident
<1> QED
  BY <1>5, <1>6, <1>7, <1>8 DEF HostInv

\* Whatever the host, its rivals, the clock and crashes do, in any order, the
\* projection stays within the kernel's invariant, evidence precedes every
\* external call, and no call under way is written off.
THEOREM HostInvariant == Spec => []HostInv
<1>1. Init => HostInv
  <2> SUFFICES ASSUME Init PROVE HostInv
    OBVIOUS
  <2>1. TypeOK
    <3>1. active \in BOOLEAN /\ garbled \in BOOLEAN /\ raised \in BOOLEAN
      BY Zenon DEF Init
    <3> QED
      BY <3>1, EmptyInv, AuthorityAssumption DEF Init, TypeOK, Place
  <2>2. EffectsAreAnnounced /\ InFlightNotWrittenOff /\ Company
    BY DEF Init, EffectsAreAnnounced, InFlightNotWrittenOff, Company, Busy
  <2> QED
    BY <2>1, <2>2 DEF Init, HostInv
<1>2. HostInv /\ [Next]_vars => HostInv'
  <2> SUFFICES ASSUME HostInv, [Next]_vars
               PROVE  HostInv'
    OBVIOUS
  <2>0. /\ SnapshotInv(snap) /\ snap \in Snapshot
        /\ now \in 0..MaxTime /\ pc \in Place
        /\ cur \in Attempts \cup {NoAttempt}
        /\ queue \subseteq ToolAttempts /\ open \subseteq Attempts /\ raised \in BOOLEAN
        /\ result \in {"none", "ok", "error", "partial", "refused"} \cup TerminalRun
        /\ stamp \in (0..MaxTime) \cup {NoStamp}
        /\ active \in BOOLEAN /\ garbled \in BOOLEAN
        /\ Company
    BY DEF HostInv, TypeOK, SnapshotInv
  <2>1. CASE \E t \in Turns : BeginTurn(t)
    <3>1. PICK t \in Turns : BeginTurn(t)
      BY <2>1
    <3>2. [owner |-> Self, expires |-> now + Duration] \in Leases
      BY <2>0, AuthorityAssumption, CommandAssumption
    <3>3. SnapshotInv(snap)'
      BY <2>0, <3>1, <3>2, BegunInv DEF BeginTurn
    <3>4. snap'.sent = snap.sent /\ snap'.effect = snap.effect /\ snap'.att = snap.att
      BY <2>0, <3>1 DEF BeginTurn, Begun, TurnCreated, RunTransitioned, RunCreated, Snapshot
    <3>5. StillOpen
      BY <3>1, <3>4 DEF BeginTurn, tasks, StillOpen, HostInv, InFlightNotWrittenOff
    <3>6. open = {} /\ queue = {}
      BY <2>0, <3>1 DEF BeginTurn, Company
    <3>7. Company'
      BY <2>0, <3>1, <3>6 DEF BeginTurn, tasks, Company, Busy
    <3> QED
      BY <2>0, <3>1, <3>3, <3>4, <3>5, <3>7, QuietStep DEF BeginTurn, Place, tasks
  <2>2. CASE \/ (\E a \in Attempts : Request(a) \/ Retry(a) \/ BeginCall(a))
             \/ (\E A \in SUBSET ToolAttempts : Batch(A)) \/ Gathered
             \/ (\E a \in Attempts, r \in {"ok", "error", "partial"} : Answer(a, r))
             \/ (\E st \in {"completed", "failed", "outcome_unknown"} : Return(st))
             \/ Refuse \/ Abandon \/ Raise \/ ReadClock \/ CommandRaises
    BY <2>2, LoopKeeps
  <2>3. CASE Execute
    <3>1. cur \in Attempts /\ Evident(cur) /\ snap.att[cur] \in {"running", "outcome_unknown"}
      BY <2>0, <2>3 DEF Execute, HostInv, Company, Busy
    <3>2. TypeOK'
      BY <2>0, <2>3, <3>1 DEF Execute, HostInv, TypeOK, Place, Done
    <3>3. Company'
      BY <2>0, <2>3, <3>1 DEF Execute, Company, Busy, Done
    <3>4. EffectsAreAnnounced' /\ InFlightNotWrittenOff'
      BY <2>3, <3>1 DEF Execute, HostInv, EffectsAreAnnounced, InFlightNotWrittenOff, Evident
    <3> QED
      BY <2>3, <3>2, <3>3, <3>4 DEF Execute, HostInv
  <2>4. CASE \/ CreateTool \/ RecordSuccess \/ RecordProviderError \/ RecordUnknown
             \/ (\E st \in {"completed", "failed"}, A \in Fallbacks : CompleteTool(st, A))
    <3>1. /\ SnapshotInv(snap)' /\ snap'.sent = snap.sent /\ snap'.effect = snap.effect
          /\ \A a \in open : snap'.att[a] = snap.att[a]
      BY <2>4, RecordKeeps
    <3>2. /\ Company'
          /\ UNCHANGED <<now, open, world>> /\ stamp' = NoStamp
          /\ active' \in BOOLEAN /\ garbled' \in BOOLEAN /\ raised' \in BOOLEAN
          /\ pc' \in Place \ {"announced"}
          /\ cur' \in {cur, NoAttempt} /\ result' \in {result, "none"}
          /\ queue' \subseteq ToolAttempts
      BY <2>4, RecordCompany
    <3>3. StillOpen
      BY <3>1, <3>2 DEF StillOpen, HostInv, InFlightNotWrittenOff
    <3> QED
      BY <2>0, <3>1, <3>2, <3>3, QuietStep
  <2>5. CASE StartAttempt
    BY <2>5, StartKeeps
  <2>6. CASE FinishTurn \/ FailTurn
    <3>1. /\ SnapshotInv(snap)' /\ snap'.sent = snap.sent /\ snap'.effect = snap.effect
          /\ StillOpen
      BY <2>6, EndKeeps
    <3>2. /\ UNCHANGED <<now, world, queue, raised, garbled>> /\ stamp' = NoStamp
          /\ active' = FALSE /\ pc' = "over" /\ cur' = NoAttempt /\ result' = "none"
      BY <2>6 DEF FinishTurn, FailTurn, Commit, tasks, Done
    <3> QED
      BY <2>0, <3>1, <3>2, QuietStep DEF Place, Company, Busy
  <2>7. CASE Tick
    BY <2>0, <2>7, AuthorityAssumption
       DEF Tick, host, tasks, HostInv, TypeOK, EffectsAreAnnounced, InFlightNotWrittenOff,
           Company, Busy, Evident
  <2>8. CASE Crash
    BY <2>0, <2>8, LoopStep DEF Crash, Place, Company, Busy, Done
  <2>9. CASE Recover
    BY <2>0, <2>9, RecoveryKeepsBoundaries, OtherStep DEF Recover
  <2>10. CASE TakeOver
    <3>1. [owner |-> Other, expires |-> now + Duration] \in Leases
      BY <2>0, AuthorityAssumption, CommandAssumption
    <3>2. SnapshotInv(snap)'
      BY <2>0, <2>10, <3>1, LeaseAcquiredInv DEF TakeOver
    <3>3. snap'.sent = snap.sent /\ snap'.effect = snap.effect /\ snap'.att = snap.att
      BY <2>0, <2>10 DEF TakeOver, LeaseAcquired, Snapshot
    <3> QED
      BY <2>10, <3>2, <3>3, OtherStep DEF TakeOver
  <2>11. CASE CancelWaiting
    BY <2>0, <2>11, CancellationKeepsBoundaries, OtherStep DEF CancelWaiting
  <2>12. CASE UNCHANGED vars
    BY <2>12 DEF vars, HostInv, TypeOK, EffectsAreAnnounced, InFlightNotWrittenOff,
                 Company, Busy, Evident
  <2> QED
    BY <2>1, <2>2, <2>3, <2>4, <2>5, <2>6, <2>7, <2>8, <2>9, <2>10, <2>11, <2>12
       DEF Next
<1> QED
  BY <1>1, <1>2, PTL DEF Spec

\* The host's state and the projection are always well formed.
THEOREM AuthorityTypes == Spec => []TypeOK
<1>1. HostInv => TypeOK
  BY DEF HostInv
<1> QED BY <1>1, HostInvariant, PTL

\* No external call without durable evidence of it, crash or no crash.
THEOREM EvidenceBeforeEffects == Spec => []EffectsAreAnnounced
<1>1. HostInv => EffectsAreAnnounced
  BY DEF HostInv
<1> QED BY <1>1, HostInvariant, PTL

\* A call that may still be under way is running or unknown in the ledger.
THEOREM CallsAreNotWrittenOff == Spec => []InFlightNotWrittenOff
<1>1. HostInv => InFlightNotWrittenOff
  BY DEF HostInv
<1> QED BY <1>1, HostInvariant, PTL

-----------------------------------------------------------------------------
(* What each transaction of the turn leaves in the projection.             *)

\* A command starts from the projection with the host's lease.
LEMMA HeldFrame ==
    ASSUME HostInv, stamp # NoStamp, Owns(snap, Self, stamp)
    PROVE  /\ Held \in Snapshot
           /\ Held.run = snap.run /\ Held.op = snap.op /\ Held.att = snap.att
           /\ Held.receipt = snap.receipt /\ Held.partial = snap.partial
           /\ HeldBy(snap, Self) /\ OpenRun(snap)
<1>1. SnapshotInv(Held) /\ snap \in Snapshot
  BY HeldInv DEF HostInv, TypeOK, SnapshotInv
<1> QED
  BY <1>1 DEF SnapshotInv, Snapshot, Held, Renewed, LeaseAcquired, Owns

\* From s to n nothing changed but attempt a, its operation and their flags.
OnlyTouches(s, n, a) ==
    /\ n.run = s.run
    /\ \A o \in Operations \ {OpOf[a]} : n.op[o] = s.op[o]
    /\ \A b \in Attempts \ {a} : n.att[b] = s.att[b]
    /\ n.receipt = s.receipt \/ n.receipt = s.receipt \cup {OpOf[a]}
    /\ \/ n.partial = s.partial
       \/ KindOf[OpOf[a]] = "provider" /\ n.partial = s.partial \cup {a}

\* Phase started writes one attempt and its operation.
LEMMA AnnouncedFrame ==
    ASSUME NEW s, NEW a \in Attempts, s \in Snapshot
    PROVE  /\ OnlyTouches(s, Announced(s, a), a)
           /\ Announced(s, a).op[OpOf[a]] = "running"
           /\ Announced(s, a).att[a] = "running"
<1> DEFINE c == Created(s, OpOf[a])
           d == Dispatched(AttemptStarted(c, a), a)
<1>1. /\ c \in Snapshot /\ c.run = s.run /\ c.att = s.att /\ c.receipt = s.receipt
      /\ c.partial = s.partial
      /\ \A o \in Operations \ {OpOf[a]} : c.op[o] = s.op[o]
  BY IdentityAssumption DEF Created, OperationCreated, Snapshot, OperationStatus, OpenOperation
<1> HIDE DEF c
<1>2. /\ d = [c EXCEPT !.att = d.att, !.op = d.op, !.sent = d.sent, !.dispatched = d.dispatched]
      /\ d.att = [c.att EXCEPT ![a] = "running"]
      /\ d.op = [c.op EXCEPT ![OpOf[a]] = "running"]
  BY <1>1 DEF AttemptStarted, Dispatched, Snapshot
<1> HIDE DEF d
<1>3. d.run = c.run /\ d.receipt = c.receipt /\ d.partial = c.partial
  BY <1>1, <1>2 DEF Snapshot
<1>6. /\ \A o \in Operations \ {OpOf[a]} : d.op[o] = c.op[o]
      /\ \A b \in Attempts \ {a} : d.att[b] = c.att[b]
      /\ d.op[OpOf[a]] = "running" /\ d.att[a] = "running"
  <2>1. OpOf[a] \in Operations /\ DOMAIN c.op = Operations /\ DOMAIN c.att = Attempts
    BY <1>1, IdentityAssumption DEF Snapshot
  <2> QED BY <1>2, <2>1
<1>5. LET e == EffectMarked(d, a)
      IN  /\ e.run = d.run /\ e.receipt = d.receipt /\ e.partial = d.partial
          /\ e.op = d.op /\ e.att = d.att
  BY <1>1, <1>2 DEF EffectMarked, Snapshot
<1>4. Announced(s, a) = d \/ Announced(s, a) = EffectMarked(d, a)
  BY DEF Announced, c, d
<1> QED
  BY <1>1, <1>3, <1>4, <1>5, <1>6 DEF OnlyTouches

\* A command that reports a call writes its attempt and its operation, which is
\* open or not there yet, while the host owns the open run.
Reports ==
    /\ cur \in Attempts /\ OpOf[cur] \in Operations
    /\ OnlyTouches(snap, snap', cur)
    /\ snap.op[OpOf[cur]] \in OpenOperation \cup {"absent"}
    /\ HeldBy(snap, Self) /\ OpenRun(snap)

\* What a command leaves, seen from the snapshot its transaction starts from.
LEMMA ReportsHeld ==
    ASSUME HostInv, NEW place \in Busy, Owned(place),
           OnlyTouches(Held, snap', cur),
           Held.op[OpOf[cur]] \in OpenOperation \cup {"absent"}
    PROVE  Reports
<1>1. cur \in Attempts /\ OpOf[cur] \in Operations
  BY IdentityAssumption DEF HostInv, Company, Owned
<1>2. /\ Held.run = snap.run /\ Held.op = snap.op /\ Held.att = snap.att
      /\ Held.receipt = snap.receipt /\ Held.partial = snap.partial
      /\ HeldBy(snap, Self) /\ OpenRun(snap)
  BY HeldFrame DEF Owned
<1> QED BY <1>1, <1>2 DEF Reports, OnlyTouches

LEMMA CreateToolFrame ==
    ASSUME HostInv, CreateTool
    PROVE  /\ Reports
           /\ snap'.op[OpOf[cur]] = "pending" /\ snap'.att[cur] = "absent"
<1>1. /\ pc = "creating" /\ Owned("creating") /\ cur \in Attempts /\ OpOf[cur] \in Operations
      /\ Held.op[OpOf[cur]] = "absent" /\ snap' = OperationCreated(Held, OpOf[cur])
  BY IdentityAssumption
     DEF CreateTool, Commit, Owned, HostInv, Company, Busy, AcceptsOperationCreated
<1>2. Held \in Snapshot /\ SnapshotInv(Held)
  BY <1>1, HeldInv DEF Owned, SnapshotInv
<1>3. Held.att[cur] = "absent"
  BY <1>1, <1>2 DEF SnapshotInv, BoundariesInOrder
<1> HIDE DEF Held
<1>4. /\ OnlyTouches(Held, snap', cur)
      /\ snap'.op[OpOf[cur]] = "pending" /\ snap'.att[cur] = "absent"
  BY <1>1, <1>2, <1>3 DEF OperationCreated, Snapshot, OnlyTouches
<1> QED BY <1>1, <1>4, ReportsHeld DEF Busy

LEMMA StartAttemptFrame ==
    ASSUME HostInv, StartAttempt
    PROVE  /\ Reports
           /\ snap'.op[OpOf[cur]] = "running" /\ snap'.att[cur] = "running"
<1>1. /\ Owned("starting") /\ cur \in Attempts
      /\ AcceptsAttemptStarted(Created(Held, OpOf[cur]), cur)
      /\ snap' = Announced(Held, cur)
  BY DEF StartAttempt, Commit, Owned, HostInv, Company, Busy
<1>2. Held \in Snapshot
  BY <1>1, HeldInv DEF Owned, SnapshotInv
<1> HIDE DEF Held
<1>3. Held.op[OpOf[cur]] \in OpenOperation \cup {"absent"}
  BY <1>1 DEF AcceptsAttemptStarted, Created
<1>4. /\ OnlyTouches(Held, snap', cur)
      /\ snap'.op[OpOf[cur]] = "running" /\ snap'.att[cur] = "running"
  BY <1>1, <1>2, AnnouncedFrame
<1> QED BY <1>1, <1>3, <1>4, ReportsHeld DEF Busy

\* A running attempt that is finished, and perhaps its operation with it.
LEMMA FinishedFrame ==
    ASSUME NEW s, NEW a \in Attempts, NEW st, SnapshotInv(s), s.att[a] = "running"
    PROVE  LET f == AttemptFinished(s, a, st)
           IN  /\ OnlyTouches(s, f, a) /\ s.op[OpOf[a]] \in OpenOperation
               /\ f.att[a] = st /\ f.op[OpOf[a]] = s.op[OpOf[a]]
               /\ \A os : LET m == OperationMoved(f, OpOf[a], os)
                          IN  /\ OnlyTouches(s, m, a)
                              /\ m.att[a] = st /\ m.op[OpOf[a]] = os
<1> DEFINE f == AttemptFinished(s, a, st)
<1>1. s \in Snapshot /\ OpOf[a] \in Operations /\ s.op[OpOf[a]] \in OpenOperation
  BY IdentityAssumption DEF SnapshotInv, ReceiptsMatchStatus
<1>2. /\ f.run = s.run /\ f.op = s.op /\ f.receipt = s.receipt /\ f.partial = s.partial
      /\ f.att[a] = st /\ \A b \in Attempts \ {a} : f.att[b] = s.att[b]
      /\ f = [s EXCEPT !.att = f.att]
  BY <1>1 DEF AttemptFinished, Snapshot
<1> HIDE DEF f
<1>3. OnlyTouches(s, f, a) /\ f.att[a] = st /\ f.op[OpOf[a]] = s.op[OpOf[a]]
  BY <1>1, <1>2 DEF OnlyTouches
<1>4. ASSUME NEW os
      PROVE  LET m == OperationMoved(f, OpOf[a], os)
             IN  OnlyTouches(s, m, a) /\ m.att[a] = st /\ m.op[OpOf[a]] = os
  <2> DEFINE m == OperationMoved(f, OpOf[a], os)
  <2>1. /\ m.run = f.run /\ m.att = f.att /\ m.partial = f.partial
        /\ m.receipt = f.receipt \/ m.receipt = f.receipt \cup {OpOf[a]}
        /\ m.op = [s.op EXCEPT ![OpOf[a]] = os]
    BY <1>1, <1>2 DEF OperationMoved, Snapshot
  <2> HIDE DEF m
  <2>2. m.op[OpOf[a]] = os /\ \A o \in Operations \ {OpOf[a]} : m.op[o] = s.op[o]
    BY <1>1, <2>1 DEF Snapshot
  <2>3. OnlyTouches(s, m, a) /\ m.att[a] = st
    BY <1>2, <2>1, <2>2 DEF OnlyTouches
  <2> QED BY <2>2, <2>3 DEF m
<1> QED BY <1>1, <1>3, <1>4 DEF f

LEMMA RecordSuccessFrame ==
    ASSUME HostInv, RecordSuccess
    PROVE  /\ Reports
           /\ snap'.op[OpOf[cur]] \in OpenOperation \cup {"completed"}
           /\ snap'.att[cur] = "succeeded"
<1>1. /\ Owned("recording") /\ cur \in Attempts /\ Held.att[cur] = "running"
      /\ LET f == AttemptFinished(Held, cur, "succeeded")
         IN  snap' = f \/ snap' = OperationMoved(f, OpOf[cur], "completed")
  BY DEF RecordSuccess, Commit, Owned, HostInv, Company, Busy, AcceptsAttemptFinished
<1>2. SnapshotInv(Held)
  BY <1>1, HeldInv DEF Owned
<1> HIDE DEF Held
<1>3. /\ OnlyTouches(Held, snap', cur) /\ Held.op[OpOf[cur]] \in OpenOperation
      /\ snap'.att[cur] = "succeeded"
      /\ snap'.op[OpOf[cur]] \in OpenOperation \cup {"completed"}
  BY <1>1, <1>2, FinishedFrame
<1> QED BY <1>1, <1>3, ReportsHeld DEF Busy

LEMMA RecordProviderErrorFrame ==
    ASSUME HostInv, RecordProviderError
    PROVE  /\ Reports
           /\ snap'.op[OpOf[cur]] \in OpenOperation \cup {"failed"}
           /\ snap'.att[cur] = "failed"
<1>1. /\ Owned("recording") /\ cur \in Attempts /\ Held.att[cur] = "running"
      /\ LET f == AttemptFinished(Held, cur, "failed")
         IN  snap' = f \/ snap' = OperationMoved(f, OpOf[cur], "failed")
  BY DEF RecordProviderError, Commit, Owned, HostInv, Company, Busy, AcceptsAttemptFinished
<1>2. SnapshotInv(Held)
  BY <1>1, HeldInv DEF Owned
<1> HIDE DEF Held
<1>3. /\ OnlyTouches(Held, snap', cur) /\ Held.op[OpOf[cur]] \in OpenOperation
      /\ snap'.att[cur] = "failed"
      /\ snap'.op[OpOf[cur]] \in OpenOperation \cup {"failed"}
  BY <1>1, <1>2, FinishedFrame
<1> QED BY <1>1, <1>3, ReportsHeld DEF Busy

LEMMA RecordUnknownFrame ==
    ASSUME HostInv, RecordUnknown
    PROVE  /\ Reports
           /\ snap'.op[OpOf[cur]] = "outcome_unknown"
           /\ snap'.att[cur] = "outcome_unknown"
<1> DEFINE s == IF result = "partial" THEN PartialMarked(Held, cur) ELSE Held
<1>1. /\ Owned("recording") /\ cur \in Attempts
      /\ result = "partial" => AcceptsPartialOutput(Held, cur)
      /\ s.att[cur] = "running"
      /\ snap' = OperationMoved(AttemptFinished(s, cur, "outcome_unknown"),
                                OpOf[cur], "outcome_unknown")
  BY DEF RecordUnknown, Commit, Owned, HostInv, Company, Busy, AcceptsAttemptFinished
<1>2. SnapshotInv(Held) /\ Held \in Snapshot
  BY <1>1, HeldInv DEF Owned, SnapshotInv
<1> HIDE DEF Held
<1>3. /\ SnapshotInv(s) /\ s.run = Held.run /\ s.op = Held.op /\ s.att = Held.att
      /\ s.receipt = Held.receipt
      /\ \/ s.partial = Held.partial
         \/ KindOf[OpOf[cur]] = "provider" /\ s.partial = Held.partial \cup {cur}
  BY <1>1, <1>2, PartialMarkedInv DEF PartialMarked, Snapshot, AcceptsPartialOutput
<1> HIDE DEF s
<1>4. /\ OnlyTouches(s, snap', cur) /\ s.op[OpOf[cur]] \in OpenOperation
      /\ snap'.att[cur] = "outcome_unknown" /\ snap'.op[OpOf[cur]] = "outcome_unknown"
  BY <1>1, <1>3, FinishedFrame
<1>5. OnlyTouches(Held, snap', cur)
  BY <1>3, <1>4 DEF OnlyTouches
<1> QED BY <1>1, <1>3, <1>4, <1>5, ReportsHeld DEF Busy

LEMMA CompleteToolFrame ==
    ASSUME HostInv, NEW st \in {"completed", "failed"}, NEW A \in Fallbacks, CompleteTool(st, A)
    PROVE  /\ Reports
           /\ snap'.op[OpOf[cur]] = st /\ snap'.att[cur] = snap.att[cur]
<1>1. /\ Owned("completing") /\ cur \in Attempts /\ OpOf[cur] \in Operations
      /\ AcceptsOperationMoved(Held, OpOf[cur], st)
      /\ snap' = OperationMoved(Held, OpOf[cur], st)
  BY IdentityAssumption DEF CompleteTool, Commit, Owned, HostInv, Company, Busy
<1>2. Held \in Snapshot /\ Held.att = snap.att
  BY <1>1, HeldFrame DEF Owned
<1> HIDE DEF Held
<1>3. Held.op[OpOf[cur]] \in OpenOperation
  BY <1>1 DEF AcceptsOperationMoved, AcceptsOperationWaiting, AcceptsOperationCompleted,
              AcceptsOperationFailed, AcceptsOperationUnknown
<1>4. /\ OnlyTouches(Held, snap', cur)
      /\ snap'.op[OpOf[cur]] = st /\ snap'.att = Held.att
  BY <1>1, <1>2 DEF OperationMoved, Snapshot, OnlyTouches
<1> QED BY <1>1, <1>2, <1>3, <1>4, ReportsHeld DEF Busy

\* The end of a turn finishes what runs, closes what is open and ends the run.
LEMMA EndFrame ==
    ASSUME NEW s, NEW status, s \in Snapshot
    PROVE  LET e == Ended(s, status)
           IN  /\ e.run = status /\ e.lease = NoLease /\ e.partial = s.partial
               /\ s.receipt \subseteq e.receipt
               /\ \A a \in Attempts :
                    e.att[a] = IF s.att[a] = "running" THEN FinalAttempt(s, status)[a] ELSE s.att[a]
               /\ \A o \in Operations :
                    e.op[o] = IF s.op[o] \in OpenOperation THEN FinalOperation(s, status)[o]
                              ELSE s.op[o]
<1> DEFINE u == FinalSweep(s, status)
           w == FinalClosed(s, status)
           e == Ended(s, status)
<1>1. /\ u.run = s.run /\ u.op = s.op /\ u.partial = s.partial /\ u.receipt = s.receipt
      /\ u.att = [a \in Attempts |-> IF s.att[a] = "running"
                                     THEN FinalAttempt(s, status)[a] ELSE s.att[a]]
      /\ u = [s EXCEPT !.att = u.att]
  BY DEF FinalSweep, AttemptsSwept, Snapshot
<1>2. /\ w.partial = s.partial /\ w.att = u.att /\ s.receipt \subseteq w.receipt
      /\ w.op = [o \in Operations |-> IF s.op[o] \in OpenOperation
                                      THEN FinalOperation(s, status)[o] ELSE s.op[o]]
      /\ w = [s EXCEPT !.att = w.att, !.op = w.op, !.receipt = w.receipt]
  BY <1>1 DEF FinalClosed, OperationsClosed, Snapshot
<1> HIDE DEF u, w
<1>3. /\ e.run = status /\ e.lease = NoLease /\ e.partial = w.partial
      /\ e.receipt = w.receipt /\ e.att = w.att /\ e.op = w.op
  BY <1>2 DEF Ended, w, Finalized, RunTransitioned, LeaseCleared, Snapshot
<1> QED BY <1>1, <1>2, <1>3

\* So does recovery, unless the run may be resumed.
LEMMA RecoveryFrame ==
    ASSUME NEW s, s \in Snapshot
    PROVE  LET r == Recovered(s)
           IN  /\ r.run = IF ~ ResumeAllowed(s) THEN "outcome_unknown"
                          ELSE IF s.run = "running" THEN "waiting" ELSE s.run
               /\ r.lease = NoLease /\ r.partial = s.partial
               /\ s.receipt \subseteq r.receipt
               /\ ResumeAllowed(s) => r.receipt = s.receipt
               /\ \A a \in Attempts :
                    r.att[a] = IF s.att[a] = "running" THEN RecoveredAttempt(s)[a] ELSE s.att[a]
               /\ \A o \in Operations :
                    r.op[o] = IF s.op[o] \in OpenOperation THEN RecoveredOperation(s)[o]
                              ELSE s.op[o]
<1> DEFINE c == LeaseCleared(s)
           u == SweptAttempts(s)
           w == Swept(s)
           r == Recovered(s)
<1>1. c \in Snapshot /\ c = [s EXCEPT !.lease = NoLease]
  BY DEF LeaseCleared, Snapshot
<1>2. /\ u.op = s.op /\ u.receipt = s.receipt
      /\ u.att = [a \in Attempts |-> IF s.att[a] = "running"
                                     THEN RecoveredAttempt(s)[a] ELSE s.att[a]]
      /\ u = [s EXCEPT !.lease = NoLease, !.att = u.att]
  BY <1>1 DEF SweptAttempts, AttemptsSwept, Snapshot
<1>3. /\ w.att = u.att
      /\ w.receipt = s.receipt \cup {o \in Unfinished(u) : RecoveredOperation(s)[o] \in Confirmed}
      /\ w.op = [o \in Operations |-> IF s.op[o] \in OpenOperation
                                      THEN RecoveredOperation(s)[o] ELSE s.op[o]]
      /\ w = [s EXCEPT !.lease = NoLease, !.att = w.att, !.op = w.op, !.receipt = w.receipt]
  BY <1>1, <1>2 DEF Swept, OperationsClosed, Snapshot
<1> HIDE DEF u, w
<1>4. \A a \in Attempts :
        w.att[a] = IF s.att[a] = "running" THEN RecoveredAttempt(s)[a] ELSE s.att[a]
  <2>1. w.att = [a \in Attempts |-> IF s.att[a] = "running"
                                   THEN RecoveredAttempt(s)[a] ELSE s.att[a]]
    BY <1>2, <1>3, Zenon
  <2> QED BY <2>1
<1>5. ResumeAllowed(s) => w.receipt = s.receipt
  BY <1>3 DEF RecoveredOperation, Confirmed, Unfinished
<1>6. /\ w.run = s.run /\ w.lease = NoLease /\ w.partial = s.partial
      /\ s.receipt \subseteq w.receipt
      /\ \A target : LET n == RunTransitioned(w, target)
                     IN  /\ n.run = target /\ n.lease = w.lease /\ n.partial = w.partial
                         /\ n.receipt = w.receipt /\ n.att = w.att /\ n.op = w.op
  BY <1>3 DEF RunTransitioned, Snapshot
<1>7. /\ r.lease = w.lease /\ r.partial = w.partial /\ r.receipt = w.receipt
      /\ r.att = w.att /\ r.op = w.op
      /\ r.run = IF ~ ResumeAllowed(s) THEN "outcome_unknown"
                 ELSE IF s.run = "running" THEN "waiting" ELSE s.run
  BY <1>6 DEF Recovered, w
<1> HIDE DEF r
<1>8. \A a \in Attempts :
        r.att[a] = IF s.att[a] = "running" THEN RecoveredAttempt(s)[a] ELSE s.att[a]
  BY <1>7, <1>4
<1>9. \A o \in Operations :
        r.op[o] = IF s.op[o] \in OpenOperation THEN RecoveredOperation(s)[o] ELSE s.op[o]
  <2>1. r.op = [o \in Operations |-> IF s.op[o] \in OpenOperation
                                     THEN RecoveredOperation(s)[o] ELSE s.op[o]]
    BY <1>3, <1>7, Zenon
  <2> QED BY <2>1
<1>10. /\ ResumeAllowed(s) => r.receipt = s.receipt
       /\ s.receipt \subseteq r.receipt /\ r.lease = NoLease /\ r.partial = s.partial
  BY <1>5, <1>6, <1>7
<1> QED BY <1>7, <1>8, <1>9, <1>10 DEF r

\* Another owner's cancellation closes the operations and ends the run.
LEMMA CancellationFrame ==
    ASSUME SnapshotInv(snap), CancelWaiting
    PROVE  /\ OpenRun(snap) /\ snap'.run = "cancelled" /\ snap'.lease = NoLease
           /\ snap'.partial = snap.partial /\ snap'.att = snap.att
           /\ snap.receipt \subseteq snap'.receipt
           /\ \A o \in Operations :
                snap'.op[o] = IF snap.op[o] \in OpenOperation THEN "cancelled" ELSE snap.op[o]
<1> DEFINE w == OperationsClosed(snap, [o \in Operations |-> "cancelled"])
<1>1. snap \in Snapshot /\ OpenRun(snap) /\ snap' = Finalized(w, "cancelled")
  BY DEF CancelWaiting, Owns, SnapshotInv
<1>2. /\ w.att = snap.att /\ snap.receipt \subseteq w.receipt
      /\ w.op = [o \in Operations |-> IF snap.op[o] \in OpenOperation THEN "cancelled"
                                      ELSE snap.op[o]]
      /\ w = [snap EXCEPT !.op = w.op, !.receipt = w.receipt]
  BY <1>1 DEF OperationsClosed, Snapshot
<1> HIDE DEF w
<1>3. /\ snap'.run = "cancelled" /\ snap'.lease = NoLease /\ snap'.partial = snap.partial
      /\ snap'.att = snap.att /\ snap'.op = w.op /\ snap'.receipt = w.receipt
  BY <1>1, <1>2 DEF Finalized, RunTransitioned, LeaseCleared, Snapshot
<1> QED BY <1>1, <1>2, <1>3

-----------------------------------------------------------------------------
(* What the authority's protocol adds to the kernel's rules.               *)

\* The loop's own steps, a reading of the clock and an exception leave the
\* projection alone; a mishap ends the order of the turn.
LEMMA TurnByLoop ==
    ASSUME HostInv, TurnInv,
           \/ (\E a \in Attempts : Request(a) \/ Retry(a) \/ BeginCall(a))
           \/ (\E A \in SUBSET ToolAttempts : Batch(A)) \/ Gathered
           \/ (\E a \in Attempts, r \in {"ok", "error", "partial"} : Answer(a, r))
           \/ (\E st \in {"completed", "failed", "outcome_unknown"} : Return(st))
           \/ Execute \/ Refuse \/ Abandon \/ Raise \/ ReadClock \/ CommandRaises
           \/ Tick \/ Crash
    PROVE  TurnInv'
<1>0. /\ raised \in BOOLEAN /\ Company /\ queue \subseteq ToolAttempts
      /\ Orderly(snap) /\ Undisturbed /\ RaisedInGather
      /\ pc = "finishing" => result \in {"completed", "failed", "outcome_unknown"}
      /\ pc \in Place
  BY DEF HostInv, TypeOK, TurnInv
<1> USE DEF Company, Busy, Done, Undisturbed, GoingWell, RaisedInGather, TurnInv
<1>1. CASE \E a \in Attempts : Request(a) \/ Retry(a)
  <2>1. PICK a \in Attempts : Request(a) \/ Retry(a)
    BY <1>1
  <2>2. CASE Request(a)
    BY <1>0, <2>2 DEF Request, tasks
  <2>3. CASE Retry(a)
    <3>1. cur \in ToolAttempts => a \in ToolAttempts
      BY <1>0, <2>3 DEF Retry, ToolAttempts
    <3> QED BY <1>0, <2>3, <3>1 DEF Retry, tasks
  <2> QED BY <2>1, <2>2, <2>3
<1>2. CASE \E a \in Attempts : BeginCall(a)
  BY <1>0, <1>2 DEF BeginCall
<1>3. CASE \E A \in SUBSET ToolAttempts : Batch(A)
  BY <1>0, <1>3 DEF Batch
<1>4. CASE Gathered
  BY <1>0, <1>4 DEF Gathered
<1>5. CASE \E a \in Attempts, r \in {"ok", "error", "partial"} : Answer(a, r)
  BY <1>0, <1>5 DEF Answer
<1>6. CASE \E st \in {"completed", "failed", "outcome_unknown"} : Return(st)
  BY <1>0, <1>6 DEF Return, tasks
<1>7. CASE Execute
  BY <1>0, <1>7 DEF Execute
<1>8. CASE Refuse
  BY <1>0, <1>8 DEF Refuse, tasks
<1>9. CASE Abandon
  BY <1>0, <1>9 DEF Abandon, tasks
<1>10. CASE Raise \/ Crash
  BY <1>0, <1>10 DEF Raise, Crash
<1>11. CASE ReadClock \/ Tick
  BY <1>0, <1>11 DEF ReadClock, Tick, host, tasks
<1>12. CASE CommandRaises
  BY <1>0, <1>12 DEF CommandRaises, Commanding
<1> QED
  BY <1>1, <1>2, <1>3, <1>4, <1>5, <1>6, <1>7, <1>8, <1>9, <1>10, <1>11, <1>12

\* A command that reports a call keeps the projection orderly if it leaves an
\* unknown attempt only with an unknown operation.
LEMMA OrderlyByReport ==
    ASSUME HostInv, Orderly(snap), Reports,
           snap'.att[cur] = "outcome_unknown" => snap'.op[OpOf[cur]] = "outcome_unknown"
    PROVE  Orderly(snap')
<1>1. snap'.run = "running"
  BY DEF Reports, OnlyTouches, Orderly
<1>2. \A a \in snap'.partial : KindOf[OpOf[a]] = "provider"
  BY DEF Reports, OnlyTouches, Orderly
<1>3. ASSUME NEW a \in Attempts, snap'.att[a] = "outcome_unknown"
      PROVE  snap'.op[OpOf[a]] = "outcome_unknown"
  <2>1. CASE a = cur
    BY <1>3, <2>1
  <2>2. CASE a # cur
    <3>1. snap.op[OpOf[a]] = "outcome_unknown" /\ OpOf[a] \in Operations
      BY <1>3, <2>2, IdentityAssumption DEF Reports, OnlyTouches, Orderly
    <3>2. OpOf[a] # OpOf[cur]
      BY <3>1 DEF Reports, OpenOperation
    <3> QED BY <3>1, <3>2 DEF Reports, OnlyTouches
  <2> QED BY <2>1, <2>2
<1> QED BY <1>1, <1>2, <1>3 DEF Orderly

LEMMA TurnByCommand ==
    ASSUME HostInv, TurnInv,
           \/ CreateTool \/ StartAttempt
           \/ RecordSuccess \/ RecordProviderError \/ RecordUnknown
           \/ (\E st \in {"completed", "failed"}, A \in Fallbacks : CompleteTool(st, A))
    PROVE  TurnInv'
<1>0. /\ raised \in BOOLEAN /\ Company
      /\ Orderly(snap) /\ Undisturbed /\ RaisedInGather
  BY DEF HostInv, TypeOK, TurnInv
<1>1. ASSUME Reports, snap'.op[OpOf[cur]] # "outcome_unknown", GoingWell
      PROVE  /\ \A o \in Operations : snap'.op[o] # "outcome_unknown"
             /\ \A a \in Attempts \ {cur} : snap'.att[a] = "running" =>
                    a \in open \/ (pc \in {"announced", "recording"} /\ a = cur)
  BY <1>0, <1>1 DEF Reports, OnlyTouches, Undisturbed
<1> USE DEF Busy, Owned, Commit, Done, tasks, GoingWell, RaisedInGather, TurnInv
<1>2. CASE CreateTool
  <2>1. /\ Reports /\ snap'.op[OpOf[cur]] # "outcome_unknown" /\ snap'.att[cur] = "absent"
    BY <1>2, CreateToolFrame
  <2>2. Orderly(snap')
    BY <1>0, <2>1, OrderlyByReport DEF HostInv
  <2>3. RaisedInGather' /\ pc' = "starting"
    BY <1>0, <1>2 DEF CreateTool
  <2>4. Undisturbed'
    BY <1>0, <1>1, <1>2, <2>1 DEF CreateTool, Undisturbed
  <2> QED BY <2>2, <2>3, <2>4
<1>3. CASE StartAttempt
  <2>1. /\ Reports /\ snap'.op[OpOf[cur]] # "outcome_unknown" /\ snap'.att[cur] = "running"
    BY <1>3, StartAttemptFrame
  <2>2. Orderly(snap')
    BY <1>0, <2>1, OrderlyByReport DEF HostInv
  <2>3. RaisedInGather' /\ pc' = "announced"
    BY <1>0, <1>3 DEF StartAttempt
  <2>4. Undisturbed'
    BY <1>0, <1>1, <1>3, <2>1 DEF StartAttempt, Undisturbed
  <2> QED BY <2>2, <2>3, <2>4
<1>4. CASE RecordSuccess
  <2>1. /\ Reports /\ snap'.op[OpOf[cur]] # "outcome_unknown" /\ snap'.att[cur] = "succeeded"
    BY <1>4, RecordSuccessFrame DEF OpenOperation
  <2>2. Orderly(snap')
    BY <1>0, <2>1, OrderlyByReport DEF HostInv
  <2>3. cur \in ToolAttempts <=> KindOf[OpOf[cur]] # "provider"
    BY <2>1, AuthorityAssumption DEF Reports, ToolAttempts
  <2>4. /\ RaisedInGather' /\ pc' \in {"deciding", "completing"}
        /\ pc = "recording" /\ raised' = raised /\ open' = open
    BY <1>0, <1>4, <2>3 DEF RecordSuccess
  <2>5. Undisturbed'
    BY <1>0, <1>1, <2>1, <2>4 DEF Undisturbed
  <2> QED BY <2>2, <2>4, <2>5
<1>5. CASE RecordProviderError
  <2>1. /\ Reports /\ snap'.op[OpOf[cur]] # "outcome_unknown" /\ snap'.att[cur] = "failed"
    BY <1>5, RecordProviderErrorFrame DEF OpenOperation
  <2>2. Orderly(snap')
    BY <1>0, <2>1, OrderlyByReport DEF HostInv
  <2>3. cur \notin ToolAttempts
    BY <1>5 DEF RecordProviderError, ToolAttempts
  <2>4. /\ RaisedInGather' /\ pc' \in {"failing", "retrying"}
        /\ pc = "recording" /\ raised' = raised /\ open' = open
    BY <1>0, <1>5, <2>3 DEF RecordProviderError
  <2>5. Undisturbed'
    BY <1>0, <1>1, <2>1, <2>4 DEF Undisturbed
  <2> QED BY <2>2, <2>4, <2>5
<1>6. CASE RecordUnknown
  <2>1. Reports /\ snap'.op[OpOf[cur]] = "outcome_unknown"
    BY <1>6, RecordUnknownFrame
  <2>2. Orderly(snap')
    BY <1>0, <2>1, OrderlyByReport DEF HostInv
  <2>3. CASE cur \in ToolAttempts
    <3>1. pc' = "waiting" /\ raised' /\ open' = open /\ open \subseteq ToolAttempts
      BY <1>0, <1>6, <2>3 DEF RecordUnknown, Company
    <3> QED BY <2>2, <3>1 DEF Undisturbed
  <2>4. CASE cur \notin ToolAttempts
    <3>1. ~ raised
      BY <1>0, <1>6, <2>4 DEF RecordUnknown
    <3>2. pc' = "failing" /\ ~ raised'
      BY <1>6, <2>4, <3>1 DEF RecordUnknown
    <3> QED BY <2>2, <3>2 DEF Undisturbed
  <2> QED BY <2>3, <2>4
<1>7. CASE \E st \in {"completed", "failed"}, A \in Fallbacks : CompleteTool(st, A)
  <2> PICK st \in {"completed", "failed"}, A \in Fallbacks : CompleteTool(st, A)
    BY <1>7
  <2>1. /\ Reports /\ snap'.op[OpOf[cur]] # "outcome_unknown"
        /\ snap'.att[cur] = snap.att[cur]
    BY CompleteToolFrame
  <2>2. snap.att[cur] # "outcome_unknown"
    BY <1>0, <2>1 DEF Reports, Orderly, OpenOperation
  <2>3. Orderly(snap')
    BY <1>0, <2>1, <2>2, OrderlyByReport DEF HostInv
  <2>4. /\ RaisedInGather' /\ pc' = "waiting"
        /\ pc = "completing" /\ raised' = raised /\ open' = open
    BY <1>0 DEF CompleteTool
  <2>5. Undisturbed'
    BY <1>0, <1>1, <2>1, <2>4 DEF Undisturbed, Reports
  <2> QED BY <2>3, <2>4, <2>5
<1> QED BY <1>2, <1>3, <1>4, <1>5, <1>6, <1>7

\* The end of a turn closes the operation of every attempt it finishes as
\* unknown as unknown too.
LEMMA OrderlyByEnd ==
    ASSUME NEW s, NEW status \in TerminalRun, SnapshotInv(s), Orderly(s)
    PROVE  Orderly(Ended(s, status))
<1> DEFINE e == Ended(s, status)
<1>1. s \in Snapshot
  BY DEF SnapshotInv
<1>2. /\ e.run = status /\ e.lease = NoLease /\ e.partial = s.partial
      /\ \A a \in Attempts :
           e.att[a] = IF s.att[a] = "running" THEN FinalAttempt(s, status)[a] ELSE s.att[a]
      /\ \A o \in Operations :
           e.op[o] = IF s.op[o] \in OpenOperation THEN FinalOperation(s, status)[o] ELSE s.op[o]
  BY <1>1, EndFrame
<1> HIDE DEF e
<1>3. ASSUME NEW a \in Attempts, e.att[a] = "outcome_unknown"
      PROVE  e.op[OpOf[a]] = "outcome_unknown"
  <2>1. OpOf[a] \in Operations
    BY IdentityAssumption
  <2>2. CASE s.att[a] = "running"
    <3>1. FinalAttempt(s, status)[a] = "outcome_unknown" /\ s.op[OpOf[a]] \in OpenOperation
      BY <1>2, <1>3, <2>2 DEF SnapshotInv, ReceiptsMatchStatus
    <3>2. FinalOperation(s, status)[OpOf[a]] = "outcome_unknown"
      BY <2>1, <3>1 DEF FinalAttempt, FinalOperation
    <3> QED BY <1>2, <2>1, <3>1, <3>2
  <2>3. CASE s.att[a] # "running"
    <3>1. s.op[OpOf[a]] = "outcome_unknown"
      BY <1>2, <1>3, <2>3 DEF Orderly
    <3> QED BY <1>2, <2>1, <3>1 DEF OpenOperation
  <2> QED BY <2>2, <2>3
<1> QED BY <1>2, <1>3 DEF Orderly, e, HeldBy, TerminalRun, KnownTerminalRun

\* So does recovery: it calls an attempt unknown only if it cannot resume.
LEMMA OrderlyByRecovery ==
    ASSUME NEW s, SnapshotInv(s), Orderly(s)
    PROVE  Orderly(Recovered(s))
<1> DEFINE r == Recovered(s)
<1>1. s \in Snapshot
  BY DEF SnapshotInv
<1>2. /\ r.run \in {"outcome_unknown", "waiting", s.run}
      /\ r.lease = NoLease /\ r.partial = s.partial
      /\ \A a \in Attempts :
           r.att[a] = IF s.att[a] = "running" THEN RecoveredAttempt(s)[a] ELSE s.att[a]
      /\ \A o \in Operations :
           r.op[o] = IF s.op[o] \in OpenOperation THEN RecoveredOperation(s)[o] ELSE s.op[o]
  BY <1>1, RecoveryFrame
<1> HIDE DEF r
<1>3. ASSUME NEW a \in Attempts, r.att[a] = "outcome_unknown"
      PROVE  r.op[OpOf[a]] = "outcome_unknown"
  <2>1. OpOf[a] \in Operations
    BY IdentityAssumption
  <2>2. CASE s.att[a] = "running"
    <3>1. RecoveredAttempt(s)[a] = "outcome_unknown" /\ s.op[OpOf[a]] \in OpenOperation
      BY <1>2, <1>3, <2>2 DEF SnapshotInv, ReceiptsMatchStatus
    <3>2. RecoveredOperation(s)[OpOf[a]] = "outcome_unknown"
      BY <2>1, <3>1 DEF RecoveredAttempt, RecoveredOperation, ResumeAllowed
    <3> QED BY <1>2, <2>1, <3>1, <3>2
  <2>3. CASE s.att[a] # "running"
    <3>1. s.op[OpOf[a]] = "outcome_unknown"
      BY <1>2, <1>3, <2>3 DEF Orderly
    <3> QED BY <1>2, <2>1, <3>1 DEF OpenOperation
  <2> QED BY <2>2, <2>3
<1> QED BY <1>2, <1>3 DEF Orderly, r, HeldBy

\* The other processes leave the host's state alone, start no attempt, and take
\* the lease away when they touch an operation.
LEMMA TurnByOthers ==
    ASSUME HostInv, TurnInv, Recover \/ TakeOver \/ CancelWaiting
    PROVE  TurnInv'
<1>0. SnapshotInv(snap) /\ snap \in Snapshot /\ Orderly(snap) /\ Undisturbed /\ RaisedInGather
  BY DEF HostInv, TypeOK, TurnInv, SnapshotInv
<1>1. UNCHANGED <<pc, cur, open, raised, result>>
  BY DEF Recover, TakeOver, CancelWaiting, host, tasks
<1>2. RaisedInGather'
  BY <1>0, <1>1 DEF RaisedInGather
<1>3. GoingWell' <=> GoingWell
  BY <1>1 DEF GoingWell
<1>4. /\ Orderly(snap')
      /\ \A a \in Attempts : snap'.att[a] = "running" => snap.att[a] = "running"
      /\ HeldBy(snap', Self) => FALSE
  <2>1. CASE Recover
    <3>1. snap' = Recovered(snap)
      BY <2>1 DEF Recover
    <3>2. Orderly(snap')
      BY <1>0, <3>1, OrderlyByRecovery
    <3>3. /\ snap'.lease = NoLease
          /\ \A a \in Attempts : snap'.att[a] =
               IF snap.att[a] = "running" THEN RecoveredAttempt(snap)[a] ELSE snap.att[a]
      BY <1>0, <3>1, RecoveryFrame
    <3> QED BY <3>2, <3>3 DEF HeldBy
  <2>2. CASE TakeOver
    <3>1. /\ snap'.run = snap.run /\ snap'.op = snap.op /\ snap'.att = snap.att
          /\ snap'.partial = snap.partial /\ snap'.lease.owner = Other
      BY <1>0, <2>2 DEF TakeOver, LeaseAcquired, Snapshot
    <3> QED BY <1>0, <3>1, AuthorityAssumption DEF Orderly, HeldBy
  <2>3. CASE CancelWaiting
    <3>1. /\ snap'.run = "cancelled" /\ snap'.lease = NoLease
          /\ snap'.partial = snap.partial /\ snap'.att = snap.att
          /\ \A o \in Operations :
               snap'.op[o] = IF snap.op[o] \in OpenOperation THEN "cancelled" ELSE snap.op[o]
      BY <1>0, <2>3, CancellationFrame
    <3>2. \A a \in Attempts : snap'.att[a] = "outcome_unknown" =>
                                 snap'.op[OpOf[a]] = "outcome_unknown"
      BY <1>0, <3>1, IdentityAssumption DEF Orderly, OpenOperation
    <3> QED BY <1>0, <3>1, <3>2 DEF Orderly, HeldBy
  <2> QED BY <2>1, <2>2, <2>3
<1>5. Undisturbed'
  BY <1>0, <1>1, <1>3, <1>4 DEF Undisturbed
<1> QED BY <1>1, <1>2, <1>4, <1>5 DEF TurnInv

\* A begun run has no operation yet.
LEMMA TurnByBegin ==
    ASSUME HostInv, TurnInv, NEW t \in Turns, BeginTurn(t)
    PROVE  TurnInv'
<1>1. /\ SnapshotInv(snap) /\ snap \in Snapshot /\ snap.run = "absent"
      /\ snap' = Begun(snap, [owner |-> Self, expires |-> now + Duration], t)
  BY DEF BeginTurn, HostInv, TypeOK, SnapshotInv, AcceptsRunCreated
<1>2. /\ \A o \in Operations : snap.op[o] = "absent"
      /\ \A a \in Attempts : snap.att[a] = "absent" /\ a \notin snap.partial
  BY <1>1, IdentityAssumption DEF SnapshotInv, BoundariesInOrder
<1>3. /\ snap'.run = "running" /\ snap'.op = snap.op /\ snap'.att = snap.att
      /\ snap'.partial = snap.partial
  BY <1>1 DEF Begun, TurnCreated, RunTransitioned, RunCreated, Snapshot
<1>4. Orderly(snap')
  BY <1>1, <1>2, <1>3 DEF Orderly, Snapshot
<1>5. Undisturbed'
  BY <1>2, <1>3 DEF Undisturbed
<1>6. pc' = "deciding" /\ RaisedInGather'
  BY DEF BeginTurn, TurnInv, RaisedInGather, Busy, tasks
<1> QED BY <1>4, <1>5, <1>6 DEF TurnInv

LEMMA TurnByEnd ==
    ASSUME HostInv, TurnInv, FinishTurn \/ FailTurn
    PROVE  TurnInv'
<1>1. /\ stamp # NoStamp /\ Owns(snap, Self, stamp)
      /\ \E status : AcceptsEnd(Held, status, now) /\ snap' = Ended(Held, status)
      /\ pc' = "over" /\ UNCHANGED tasks /\ pc \in {"finishing", "failing"}
  BY DEF FinishTurn, FailTurn, Owned, Commit
<1>2. /\ SnapshotInv(Held) /\ Held.run = snap.run /\ Held.op = snap.op /\ Held.att = snap.att
      /\ Held.partial = snap.partial /\ HeldBy(snap, Self)
  BY <1>1, HeldInv, HeldFrame
<1> HIDE DEF Held
<1>3. Orderly(Held)
  BY <1>2 DEF TurnInv, Orderly
<1>4. Orderly(snap')
  BY <1>1, <1>2, <1>3, OrderlyByEnd DEF AcceptsEnd, AcceptsFinalize
<1>5. ~ GoingWell' /\ RaisedInGather'
  BY <1>1 DEF TurnInv, GoingWell, RaisedInGather, Busy, tasks
<1> QED BY <1>1, <1>4, <1>5 DEF TurnInv, Undisturbed

\* The protocol's invariant, over any interleaving with rivals, clock and crash.
THEOREM TurnInvariant == Spec => []TurnInv
<1>1. Init => TurnInv
  <2> SUFFICES ASSUME Init PROVE TurnInv
    OBVIOUS
  <2>1. raised = FALSE
    BY DEF Init
  <2>2. Orderly(snap)
    BY DEF Init, EmptySnapshot, Orderly, HeldBy
  <2> QED
    BY <2>1, <2>2 DEF Init, TurnInv, Undisturbed, GoingWell, RaisedInGather, Busy
<1>2. HostInv /\ TurnInv /\ [Next]_vars => TurnInv'
  <2> SUFFICES ASSUME HostInv, TurnInv, [Next]_vars PROVE TurnInv'
    OBVIOUS
  <2>1. CASE UNCHANGED vars
    BY <2>1 DEF vars, tasks, TurnInv, Undisturbed, GoingWell, RaisedInGather
  <2> QED
    BY <2>1, TurnByLoop, TurnByCommand, TurnByEnd, TurnByOthers, TurnByBegin DEF Next
<1> QED
  BY <1>1, <1>2, HostInvariant, PTL DEF Spec

\* Recovery of an orderly projection is admissible, event by event.
LEMMA OrderlyIsRecoverable ==
    ASSUME NEW s, SnapshotInv(s), Orderly(s), OpenRun(s)
    PROVE  AcceptsRecovery(s)
<1>0. s \in Snapshot
  BY DEF SnapshotInv
<1>1. AcceptsSweep(s, RecoveredAttempt(s))
  <2> SUFFICES ASSUME NEW a \in Attempts, s.att[a] = "running"
               PROVE  AcceptsAttemptFinished(s, a, RecoveredAttempt(s)[a])
    BY DEF AcceptsSweep
  <2>1. OpOf[a] \in Operations /\ KindOf[OpOf[a]] \in {"provider", "tool"}
    BY IdentityAssumption, AuthorityAssumption
  <2>2. s.op[OpOf[a]] \in OpenOperation /\ OpOf[a] \notin s.receipt
    BY <2>1 DEF SnapshotInv, ReceiptsMatchStatus, OpenOperation, Confirmed
  <2>3. a \in s.effect \cup s.partial => a \in s.sent
    BY DEF SnapshotInv, BoundariesInOrder
  <2>4. CASE UnsafeOperation(s, OpOf[a]) /\ UnsafeAttempt(s, a)
    <3>1. RecoveredAttempt(s)[a] = "outcome_unknown" /\ a \in s.sent
      BY <2>3, <2>4 DEF RecoveredAttempt, UnsafeAttempt
    <3> QED BY <3>1 DEF AcceptsAttemptFinished, TerminalAttempt
  <2>5. CASE ~ (UnsafeOperation(s, OpOf[a]) /\ UnsafeAttempt(s, a))
    <3>1. RecoveredAttempt(s)[a] = "failed"
      BY <2>5 DEF RecoveredAttempt
    <3>2. a \notin s.effect \cup s.partial
      <4>1. CASE ~ UnsafeAttempt(s, a)
        BY <4>1 DEF UnsafeAttempt
      <4>2. CASE ~ UnsafeOperation(s, OpOf[a])
        <5>1. s.op[OpOf[a]] # "absent" /\ a \in AttemptsOf(OpOf[a])
          BY <2>2 DEF OpenOperation, AttemptsOf
        <5>2. CASE KindOf[OpOf[a]] = "provider"
          BY <2>2, <2>3, <4>2, <5>1, <5>2 DEF UnsafeOperation, PartialOutput, ActiveDispatch
        <5>3. CASE KindOf[OpOf[a]] = "tool"
          BY <2>2, <4>2, <5>1, <5>3 DEF UnsafeOperation, EffectStarted, Orderly
        <5> QED BY <2>1, <5>2, <5>3
      <4> QED BY <2>5, <4>1, <4>2
    <3> QED BY <3>1, <3>2 DEF AcceptsAttemptFinished, TerminalAttempt
  <2> QED BY <2>4, <2>5
<1> DEFINE u == SweptAttempts(s)
           w == Swept(s)
<1>2. /\ OpenRun(u) /\ u.op = s.op
      /\ u.att = [a \in Attempts |-> IF s.att[a] = "running"
                                     THEN RecoveredAttempt(s)[a] ELSE s.att[a]]
  BY <1>0 DEF SweptAttempts, AttemptsSwept, LeaseCleared, Snapshot, OpenRun
<1>3. \A a \in Attempts : u.att[a] # "running"
  BY <1>2 DEF RecoveredAttempt
<1>4. AcceptsClosing(u, RecoveredOperation(s))
  <2> HIDE DEF u
  <2> SUFFICES ASSUME NEW o \in Operations, s.op[o] \in OpenOperation
               PROVE  AcceptsOperationMoved(u, o, RecoveredOperation(s)[o])
    BY <1>2 DEF AcceptsClosing, Unfinished
  <2>1. OpenRun(u) /\ u.op[o] \in OpenOperation /\ ~ HasRunning(u, o)
    BY <1>2, <1>3 DEF HasRunning, AttemptsOf
  <2>2. CASE ResumeAllowed(s)
    BY <2>1, <2>2 DEF RecoveredOperation, AcceptsOperationMoved, AcceptsOperationWaiting
  <2>3. CASE UnsafeOperation(s, o)
    BY <2>1, <2>3 DEF RecoveredOperation, ResumeAllowed, AcceptsOperationMoved,
       AcceptsOperationUnknown
  <2>4. CASE ~ ResumeAllowed(s) /\ ~ UnsafeOperation(s, o)
    <3>1. ~ HasUnknown(u, o)
      <4> SUFFICES ASSUME NEW a \in AttemptsOf(o), u.att[a] = "outcome_unknown" PROVE FALSE
        BY DEF HasUnknown
      <4>1. a \in Attempts /\ OpOf[a] = o
        BY DEF AttemptsOf
      <4>2. s.att[a] = "outcome_unknown" \/ RecoveredAttempt(s)[a] = "outcome_unknown"
        BY <1>2, <4>1
      <4>3. RecoveredAttempt(s)[a] # "outcome_unknown"
        BY <2>4, <4>1 DEF RecoveredAttempt
      <4> QED BY <4>1, <4>2, <4>3 DEF Orderly, OpenOperation
    <3> QED
      BY <2>1, <2>4, <3>1 DEF RecoveredOperation, AcceptsOperationMoved, AcceptsOperationFailed
  <2> QED BY <2>2, <2>3, <2>4
<1>5. ASSUME ~ ResumeAllowed(s) PROVE AcceptsRunTransition(w, "outcome_unknown")
  <2>1. /\ w.run = s.run /\ w.att = u.att
        /\ w.op = [o \in Operations |-> IF s.op[o] \in OpenOperation
                                        THEN RecoveredOperation(s)[o] ELSE s.op[o]]
    BY <1>0, <1>2 DEF Swept, SweptAttempts, AttemptsSwept, OperationsClosed, LeaseCleared, Snapshot
  <2> HIDE DEF u, w
  <2>2. OpenRun(w) /\ "outcome_unknown" \in AllowedTarget(w.run)
    BY <2>1 DEF OpenRun, Orderly, AllowedTarget, TerminalRun
  <2>3. \A o \in Operations : w.op[o] \notin OpenOperation
    BY <1>5, <2>1 DEF RecoveredOperation, OpenOperation
  <2> QED
    BY <1>3, <2>1, <2>2, <2>3 DEF AcceptsRunTransition, KnownTerminalRun
<1> QED BY <1>1, <1>4, <1>5 DEF AcceptsRecovery

\* recover_expired never raises under the authority's protocol.
THEOREM RecoveryIsAccepted == Spec => []RecoveryNeverRejected
<1>1. HostInv /\ TurnInv => RecoveryNeverRejected
  BY OrderlyIsRecoverable DEF HostInv, TypeOK, TurnInv, RecoveryNeverRejected, Expired
<1> QED BY <1>1, HostInvariant, TurnInvariant, PTL

\* What recovery makes sure of before it leaves a run waiting: no attempt runs or
\* is unknown, and a tool whose effect has started has its receipt.
Quiet(s) ==
    s.run = "waiting" =>
      /\ \A a \in Attempts : s.att[a] \notin {"running", "outcome_unknown"}
      /\ \A a \in s.effect : KindOf[OpOf[a]] = "tool" => OpOf[a] \in s.receipt

LEMMA RecoveredIsQuiet ==
    ASSUME NEW s, SnapshotInv(s), Orderly(s), Recovered(s).effect = s.effect
    PROVE  Quiet(Recovered(s))
<1> DEFINE r == Recovered(s)
<1>1. s \in Snapshot
  BY DEF SnapshotInv
<1>2. /\ ~ ResumeAllowed(s) => r.run = "outcome_unknown"
      /\ s.receipt \subseteq r.receipt
      /\ \A a \in Attempts :
           r.att[a] = IF s.att[a] = "running" THEN RecoveredAttempt(s)[a] ELSE s.att[a]
  BY <1>1, RecoveryFrame
<1> HIDE DEF r
<1> SUFFICES ASSUME ResumeAllowed(s)
             PROVE  /\ \A a \in Attempts : r.att[a] \notin {"running", "outcome_unknown"}
                    /\ \A a \in s.effect : KindOf[OpOf[a]] = "tool" => OpOf[a] \in r.receipt
  BY <1>2 DEF Quiet, r
<1>3. \A o \in Operations : ~ UnsafeOperation(s, o)
  BY DEF ResumeAllowed
<1>4. ASSUME NEW a \in Attempts PROVE r.att[a] \notin {"running", "outcome_unknown"}
  <2>1. OpOf[a] \in Operations
    BY IdentityAssumption
  <2>2. CASE s.att[a] = "running"
    BY <1>2, <1>3, <2>1, <2>2 DEF RecoveredAttempt
  <2>3. s.att[a] # "outcome_unknown"
    BY <1>3, <2>1 DEF Orderly, UnsafeOperation
  <2> QED BY <1>2, <2>2, <2>3
<1>5. ASSUME NEW a \in s.effect, KindOf[OpOf[a]] = "tool" PROVE OpOf[a] \in r.receipt
  <2>1. a \in Attempts /\ OpOf[a] \in Operations
    BY <1>1, IdentityAssumption DEF Snapshot
  <2>2. s.op[OpOf[a]] # "absent" /\ EffectStarted(s, OpOf[a])
    BY <2>1 DEF SnapshotInv, BoundariesInOrder, EffectStarted, AttemptsOf
  <2> QED BY <1>2, <1>3, <1>5, <2>1, <2>2 DEF UnsafeOperation
<1> QED BY <1>4, <1>5

\* No owner reports about, begins or ends a run and leaves it waiting.
LEMMA OwnerNeverWaits ==
    ASSUME HostInv, TurnInv,
           \/ (\E t \in Turns : BeginTurn(t))
           \/ CreateTool \/ StartAttempt
           \/ RecordSuccess \/ RecordProviderError \/ RecordUnknown
           \/ (\E st \in {"completed", "failed"}, A \in Fallbacks : CompleteTool(st, A))
           \/ FinishTurn \/ FailTurn
    PROVE  snap'.run # "waiting"
<1>1. CASE \E t \in Turns : BeginTurn(t)
  <2>1. snap \in Snapshot
    BY DEF HostInv, TypeOK, SnapshotInv
  <2> QED
    BY <1>1, <2>1 DEF BeginTurn, Begun, TurnCreated, RunTransitioned, RunCreated, Snapshot
<1>2. CASE FinishTurn \/ FailTurn
  <2>1. /\ stamp # NoStamp /\ Owns(snap, Self, stamp)
        /\ \E status : AcceptsEnd(Held, status, now) /\ snap' = Ended(Held, status)
    BY <1>2 DEF FinishTurn, FailTurn, Owned, Commit
  <2>2. Held \in Snapshot
    BY <2>1, HeldFrame
  <2> QED
    BY <2>1, <2>2, EndFrame DEF AcceptsEnd, AcceptsFinalize, TerminalRun, KnownTerminalRun
<1>3. ASSUME Reports PROVE snap'.run # "waiting"
  BY <1>3 DEF Reports, OnlyTouches, TurnInv, Orderly
<1> QED
  BY <1>1, <1>2, <1>3, CreateToolFrame, StartAttemptFrame, RecordSuccessFrame,
     RecordProviderErrorFrame, RecordUnknownFrame, CompleteToolFrame

LEMMA QuietKept ==
    ASSUME HostInv, TurnInv, Quiet(snap), [Next]_vars
    PROVE  Quiet(snap')
<1>1. ASSUME snap' = snap PROVE Quiet(snap')
  BY <1>1
<1>2. CASE \/ UNCHANGED vars
           \/ \E a \in Attempts : Request(a) \/ Retry(a) \/ BeginCall(a)
           \/ \E A \in SUBSET ToolAttempts : Batch(A)
           \/ Gathered \/ Refuse \/ Execute
           \/ \E a \in Attempts, r \in {"ok", "error", "partial"} : Answer(a, r)
           \/ \E st \in {"completed", "failed", "outcome_unknown"} : Return(st)
           \/ Abandon \/ Raise \/ ReadClock \/ CommandRaises \/ Tick \/ Crash
  BY <1>1, <1>2 DEF vars, Request, Retry, BeginCall, Batch, Gathered, Refuse, Execute, Answer,
     Return, Abandon, Raise, ReadClock, CommandRaises, Tick, Crash
<1>3. CASE \/ \E t \in Turns : BeginTurn(t)
           \/ CreateTool \/ StartAttempt
           \/ RecordSuccess \/ RecordProviderError \/ RecordUnknown
           \/ (\E st \in {"completed", "failed"}, A \in Fallbacks : CompleteTool(st, A))
           \/ FinishTurn \/ FailTurn
  BY <1>3, OwnerNeverWaits DEF Quiet
<1>4. CASE Recover
  <2>1. SnapshotInv(snap) /\ Orderly(snap) /\ snap' = Recovered(snap)
    BY <1>4 DEF HostInv, TypeOK, TurnInv, Recover
  <2>2. snap'.effect = snap.effect
    BY <1>4, <2>1, RecoveryKeepsBoundaries
  <2> QED BY <2>1, <2>2, RecoveredIsQuiet
<1>5. CASE TakeOver
  BY <1>5 DEF TakeOver, LeaseAcquired, Quiet, HostInv, TypeOK, SnapshotInv, Snapshot
<1>6. CASE CancelWaiting
  BY <1>6, CancellationFrame DEF Quiet, HostInv, TypeOK
<1> QED BY <1>2, <1>3, <1>4, <1>5, <1>6 DEF Next

\* A run that may be resumed has nothing under way and nothing left open.
THEOREM ResumptionIsQuiet == Spec => []ResumableRunsAreQuiet
<1>1. Init => Quiet(snap)
  BY DEF Init, EmptySnapshot, Quiet
<1>2. HostInv /\ TurnInv /\ Quiet(snap) /\ [Next]_vars => Quiet(snap)'
  BY QuietKept
<1>3. HostInv /\ Quiet(snap) => ResumableRunsAreQuiet
  <2> SUFFICES ASSUME HostInv, Quiet(snap), snap.run = "waiting"
               PROVE  /\ open = {} /\ pc # "announced"
                      /\ \A a \in world : IF a \in ToolAttempts THEN OpOf[a] \in snap.receipt
                                           ELSE snap.att[a] \notin {"running", "outcome_unknown"}
    BY DEF ResumableRunsAreQuiet
  <2>1. /\ \A a \in Attempts : snap.att[a] \notin {"running", "outcome_unknown"}
        /\ \A a \in snap.effect : KindOf[OpOf[a]] = "tool" => OpOf[a] \in snap.receipt
    BY DEF Quiet
  <2>2. open \subseteq Attempts /\ world \subseteq Attempts
    BY DEF HostInv, TypeOK
  <2>3. open = {}
    BY <2>1, <2>2 DEF HostInv, InFlightNotWrittenOff
  <2>4. pc # "announced"
    BY <2>1 DEF HostInv, Company, Busy
  <2>5. \A a \in world : a \in ToolAttempts => OpOf[a] \in snap.receipt
    BY <2>1, <2>2 DEF HostInv, EffectsAreAnnounced, ToolAttempts
  <2> QED BY <2>1, <2>2, <2>3, <2>4, <2>5
<1> QED BY <1>1, <1>2, <1>3, HostInvariant, TurnInvariant, PTL DEF Spec

\* A running attempt of an operation that is not uncertain crossed no boundary.
LEMMA CertainMeansNoEffect ==
    ASSUME NEW s, SnapshotInv(s), Orderly(s), NEW a \in Attempts, s.att[a] = "running",
           ~ UncertainOperation(s, OpOf[a])
    PROVE  a \notin s.effect \cup s.partial
<1>1. OpOf[a] \in Operations /\ KindOf[OpOf[a]] \in {"provider", "tool"}
  BY IdentityAssumption, AuthorityAssumption
<1>2. /\ s.op[OpOf[a]] # "absent" /\ OpOf[a] \notin s.receipt
      /\ a \in AttemptsOf(OpOf[a])
  BY <1>1 DEF SnapshotInv, ReceiptsMatchStatus, OpenOperation, Confirmed, AttemptsOf
<1>3. a \in s.effect \cup s.partial => a \in s.sent
  BY DEF SnapshotInv, BoundariesInOrder
<1>4. CASE KindOf[OpOf[a]] = "provider"
  BY <1>2, <1>3, <1>4 DEF UncertainOperation, PartialOutput, ActiveDispatch
<1>5. CASE KindOf[OpOf[a]] = "tool"
  BY <1>2, <1>5 DEF UncertainOperation, EffectStarted, Orderly
<1> QED BY <1>1, <1>4, <1>5

\* An orderly running run can be ended by its owner: as unknown at any time, as
\* completed or failed if nothing in it is uncertain.
LEMMA OrderlyCanEnd ==
    ASSUME NEW s, NEW status \in {"completed", "failed", "outcome_unknown"}, NEW time,
           SnapshotInv(s), Orderly(s), HeldBy(s, Self), Unexpired(s, time),
           status # "outcome_unknown" =>
             /\ \A a \in Attempts : s.att[a] = "running" => a \notin s.effect \cup s.partial
             /\ \A o \in Operations : s.op[o] # "outcome_unknown",
           status = "completed" => Unfinished(s) = {}
    PROVE  AcceptsEnd(s, status, time)
<1>0. s \in Snapshot /\ s.run = "running" /\ OpenRun(s)
  BY DEF SnapshotInv, Orderly, OpenRun
<1> DEFINE u == FinalSweep(s, status)
           w == FinalClosed(s, status)
           c == LeaseCleared(w)
<1>1. AcceptsSweep(s, FinalAttempt(s, status))
  <2> SUFFICES ASSUME NEW a \in Attempts, s.att[a] = "running"
               PROVE  AcceptsAttemptFinished(s, a, FinalAttempt(s, status)[a])
    BY DEF AcceptsSweep
  <2>1. OpOf[a] \in Operations /\ KindOf[OpOf[a]] \in {"provider", "tool"}
    BY IdentityAssumption, AuthorityAssumption
  <2>2. s.op[OpOf[a]] \in OpenOperation /\ OpOf[a] \notin s.receipt
    BY <2>1 DEF SnapshotInv, ReceiptsMatchStatus, OpenOperation, Confirmed
  <2>3. a \in s.effect \cup s.partial => a \in s.sent
    BY DEF SnapshotInv, BoundariesInOrder
  <2>4. CASE /\ status = "outcome_unknown"
             /\ UncertainOperation(s, OpOf[a]) /\ UncertainAttempt(s, a)
    <3>1. FinalAttempt(s, status)[a] = "outcome_unknown" /\ a \in s.sent
      BY <2>3, <2>4 DEF FinalAttempt, UncertainAttempt
    <3> QED BY <1>0, <3>1 DEF AcceptsAttemptFinished, TerminalAttempt
  <2>5. CASE ~ (/\ status = "outcome_unknown"
                /\ UncertainOperation(s, OpOf[a]) /\ UncertainAttempt(s, a))
    <3>1. FinalAttempt(s, status)[a] = "failed"
      BY <2>5 DEF FinalAttempt
    <3>2. a \notin s.effect \cup s.partial
      BY <2>5, CertainMeansNoEffect DEF UncertainAttempt
    <3> QED BY <1>0, <3>1, <3>2 DEF AcceptsAttemptFinished, TerminalAttempt
  <2> QED BY <2>4, <2>5
<1>2. /\ OpenRun(u) /\ u.op = s.op /\ u.lease = s.lease /\ u.run = s.run
      /\ u.att = [a \in Attempts |-> IF s.att[a] = "running"
                                     THEN FinalAttempt(s, status)[a] ELSE s.att[a]]
  BY <1>0 DEF FinalSweep, AttemptsSwept, Snapshot, OpenRun
<1>3. \A a \in Attempts : u.att[a] # "running"
  BY <1>2 DEF FinalAttempt
<1>4. AcceptsClosing(u, FinalOperation(s, status))
  <2> HIDE DEF u
  <2> SUFFICES ASSUME NEW o \in Operations, s.op[o] \in OpenOperation
               PROVE  AcceptsOperationMoved(u, o, FinalOperation(s, status)[o])
    BY <1>2 DEF AcceptsClosing, Unfinished
  <2>1. OpenRun(u) /\ u.op[o] \in OpenOperation /\ ~ HasRunning(u, o)
    BY <1>2, <1>3 DEF HasRunning, AttemptsOf
  <2>2. CASE status = "outcome_unknown" /\ UncertainOperation(s, o)
    BY <2>1, <2>2 DEF FinalOperation, AcceptsOperationMoved, AcceptsOperationUnknown
  <2>3. CASE ~ (status = "outcome_unknown" /\ UncertainOperation(s, o))
    <3>1. ~ HasUnknown(u, o)
      <4> SUFFICES ASSUME NEW a \in AttemptsOf(o), u.att[a] = "outcome_unknown" PROVE FALSE
        BY DEF HasUnknown
      <4>1. a \in Attempts /\ OpOf[a] = o
        BY DEF AttemptsOf
      <4>2. s.att[a] = "outcome_unknown" \/ FinalAttempt(s, status)[a] = "outcome_unknown"
        BY <1>2, <4>1
      <4>3. FinalAttempt(s, status)[a] # "outcome_unknown"
        BY <2>3, <4>1 DEF FinalAttempt
      <4> QED BY <4>1, <4>2, <4>3 DEF Orderly, OpenOperation
    <3> QED
      BY <2>1, <2>3, <3>1 DEF FinalOperation, AcceptsOperationMoved, AcceptsOperationFailed
  <2> QED BY <2>2, <2>3
<1>5. SnapshotInv(u)
  BY <1>0, <1>1, AttemptsSweptInv DEF FinalSweep
<1>6. SnapshotInv(w)
  BY <1>2, <1>4, <1>5, OperationsClosedInv DEF FinalClosed
<1>7. /\ w.run = s.run /\ w.att = u.att /\ w.lease = s.lease
      /\ w.op = [o \in Operations |-> IF s.op[o] \in OpenOperation
                                      THEN FinalOperation(s, status)[o] ELSE s.op[o]]
  BY <1>2, <1>5 DEF FinalClosed, OperationsClosed, SnapshotInv, Snapshot
<1> HIDE DEF u, w
<1>8. /\ SnapshotInv(c) /\ c.run = s.run /\ c.att = u.att /\ c.op = w.op
  BY <1>6, <1>7, LeaseAcquiredInv DEF LeaseCleared, LeaseAcquired, SnapshotInv, Snapshot
<1> HIDE DEF c
<1>9. \A o \in Operations :
        /\ c.op[o] \notin OpenOperation
        /\ status # "outcome_unknown" => c.op[o] # "outcome_unknown"
  BY <1>7, <1>8 DEF FinalOperation, OpenOperation
<1>10. \A o \in Operations : c.op[o] \in OperationStatus \cup {"absent"}
  BY <1>8 DEF SnapshotInv, Snapshot
<1>11. ASSUME status # "outcome_unknown", NEW o \in Operations
       PROVE  /\ ~ Unconfirmed(c, o)
              /\ c.op[o] # "absent" => c.op[o] \in TerminalOperation /\ o \in c.receipt
  <2>1. c.op[o] # "absent" => c.op[o] \in Confirmed
    BY <1>9, <1>10, <1>11 DEF OperationStatus, TerminalOperation
  <2>2. c.op[o] \in Confirmed => o \in c.receipt
    BY <1>8 DEF SnapshotInv, ReceiptsMatchStatus
  <2>3. o \in c.dispatched => c.op[o] # "absent"
    BY <1>8 DEF SnapshotInv, BoundariesInOrder
  <2> QED BY <1>9, <1>11, <2>1, <2>2, <2>3 DEF Unconfirmed, TerminalOperation
<1>12. AcceptsRunTransition(c, status)
  <2>1. OpenRun(c) /\ status \in AllowedTarget(c.run)
    BY <1>0, <1>8 DEF OpenRun, AllowedTarget, TerminalRun, KnownTerminalRun
  <2>2. \A a \in Attempts : c.att[a] # "running"
    BY <1>3, <1>8
  <2> QED
    BY <1>9, <1>11, <2>1, <2>2 DEF AcceptsRunTransition, KnownTerminalRun
<1>13. AcceptsFinalize(w, Self, status, time)
  BY <1>7, <1>12 DEF AcceptsFinalize, HeldBy, Unexpired, TerminalRun, KnownTerminalRun, c
<1> QED BY <1>1, <1>4, <1>13 DEF AcceptsEnd, u, w

\* The host can end its turn whenever it owns the run: what finish_turn and
\* fail_turn ask for is what the state of the turn admits.
THEOREM OwnerCanEnd == Spec => []TurnCanEnd
<1>1. HostInv /\ TurnInv => TurnCanEnd
  <2> SUFFICES ASSUME HostInv, TurnInv, Owns(snap, Self, now),
                      NEW s, s = Renewed(snap, Self, now)
               PROVE  /\ pc = "finishing" => AcceptsEnd(s, TurnStatus(s, result), now)
                      /\ pc = "failing" => AcceptsEnd(s, TurnStatus(s, FailureStatus(s)), now)
    BY DEF TurnCanEnd
  <2>1. /\ SnapshotInv(snap) /\ snap \in Snapshot /\ Orderly(snap) /\ Undisturbed /\ Company
        /\ now \in Nat /\ HeldBy(snap, Self)
        /\ [owner |-> Self, expires |-> now + Duration] \in Leases
    BY AuthorityAssumption, CommandAssumption
       DEF HostInv, TypeOK, TurnInv, SnapshotInv, Owns
  <2>2. /\ SnapshotInv(s) /\ s.run = snap.run /\ s.op = snap.op /\ s.att = snap.att
        /\ s.effect = snap.effect /\ s.partial = snap.partial
        /\ HeldBy(s, Self) /\ Unexpired(s, now)
    <3>1. CASE s = snap
      BY <2>1, <3>1 DEF Owns
    <3>2. CASE s = LeaseAcquired(snap, [owner |-> Self, expires |-> now + Duration])
      <4>1. SnapshotInv(s)
        BY <2>1, <3>2, LeaseAcquiredInv
      <4>2. /\ s.run = snap.run /\ s.op = snap.op /\ s.att = snap.att
            /\ s.effect = snap.effect /\ s.partial = snap.partial
            /\ s.lease = [owner |-> Self, expires |-> now + Duration]
        BY <2>1, <3>2 DEF LeaseAcquired, Snapshot
      <4> QED
        BY <2>1, <4>1, <4>2, IdentityAssumption, CommandAssumption DEF HeldBy, Unexpired
    <3> QED BY <3>1, <3>2 DEF Renewed
  <2>3. Orderly(s)
    BY <2>1, <2>2 DEF Orderly
  <2>4. ASSUME pc = "finishing"
        PROVE  AcceptsEnd(s, TurnStatus(s, result), now)
    <3> DEFINE status == TurnStatus(s, result)
    <3>1. /\ status \in {"completed", "failed", "outcome_unknown"}
          /\ status = "completed" => Unfinished(s) = {}
          /\ status # "outcome_unknown" => result # "outcome_unknown"
      BY <2>4 DEF TurnStatus, TurnInv
    <3>2. status # "outcome_unknown" =>
            /\ \A a \in Attempts : s.att[a] # "running"
            /\ \A o \in Operations : s.op[o] # "outcome_unknown"
      BY <2>1, <2>2, <2>4, <3>1 DEF Undisturbed, GoingWell, Company
    <3> HIDE DEF status
    <3>3. AcceptsEnd(s, status, now)
      BY <2>2, <2>3, <3>1, <3>2, OrderlyCanEnd
    <3> QED BY <3>3 DEF status
  <2>5. AcceptsEnd(s, TurnStatus(s, FailureStatus(s)), now)
    <3> DEFINE status == TurnStatus(s, FailureStatus(s))
    <3>1. /\ status \in {"failed", "outcome_unknown"}
          /\ status # "outcome_unknown" => \A o \in Operations : ~ UncertainOperation(s, o)
      BY DEF TurnStatus, FailureStatus
    <3> HIDE DEF status
    <3>2. status # "outcome_unknown" =>
            /\ \A a \in Attempts : s.att[a] = "running" => a \notin s.effect \cup s.partial
            /\ \A o \in Operations : s.op[o] # "outcome_unknown"
      BY <2>2, <2>3, <3>1, CertainMeansNoEffect, IdentityAssumption DEF UncertainOperation
    <3>3. AcceptsEnd(s, status, now)
      BY <2>2, <2>3, <3>1, <3>2, OrderlyCanEnd
    <3> QED BY <3>3 DEF status
  <2> QED BY <2>4, <2>5
<1> QED BY <1>1, HostInvariant, TurnInvariant, PTL

-----------------------------------------------------------------------------
(* The authority keeps the promise of RunOutcome.                          *)

\* The ledger tells how far the effect of a tool really is: a handler that was
\* called has crossed its effect boundary, so a receipt comes with its success.
LEMMA ReceiptTells ==
    ASSUME NEW s, NEW a \in s.effect, SnapshotInv(s), OpOf[a] \in s.receipt
    PROVE  s.att[a] = "succeeded"
<1>1. a \in Attempts /\ OpOf[a] \in Operations /\ s.att[a] \in AttemptStatus \cup {"absent"}
  BY IdentityAssumption DEF SnapshotInv, Snapshot
<1>2. s.att[a] \notin {"absent", "failed", "cancelled"}
  BY <1>1 DEF SnapshotInv, BoundariesInOrder, NoRetryPastEffect
<1>3. s.op[OpOf[a]] \in Confirmed
  BY <1>1 DEF SnapshotInv, ReceiptsMatchStatus
<1>4. s.att[a] \notin {"running", "outcome_unknown"}
  BY <1>1, <1>3 DEF SnapshotInv, ReceiptsMatchStatus, Confirmed, OpenOperation
<1> QED BY <1>1, <1>2, <1>4 DEF AttemptStatus, TerminalAttempt

LEMMA EffectInLedger ==
    ASSUME HostInv
    PROVE  \A o \in ToolOperations :
             EffectOf(o) = IF \A a \in AttemptsOf(o) : a \notin world THEN "none"
                           ELSE IF o \in snap.receipt THEN "confirmed" ELSE "begun"
<1>1. ASSUME NEW o \in ToolOperations, NEW a \in AttemptsOf(o), a \in world, o \in snap.receipt
      PROVE  snap.att[a] = "succeeded"
  <2>1. a \in snap.effect /\ OpOf[a] = o /\ SnapshotInv(snap)
    BY <1>1 DEF HostInv, TypeOK, EffectsAreAnnounced, ToolOperations, AttemptsOf
  <2> QED BY <1>1, <2>1, ReceiptTells
<1> QED BY <1>1 DEF EffectOf

\* The same after a step.
LEMMA EffectInLedgerNext ==
    ASSUME HostInv'
    PROVE  \A o \in ToolOperations :
             EffectOf(o)' = IF \A a \in AttemptsOf(o) : a \notin world' THEN "none"
                            ELSE IF o \in snap'.receipt THEN "confirmed" ELSE "begun"
<1>1. ASSUME NEW o \in ToolOperations, NEW a \in AttemptsOf(o), a \in world', o \in snap'.receipt
      PROVE  snap'.att[a] = "succeeded"
  <2>1. a \in snap'.effect /\ OpOf[a] = o /\ SnapshotInv(snap')
    BY <1>1 DEF HostInv, TypeOK, EffectsAreAnnounced, ToolOperations, AttemptsOf
  <2> QED BY <1>1, <2>1, ReceiptTells
<1> QED BY <1>1 DEF EffectOf

\* When a run has ended as known, every handler that was called has a receipt.
LEMMA KnownMeansReceipts ==
    ASSUME NEW s, NEW a \in s.effect, SnapshotInv(s), s.run \in KnownTerminalRun
    PROVE  OpOf[a] \in s.receipt
  BY IdentityAssumption
     DEF SnapshotInv, Snapshot, BoundariesInOrder, TerminalRunSettled, Unconfirmed

\* A step without an external call is a step or a stutter of the promise if it
\* keeps the receipts and the outcome, adds one receipt to an open run, or ends
\* an open run.
LEMMA PromiseByLedger ==
    ASSUME HostInv, HostInv', world' = world,
           \/ /\ snap'.receipt = snap.receipt
              /\ OutcomeOf(snap') = OutcomeOf(snap)
           \/ /\ \E o \in Operations : snap'.receipt = snap.receipt \cup {o}
              /\ OutcomeOf(snap) = "open" /\ OutcomeOf(snap') = "open"
           \/ /\ snap.receipt \subseteq snap'.receipt
              /\ OutcomeOf(snap) = "open" /\ snap'.run \in TerminalRun
    PROVE  Promise!Next \/ UNCHANGED Promise!vars
<1>1. \A o \in ToolOperations :
        EffectOf(o) = IF \A a \in AttemptsOf(o) : a \notin world THEN "none"
                      ELSE IF o \in snap.receipt THEN "confirmed" ELSE "begun"
  BY EffectInLedger
<1>2. \A o \in ToolOperations :
        EffectOf(o)' = IF \A a \in AttemptsOf(o) : a \notin world THEN "none"
                       ELSE IF o \in snap'.receipt THEN "confirmed" ELSE "begun"
  BY EffectInLedgerNext
<1>3. ASSUME \A o \in ToolOperations : EffectOf(o)' = EffectOf(o),
             OutcomeOf(snap') = OutcomeOf(snap)
      PROVE  UNCHANGED Promise!vars
  BY <1>3 DEF Promise!vars
<1>4. CASE snap'.receipt = snap.receipt /\ OutcomeOf(snap') = OutcomeOf(snap)
  BY <1>1, <1>2, <1>3, <1>4
<1>5. CASE /\ \E o \in Operations : snap'.receipt = snap.receipt \cup {o}
           /\ OutcomeOf(snap) = "open" /\ OutcomeOf(snap') = "open"
  <2>1. PICK o \in Operations : snap'.receipt = snap.receipt \cup {o}
    BY <1>5
  <2>2. \A p \in ToolOperations \ {o} : EffectOf(p)' = EffectOf(p)
    BY <1>1, <1>2, <2>1
  <2>3. CASE o \in ToolOperations /\ EffectOf(o)' # EffectOf(o)
    <3>1. EffectOf(o) = "begun" /\ EffectOf(o)' = "confirmed"
      BY <1>1, <1>2, <2>1, <2>3
    <3>2. Promise!Confirm(o)
      BY <1>5, <2>2, <2>3, <3>1 DEF Promise!Confirm
    <3> QED BY <2>3, <3>2 DEF Promise!Next
  <2>4. CASE o \notin ToolOperations \/ EffectOf(o)' = EffectOf(o)
    BY <1>3, <1>5, <2>2, <2>4
  <2> QED BY <2>3, <2>4
<1>6. CASE /\ snap.receipt \subseteq snap'.receipt
           /\ OutcomeOf(snap) = "open" /\ snap'.run \in TerminalRun
  <2>1. /\ OutcomeOf(snap') \in {"known", "unknown"}
        /\ OutcomeOf(snap') = "known" => snap'.run \in KnownTerminalRun
    BY <1>6 DEF OutcomeOf, TerminalRun
  <2>2. \A o \in ToolOperations : EffectOf(o)' \in {"none", "begun", "confirmed"}
    BY <1>2
  <2>3. \A o \in ToolOperations : EffectOf(o)' # EffectOf(o) =>
           EffectOf(o) = "begun" /\ EffectOf(o)' = "confirmed"
    BY <1>1, <1>2, <1>6
  <2>4. ASSUME snap'.run \in KnownTerminalRun, NEW o \in ToolOperations
        PROVE  EffectOf(o)' # "begun"
    <3>1. ASSUME NEW a \in AttemptsOf(o), a \in world PROVE o \in snap'.receipt
      <4>1. a \in snap'.effect /\ OpOf[a] = o /\ SnapshotInv(snap')
        BY <3>1 DEF HostInv, TypeOK, EffectsAreAnnounced, ToolOperations, AttemptsOf
      <4> QED BY <2>4, <4>1, KnownMeansReceipts
    <3> QED BY <1>2, <3>1
  <2>5. Promise!End(OutcomeOf(snap'))
    BY <1>6, <2>1, <2>2, <2>3, <2>4 DEF Promise!End
  <2> QED BY <2>1, <2>5 DEF Promise!Next
<1> QED BY <1>4, <1>5, <1>6
\* The external call of a tool begins the effect of its operation, unless an
\* earlier attempt of it was called already: the attempt is announced and
\* unconfirmed, so the run has no known outcome.
LEMMA ExecuteBegins ==
    ASSUME HostInv, HostInv', Execute
    PROVE  Promise!Next \/ UNCHANGED Promise!vars
<1>1. /\ cur \in Attempts /\ OpOf[cur] \in Operations /\ Evident(cur)
      /\ snap.att[cur] \in {"running", "outcome_unknown"}
      /\ snap' = snap /\ world' = world \cup {cur}
      /\ SnapshotInv(snap)
  BY IdentityAssumption DEF Execute, HostInv, TypeOK, Company, Busy
<1> PICK o \in Operations : o = OpOf[cur]
  BY <1>1
<1>2. o \in snap.dispatched /\ o \notin snap.receipt
  BY <1>1 DEF Evident, SnapshotInv, BoundariesInOrder, ReceiptsMatchStatus, Confirmed, OpenOperation
<1>3. snap.run \notin KnownTerminalRun
  BY <1>1, <1>2 DEF SnapshotInv, TerminalRunSettled, Unconfirmed
<1>4. OutcomeOf(snap) # "known" /\ OutcomeOf(snap') = OutcomeOf(snap)
  BY <1>1, <1>3 DEF OutcomeOf
<1>5. \A p \in ToolOperations :
        EffectOf(p) = IF \A a \in AttemptsOf(p) : a \notin world THEN "none"
                      ELSE IF p \in snap.receipt THEN "confirmed" ELSE "begun"
  BY EffectInLedger
<1>6. \A p \in ToolOperations :
        EffectOf(p)' = IF \A a \in AttemptsOf(p) : a \notin world \cup {cur} THEN "none"
                       ELSE IF p \in snap.receipt THEN "confirmed" ELSE "begun"
  BY <1>1, EffectInLedgerNext
<1>7. \A p \in ToolOperations \ {o} : EffectOf(p)' = EffectOf(p)
  BY <1>5, <1>6 DEF AttemptsOf
<1>8. CASE o \in ToolOperations /\ EffectOf(o) = "none"
  <2>1. EffectOf(o)' = "begun"
    <3>1. cur \in AttemptsOf(o)
      BY <1>1 DEF AttemptsOf
    <3> QED BY <1>2, <1>6, <1>8, <3>1
  <2>2. Promise!Begin(o)
    BY <1>4, <1>7, <1>8, <2>1 DEF Promise!Begin
  <2> QED BY <1>8, <2>2 DEF Promise!Next
<1>9. CASE ~ (o \in ToolOperations /\ EffectOf(o) = "none")
  <2>1. \A p \in ToolOperations : EffectOf(p)' = EffectOf(p)
    BY <1>2, <1>5, <1>6, <1>7, <1>9
  <2> QED BY <1>4, <2>1 DEF Promise!vars
<1> QED BY <1>8, <1>9

\* Every step of the turn or of its environment is a step or a stutter of the
\* promise.
LEMMA AuthorityPromiseStep ==
    ASSUME HostInv, HostInv', Next
    PROVE  Promise!Next \/ UNCHANGED Promise!vars
<1>0. SnapshotInv(snap) /\ snap \in Snapshot
  BY DEF HostInv, TypeOK, SnapshotInv
<1>a. ASSUME OpenRun(snap) \/ snap.run = "absent" PROVE OutcomeOf(snap) = "open"
  BY <1>a DEF OpenRun, OutcomeOf, KnownTerminalRun
<1>b. ASSUME snap' = snap, world' = world PROVE Promise!Next \/ UNCHANGED Promise!vars
  BY <1>b, PromiseByLedger
<1>1. CASE \E t \in Turns : BeginTurn(t)
  <2>1. /\ snap.run = "absent" /\ snap'.run = "running" /\ snap'.receipt = snap.receipt
        /\ world' = world
    BY <1>0, <1>1 DEF BeginTurn, AcceptsRunCreated, Begun, TurnCreated, RunTransitioned,
       RunCreated, Snapshot
  <2>2. OutcomeOf(snap) = OutcomeOf(snap')
    BY <2>1 DEF OutcomeOf, KnownTerminalRun
  <2> QED BY <2>1, <2>2, PromiseByLedger
<1>2. CASE \/ (\E a \in Attempts : Request(a) \/ Retry(a) \/ BeginCall(a))
           \/ (\E A \in SUBSET ToolAttempts : Batch(A)) \/ Gathered
           \/ (\E a \in Attempts, r \in {"ok", "error", "partial"} : Answer(a, r))
           \/ (\E st \in {"completed", "failed", "outcome_unknown"} : Return(st))
           \/ Refuse \/ Abandon \/ Raise \/ ReadClock \/ CommandRaises \/ Tick \/ Crash
  BY <1>2, <1>b DEF Request, Retry, BeginCall, Batch, Gathered, Answer, Return, Refuse, Abandon,
     Raise, ReadClock, CommandRaises, Tick, Crash
<1>3. CASE Execute
  BY <1>3, ExecuteBegins
<1>4. CASE \/ CreateTool \/ StartAttempt
           \/ RecordSuccess \/ RecordProviderError \/ RecordUnknown
           \/ (\E st \in {"completed", "failed"}, A \in Fallbacks : CompleteTool(st, A))
  <2>1. Reports
    BY <1>4, CreateToolFrame, StartAttemptFrame, RecordSuccessFrame, RecordProviderErrorFrame,
       RecordUnknownFrame, CompleteToolFrame
  <2>2. world' = world
    BY <1>4 DEF CreateTool, StartAttempt, RecordSuccess, RecordProviderError, RecordUnknown,
       CompleteTool, Commit
  <2>3. /\ OutcomeOf(snap) = "open" /\ OutcomeOf(snap') = "open"
        /\ \/ snap'.receipt = snap.receipt
           \/ \E o \in Operations : snap'.receipt = snap.receipt \cup {o}
    BY <1>a, <2>1 DEF Reports, OnlyTouches, OutcomeOf, OpenRun
  <2> QED BY <2>2, <2>3, PromiseByLedger
<1>5. CASE FinishTurn \/ FailTurn
  <2>1. /\ stamp # NoStamp /\ Owns(snap, Self, stamp) /\ world' = world
        /\ \E status : AcceptsEnd(Held, status, now) /\ snap' = Ended(Held, status)
    BY <1>5 DEF FinishTurn, FailTurn, Owned, Commit
  <2>2. Held \in Snapshot /\ Held.receipt = snap.receipt /\ OpenRun(snap)
    BY <2>1, HeldFrame
  <2> HIDE DEF Held
  <2>3. snap.receipt \subseteq snap'.receipt /\ snap'.run \in TerminalRun
    BY <2>1, <2>2, EndFrame DEF AcceptsEnd, AcceptsFinalize
  <2> QED BY <1>a, <2>1, <2>2, <2>3, PromiseByLedger
<1>6. CASE Recover
  <2>1. OpenRun(snap) /\ snap' = Recovered(snap) /\ world' = world
    BY <1>6 DEF Recover, Expired
  <2>2. CASE ResumeAllowed(snap)
    <3>1. snap'.receipt = snap.receipt /\ snap'.run \in {"waiting", snap.run}
      BY <1>0, <2>1, <2>2, RecoveryFrame
    <3>2. OutcomeOf(snap') = OutcomeOf(snap)
      BY <2>1, <3>1 DEF OpenRun, OutcomeOf, KnownTerminalRun
    <3> QED BY <2>1, <3>1, <3>2, PromiseByLedger
  <2>3. CASE ~ ResumeAllowed(snap)
    <3>1. snap.receipt \subseteq snap'.receipt /\ snap'.run \in TerminalRun
      BY <1>0, <2>1, <2>3, RecoveryFrame DEF TerminalRun
    <3> QED BY <1>a, <2>1, <3>1, PromiseByLedger
  <2> QED BY <2>2, <2>3
<1>7. CASE TakeOver
  <2>1. snap'.receipt = snap.receipt /\ snap'.run = snap.run /\ world' = world
    BY <1>0, <1>7 DEF TakeOver, LeaseAcquired, Snapshot
  <2>2. OutcomeOf(snap') = OutcomeOf(snap)
    BY <2>1 DEF OutcomeOf
  <2> QED BY <2>1, <2>2, PromiseByLedger
<1>8. CASE CancelWaiting
  <2>1. /\ OpenRun(snap) /\ snap'.run \in TerminalRun /\ snap.receipt \subseteq snap'.receipt
        /\ world' = world
    BY <1>0, <1>8, CancellationFrame DEF TerminalRun, KnownTerminalRun, CancelWaiting
  <2> QED BY <1>a, <2>1, PromiseByLedger
<1> QED
  BY <1>1, <1>2, <1>3, <1>4, <1>5, <1>6, <1>7, <1>8 DEF Next

\* The authority implements RunOutcome, for the handlers that really ran: a tool
\* takes effect at most once per operation as far as the ledger's user can tell,
\* the run ends at most once, and a known outcome leaves no effect unconfirmed
\* and lets none follow.
THEOREM AuthorityKeepsPromise == Spec => KeepsPromise
<1>1. Init => Promise!Init
  <2> SUFFICES ASSUME Init PROVE Promise!Init
    OBVIOUS
  <2>1. snap.run = "absent" /\ world = {}
    BY DEF Init, EmptySnapshot
  <2> QED
    BY <2>1 DEF Promise!Init, OutcomeOf, EffectOf, KnownTerminalRun
<1>2. HostInv /\ HostInv' /\ [Next]_vars => [Promise!Next]_(Promise!vars)
  <2>1. CASE UNCHANGED vars
    BY <2>1 DEF vars, Promise!vars, EffectOf
  <2> QED
    BY <2>1, AuthorityPromiseStep
<1> QED
  BY <1>1, <1>2, HostInvariant, PTL DEF Spec, KeepsPromise, Promise!Spec
=============================================================================

----------------------------- MODULE RunAuthority ----------------------------
(***************************************************************************)
(* One governed turn: a host (run_once_result of the coding agent, or an   *)
(* embedder of the agent core) drives the agent loop, and the loop reports *)
(* every provider call and tool call to a RunAuthority                     *)
(* (run_integrity/adapters.py), which records it in the ledger before and  *)
(* after it happens.  A provider call is made alone; the parallel-safe     *)
(* tools of a batch are members of one asyncio.gather, each of which runs  *)
(* until it awaits its handler, so that several handlers are under way at  *)
(* once, but no two commands of the authority interleave.  The gather      *)
(* waits for all of its members before it raises what one of them raised.  *)
(* A tool that is not parallel-safe is a batch of one.                     *)
(*                                                                         *)
(* Around the host live a recovery worker that calls recover_expired, and  *)
(* another owner that may take an expired or unowned run over and cancel   *)
(* it; both run in other processes, as does the clock.  The host may crash *)
(* in any state.                                                           *)
(*                                                                         *)
(* A command of the authority takes two steps, because _owned reads the    *)
(* clock (adapters.py 220) before the store waits for BEGIN IMMEDIATE:     *)
(* ReadClock, then either the whole transaction or an exception.           *)
(***************************************************************************)
EXTENDS RunCommands

CONSTANTS
    Self, Other,      \* the authority's owner_id, and another owner's
    NoAttempt, NoStamp,
    LastCommand,      \* bound: the host starts no command after this time
    MaxTime           \* bound: the clock stops here

ASSUME AuthorityAssumption ==
    /\ Self \in Owners /\ Other \in Owners /\ Self # Other
    /\ NoAttempt \notin Attempts
    /\ NoStamp \notin Nat
    /\ LastCommand \in Nat
    /\ MaxTime \in Nat
    /\ \A a \in Attempts : KindOf[OpOf[a]] \in {"provider", "tool"}
    /\ \A p \in Owners, t \in 0..(MaxTime + Duration) :
           [owner |-> p, expires |-> t] \in Leases

VARIABLES
    snap,      \* the durable projection
    now,       \* the wall clock
    pc,        \* where the host is in its turn
    cur,       \* the attempt the host is busy with
    queue,     \* the tool calls of the gather that have not begun
    open,      \* the attempts whose external call may be under way
    raised,    \* a member of the gather raised
    result,    \* what the external call, or the tool, answered
    stamp,     \* the clock reading of the command under way
    active,    \* RunAuthority._active is set
    garbled,   \* ActiveRunContext.partial_output
    world      \* the attempts whose external call was really made

vars == <<snap, now, pc, cur, queue, open, raised, result, stamp, active, garbled, world>>
tasks == <<queue, open, raised>>
host == <<pc, cur, tasks, result, active, garbled>>

Commanding == {"creating", "starting", "recording", "completing", "finishing", "failing"}
Place == Commanding \cup
    {"idle", "deciding", "announced", "waiting", "retrying", "over", "crashed"}

ToolAttempts == {a \in Attempts : KindOf[OpOf[a]] = "tool"}

Init ==
    /\ snap = EmptySnapshot /\ now = 0
    /\ pc = "idle" /\ cur = NoAttempt /\ result = "none" /\ stamp = NoStamp
    /\ queue = {} /\ open = {} /\ raised = FALSE
    /\ active = FALSE /\ garbled = FALSE
    /\ world = {}

\* The host is no longer busy with a call.
Done == cur' = NoAttempt /\ result' = "none"

-----------------------------------------------------------------------------
(* The agent loop.                                                         *)

BeginTurn(t) ==
    /\ pc = "idle" /\ ~ active
    /\ now <= LastCommand
    /\ AcceptsRunCreated(snap)
    /\ t \notin snap.turns
    /\ snap' = Begun(snap, [owner |-> Self, expires |-> now + Duration], t)
    /\ pc' = "deciding" /\ active' = TRUE
    /\ UNCHANGED <<now, cur, tasks, result, stamp, garbled, world>>

\* The loop makes its next provider call.
Request(a) ==
    /\ pc = "deciding"
    /\ a \notin ToolAttempts /\ snap.op[OpOf[a]] = "absent"
    /\ cur' = a
    /\ pc' = "starting"
    /\ UNCHANGED <<snap, now, tasks, result, stamp, active, garbled, world>>

\* The retry layer repeats the provider call whose last attempt failed, with
\* the same retry_id and so for the same operation.
Retry(a) ==
    /\ pc = "retrying"
    /\ OpOf[a] = OpOf[cur]
    /\ snap.att[a] = "absent"
    /\ cur' = a
    /\ pc' = "starting"
    /\ UNCHANGED <<snap, now, tasks, result, stamp, active, garbled, world>>

\* A batch of tool calls, of one sequential or several parallel-safe tools.
New(A) == \A a \in A : /\ snap.op[OpOf[a]] = "absent"
                       /\ \A b \in A : OpOf[a] = OpOf[b] => a = b
Batch(A) ==
    /\ pc = "deciding"
    /\ A # {} /\ A \subseteq ToolAttempts /\ New(A)
    /\ queue' = A
    /\ pc' = "waiting"
    /\ UNCHANGED <<snap, now, cur, open, raised, result, stamp, active, garbled, world>>

\* A member of the gather is past its preflight, which may await the user.
BeginCall(a) ==
    /\ pc = "waiting"
    /\ a \in queue
    /\ queue' = queue \ {a}
    /\ cur' = a
    /\ pc' = "creating"
    /\ UNCHANGED <<snap, now, open, raised, result, stamp, active, garbled, world>>

\* A tool call is not executed: authorization refuses it, the turn was
\* cancelled, the tool is unknown.  Its result is recorded all the same.
Refuse ==
    /\ pc = "starting" /\ stamp = NoStamp
    /\ cur \in ToolAttempts
    /\ result' = "refused"
    /\ pc' = "completing"
    /\ UNCHANGED <<snap, now, cur, tasks, stamp, active, garbled, world>>

\* The external call: a provider request or a tool handler.
Execute ==
    /\ pc = "announced"
    /\ world' = world \cup {cur}
    /\ open' = open \cup {cur}
    /\ pc' = "waiting" /\ Done
    /\ UNCHANGED <<snap, now, queue, raised, stamp, active, garbled>>

Answer(a, r) ==
    /\ pc = "waiting"
    /\ a \in open
    /\ r = "partial" => a \notin ToolAttempts
    /\ open' = open \ {a}
    /\ cur' = a
    /\ result' = r
    /\ pc' = "recording"
    /\ UNCHANGED <<snap, now, queue, raised, stamp, active, garbled, world>>

\* A cancelled turn leaves the stream of a provider call: nothing is
\* recorded, and the loop returns ABORTED.
Abandon ==
    /\ pc = "waiting"
    /\ open \ ToolAttempts # {}
    /\ result' = "outcome_unknown"
    /\ pc' = "finishing"
    /\ UNCHANGED <<snap, now, cur, tasks, stamp, active, garbled, world>>

\* All members of the gather have returned or raised.
Gathered ==
    /\ pc = "waiting"
    /\ queue = {} /\ open = {}
    /\ pc' = IF raised THEN "failing" ELSE "deciding"
    /\ raised' = FALSE
    /\ UNCHANGED <<snap, now, cur, queue, open, result, stamp, active, garbled, world>>

\* The loop returns.  turn_outcome_status: COMPLETED is completed, ABORTED and
\* UNKNOWN are outcome_unknown, everything else is failed.
Return(status) ==
    /\ pc = "deciding"
    /\ result' = status
    /\ pc' = "finishing"
    /\ UNCHANGED <<snap, now, cur, tasks, stamp, active, garbled, world>>

\* Any host code raises, or an interrupt hits a call.  An interrupted gather
\* cancels its members, and those that had not begun never do; a handler in an
\* executor thread cannot be stopped and works on.
Raise ==
    /\ pc \in {"deciding", "retrying", "announced", "waiting"}
    /\ pc' = "failing" /\ Done
    /\ queue' = {} /\ raised' = FALSE
    /\ UNCHANGED <<snap, now, open, stamp, active, garbled, world>>

-----------------------------------------------------------------------------
(* The authority's commands.                                               *)

ReadClock ==
    /\ pc \in Commanding
    /\ stamp = NoStamp
    /\ now <= LastCommand
    /\ stamp' = now
    /\ UNCHANGED <<snap, now, host, world>>

\* The command raises: the lease is lost, the kernel rejects an event, the
\* database stays locked, the write fails.  Nothing is committed, and the
\* context is restored.  An error in a member of the gather waits for the
\* others, one elsewhere before the end of the turn reaches fail_turn; an error
\* of finish_turn or fail_turn leaves run_once_result.
CommandRaises ==
    /\ pc \in Commanding
    /\ stamp # NoStamp
    /\ LET inGather == pc \notin {"finishing", "failing"} /\ cur \in ToolAttempts
       IN  /\ pc' = CASE inGather -> "waiting"
                      [] pc \in {"finishing", "failing"} -> "over"
                      [] OTHER -> "failing"
           /\ raised' = (raised \/ inGather)
    /\ stamp' = NoStamp /\ Done
    /\ UNCHANGED <<snap, now, queue, open, active, garbled, world>>

\* _owned: the stamped lease must be good; the transaction body starts from
\* the snapshot with a fresh lease, and commits as a whole.
Owned(place) == pc = place /\ stamp # NoStamp /\ Owns(snap, Self, stamp)
Held         == Renewed(snap, Self, stamp)
Commit(s)    == snap' = s /\ stamp' = NoStamp /\ UNCHANGED <<now, world>>

\* record_tool_execution, phase created.
CreateTool ==
    /\ Owned("creating")
    /\ AcceptsOperationCreated(Held, OpOf[cur])
    /\ Commit(OperationCreated(Held, OpOf[cur]))
    /\ pc' = "starting"
    /\ UNCHANGED <<cur, tasks, result, active, garbled>>

\* Phase started: attempt_started and operation_dispatched, and for a tool
\* also operation_effect_started, in one transaction.  A provider's operation
\* is created by its first attempt.
Created(s, o) == IF s.op[o] = "absent" THEN OperationCreated(s, o) ELSE s
\* Seeded fault: a tool's effect boundary is not recorded.
AnnouncedWithoutEffect(s, a) == Dispatched(AttemptStarted(Created(s, OpOf[a]), a), a)
Announced(s, a) ==
    LET d == Dispatched(AttemptStarted(Created(s, OpOf[a]), a), a)
    IN  IF KindOf[OpOf[a]] = "tool" THEN EffectMarked(d, a) ELSE d
StartAttempt ==
    /\ Owned("starting")
    /\ Held.op[OpOf[cur]] = "absent" => AcceptsOperationCreated(Held, OpOf[cur])
    /\ AcceptsAttemptStarted(Created(Held, OpOf[cur]), cur)
    /\ Commit(Announced(Held, cur))
    /\ pc' = "announced"
    /\ UNCHANGED <<cur, tasks, result, active, garbled>>

\* Phase succeeded: a provider operation is complete, a tool's is completed
\* by a command of its own.
RecordSuccess ==
    /\ Owned("recording")
    /\ result = "ok"
    /\ AcceptsAttemptFinished(Held, cur, "succeeded")
    /\ LET s == AttemptFinished(Held, cur, "succeeded")
           o == OpOf[cur]
       IN  IF KindOf[o] = "provider"
           THEN /\ AcceptsOperationMoved(s, o, "completed")
                /\ Commit(OperationMoved(s, o, "completed"))
                /\ pc' = "deciding" /\ Done
           ELSE /\ Commit(s)
                /\ pc' = "completing" /\ UNCHANGED <<cur, result>>
    /\ UNCHANGED <<tasks, active, garbled>>

\* Phase failed of a provider without output: the attempt failed, and the
\* operation fails with its last attempt, when the retry layer gives up.
LastAttempt(a) == \A b \in AttemptsOf(OpOf[a]) : snap.att[b] # "absent"
RecordProviderError ==
    /\ Owned("recording")
    /\ result = "error"
    /\ KindOf[OpOf[cur]] = "provider"
    /\ AcceptsAttemptFinished(Held, cur, "failed")
    /\ LET s == AttemptFinished(Held, cur, "failed")
           o == OpOf[cur]
       IN  IF LastAttempt(cur)
           THEN /\ AcceptsOperationMoved(s, o, "failed")
                /\ Commit(OperationMoved(s, o, "failed"))
                /\ pc' = "failing" /\ Done
           ELSE /\ Commit(s)
                /\ pc' = "retrying" /\ UNCHANGED <<cur, result>>
    /\ UNCHANGED <<tasks, active, garbled>>

\* Phase failed after partial output, or of a tool: nobody knows what took
\* effect.  The authority raises after the commit for a tool; for a provider
\* the retry layer re-raises the stream's error.
RecordUnknown ==
    /\ Owned("recording")
    /\ \/ result = "partial"
       \/ result = "error" /\ KindOf[OpOf[cur]] = "tool"
    /\ LET o == OpOf[cur]
           s == IF result = "partial" THEN PartialMarked(Held, cur) ELSE Held
           u == AttemptFinished(s, cur, "outcome_unknown")
       IN  /\ result = "partial" => AcceptsPartialOutput(Held, cur)
           /\ AcceptsAttemptFinished(s, cur, "outcome_unknown")
           /\ AcceptsOperationMoved(u, o, "outcome_unknown")
           /\ Commit(OperationMoved(u, o, "outcome_unknown"))
    /\ garbled' = (garbled \/ result = "partial")
    /\ pc' = IF cur \in ToolAttempts THEN "waiting" ELSE "failing"
    /\ raised' = (raised \/ cur \in ToolAttempts)
    /\ Done
    /\ UNCHANGED <<queue, open, active>>

\* Phase completed: the tool's result, good or bad, is its receipt.  After a
\* bad one the registry may go on to a fallback tool, a new operation.
CompleteTool(st, fallback) ==
    /\ fallback \subseteq ToolAttempts \ queue
    /\ Owned("completing")
    /\ result = "refused" => st = "failed"
    /\ AcceptsOperationMoved(Held, OpOf[cur], st)
    /\ Commit(OperationMoved(Held, OpOf[cur], st))
    /\ fallback # {} => st = "failed" /\ New(queue \cup fallback)
    /\ queue' = queue \cup fallback
    /\ pc' = "waiting" /\ Done
    /\ UNCHANGED <<open, raised, active, garbled>>

-----------------------------------------------------------------------------
(* The end of the turn.                                                    *)

UncertainOperation(s, o) ==         \* _operation_is_uncertain
    \/ s.op[o] = "outcome_unknown"
    \/ /\ s.op[o] # "absent"
       /\ o \notin s.receipt
       /\ \/ KindOf[o] = "provider" /\ (PartialOutput(s, o) \/ ActiveDispatch(s, o))
          \/ KindOf[o] = "tool" /\ EffectStarted(s, o)

UncertainAttempt(s, a) ==           \* _attempt_is_uncertain
    \/ a \in s.effect \cup s.partial
    \/ KindOf[OpOf[a]] = "provider" /\ a \in s.sent

\* _finish_open_operations: the status the run really gets, ...
TurnStatus(s, status) ==
    IF garbled \/ (status = "completed" /\ Unfinished(s) # {})
    THEN "outcome_unknown" ELSE status

\* ... and what becomes of each running attempt and unfinished operation.
FinalAttempt(s, status) ==
    [a \in Attempts |->
        IF status = "outcome_unknown"
           /\ UncertainOperation(s, OpOf[a]) /\ UncertainAttempt(s, a)
        THEN "outcome_unknown" ELSE "failed"]
FinalOperation(s, status) ==
    [o \in Operations |->
        IF status = "outcome_unknown" /\ UncertainOperation(s, o)
        THEN "outcome_unknown" ELSE "failed"]

FinalSweep(s, status)  == AttemptsSwept(s, FinalAttempt(s, status))
FinalClosed(s, status) == OperationsClosed(FinalSweep(s, status), FinalOperation(s, status))

AcceptsEnd(s, status, time) ==
    /\ AcceptsSweep(s, FinalAttempt(s, status))
    /\ AcceptsClosing(FinalSweep(s, status), FinalOperation(s, status))
    /\ AcceptsFinalize(FinalClosed(s, status), Self, status, time)
Ended(s, status) == Finalized(FinalClosed(s, status), status)

\* Seeded fault: the exception path always reports a failed turn.
AlwaysFailed(s) == "failed"
\* The exception path asks for outcome_unknown past an uncertain operation.
FailureStatus(s) ==
    IF \E o \in Operations : UncertainOperation(s, o) THEN "outcome_unknown" ELSE "failed"

\* finalize_run reads the clock again.
FinishTurn ==
    /\ Owned("finishing")
    /\ LET status == TurnStatus(Held, result)
       IN  /\ AcceptsEnd(Held, status, now)
           /\ Commit(Ended(Held, status))
    /\ pc' = "over" /\ active' = FALSE /\ Done
    /\ UNCHANGED <<tasks, garbled>>

FailTurn ==
    /\ Owned("failing")
    /\ LET status == TurnStatus(Held, FailureStatus(Held))
       IN  /\ AcceptsEnd(Held, status, now)
           /\ Commit(Ended(Held, status))
    /\ pc' = "over" /\ active' = FALSE /\ Done
    /\ UNCHANGED <<tasks, garbled>>

-----------------------------------------------------------------------------
(* The environment.                                                        *)

\* Time is counted from the begin of the turn.
Tick ==
    /\ pc # "idle"
    /\ now < MaxTime
    /\ now' = now + 1
    /\ UNCHANGED <<snap, host, stamp, world>>

Crash ==
    /\ pc \notin {"idle", "over", "crashed"}
    /\ pc' = "crashed" /\ stamp' = NoStamp /\ Done
    /\ active' = FALSE /\ garbled' = FALSE /\ queue' = {} /\ raised' = FALSE
    /\ UNCHANGED <<snap, now, open, world>>

Recover ==
    /\ Expired(snap, now)
    /\ AcceptsRecovery(snap)
    /\ snap' = Recovered(snap)
    /\ UNCHANGED <<now, host, stamp, world>>

\* Another embedder acquires an unowned or expired run; once recovery left
\* it waiting, it may cancel what is open and the run.
TakeOver ==
    /\ OpenRun(snap)
    /\ ~ Unexpired(snap, now)
    /\ now <= LastCommand
    /\ snap' = LeaseAcquired(snap, [owner |-> Other, expires |-> now + Duration])
    /\ UNCHANGED <<now, host, stamp, world>>

CancelWaiting ==
    /\ Owns(snap, Other, now)
    /\ snap.run = "waiting"
    /\ LET cancel == [o \in Operations |-> "cancelled"]
           s      == OperationsClosed(snap, cancel)
       IN  /\ AcceptsClosing(snap, cancel)
           /\ AcceptsFinalize(s, Other, "cancelled", now)
           /\ snap' = Finalized(s, "cancelled")
    /\ UNCHANGED <<now, host, stamp, world>>

-----------------------------------------------------------------------------
Fallbacks == {{}} \cup {{a} : a \in ToolAttempts}

Next ==
    \/ \E t \in Turns : BeginTurn(t)
    \/ \E a \in Attempts : Request(a) \/ Retry(a) \/ BeginCall(a)
    \/ \E A \in SUBSET ToolAttempts : Batch(A)
    \/ Gathered
    \/ Refuse
    \/ Execute
    \/ \E a \in Attempts, r \in {"ok", "error", "partial"} : Answer(a, r)
    \/ \E st \in {"completed", "failed", "outcome_unknown"} : Return(st)
    \/ Abandon
    \/ Raise
    \/ ReadClock
    \/ CommandRaises
    \/ CreateTool
    \/ StartAttempt
    \/ RecordSuccess
    \/ RecordProviderError
    \/ RecordUnknown
    \/ \E st \in {"completed", "failed"}, A \in Fallbacks : CompleteTool(st, A)
    \/ FinishTurn
    \/ FailTurn
    \/ Tick
    \/ Crash
    \/ Recover
    \/ TakeOver
    \/ CancelWaiting

Spec == Init /\ [][Next]_vars

-----------------------------------------------------------------------------
(* Properties.                                                             *)

\* Every variable has its type, and the projection satisfies the invariant
\* of the kernel, whatever the authority and recovery do to it.
TypeOK ==
    /\ SnapshotInv(snap)
    /\ now \in 0..MaxTime
    /\ pc \in Place
    /\ cur \in Attempts \cup {NoAttempt}
    /\ queue \subseteq ToolAttempts /\ open \subseteq world /\ raised \in BOOLEAN
    /\ result \in {"none", "ok", "error", "partial", "refused"} \cup TerminalRun
    /\ stamp \in (0..MaxTime) \cup {NoStamp}
    /\ active \in BOOLEAN /\ garbled \in BOOLEAN
    /\ world \subseteq Attempts

\* Evidence comes before effects: no provider is called without a durable
\* dispatch, and no tool handler runs without a durable effect_started, even
\* if the host dies in between (adapters.py 400-403, roadmap 107-109).
EffectsAreAnnounced ==
    \A a \in world :
        /\ a \in snap.sent
        /\ KindOf[OpOf[a]] = "tool" => a \in snap.effect

\* While an external call may still be under way, the ledger never says it
\* failed, whoever ends the run: the failure of another member of the batch, an
\* interrupt that leaves threads behind, a cancelled turn, recovery or another
\* owner can only call it unknown (adapters.py 530-566, store.py 970-994).
InFlightNotWrittenOff ==
    \A a \in open : snap.att[a] \in {"running", "outcome_unknown"}

\* The end of a turn never asks the kernel for an inadmissible transition,
\* whatever operations the turn left open (adapters.py 517-569): an owner
\* whose lease is good can always end its run.
TurnCanEnd ==
    Owns(snap, Self, now) =>
        LET s == Renewed(snap, Self, now)
            failure == FailureStatus(s)
        IN  /\ pc = "finishing" => AcceptsEnd(s, TurnStatus(s, result), now)
            /\ pc = "failing"   => AcceptsEnd(s, TurnStatus(s, failure), now)

\* Under the authority's protocol recover_expired never raises: wherever the
\* host died, every event recovery appends is admissible (store.py 843-1047).
RecoveryNeverRejected == Expired(snap, now) => AcceptsRecovery(snap)

\* The abstract promise about the handlers that really ran: a tool's effect
\* begins when its handler is called, and is confirmed by a receipt next to a
\* succeeded attempt.  A run ends as completed, failed or cancelled only if
\* every effect is confirmed, and nothing takes effect afterwards.
ToolOperations == {o \in Operations : KindOf[o] = "tool"}
EffectOf(o) ==
    IF \A a \in AttemptsOf(o) : a \notin world THEN "none"
    ELSE IF o \in snap.receipt /\ \E a \in AttemptsOf(o) : snap.att[a] = "succeeded"
    THEN "confirmed" ELSE "begun"
Promise == INSTANCE RunOutcome WITH
    Operations <- ToolOperations,
    outcome <- OutcomeOf(snap),
    effects <- [o \in ToolOperations |-> EffectOf(o)]
KeepsPromise == Promise!Spec

\* A run that recovery offers for resumption (resume_allowed, status waiting) has
\* left nothing behind: no call of its old owner, dead or only slow, is under way
\* or about to be made, each tool whose handler ran has its receipt, and each
\* provider call its outcome, so that whoever resumes repeats no effect
\* (store.py 970-1046).
ResumableRunsAreQuiet ==
    snap.run = "waiting" =>
        /\ open = {} /\ pc # "announced"
        /\ \A a \in world : IF a \in ToolAttempts THEN OpOf[a] \in snap.receipt
                             ELSE snap.att[a] \notin {"running", "outcome_unknown"}

\* Who may be at work together: a provider call has no other call beside it,
\* so a turn that returns in order leaves a call under way only by abandoning it.
Busy == {"creating", "starting", "announced", "recording", "retrying", "completing"}
Company ==
    /\ pc \in Busy => /\ cur \in Attempts
                      /\ IF cur \in ToolAttempts THEN open \subseteq ToolAttempts
                         ELSE open = {} /\ queue = {}
    /\ pc \in {"creating", "completing"} => cur \in ToolAttempts
    /\ pc = "recording" => cur \notin open
    /\ pc \in {"idle", "deciding"} => open = {} /\ queue = {}
    /\ pc = "waiting" => open \subseteq ToolAttempts \/ (queue = {} /\ \E a \in open : open = {a})
    /\ pc = "finishing" => open = {} \/ result = "outcome_unknown"

\* The inductive invariant behind the first three: company, and what the ledger
\* knows of a call before and while it is under way.
Evident(a) ==
    /\ a \in snap.sent
    /\ KindOf[OpOf[a]] = "tool" => a \in snap.effect
HostInv ==
    /\ TypeOK
    /\ Company
    /\ EffectsAreAnnounced
    /\ pc = "announced" => Evident(cur) /\ snap.att[cur] \in {"running", "outcome_unknown"}
    /\ InFlightNotWrittenOff

\* Behind TurnCanEnd and RecoveryNeverRejected: what the authority's protocol
\* adds to the kernel's rules.  A run is running while its owner holds the
\* lease, output is partial only for a provider, and an unknown attempt has
\* already made its operation unknown, ...
Orderly(s) ==
    /\ s.run # "pending"
    /\ HeldBy(s, Self) => s.run = "running"
    /\ \A a \in s.partial : KindOf[OpOf[a]] = "provider"
    /\ \A a \in Attempts : s.att[a] = "outcome_unknown" => s.op[OpOf[a]] = "outcome_unknown"

\* ... as long as nothing went wrong in the turn, only calls under way have a
\* running attempt, and the owner's run has no unknown operation, ...
GoingWell ==
    \/ pc \in Busy \cup {"waiting", "deciding"} /\ ~ raised
    \/ pc = "finishing" /\ result # "outcome_unknown"
Undisturbed ==
    GoingWell =>
      /\ \A a \in Attempts : snap.att[a] = "running" =>
            a \in open \/ (pc \in {"announced", "recording"} /\ a = cur)
      /\ HeldBy(snap, Self) => \A o \in Operations : snap.op[o] # "outcome_unknown"

\* ... and only a member of a gather of tools can raise before the gather ends.
RaisedInGather ==
    raised => /\ pc \in Busy \cup {"waiting"}
              /\ open \subseteq ToolAttempts
              /\ pc \in Busy => cur \in ToolAttempts
TurnInv ==
    /\ Orderly(snap)
    /\ Undisturbed
    /\ RaisedInGather
    /\ pc = "finishing" => result \in {"completed", "failed", "outcome_unknown"}

\* roadmap.md 105-106: "Every authority write validates an unexpired matching
\* owner in the same SQLite transaction".
ExpiredOwnerNeverWrites ==
    [][snap' # snap /\ pc' # pc /\ pc # "idle" => Unexpired(snap, now)]_vars
=============================================================================

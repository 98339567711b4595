------------------------------- MODULE Messenger -----------------------------
(***************************************************************************)
(* One channel of the messenger: MessengerManager (manager.py) on top of   *)
(* MessengerState (state.py), which several processes share through Redis. *)
(* A delivery of a platform event becomes a background task; a task either *)
(* takes the channel's agent lock, answers its message and then the        *)
(* follow-ups that arrived meanwhile, or queues its message as a follow-up *)
(* of the task that holds the lock.                                        *)
(*                                                                         *)
(* Every Redis command or Lua script is one step, because a task awaits    *)
(* it.  A follow-up is named by the task that brought it.  The manager has *)
(* a Redis state and no conversation_factory.                              *)
(***************************************************************************)
EXTENDS Naturals, Sequences

CONSTANTS
    Events,          \* message_ids
    Tasks, NoTask,   \* deliveries, each with the task it may start
    EventOf,         \* delivery |-> event
    MaxPending,      \* followup_max_pending
    MaxRounds,       \* max_followup_rounds
    MaxLetters       \* dead_letter_max

ASSUME MessengerAssumption ==
    /\ NoTask \notin Tasks
    /\ EventOf \in [Tasks -> Events]
    /\ MaxPending \in Nat \ {0}
    /\ MaxRounds \in Nat
    /\ MaxLetters \in Nat \ {0}

VARIABLES
    seen,      \* events whose dedup key exists
    lock,      \* the task whose token the agent lock holds
    queue,     \* the follow-up list
    letters,   \* dead letters, newest first
    pc,        \* where each task is
    round,     \* rounds of _drain_followups a task has finished
    batch,     \* follow-ups a task has drained and not answered
    answered,  \* messages an agent has answered
    overrun    \* tasks whose lock expired while they were at work

redis == <<seen, lock, queue, letters>>
vars  == <<seen, lock, queue, letters, pc, round, batch, answered, overrun>>

Ended == {"away", "dropped", "done", "crashed"}
\* Between acquire_agent_lock and the drain that finds nothing more to do.
Working == {"running", "checking", "draining"}
Place == Ended \cup Working \cup
    {"locking", "counting", "pushing", "acking", "releasing", "failing", "dead", "trimming"}

Elements(s) == {s[n] : n \in DOMAIN s}
Goto(t, place) == pc' = [pc EXCEPT ![t] = place]

\* Redis is shared: other processes have seen some of the events before.
Init ==
    /\ seen \in SUBSET Events /\ lock = NoTask /\ queue = << >> /\ letters = << >>
    /\ pc = [t \in Tasks |-> "away"]
    /\ round = [t \in Tasks |-> 0]
    /\ batch = [t \in Tasks |-> << >>]
    /\ answered = {} /\ overrun = {}

-----------------------------------------------------------------------------
(* handle_event.                                                           *)

\* check_event_dedup answers whether the key is new; handle_event takes the
\* answer for "is a duplicate", and returns.
IsNew(t) == EventOf[t] \notin seen
Deliver(t) ==
    /\ pc[t] = "away"
    /\ seen' = seen \cup {EventOf[t]}
    /\ Goto(t, IF IsNew(t) THEN "dropped" ELSE "locking")
    /\ UNCHANGED <<lock, queue, letters, round, batch, answered, overrun>>

-----------------------------------------------------------------------------
(* _process_message without the lock: queue the message.                   *)

\* Seeded fault: the lock is set without NX.
SetAlways == TRUE
LockIsFree == lock = NoTask
AcquireLock(t) ==
    /\ pc[t] = "locking"
    /\ IF LockIsFree
       THEN lock' = t /\ Goto(t, "running")
       ELSE UNCHANGED lock /\ Goto(t, "counting")
    /\ UNCHANGED <<seen, queue, letters, round, batch, answered, overrun>>

\* enqueue_followup: llen, ...
CountQueue(t) ==
    /\ pc[t] = "counting"
    /\ Goto(t, IF Len(queue) >= MaxPending THEN "acking" ELSE "pushing")
    /\ UNCHANGED <<redis, round, batch, answered, overrun>>

\* ... then rpush.  The answer that the queue is full is not looked at.
PushFollowup(t) ==
    /\ pc[t] = "pushing"
    /\ queue' = Append(queue, t)
    /\ Goto(t, "acking")
    /\ UNCHANGED <<seen, lock, letters, round, batch, answered, overrun>>

\* The acknowledgement is posted, or its last retry raises.
Acknowledge(t) ==
    /\ pc[t] = "acking"
    /\ \E place \in {"done", "dead"} : Goto(t, place)
    /\ UNCHANGED <<redis, round, batch, answered, overrun>>

-----------------------------------------------------------------------------
(* _process_message with the lock: answer the message, then drain.         *)

Current(t) == IF batch[t] = << >> THEN t ELSE Head(batch[t])
Rest(t)    == IF batch[t] = << >> THEN << >> ELSE Tail(batch[t])

\* The drain loop goes round at most MaxRounds times.
NextRound(n) == IF n < MaxRounds THEN "checking" ELSE "releasing"

\* _run_agent: the agent answers and the answer is posted.  A drained
\* follow-up is followed by the next one, the last one by another round.
AnswerMessage(t) ==
    /\ pc[t] = "running"
    /\ answered' = answered \cup {Current(t)}
    /\ batch' = [batch EXCEPT ![t] = Rest(t)]
    /\ LET n == IF batch[t] = << >> THEN round[t] ELSE round[t] + 1
       IN  IF Rest(t) # << >>
           THEN UNCHANGED <<pc, round>>
           ELSE /\ round' = [round EXCEPT ![t] = n]
                /\ Goto(t, NextRound(n))
    /\ UNCHANGED <<redis, overrun>>

\* The agent, or posting its answer, raises: the rest of the batch is lost.
AgentRaises(t) ==
    /\ pc[t] = "running"
    /\ batch' = [batch EXCEPT ![t] = << >>]
    /\ Goto(t, "failing")
    /\ UNCHANGED <<redis, round, answered, overrun>>

\* Seeded fault: the token is not compared.
ReleasedByAnyone(t) == NoTask
Released(t) == IF lock = t THEN NoTask ELSE lock

\* release_lock_if_queue_empty.
CheckQueue(t) ==
    /\ pc[t] = "checking"
    /\ IF lock = t /\ queue = << >>
       THEN lock' = NoTask /\ Goto(t, "releasing")
       ELSE UNCHANGED lock /\ Goto(t, "draining")
    /\ UNCHANGED <<seen, queue, letters, round, batch, answered, overrun>>

\* Seeded faults: the list is read but not deleted; an empty drain goes on.
KeptQueue == queue
DrainedQueue == << >>
CheckAgain(t) == Goto(t, "checking")
NothingDrained(t) == Goto(t, "releasing")

\* drain_followups, whoever holds the lock by now.
Drain(t) ==
    /\ pc[t] = "draining"
    /\ IF queue = << >>
       THEN NothingDrained(t) /\ UNCHANGED <<queue, batch>>
       ELSE /\ batch' = [batch EXCEPT ![t] = queue]
            /\ queue' = DrainedQueue
            /\ Goto(t, "running")
    /\ UNCHANGED <<seen, lock, letters, round, answered, overrun>>

\* release_agent_lock in the finally clause, with or without an exception.
ReleaseLock(t) ==
    /\ pc[t] \in {"releasing", "failing"}
    /\ lock' = Released(t)
    /\ Goto(t, IF pc[t] = "failing" THEN "dead" ELSE "done")
    /\ UNCHANGED <<seen, queue, letters, round, batch, answered, overrun>>

\* ltrim keeps the first elements of a list.
First(s, n) == SubSeq(s, 1, IF Len(s) < n THEN Len(s) ELSE n)

\* record_dead_letter, from _on_task_done: lpush, ...
RecordDeadLetter(t) ==
    /\ pc[t] = "dead"
    /\ letters' = <<t>> \o letters
    /\ Goto(t, "trimming")
    /\ UNCHANGED <<seen, lock, queue, round, batch, answered, overrun>>

\* ... then ltrim, which may be a later letter's too.
TrimLetters(t) ==
    /\ pc[t] = "trimming"
    /\ letters' = First(letters, MaxLetters)
    /\ Goto(t, "done")
    /\ UNCHANGED <<seen, lock, queue, round, batch, answered, overrun>>

-----------------------------------------------------------------------------
(* The environment.                                                        *)

\* The process of a task dies; its lock stays until it expires.
Crash(t) ==
    /\ pc[t] \notin Ended
    /\ Goto(t, "crashed")
    /\ batch' = [batch EXCEPT ![t] = << >>]
    /\ UNCHANGED <<redis, round, answered, overrun>>

\* agent_lock_ttl: nothing renews the lock of a task at work.
LockExpires ==
    /\ lock # NoTask
    /\ overrun' = IF pc[lock] \in Working THEN overrun \cup {lock} ELSE overrun
    /\ lock' = NoTask
    /\ UNCHANGED <<seen, queue, letters, pc, round, batch, answered>>

\* followup_queue_ttl and event_dedup_ttl.
QueueExpires ==
    /\ queue # << >>
    /\ queue' = << >>
    /\ UNCHANGED <<seen, lock, letters, pc, round, batch, answered, overrun>>
DedupExpires(e) ==
    /\ e \in seen
    /\ seen' = seen \ {e}
    /\ UNCHANGED <<lock, queue, letters, pc, round, batch, answered, overrun>>

-----------------------------------------------------------------------------
Step(t) ==
    \/ AcquireLock(t)
    \/ CountQueue(t)
    \/ PushFollowup(t)
    \/ Acknowledge(t)
    \/ AnswerMessage(t)
    \/ AgentRaises(t)
    \/ CheckQueue(t)
    \/ Drain(t)
    \/ ReleaseLock(t)
    \/ RecordDeadLetter(t)
    \/ TrimLetters(t)

Next ==
    \/ \E t \in Tasks : Deliver(t) \/ Step(t) \/ Crash(t)
    \/ LockExpires
    \/ QueueExpires
    \/ \E e \in Events : DedupExpires(e)

Spec == Init /\ [][Next]_vars

\* The event loops run every task that is ready; agents and platforms answer
\* or fail in the end.
FairSpec == Spec /\ \A t \in Tasks : WF_vars(Step(t))

-----------------------------------------------------------------------------
(* Properties.                                                             *)

\* As long as no agent outlives its lock, one agent at a time works in the
\* channel (manager.py 198-220).
OneAtATime ==
    \A t, u \in Tasks :
        pc[t] \in Working /\ pc[u] \in Working => t = u \/ {t, u} \cap overrun # {}

\* The inductive invariant behind it: release_lock_if_queue_empty never takes
\* the lock from a task that goes on working, and no other task can
\* (state.py 106-201).
WorkersHoldLock ==
    \A t \in Tasks : pc[t] \in Working => lock = t \/ t \in overrun

\* Only its owner's own steps, or its TTL, take the lock away: a task that is
\* late with its release never releases its successor's lock (state.py 120-128).
OnlyOwnerReleases ==
    [][lock # NoTask /\ lock' # lock =>
           pc'[lock] # pc[lock] \/ pc' = pc]_vars

\* Every accepted message is answered at most once, and never again after it
\* was lost, whatever the interleaving of drains, pushes and expirations.
InBatch(m) == \E t \in Tasks : m \in Elements(Rest(t))
FateOf(m) ==
    IF m \in Elements(queue) \/ InBatch(m) \/ pc[m] \in {"locking", "counting", "pushing"}
    THEN "waiting"
    ELSE IF \E t \in Tasks : pc[t] = "running" /\ Current(t) = m THEN "running"
    ELSE IF m \in answered THEN "answered"
    ELSE IF pc[m] \in {"away", "dropped"} THEN "none"
    ELSE "lost"
Fate == INSTANCE MessageFate WITH
    Messages <- Tasks,
    fate <- [m \in Tasks |-> FateOf(m)]
AnsweredAtMostOnce == Fate!Spec

\* Every task comes to an end, also one that lost its lock while it drained.
TasksEnd == \A t \in Tasks : pc[t] = "locking" ~> pc[t] \in Ended

\* state.py 73, 79: check_event_dedup tells "if event has been processed",
\* and answers "True if event is new (not duplicate)"; a new event is
\* processed and a duplicate is not.
DuplicatesAreDropped ==
    [][\A t \in Tasks : pc[t] = "away" /\ pc'[t] # "away" =>
           (pc'[t] = "dropped" <=> EventOf[t] \in seen)]_vars
=============================================================================

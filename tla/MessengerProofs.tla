---------------------------- MODULE MessengerProofs --------------------------
(***************************************************************************)
(* Mutual exclusion in a channel of the messenger, who may release its     *)
(* lock, and the fate of its messages, for any number of tasks.            *)
(***************************************************************************)
EXTENDS Messenger, TLAPS

\* What the proofs need of the types.
LockTypes ==
    /\ lock \in Tasks \cup {NoTask}
    /\ pc \in [Tasks -> Place]

LockInv == LockTypes /\ WorkersHoldLock

\* A step of one task moves that task only.
LEMMA StepKeepsLockInv ==
    ASSUME LockInv, NEW t \in Tasks, Step(t)
    PROVE  LockInv'
<1> USE DEF LockInv, LockTypes, WorkersHoldLock, Goto, Working, Place, Ended
<1>1. CASE AcquireLock(t)
    BY <1>1, MessengerAssumption DEF AcquireLock, LockIsFree
<1>2. CASE CountQueue(t)
    BY <1>2 DEF CountQueue, redis
<1>3. CASE PushFollowup(t)
    BY <1>3 DEF PushFollowup
<1>4. CASE Acknowledge(t)
    BY <1>4 DEF Acknowledge, redis
<1>5. CASE AnswerMessage(t)
    BY <1>5 DEF AnswerMessage, NextRound, redis
<1>6. CASE AgentRaises(t)
    BY <1>6 DEF AgentRaises, redis
<1>7. CASE CheckQueue(t)
    BY <1>7 DEF CheckQueue
<1>8. CASE Drain(t)
    BY <1>8 DEF Drain, NothingDrained
<1>9. CASE ReleaseLock(t)
    BY <1>9, MessengerAssumption DEF ReleaseLock, Released
<1>10. CASE RecordDeadLetter(t) \/ TrimLetters(t)
    BY <1>10 DEF RecordDeadLetter, TrimLetters
<1> QED
    BY <1>1, <1>2, <1>3, <1>4, <1>5, <1>6, <1>7, <1>8, <1>9, <1>10 DEF Step

LEMMA NextKeepsLockInv ==
    ASSUME LockInv, [Next]_vars
    PROVE  LockInv'
<1> USE DEF LockInv, LockTypes, WorkersHoldLock, Goto, Working, Place, Ended
<1>1. ASSUME NEW t \in Tasks, Deliver(t) PROVE LockInv'
    BY <1>1 DEF Deliver
<1>2. ASSUME NEW t \in Tasks, Step(t) PROVE LockInv'
    BY <1>2, StepKeepsLockInv
<1>3. ASSUME NEW t \in Tasks, Crash(t) PROVE LockInv'
    BY <1>3 DEF Crash, redis
<1>4. CASE LockExpires
    BY <1>4 DEF LockExpires
<1>5. CASE QueueExpires
    BY <1>5 DEF QueueExpires
<1>6. ASSUME NEW ev \in Events, DedupExpires(ev) PROVE LockInv'
    BY <1>6 DEF DedupExpires
<1>7. CASE UNCHANGED vars
    BY <1>7 DEF vars
<1> QED
    BY <1>1, <1>2, <1>3, <1>4, <1>5, <1>6, <1>7 DEF Next

\* A task works on the channel only under the agent lock, or after its lock
\* expired under it.
THEOREM LockInvariant == Spec => []LockInv
<1>1. Init => LockInv
    BY DEF Init, LockInv, LockTypes, WorkersHoldLock, Working, Place, Ended
<1>2. LockInv /\ [Next]_vars => LockInv'
    BY NextKeepsLockInv
<1> QED
    BY <1>1, <1>2, PTL DEF Spec

\* As long as no agent outlives its lock, one agent at a time works in the
\* channel.
THEOREM MutualExclusion == Spec => []OneAtATime
<1>1. LockInv => OneAtATime
    BY DEF LockInv, WorkersHoldLock, OneAtATime
<1> QED
    BY <1>1, LockInvariant, PTL

\* The lock is taken away only by a step of its owner or by its expiration.
THEOREM OwnersRelease == Spec => OnlyOwnerReleases
<1> DEFINE Fair == lock # NoTask /\ lock' # lock => pc'[lock] # pc[lock] \/ pc' = pc
<1>1. ASSUME LockInv, [Next]_vars PROVE [Fair]_vars
    <2> SUFFICES ASSUME Next, lock # NoTask, lock' # lock
                 PROVE  pc'[lock] # pc[lock] \/ pc' = pc
        BY <1>1 DEF vars
    <2> USE <1>1 DEF LockInv, LockTypes, Goto
    <2>1. ASSUME NEW t \in Tasks, Step(t) PROVE pc'[lock] # pc[lock]
        BY <2>1 DEF Step, AcquireLock, LockIsFree, CountQueue, PushFollowup, Acknowledge,
                    AnswerMessage, AgentRaises, CheckQueue, Drain, ReleaseLock, Released,
                    RecordDeadLetter, TrimLetters, redis
    <2>2. ASSUME NEW t \in Tasks, Deliver(t) \/ Crash(t) PROVE FALSE
        BY <2>2 DEF Deliver, Crash, redis
    <2>3. CASE LockExpires
        BY <2>3 DEF LockExpires
    <2>4. CASE QueueExpires \/ \E ev \in Events : DedupExpires(ev)
        BY <2>4 DEF QueueExpires, DedupExpires
    <2> QED
        BY <2>1, <2>2, <2>3, <2>4 DEF Next
<1> QED
    BY <1>1, LockInvariant, PTL DEF Spec, OnlyOwnerReleases

-----------------------------------------------------------------------------
(* Every message is answered at most once.                                 *)

Distinct(s) == \A i, j \in DOMAIN s : s[i] = s[j] => i = j

LEMMA EmptySequence == Elements(<< >>) = {} /\ Distinct(<< >>)
BY DEF Elements, Distinct

LEMMA HeadAndTail ==
    ASSUME NEW S, NEW s \in Seq(S), s # << >>, Distinct(s)
    PROVE  /\ Head(s) \in S
           /\ Tail(s) \in Seq(S)
           /\ Distinct(Tail(s))
           /\ Elements(s) = {Head(s)} \cup Elements(Tail(s))
           /\ Head(s) \notin Elements(Tail(s))
<1>1. /\ Len(s) \in Nat \ {0} /\ DOMAIN s = 1..Len(s)
      /\ Head(s) = s[1] /\ Head(s) \in S
      /\ Tail(s) \in Seq(S) /\ DOMAIN Tail(s) = 1..(Len(s) - 1)
      /\ \A i \in 1..(Len(s) - 1) : Tail(s)[i] = s[i + 1]
    OBVIOUS
<1>2. Distinct(Tail(s))
    BY <1>1 DEF Distinct
<1>3. \A i \in DOMAIN Tail(s) : i + 1 \in DOMAIN s /\ i + 1 # 1
    BY <1>1
<1>4. Head(s) \notin Elements(Tail(s))
    BY <1>1, <1>3 DEF Elements, Distinct
<1>5. \A i \in DOMAIN s : i = 1 \/ (i - 1 \in DOMAIN Tail(s) /\ Tail(s)[i - 1] = s[i])
    BY <1>1
<1>6. Elements(s) = {Head(s)} \cup Elements(Tail(s))
    <2>1. Elements(s) \subseteq {Head(s)} \cup Elements(Tail(s))
        BY <1>1, <1>5 DEF Elements
    <2>2. {Head(s)} \cup Elements(Tail(s)) \subseteq Elements(s)
        BY <1>1, <1>3 DEF Elements
    <2> QED
        BY <2>1, <2>2
<1> QED
    BY <1>1, <1>2, <1>4, <1>6

LEMMA AppendElement ==
    ASSUME NEW S, NEW s \in Seq(S), NEW x \in S, Distinct(s), x \notin Elements(s)
    PROVE  /\ Append(s, x) \in Seq(S)
           /\ Distinct(Append(s, x))
           /\ Elements(Append(s, x)) = Elements(s) \cup {x}
<1>1. /\ Len(s) \in Nat /\ DOMAIN s = 1..Len(s)
      /\ Append(s, x) \in Seq(S) /\ DOMAIN Append(s, x) = 1..(Len(s) + 1)
      /\ Append(s, x)[Len(s) + 1] = x
      /\ \A i \in 1..Len(s) : Append(s, x)[i] = s[i]
    OBVIOUS
<1>2. \A i \in DOMAIN Append(s, x) : i \in DOMAIN s \/ i = Len(s) + 1
    BY <1>1
<1>3. Distinct(Append(s, x))
    BY <1>1, <1>2 DEF Distinct, Elements
<1>4. Elements(Append(s, x)) = Elements(s) \cup {x}
    BY <1>1, <1>2 DEF Elements
<1> QED
    BY <1>1, <1>3, <1>4

\* Where a message can be: with its own task until it is pushed, in the
\* queue, or in one batch, but never in two places, and an answered message
\* in none.
Handed == {"acking", "done", "dead", "trimming", "crashed"}
Unread == {"away", "dropped", "locking", "counting", "pushing"}

PlaceTypes ==
    /\ pc \in [Tasks -> Place]
    /\ queue \in Seq(Tasks)
    /\ batch \in [Tasks -> Seq(Tasks)]
    /\ answered \subseteq Tasks

OnePlace ==
    /\ Distinct(queue)
    /\ \A m \in Elements(queue) : m \in Tasks /\ pc[m] \in Handed
    /\ \A t \in Tasks :
         /\ Distinct(batch[t])
         /\ batch[t] # << >> => pc[t] = "running"
         /\ \A m \in Elements(batch[t]) :
              /\ m \in Tasks /\ pc[m] \in Handed
              /\ m \notin Elements(queue)
    /\ \A t, u \in Tasks : t # u => Elements(batch[t]) \cap Elements(batch[u]) = {}
    /\ \A m \in answered :
         /\ m \notin Elements(queue)
         /\ \A t \in Tasks : m \notin Elements(batch[t])
         /\ pc[m] \notin Unread
         /\ pc[m] = "running" => batch[m] # << >>

PlaceInv == PlaceTypes /\ OnePlace

LEMMA SeqElements ==
    ASSUME NEW S, NEW s \in Seq(S)
    PROVE  Elements(s) \subseteq S
BY DEF Elements

\* A step that moves no message keeps PlaceInv.
LEMMA QuietStep ==
    ASSUME PlaceInv, NEW t \in Tasks, NEW place \in Place, Goto(t, place),
           UNCHANGED <<queue, batch, answered>>, batch[t] = << >>,
           pc[t] \in Handed => place \in Handed,
           place \in Unread \cup {"running"} => pc[t] \in Unread
    PROVE  PlaceInv'
<1> USE DEF PlaceInv, PlaceTypes, OnePlace
<1>1. /\ pc' \in [Tasks -> Place]
      /\ pc'[t] = place
      /\ \A u \in Tasks \ {t} : pc'[u] = pc[u]
    BY DEF Goto
<1>2. \A m \in Tasks : pc[m] \in Handed => pc'[m] \in Handed
    BY <1>1
<1>3. \A u \in Tasks : batch[u] # << >> => pc'[u] = "running"
    BY <1>1
<1>4. \A m \in answered : pc'[m] \notin Unread /\ (pc'[m] = "running" => batch[m] # << >>)
    BY <1>1
<1> QED
    BY <1>1, <1>2, <1>3, <1>4

LEMMA StepsOfATask ==
    ASSUME PlaceInv, NEW t \in Tasks, Deliver(t) \/ Step(t) \/ Crash(t)
    PROVE  PlaceInv'
<1> USE EmptySequence DEF PlaceInv, PlaceTypes, OnePlace, Goto, Place, Working, Ended,
        Handed, Unread
<1>1. CASE Deliver(t)
    BY <1>1 DEF Deliver
<1>2. CASE AcquireLock(t)
    <2>1. /\ UNCHANGED <<queue, batch, answered>> /\ pc[t] = "locking"
          /\ Goto(t, "running") \/ Goto(t, "counting")
        BY <1>2 DEF AcquireLock
    <2> QED
        BY <2>1, QuietStep, ZenonT(30)
<1>3. CASE CountQueue(t)
    BY <1>3 DEF CountQueue, redis
<1>4. CASE PushFollowup(t)
    <2>1. t \notin Elements(queue) /\ \A u \in Tasks : t \notin Elements(batch[u])
        BY <1>4 DEF PushFollowup
    <2>2. /\ queue' \in Seq(Tasks) /\ Distinct(queue')
          /\ Elements(queue') = Elements(queue) \cup {t}
        BY <1>4, <2>1, AppendElement DEF PushFollowup
    <2> QED
        BY <1>4, <2>1, <2>2 DEF PushFollowup
<1>5. CASE Acknowledge(t)
    BY <1>5 DEF Acknowledge, redis
<1>6. CASE AnswerMessage(t)
    <2>1. batch' = [batch EXCEPT ![t] = Rest(t)] /\ pc[t] = "running"
          /\ answered' = answered \cup {Current(t)} /\ queue' = queue
        BY <1>6 DEF AnswerMessage, redis
    <2>2. /\ pc' \in [Tasks -> Place]
          /\ \A u \in Tasks \ {t} : pc'[u] = pc[u]
          /\ pc'[t] \in {"running", "checking", "releasing"}
          /\ Rest(t) # << >> => pc'[t] = "running"
          /\ Rest(t) = << >> => pc'[t] # "running"
        <3>1. CASE Rest(t) # << >>
            BY <1>6, <3>1 DEF AnswerMessage
        <3>2. CASE Rest(t) = << >>
            <4>1. \E n : Goto(t, NextRound(n))
                BY <1>6, <3>2 DEF AnswerMessage
            <4>2. Goto(t, "checking") \/ Goto(t, "releasing")
                BY <4>1 DEF NextRound
            <4> QED
                BY <3>2, <4>2, SMTT(20)
        <3> QED
            BY <3>1, <3>2
    <2>3. CASE batch[t] = << >>
        <3>1. Current(t) = t /\ Rest(t) = << >>
            BY <2>3 DEF Current, Rest
        <3>2. batch' = batch /\ answered' = answered \cup {t}
            BY <2>1, <2>3, <3>1
        <3>3. t \notin Elements(queue) /\ \A u \in Tasks : t \notin Elements(batch[u])
            BY <2>1
        <3>4. pc'[t] \in {"checking", "releasing"}
            BY <2>2, <3>1
        <3>5. \A m \in Tasks : pc[m] \in Handed => pc'[m] \in Handed
            BY <2>1, <2>2
        <3>6. PlaceTypes'
            BY <2>1, <2>2, <3>2
        <3>7. \A u \in Tasks : batch'[u] # << >> => pc'[u] = "running"
            BY <2>2, <2>3, <3>2
        <3>8. \A m \in answered' : pc'[m] \notin Unread /\ (pc'[m] = "running" => batch'[m] # << >>)
            BY <2>1, <2>2, <3>2, <3>4
        <3> QED
            BY <2>1, <3>2, <3>3, <3>5, <3>6, <3>7, <3>8, ZenonT(30)
    <2>4. CASE batch[t] # << >>
        <3>1. /\ Current(t) \in Tasks /\ Rest(t) \in Seq(Tasks) /\ Distinct(Rest(t))
              /\ Elements(batch[t]) = {Current(t)} \cup Elements(Rest(t))
              /\ Current(t) \notin Elements(Rest(t))
            BY <2>4, HeadAndTail DEF Current, Rest
        <3>2. \A u \in Tasks : Elements(batch'[u]) \subseteq Elements(batch[u])
                               /\ Current(t) \notin Elements(batch'[u])
            BY <2>1, <3>1
        <3>3. Current(t) # t /\ pc[Current(t)] \in Handed /\ Current(t) \notin Elements(queue)
            BY <2>1, <3>1
        <3>4. PlaceTypes'
            BY <2>1, <2>2, <3>1
        <3>5. \A u \in Tasks : Distinct(batch'[u]) /\ (batch'[u] # << >> => pc'[u] = "running")
            BY <2>1, <2>2, <3>1
        <3>6. \A m \in Tasks : pc[m] \in Handed => pc'[m] \in Handed
            BY <2>1, <2>2
        <3>7. ASSUME NEW m \in answered'
              PROVE  pc'[m] \notin Unread /\ (pc'[m] = "running" => batch'[m] # << >>)
            <4>1. CASE m = t
                BY <4>1, <2>1, <2>2
            <4>2. CASE m = Current(t)
                BY <4>2, <3>1, <3>3, <3>6
            <4>3. CASE m # t /\ m # Current(t)
                BY <4>3, <2>1, <2>2
            <4> QED
                BY <4>1, <4>2, <4>3
        <3>8. /\ Distinct(queue')
              /\ \A m \in Elements(queue') : m \in Tasks /\ pc'[m] \in Handed
            BY <2>1, <3>6
        <3>9. \A u \in Tasks : \A m \in Elements(batch'[u]) :
                 m \in Tasks /\ pc'[m] \in Handed /\ m \notin Elements(queue')
            BY <2>1, <3>2, <3>6
        <3>10. \A u, v \in Tasks : u # v => Elements(batch'[u]) \cap Elements(batch'[v]) = {}
            BY <3>2
        <3>11. \A m \in answered' :
                 m \notin Elements(queue') /\ \A u \in Tasks : m \notin Elements(batch'[u])
            BY <2>1, <3>2, <3>3
        <3> QED
            BY <3>4, <3>5, <3>7, <3>8, <3>9, <3>10, <3>11
    <2> QED
        BY <2>3, <2>4
<1>7. CASE AgentRaises(t)
    BY <1>7 DEF AgentRaises, redis
<1>8. CASE CheckQueue(t)
    <2>1. /\ UNCHANGED <<queue, batch, answered>> /\ pc[t] = "checking" /\ batch[t] = << >>
          /\ Goto(t, "releasing") \/ Goto(t, "draining")
        BY <1>8 DEF CheckQueue
    <2> QED
        BY <2>1, QuietStep
<1>9. CASE Drain(t)
    <2>1. CASE queue = << >>
        <3>1. /\ UNCHANGED <<queue, batch, answered>> /\ pc[t] = "draining"
              /\ Goto(t, "releasing")
            BY <1>9, <2>1 DEF Drain, NothingDrained
        <3> QED
            BY <3>1
    <2>2. CASE queue # << >>
        <3>1. /\ batch' = [batch EXCEPT ![t] = queue] /\ queue' = << >> /\ answered' = answered
              /\ Goto(t, "running") /\ pc[t] = "draining"
            BY <1>9, <2>2 DEF Drain, DrainedQueue
        <3>2. batch'[t] = queue /\ \A u \in Tasks \ {t} : batch'[u] = batch[u]
            BY <3>1
        <3>3. PlaceTypes'
            BY <3>1
        <3>4. pc'[t] = "running" /\ \A u \in Tasks \ {t} : pc'[u] = pc[u]
            BY <3>1
        <3>5. \A m \in Tasks : pc[m] \in Handed => pc'[m] \in Handed
            BY <3>1, <3>4
        <3>6. \A u, v \in Tasks : u # v => Elements(batch'[u]) \cap Elements(batch'[v]) = {}
            <4>1. \A u \in Tasks : Elements(batch[u]) \cap Elements(queue) = {}
                OBVIOUS
            <4>2. /\ Elements(batch'[t]) = Elements(queue)
                  /\ \A u \in Tasks \ {t} : Elements(batch'[u]) = Elements(batch[u])
                BY <3>2
            <4>3. \A u, v \in Tasks : u # v => Elements(batch[u]) \cap Elements(batch[v]) = {}
                OBVIOUS
            <4> HIDE DEF PlaceInv, PlaceTypes, OnePlace
            <4> QED
                BY <4>1, <4>2, <4>3, Zenon
        <3>7. \A u \in Tasks :
                 /\ Distinct(batch'[u])
                 /\ batch'[u] # << >> => pc'[u] = "running"
                 /\ \A m \in Elements(batch'[u]) :
                      m \in Tasks /\ pc'[m] \in Handed /\ m \notin Elements(queue')
            BY <3>1, <3>2, <3>4, <3>5
        <3>8. \A m \in answered' :
                 /\ m \notin Elements(queue') /\ \A u \in Tasks : m \notin Elements(batch'[u])
                 /\ pc'[m] \notin Unread
                 /\ pc'[m] = "running" => batch'[m] # << >>
            BY <2>2, <3>1, <3>2, <3>4
        <3> QED
            BY <3>1, <3>3, <3>6, <3>7, <3>8
    <2> QED
        BY <2>1, <2>2
<1>10. CASE ReleaseLock(t)
    BY <1>10 DEF ReleaseLock
<1>11. CASE RecordDeadLetter(t)
    BY <1>11 DEF RecordDeadLetter
<1>13. CASE TrimLetters(t)
    BY <1>13 DEF TrimLetters
<1>12. CASE Crash(t)
    BY <1>12 DEF Crash, redis
<1> QED
    BY <1>1, <1>2, <1>3, <1>4, <1>5, <1>6, <1>7, <1>8, <1>9, <1>10, <1>11, <1>12, <1>13
       DEF Step

LEMMA NextKeepsPlaceInv ==
    ASSUME PlaceInv, [Next]_vars
    PROVE  PlaceInv'
<1> USE DEF PlaceInv, PlaceTypes, OnePlace
<1>1. CASE \E t \in Tasks : Deliver(t) \/ Step(t) \/ Crash(t)
    BY <1>1, StepsOfATask
<1>2. CASE LockExpires
    BY <1>2 DEF LockExpires
<1>3. CASE QueueExpires
    BY <1>3, EmptySequence DEF QueueExpires
<1>4. CASE \E ev \in Events : DedupExpires(ev)
    BY <1>4 DEF DedupExpires
<1>5. CASE UNCHANGED vars
    BY <1>5 DEF vars
<1> QED
    BY <1>1, <1>2, <1>3, <1>4, <1>5 DEF Next

\* The conditions of FateOf.
New(m)   == pc[m] \in {"away", "dropped"}
Waits(m) == m \in Elements(queue) \/ InBatch(m) \/ pc[m] \in {"locking", "counting", "pushing"}
Runs(m)  == \E t \in Tasks : pc[t] = "running" /\ Current(t) = m

LEMMA RestOfBatch ==
    ASSUME PlaceInv, NEW t \in Tasks
    PROVE  /\ batch[t] = << >> => Current(t) = t /\ Elements(Rest(t)) = {}
           /\ batch[t] # << >> => /\ Elements(batch[t]) = {Current(t)} \cup Elements(Rest(t))
                                  /\ Current(t) \notin Elements(Rest(t))
<1> USE DEF PlaceInv, PlaceTypes, OnePlace, Current, Rest
<1>1. CASE batch[t] = << >>
    BY <1>1, EmptySequence
<1>2. CASE batch[t] # << >>
    BY <1>2, HeadAndTail
<1> QED
    BY <1>1, <1>2

\* They exclude each other.
Exclusive ==
    \A m \in Tasks :
        /\ ~(Waits(m) /\ Runs(m))
        /\ ~(Waits(m) /\ m \in answered)
        /\ ~(Runs(m) /\ m \in answered)
        /\ New(m) => ~Waits(m) /\ ~Runs(m) /\ m \notin answered

LEMMA PlacesExclude == PlaceInv => Exclusive
<1> SUFFICES ASSUME PlaceInv, NEW m \in Tasks
             PROVE  /\ ~(Waits(m) /\ Runs(m))
                    /\ ~(Waits(m) /\ m \in answered)
                    /\ ~(Runs(m) /\ m \in answered)
                    /\ New(m) => ~Waits(m) /\ ~Runs(m) /\ m \notin answered
    BY DEF Exclusive
<1> USE DEF PlaceInv, OnePlace, Handed, Unread
<1>1. ASSUME InBatch(m)
      PROVE  /\ pc[m] \in Handed /\ m \notin answered /\ m \notin Elements(queue)
             /\ ~Runs(m)
    <2>1. PICK t \in Tasks : m \in Elements(Rest(t))
        BY <1>1 DEF InBatch
    <2> HIDE DEF PlaceInv, OnePlace
    <2>2. m \in Elements(batch[t]) /\ m # Current(t)
        <3>1. batch[t] # << >>
            BY <2>1, RestOfBatch
        <3> QED
            BY <2>1, <3>1, RestOfBatch
    <2> USE DEF PlaceInv, OnePlace
    <2>3. ASSUME NEW u \in Tasks, pc[u] = "running", Current(u) = m PROVE FALSE
        <3>1. CASE batch[u] = << >>
            BY <2>2, <2>3, <3>1, RestOfBatch
        <3>2. CASE batch[u] # << >>
            BY <2>2, <2>3, <3>2, RestOfBatch
        <3> QED
            BY <3>1, <3>2
    <2> QED
        BY <2>2, <2>3 DEF Runs
<1>2. ASSUME Runs(m)
      PROVE  /\ pc[m] \in Handed \cup {"running"} /\ m \notin answered
             /\ m \notin Elements(queue)
    <2>1. PICK t \in Tasks : pc[t] = "running" /\ Current(t) = m
        BY <1>2 DEF Runs
    <2>2. CASE batch[t] = << >>
        BY <2>1, <2>2, RestOfBatch
    <2>3. CASE batch[t] # << >>
        BY <2>1, <2>3, RestOfBatch
    <2> QED
        BY <2>2, <2>3
<1> QED
    BY <1>1, <1>2 DEF Waits, New

\* What a step may do to a message; it is what MessageFate allows.
Lawful(m) ==
    /\ Waits(m)' => Waits(m) \/ New(m)
    /\ Runs(m)' => Runs(m) \/ Waits(m)
    /\ m \in answered' => m \in answered \/ Runs(m)
    /\ m \in answered => m \in answered'
    /\ New(m)' => New(m)
    /\ New(m) => New(m)' \/ Waits(m)'

LEMMA LawfulMoves ==
    ASSUME Exclusive, Exclusive', NEW m \in Tasks, Lawful(m)
    PROVE  /\ FateOf(m)' \in Fate!Fates
           /\ FateOf(m)' # FateOf(m) => <<FateOf(m), FateOf(m)'>> \in Fate!Moves
<1>1. FateOf(m) = IF Waits(m) THEN "waiting" ELSE IF Runs(m) THEN "running"
                  ELSE IF m \in answered THEN "answered"
                  ELSE IF New(m) THEN "none" ELSE "lost"
    BY DEF FateOf, Waits, Runs, New
<1>2. FateOf(m)' = IF Waits(m)' THEN "waiting" ELSE IF Runs(m)' THEN "running"
                   ELSE IF m \in answered' THEN "answered"
                   ELSE IF New(m)' THEN "none" ELSE "lost"
    BY DEF FateOf, Waits, Runs, New
<1> HIDE DEF FateOf, Waits, Runs, New
<1> QED
    BY <1>1, <1>2 DEF Exclusive, Lawful, Fate!Fates, Fate!Moves

\* A step that leaves the queue, the batches and the answers alone, and starts
\* and stops no agent.
LEMMA NothingMoves ==
    ASSUME UNCHANGED <<queue, batch, answered>>,
           \A u \in Tasks : pc'[u] = "running" <=> pc[u] = "running",
           NEW m \in Tasks, pc'[m] = pc[m] \/ (~New(m) /\ ~New(m)' /\ pc'[m] \notin Unread)
    PROVE  Lawful(m)
<1>1. InBatch(m)' = InBatch(m)
    BY DEF InBatch, Rest
<1>2. Runs(m)' = Runs(m)
    BY DEF Runs, Current
<1> QED
    BY <1>1, <1>2 DEF Lawful, Waits, New, Unread

LEMMA DeliverIsLawful ==
    ASSUME PlaceInv, NEW t \in Tasks, Deliver(t), NEW m \in Tasks
    PROVE  Lawful(m)
<1>1. /\ UNCHANGED <<queue, batch, answered>> /\ pc[t] = "away"
      /\ pc'[t] \in {"dropped", "locking"}
      /\ \A u \in Tasks \ {t} : pc'[u] = pc[u]
    BY DEF Deliver, Goto, PlaceInv, PlaceTypes
<1>2. CASE m = t
    <2>1. InBatch(m)' = InBatch(m)
        BY <1>1 DEF InBatch, Rest
    <2>2. Runs(m)' = Runs(m)
        BY <1>1 DEF Runs, Current
    <2> QED
        BY <1>1, <1>2, <2>1, <2>2 DEF Lawful, Waits, New
<1>3. CASE m # t
    BY <1>1, <1>3, NothingMoves
<1> QED
    BY <1>2, <1>3

\* The answered message leaves the batch, the next one becomes current.
LEMMA AnswerIsLawful ==
    ASSUME PlaceInv, NEW t \in Tasks, AnswerMessage(t), NEW m \in Tasks
    PROVE  Lawful(m)
<1>1. /\ batch' = [batch EXCEPT ![t] = Rest(t)] /\ pc[t] = "running"
      /\ answered' = answered \cup {Current(t)} /\ queue' = queue
      /\ pc'[t] \notin {"away", "dropped", "locking", "counting", "pushing"}
      /\ \A u \in Tasks \ {t} : pc'[u] = pc[u] /\ batch'[u] = batch[u]
      /\ Rest(t) = << >> => pc'[t] # "running"
      /\ batch'[t] = Rest(t) /\ Rest(t) \in Seq(Tasks)
    <2>1. Rest(t) \in Seq(Tasks)
        BY HeadAndTail DEF PlaceInv, PlaceTypes, OnePlace, Rest
    <2>2. CASE Rest(t) # << >>
        BY <2>1, <2>2 DEF AnswerMessage, redis, PlaceInv, PlaceTypes
    <2>3. CASE Rest(t) = << >>
        <3>1. \E n : Goto(t, NextRound(n))
            BY <2>3 DEF AnswerMessage
        <3>2. Goto(t, "checking") \/ Goto(t, "releasing")
            BY <3>1 DEF NextRound
        <3> QED
            BY <2>1, <3>2 DEF AnswerMessage, redis, PlaceInv, PlaceTypes, Goto
    <2> QED
        BY <2>2, <2>3
<1>2. Distinct(Rest(t))
    BY HeadAndTail, EmptySequence DEF PlaceInv, PlaceTypes, OnePlace, Rest
<1>3. Rest(t) # << >> =>
          /\ Current(t)' \in Elements(Rest(t))
          /\ Elements(Rest(t)') \subseteq Elements(Rest(t))
    <2> SUFFICES ASSUME Rest(t) # << >>
                 PROVE  /\ Current(t)' \in Elements(Rest(t))
                        /\ Elements(Rest(t)') \subseteq Elements(Rest(t))
        OBVIOUS
    <2>1. Current(t)' = Head(Rest(t)) /\ Rest(t)' = Tail(Rest(t))
        BY <1>1 DEF Current, Rest
    <2>2. Elements(Rest(t)) = {Head(Rest(t))} \cup Elements(Tail(Rest(t)))
        BY <1>1, <1>2, HeadAndTail
    <2> QED
        BY <2>1, <2>2
<1>4. Rest(t) = << >> => Elements(Rest(t)') = {}
    BY <1>1, EmptySequence DEF Rest
<1>5. \A u \in Tasks \ {t} : Rest(u)' = Rest(u) /\ Current(u)' = Current(u)
    BY <1>1 DEF Rest, Current
<1>6. InBatch(m)' => InBatch(m)
    <2> SUFFICES ASSUME NEW u \in Tasks, m \in Elements(Rest(u)')
                 PROVE  m \in Elements(Rest(u))
        BY DEF InBatch
    <2>1. CASE u = t
        BY <1>3, <1>4, <2>1
    <2>2. CASE u # t
        BY <1>5, <2>2
    <2> QED
        BY <2>1, <2>2
<1>8. Runs(m)' => Runs(m) \/ InBatch(m)
    BY <1>1, <1>3, <1>5 DEF InBatch, Runs
<1>9. m = Current(t) => Runs(m)
    BY <1>1 DEF Runs
<1> QED
    BY <1>1, <1>6, <1>8, <1>9 DEF Lawful, Waits, New

\* A task that fails or dies loses its batch.
LEMMA LossIsLawful ==
    ASSUME PlaceInv, NEW t \in Tasks, AgentRaises(t) \/ Crash(t), NEW m \in Tasks
    PROVE  Lawful(m)
<1>1. /\ queue' = queue /\ answered' = answered
      /\ batch' = [batch EXCEPT ![t] = << >>]
      /\ ~New(t) /\ pc'[t] \in {"failing", "crashed"}
      /\ \A u \in Tasks \ {t} : pc'[u] = pc[u]
    BY DEF AgentRaises, Crash, Goto, New, Ended, redis, PlaceInv, PlaceTypes
<1>2. /\ \A u \in Tasks \ {t} : Rest(u)' = Rest(u) /\ Current(u)' = Current(u)
      /\ Rest(t)' = << >>
    BY <1>1 DEF Rest, Current, PlaceInv, PlaceTypes
<1>3. InBatch(m)' => InBatch(m)
    <2> SUFFICES ASSUME NEW u \in Tasks, m \in Elements(Rest(u)')
                 PROVE  m \in Elements(Rest(u))
        BY DEF InBatch
    <2> QED
        BY <1>2, EmptySequence
<1>4. Runs(m)' => Runs(m)
    BY <1>1, <1>2 DEF Runs
<1> QED
    BY <1>1, <1>3, <1>4 DEF Lawful, Waits, New

\* A task that has not pushed its message yet.
LEMMA UnreadIsLawful ==
    ASSUME PlaceInv, NEW t \in Tasks, AcquireLock(t) \/ CountQueue(t) \/ PushFollowup(t),
           NEW m \in Tasks
    PROVE  Lawful(m)
<1> USE DEF PlaceInv, PlaceTypes, OnePlace
<1>1. /\ batch' = batch /\ answered' = answered
      /\ pc[t] \in {"locking", "counting", "pushing"}
      /\ pc'[t] \in {"running", "counting", "pushing", "acking"}
      /\ \A u \in Tasks \ {t} : pc'[u] = pc[u]
    BY DEF AcquireLock, CountQueue, PushFollowup, Goto, redis
<1>2. Elements(queue') \subseteq Elements(queue) \cup {t}
    <2>1. CASE AcquireLock(t) \/ CountQueue(t)
        BY <2>1 DEF AcquireLock, CountQueue, redis
    <2>2. CASE PushFollowup(t)
        <3>1. t \notin Elements(queue)
            BY <1>1, <2>2 DEF PushFollowup, Handed
        <3> QED
            BY <2>2, <3>1, AppendElement DEF PushFollowup
    <2> QED
        BY <2>1, <2>2
<1>3. InBatch(m)' = InBatch(m)
    BY <1>1 DEF InBatch, Rest
<1>4. batch[t] = << >>
    BY <1>1
<1>5. Runs(m)' => Runs(m) \/ m = t
    <2>1. Current(t)' = t
        BY <1>1, <1>4 DEF Current
    <2>2. \A u \in Tasks \ {t} : Current(u)' = Current(u)
        BY <1>1 DEF Current
    <2> QED
        BY <1>1, <2>1, <2>2 DEF Runs
<1>6. Waits(t)
    BY <1>1 DEF Waits
<1> QED
    BY <1>1, <1>2, <1>3, <1>5, <1>6 DEF Lawful, Waits, New

\* The drained follow-ups become a batch, the first of them current.
LEMMA DrainIsLawful ==
    ASSUME PlaceInv, NEW t \in Tasks, Drain(t), queue # << >>, NEW m \in Tasks
    PROVE  Lawful(m)
<1> USE DEF PlaceInv, PlaceTypes, OnePlace
<1>1. /\ batch' = [batch EXCEPT ![t] = queue] /\ queue' = << >> /\ answered' = answered
      /\ pc[t] = "draining" /\ pc'[t] = "running"
      /\ \A u \in Tasks \ {t} : pc'[u] = pc[u]
    BY DEF Drain, DrainedQueue, Goto
<1>2. /\ \A u \in Tasks \ {t} : Rest(u)' = Rest(u) /\ Current(u)' = Current(u)
      /\ Rest(t)' = Tail(queue) /\ Current(t)' = Head(queue)
    BY <1>1 DEF Rest, Current
<1>3. Elements(queue) = {Head(queue)} \cup Elements(Tail(queue))
    BY HeadAndTail
<1>4. InBatch(m)' => InBatch(m) \/ m \in Elements(queue)
    <2> SUFFICES ASSUME NEW u \in Tasks, m \in Elements(Rest(u)')
                 PROVE  m \in Elements(Rest(u)) \/ m \in Elements(queue)
        BY DEF InBatch
    <2> QED
        BY <1>2, <1>3
<1>5. Runs(m)' => Runs(m) \/ m \in Elements(queue)
    BY <1>1, <1>2, <1>3 DEF Runs
<1>6. m \notin Elements(queue')
    BY <1>1, EmptySequence
<1> QED
    BY <1>1, <1>4, <1>5, <1>6 DEF Lawful, Waits, New

LEMMA StepIsLawful ==
    ASSUME PlaceInv, [Next]_vars, NEW m \in Tasks
    PROVE  Lawful(m)
<1>1. ASSUME NEW t \in Tasks, Deliver(t) PROVE Lawful(m)
    BY <1>1, DeliverIsLawful
<1>2. ASSUME NEW t \in Tasks, AcquireLock(t) \/ CountQueue(t) \/ PushFollowup(t) PROVE Lawful(m)
    BY <1>2, UnreadIsLawful
<1>3. ASSUME NEW t \in Tasks, AnswerMessage(t) PROVE Lawful(m)
    BY <1>3, AnswerIsLawful
<1>4. ASSUME NEW t \in Tasks, AgentRaises(t) \/ Crash(t) PROVE Lawful(m)
    BY <1>4, LossIsLawful
<1>5. ASSUME NEW t \in Tasks, Drain(t), queue # << >> PROVE Lawful(m)
    BY <1>5, DrainIsLawful
<1>6. ASSUME NEW t \in Tasks,
             \/ Acknowledge(t) \/ CheckQueue(t) \/ (Drain(t) /\ queue = << >>)
             \/ ReleaseLock(t) \/ RecordDeadLetter(t) \/ TrimLetters(t)
      PROVE  Lawful(m)
    <2>1. /\ UNCHANGED <<queue, batch, answered>>
          /\ \A u \in Tasks \ {t} : pc'[u] = pc[u]
          /\ pc[t] \notin {"running", "away", "dropped"}
          /\ pc'[t] \notin Unread \cup {"running"}
        BY <1>6 DEF Acknowledge, CheckQueue, Drain, NothingDrained, ReleaseLock,
                    RecordDeadLetter, TrimLetters, Goto, redis, Unread, PlaceInv, PlaceTypes
    <2> QED
        BY <2>1, NothingMoves DEF New, Unread
<1>7. CASE QueueExpires
    <2>1. queue' = << >> /\ UNCHANGED <<pc, batch, answered>>
        BY <1>7 DEF QueueExpires
    <2>2. InBatch(m)' = InBatch(m) /\ Runs(m)' = Runs(m)
        BY <2>1 DEF InBatch, Rest, Runs, Current
    <2> QED
        BY <2>1, <2>2, EmptySequence DEF Lawful, Waits, New
<1>8. CASE LockExpires \/ (\E ev \in Events : DedupExpires(ev)) \/ UNCHANGED vars
    <2>1. UNCHANGED <<queue, batch, answered, pc>>
        BY <1>8 DEF LockExpires, DedupExpires, vars
    <2> QED
        BY <2>1, NothingMoves
<1> QED
    BY <1>1, <1>2, <1>3, <1>4, <1>5, <1>6, <1>7, <1>8 DEF Next, Step

THEOREM PlaceInvariant == Spec => []PlaceInv
<1>1. Init => PlaceInv
    BY EmptySequence DEF Init, PlaceInv, PlaceTypes, OnePlace, Place, Ended
<1>2. PlaceInv /\ [Next]_vars => PlaceInv'
    BY NextKeepsPlaceInv
<1> QED
    BY <1>1, <1>2, PTL DEF Spec

\* A message is answered at most once, and never comes back after it was
\* answered or lost: the channel keeps the promise of MessageFate.
THEOREM EachMessageAtMostOnce == Spec => AnsweredAtMostOnce
<1> DEFINE fates == [m \in Tasks |-> FateOf(m)]
<1>1. Init => Fate!Init
    <2> SUFFICES ASSUME Init, NEW m \in Tasks
                 PROVE  FateOf(m) = "none"
        BY DEF Fate!Init
    <2>1. batch[m] = << >> /\ pc[m] = "away" /\ queue = << >> /\ answered = {}
        BY DEF Init
    <2>2. ~InBatch(m)
        BY EmptySequence DEF Init, InBatch, Rest
    <2>3. ~Runs(m)
        BY DEF Init, Runs
    <2> QED
        BY <2>1, <2>2, <2>3, EmptySequence DEF FateOf, Runs
<1>2. PlaceInv => Exclusive
    BY PlacesExclude
<1>3. ASSUME PlaceInv, PlaceInv', Exclusive, Exclusive', [Next]_vars
      PROVE  [Fate!Next]_fates
    <2>1. ASSUME NEW m \in Tasks
          PROVE  /\ FateOf(m)' \in Fate!Fates
                 /\ FateOf(m)' # FateOf(m) => <<FateOf(m), FateOf(m)'>> \in Fate!Moves
        BY <1>3, StepIsLawful, LawfulMoves
    <2> HIDE DEF FateOf
    <2> QED
        BY <2>1 DEF Fate!Next
<1> QED
    BY <1>1, <1>2, <1>3, PlaceInvariant, PTL DEF Spec, AnsweredAtMostOnce, Fate!Spec
=============================================================================

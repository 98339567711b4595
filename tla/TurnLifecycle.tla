----------------------------- MODULE TurnLifecycle ---------------------------
(***************************************************************************)
(* The lease that serializes agent turns and session transitions           *)
(* (ActiveTurnLifecycle, turn_lifecycle.py), with the turns that hold it   *)
(* (run_once_result of agent.py, run_turn of interactive_mode.py) and the  *)
(* session they write to.  An actor is an asyncio task or a thread: what   *)
(* the lease calls an owner.                                               *)
(*                                                                         *)
(* A block under the lease's mutex is one step, what the code does after   *)
(* it lets go of the mutex is another.  A turn has its own completion      *)
(* event and at most one cancel event: its generation names both.          *)
(***************************************************************************)
EXTENDS Naturals

CONSTANTS
    Actors, NoActor,
    Sessions,
    MaxGeneration,    \* bound on the leases that are given out
    MaxDepth          \* bound on nested transitions

ASSUME LifecycleAssumption ==
    /\ NoActor \notin Actors
    /\ MaxGeneration \in Nat
    /\ MaxDepth \in Nat

VARIABLES
    kind, owner, generation, depth,   \* the fields of the lease
    cancellable,   \* generations of the turns that have a cancel event
    cancelled,     \* generations whose cancel event is set
    completed,     \* generations whose completion event is set
    pc,            \* where an actor is in its turn
    tokens,        \* generations of the turns an actor began
    token,         \* generation of its present turn
    blocks,        \* its open transition blocks
    opened,        \* generation of the tokens they hold
    asking,        \* where an actor is in a request for cancellation
    captured,      \* the generation it captured
    session,       \* the current session of the agent
    wrote,         \* the session that got the user's message of a turn
    asked          \* generations that were running when somebody asked

lease  == <<kind, owner, generation, depth>>
events == <<cancellable, cancelled, completed>>
actor  == <<pc, tokens, token, blocks, opened>>
asks   == <<asking, captured, asked>>
talk   == <<session, wrote>>
turn   == <<lease, events, actor, asks, talk>>

InTurn == {"begun", "running", "ending"}
Place  == {"free", "ended"} \cup InTurn
Ask    == {"no", "set", "wait", "waiting"}

TurnInit ==
    /\ kind = "none" /\ owner = NoActor /\ generation = 0 /\ depth = 0
    /\ cancellable = {} /\ cancelled = {} /\ completed = {}
    /\ pc = [a \in Actors |-> "free"]
    /\ tokens = [a \in Actors |-> {}]
    /\ token = [a \in Actors |-> 0]
    /\ blocks = [a \in Actors |-> 0]
    /\ opened = [a \in Actors |-> 0]
    /\ asking = [a \in Actors |-> "no"]
    /\ captured = [a \in Actors |-> 0]
    /\ asked = {}
    /\ session \in Sessions
    /\ wrote = [a \in Actors |-> session]

\* An actor in the middle of end or of a request does nothing else.
Acts(a) == asking[a] = "no" /\ pc[a] # "ended"

-----------------------------------------------------------------------------
(* A turn.                                                                 *)

\* Seeded fault: only turns exclude turns.
NoTurnActive == kind # "turn"
LeaseIsFree  == kind = "none"

\* begin; run_turn has a cancel event, run_once_result has none.
Begin(a) ==
    /\ Acts(a) /\ pc[a] = "free"
    /\ LeaseIsFree
    /\ generation < MaxGeneration
    /\ generation' = generation + 1
    /\ kind' = "turn" /\ owner' = a
    /\ cancellable' \in {cancellable, cancellable \cup {generation'}}
    /\ pc' = [pc EXCEPT ![a] = "begun"]
    /\ tokens' = [tokens EXCEPT ![a] = @ \cup {generation'}]
    /\ token' = [token EXCEPT ![a] = generation']
    /\ UNCHANGED <<depth, cancelled, completed, blocks, opened, asks, talk>>

\* The user's message is added to the session, ...
AddUserMessage(a) ==
    /\ Acts(a) /\ pc[a] = "begun"
    /\ wrote' = [wrote EXCEPT ![a] = session]
    /\ pc' = [pc EXCEPT ![a] = "running"]
    /\ UNCHANGED <<lease, events, tokens, token, blocks, opened, asks, session>>

\* ... the agent runs and its answer is added, or one of them raises.
Finish(a) ==
    /\ Acts(a) /\ pc[a] \in {"begun", "running"}
    /\ pc' = [pc EXCEPT ![a] = "ending"]
    /\ UNCHANGED <<lease, events, tokens, token, blocks, opened, asks, talk>>

\* Seeded fault: the generation is not compared.
OwnTurn(a, g)  == kind = "turn" /\ owner = a
SameTurn(a, g) == kind = "turn" /\ generation = g /\ owner = a

\* end under the mutex, with the token of generation g.
Release(a, g) ==
    IF SameTurn(a, g)
    THEN kind' = "none" /\ owner' = NoActor
    ELSE UNCHANGED <<kind, owner>>

EndTurn(a) ==
    /\ Acts(a) /\ pc[a] = "ending"
    /\ Release(a, token[a])
    /\ pc' = [pc EXCEPT ![a] = IF SameTurn(a, token[a]) THEN "ended" ELSE "free"]
    /\ UNCHANGED <<generation, depth, events, tokens, token, blocks, opened, asks, talk>>

\* ... and after it.
Complete(a) ==
    /\ pc[a] = "ended"
    /\ completed' = completed \cup {token[a]}
    /\ pc' = [pc EXCEPT ![a] = "free"]
    /\ UNCHANGED <<lease, cancellable, cancelled, tokens, token, blocks, opened, asks, talk>>

\* end is public: a caller may repeat it, with the token of an earlier turn.
EndAgain(a, g) ==
    /\ Acts(a)
    /\ g \in tokens[a]
    /\ pc[a] \in InTurn => g # token[a]
    /\ Release(a, g)
    /\ UNCHANGED <<generation, depth, events, actor, asks, talk>>

-----------------------------------------------------------------------------
(* A transition: switching, forking, compacting, ... the session.          *)

\* _begin_transition; a refused one asks the active turn to stop.
Capture(a, place) ==
    /\ captured' = [captured EXCEPT ![a] = generation]
    /\ asking' = [asking EXCEPT ![a] = place]
    /\ asked' = asked \cup {generation}

OpenTransition(a) ==
    /\ Acts(a)
    /\ LeaseIsFree
    /\ generation < MaxGeneration
    /\ generation' = generation + 1
    /\ kind' = "transition" /\ owner' = a /\ depth' = 1
    /\ blocks' = [blocks EXCEPT ![a] = @ + 1]
    /\ opened' = [opened EXCEPT ![a] = generation']
    /\ UNCHANGED <<events, pc, tokens, token, asks, talk>>

Reenter(a) ==
    /\ Acts(a)
    /\ kind = "transition" /\ owner = a
    /\ depth < MaxDepth
    /\ depth' = depth + 1
    /\ blocks' = [blocks EXCEPT ![a] = @ + 1]
    /\ opened' = [opened EXCEPT ![a] = generation]
    /\ UNCHANGED <<kind, owner, generation, events, pc, tokens, token, asks, talk>>

RefuseTransition(a) ==
    /\ Acts(a)
    /\ kind = "turn"
    /\ Capture(a, "set")
    /\ UNCHANGED <<lease, events, actor, talk>>

\* Seeded fault: the innermost block ends the transition.
FirstToLeave == TRUE
LastToLeave  == depth = 1

\* _end_transition, with the token the block opened with.
CloseTransition(a) ==
    /\ Acts(a) /\ blocks[a] > 0
    /\ blocks' = [blocks EXCEPT ![a] = @ - 1]
    /\ IF kind = "transition" /\ generation = opened[a] /\ owner = a
       THEN IF LastToLeave
            THEN kind' = "none" /\ owner' = NoActor /\ depth' = 0
            ELSE depth' = depth - 1 /\ UNCHANGED <<kind, owner>>
       ELSE UNCHANGED <<kind, owner, depth>>
    /\ UNCHANGED <<generation, events, pc, tokens, token, opened, asks, talk>>

\* What a transition is for.
SwitchSession(a, s) ==
    /\ Acts(a) /\ blocks[a] > 0
    /\ session' = s
    /\ UNCHANGED <<lease, events, actor, asks, wrote>>

-----------------------------------------------------------------------------
(* Cancellation.                                                           *)

RequestCancel(a) ==
    /\ Acts(a)
    /\ kind = "turn"
    /\ Capture(a, "set")
    /\ UNCHANGED <<lease, events, actor, talk>>

\* cancel_and_wait; a turn that waits for itself sets its event and raises.
CancelAndWait(a) ==
    /\ Acts(a)
    /\ kind = "turn"
    /\ Capture(a, IF owner = a THEN "set" ELSE "wait")
    /\ UNCHANGED <<lease, events, actor, talk>>

\* Seeded fault: the event is looked up when it is set.
ActiveNow(a) == generation
Target(a)    == captured[a]

\* A turn without a cancel event has none to set.
EventsOf(g) == {g} \cap cancellable

\* _request_cancel_snapshot, after the mutex.
SetCancel(a) ==
    /\ asking[a] \in {"set", "wait"}
    /\ cancelled' = cancelled \cup EventsOf(Target(a))
    /\ asking' = [asking EXCEPT ![a] = IF @ = "wait" THEN "waiting" ELSE "no"]
    /\ UNCHANGED <<lease, cancellable, completed, actor, captured, asked, talk>>

\* Seeded faults: any turn's completion wakes the waiter; the completion event
\* is looked up when it is awaited.
SomeTurnCompleted(a) == completed # {}
LatestCompleted(a)   == generation \in completed
Awaited(a)           == captured[a] \in completed

Wake(a) ==
    /\ asking[a] = "waiting"
    /\ Awaited(a)
    /\ asking' = [asking EXCEPT ![a] = "no"]
    /\ UNCHANGED <<lease, events, actor, captured, asked, talk>>

-----------------------------------------------------------------------------
TurnNext ==
    \E a \in Actors :
        \/ Begin(a)
        \/ AddUserMessage(a)
        \/ Finish(a)
        \/ EndTurn(a)
        \/ Complete(a)
        \/ \E g \in 1..MaxGeneration : EndAgain(a, g)
        \/ OpenTransition(a)
        \/ Reenter(a)
        \/ RefuseTransition(a)
        \/ CloseTransition(a)
        \/ \E s \in Sessions : SwitchSession(a, s)
        \/ RequestCancel(a)
        \/ CancelAndWait(a)
        \/ SetCancel(a)
        \/ Wake(a)

TurnSpec == TurnInit /\ [][TurnNext]_turn

\* A turn comes to an end, however often its own code asks for transitions in
\* between; what follows is run by the event loop or the thread.
FairSpec ==
    /\ TurnSpec
    /\ \A a \in Actors :
         /\ SF_turn(Finish(a)) /\ SF_turn(EndTurn(a)) /\ WF_turn(Complete(a))
         /\ WF_turn(SetCancel(a)) /\ WF_turn(Wake(a))

-----------------------------------------------------------------------------
(* Properties.                                                             *)

\* Turns and transitions exclude each other, and turns exclude turns, through
\* nested transitions, repeated ends and refused requests
\* (turn_lifecycle.py 27).
Holds(a) == pc[a] \in InTurn \/ blocks[a] > 0
OneHolder ==
    /\ \A a, b \in Actors : Holds(a) /\ Holds(b) => a = b
    /\ \A a \in Actors : ~ (pc[a] \in InTurn /\ blocks[a] > 0)

\* A turn does not split across sessions: its answer goes where its question
\* went (test_turn_lifecycle.py, "must not split across sessions").
TurnStaysInSession ==
    \A a \in Actors : pc[a] = "running" => wrote[a] = session

\* A cancellation hits only a turn that was running when somebody asked,
\* never its successor (turn_lifecycle.py 165, 175).
OnlyAskedAreCancelled == cancelled \subseteq asked

\* cancel_and_wait returns only when the captured turn has let go of the
\* lease, and so has flushed what it had to write.
WaitersSeeTheEnd ==
    [][\A a, b \in Actors :
         asking[a] = "waiting" /\ asking'[a] = "no" =>
             ~ (pc[b] \in InTurn /\ token[b] = captured[a])]_turn

\* It does return, even if other turns begin in between.
WaitersReturn ==
    \A a \in Actors : asking[a] = "waiting" ~> asking[a] = "no"
=============================================================================

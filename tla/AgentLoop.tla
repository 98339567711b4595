------------------------------- MODULE AgentLoop -------------------------------
(***************************************************************************)
(* A conversation with an agent (Agent, agent.py): rounds of requests and  *)
(* tool calls through run, arun or respond_stream, the queue of steering   *)
(* and follow-up messages (message_queue.py), cancellation, and the        *)
(* transcript in the agent's history and in its session.                   *)
(*                                                                         *)
(* A step ends where the code awaits or calls out.  The provider is        *)
(* whatever resilient_streaming_call gives back.  A follow-up is answered  *)
(* by a nested call; since a call does nothing after its follow-ups, the   *)
(* nested calls are a list of messages yet to be answered.                 *)
(***************************************************************************)
EXTENDS ToolCalls, Sequences, SequencesExt

CONSTANTS
    Apis,            \* entry points in use, among "run", "arun" and "stream"
    MaxIterations,   \* the agent's max_iterations, 0 for no bound
    MaxMessages      \* bound on the queued messages

VARIABLES
    api,         \* the entry point of this conversation
    hooks,       \* the agent has hooks around tool calls
    mode,        \* steering_mode and followup_mode of the queue
    pc,          \* "idle", "round", "request" or "batch"
    left,        \* iterations left of the present call
    unbounded,   \* the present call has no bound on its iterations
    queue,       \* message_queue
    sent,        \* number of messages that were queued
    todo,        \* follow-ups taken by the calls that are under way
    taken,       \* queued messages in the history, in their order
    lost,        \* messages that went down with an exception
    history,     \* the transcript that is sent to the provider
    session,     \* the transcript in the session
    extra,       \* a call of the batch has a second result
    stop,        \* a result or a hook ends the batch
    cut          \* a batch was left before its end, an end hook raised, or the
                 \* last recovery from an overflow cut results off their calls

fixed   == <<api, hooks, mode>>
control == <<pc, left, unbounded>>
flow    == <<queue, sent, todo, taken, lost>>
record  == <<history, session, extra, stop, cut>>
vars    == <<toolVars, fixed, control, flow, record>>

ASSUME LoopAssumption ==
    /\ Apis \subseteq {"run", "arun", "stream"}
    /\ MaxIterations \in Nat
    /\ MaxMessages \in Nat

-----------------------------------------------------------------------------
(* Of a transcript we keep what the provider's protocol asks of it: the    *)
(* calls of the last assistant message that have no result yet, and        *)
(* whether an earlier call has none, or one has two.                       *)

Empty == [open |-> {}, bad |-> FALSE]

AddText(t)      == [open |-> {}, bad |-> t.bad \/ t.open # {}]
AddCalls(t, B)  == [AddText(t) EXCEPT !.open = B]
AddResult(t, c) == [open |-> t.open \ {c}, bad |-> t.bad \/ c \notin t.open]

\* run and arun add the assistant's message when the batch is over.
Live == api = "stream"

Init ==
    /\ NoCalls /\ cancel = "none"
    /\ api \in Apis /\ hooks \in BOOLEAN /\ mode \in {"one-at-a-time", "all"}
    /\ pc = "idle" /\ left = 0 /\ unbounded = FALSE
    /\ queue = <<>> /\ sent = 0 /\ todo = <<>> /\ taken = <<>> /\ lost = {}
    /\ history = Empty /\ session = Empty /\ extra = FALSE
    /\ stop = FALSE /\ cut = FALSE

-----------------------------------------------------------------------------
(* The queue.                                                              *)

Messages == [n : 1..MaxMessages, kind : {"steering", "followup"}]
Of(kind) == {m \in Messages : m.kind = kind}

\* The elements of s that are in T, in their order.
Only(s, T) ==
    LET only[i \in 0..Len(s)] ==
          IF i = 0 THEN <<>>
          ELSE IF s[i] \in T THEN Append(only[i - 1], s[i]) ELSE only[i - 1]
    IN only[Len(s)]
OfKind(s, kind) == Only(s, Of(kind))

\* Seeded fault: the newest message first.
Newest(kind) ==
    LET all == OfKind(queue, kind)
    IN  IF mode = "all" \/ all = <<>> THEN all ELSE <<Last(all)>>

\* get_steering_messages and get_followup_messages.
Got(kind) ==
    LET all == OfKind(queue, kind)
    IN  IF mode = "all" \/ all = <<>> THEN all ELSE <<Head(all)>>

\* Seeded fault: in the mode "all" the messages stay in the queue.
LeftIn(kind) ==
    IF Got(kind) = <<>> \/ mode = "all" THEN queue ELSE Only(queue, Messages \ {Head(Got(kind))})
Without(kind) ==
    IF Got(kind) = <<>> THEN queue
    ELSE IF mode = "all" THEN Only(queue, Messages \ Of(kind))
    ELSE Only(queue, Messages \ {Head(Got(kind))})

\* add_steering and add_followup, from the prompt or while a turn runs.
Submit(kind) ==
    /\ sent < MaxMessages
    /\ sent' = sent + 1
    /\ queue' = Append(queue, [n |-> sent', kind |-> kind])
    /\ UNCHANGED <<toolVars, fixed, control, todo, taken, lost, record>>

-----------------------------------------------------------------------------
(* Calls of the agent.                                                     *)

\* The host records the question and calls the agent, with a cancel event if
\* the entry point takes one (one that is never set stands for none); run_turn
\* asks for unbounded iterations.
StartTurn ==
    /\ pc = "idle"
    /\ cancel' = IF api = "run" THEN "none" ELSE "unset"
    /\ unbounded' \in {MaxIterations = 0} \cup (IF api = "stream" THEN {TRUE} ELSE {})
    /\ left' = MaxIterations
    /\ pc' = "round"
    /\ history' = AddText(history) /\ session' = AddText(session)
    /\ UNCHANGED <<calls, fixed, flow, extra, stop, cut>>

\* The user interrupts.
SetCancel ==
    /\ pc # "idle" /\ cancel = "unset"
    /\ cancel' = "set"
    /\ UNCHANGED <<calls, fixed, control, flow, record>>

NoCall == left' = 0 /\ unbounded' = FALSE /\ cancel' = "none"

\* A call returns with follow-ups f still to answer, to a nested call (arun
\* does not pass the event on to it) or to the host, which records the answer.
CallReturns(f, h, s) ==
    IF f = <<>>
    THEN /\ pc' = "idle" /\ todo' = <<>>
         /\ history' = h
         /\ session' \in {s, AddText(s)}
         /\ NoCall
         /\ UNCHANGED taken
    ELSE /\ pc' = "round" /\ left' = MaxIterations /\ unbounded' = (MaxIterations = 0)
         /\ todo' = Tail(f)
         /\ taken' = Append(taken, Head(f))
         /\ history' = AddText(h) /\ session' = s
         /\ cancel' = IF api = "arun" THEN "none" ELSE cancel

\* A completed call takes follow-ups from the queue first.
CallEnds(o, h, s) ==
    IF o = "completed"
    THEN queue' = Without("followup") /\ CallReturns(Got("followup") \o todo, h, s)
    ELSE UNCHANGED queue /\ CallReturns(todo, h, s)

\* Steering messages become user messages, and the loop goes on.
Steer(h) ==
    /\ queue' = Without("steering")
    /\ taken' = taken \o Got("steering")
    /\ history' = IF Got("steering") = <<>> THEN h ELSE AddText(h)
    /\ pc' = "round"
    /\ UNCHANGED <<left, unbounded, cancel, todo>>

\* An exception leaves every call; what they had taken is gone.
Raise ==
    /\ pc' = "idle" /\ todo' = <<>>
    /\ lost' = lost \cup ToSet(todo)
    /\ NoCall
    /\ UNCHANGED <<queue, sent, taken>>

-----------------------------------------------------------------------------
(* A round.                                                                *)

\* Seeded fault: the iterations are not compared with their bound.
NeverExhausted == FALSE
Exhausted      == ~ unbounded /\ left = 0

Round ==
    /\ pc = "round"
    /\ IF Exhausted
       THEN /\ CallEnds("length", IF Live THEN history ELSE AddText(history), session)
            /\ UNCHANGED calls
       ELSE IF cancel = "set"
       THEN CallEnds("aborted", history, session) /\ UNCHANGED calls
       ELSE /\ pc' = "request"
            /\ left' = IF unbounded THEN left ELSE left - 1
            /\ UNCHANGED <<unbounded, toolVars, queue, todo, taken, history, session>>
    /\ UNCHANGED <<fixed, sent, lost, extra, stop, cut>>

\* The provider fails for good; text it had given is kept by respond_stream.
ProviderError ==
    /\ pc = "request"
    /\ Raise
    /\ history' \in IF Live THEN {history, AddText(history)} ELSE {history}
    /\ UNCHANGED <<calls, fixed, session, extra, stop, cut>>

\* A retry with fewer messages succeeded after a context overflow: they become
\* the history and the session, and may begin with results whose calls are gone.
OverflowRecovered ==
    /\ pc = "request"
    /\ \E orphans \in BOOLEAN :
         /\ history' = [open |-> {}, bad |-> orphans]
         /\ session' = history'
         /\ cut' = orphans
    /\ UNCHANGED <<toolVars, fixed, control, flow, extra, stop>>

Aborted ==
    /\ pc = "request"
    /\ cancel = "set"
    /\ \E h \in {history, AddText(history)} : CallEnds("aborted", h, session)
    /\ UNCHANGED <<calls, fixed, sent, lost, extra, stop, cut>>

\* run and arun look for steering messages after tool calls only.
SteersAtEnd(o) == Live /\ o = "completed" /\ OfKind(queue, "steering") # <<>>

FinalAnswer ==
    /\ pc = "request"
    /\ cancel # "set"
    /\ \E o \in {"completed", "other"} :
         IF SteersAtEnd(o)
         THEN Steer(AddText(history)) /\ UNCHANGED session
         ELSE CallEnds(o, AddText(history), session)
    /\ UNCHANGED <<calls, fixed, sent, lost, extra, stop, cut>>

CallsRequested ==
    /\ pc = "request"
    /\ cancel # "set"
    /\ \E B \in SUBSET Calls \ {{}} : \E S \in (IF hooks \/ api = "run" THEN {{}} ELSE SUBSET B) :
         /\ NewBatch(B, S)
         /\ session' = AddCalls(session, B)
         /\ history' = IF Live THEN AddCalls(history, B) ELSE history
    /\ pc' = "batch"
    /\ UNCHANGED <<cancel, fixed, left, unbounded, flow, extra, stop, cut>>

-----------------------------------------------------------------------------
(* A batch of tool calls.                                                  *)

\* The history after a batch whose calls are answered but for those in open.
Recorded(open) ==
    LET h == IF Live THEN history ELSE AddCalls(history, batch)
    IN  [h EXCEPT !.open = open, !.bad = @ \/ extra]

\* The batch is over, with results for the calls in A: the first that asks for
\* it ends the call of the agent, or the loop goes on.
Conclude(A, h, s) ==
    LET ending == {c \in A : result[c] \in Terminating}
        first  == CHOOSE c \in ending : \A d \in ending : c <= d
    IN  /\ IF ending # {}
           THEN CallEnds(IF result[first] = "end" THEN "completed" ELSE "other", AddText(h), s)
           ELSE Steer(h) /\ session' = s
        /\ NewBatch({}, {})
        /\ extra' = FALSE /\ stop' = FALSE
        /\ UNCHANGED <<fixed, sent, lost>>

\* execute_batch: all results are recorded at its end.
AllAtOnce == pc = "batch" /\ ~ hooks /\ api # "run"

Enter(c) ==
    /\ AllAtOnce
    /\ EnterBatch(c)
    /\ UNCHANGED <<fixed, control, flow, record>>

BatchReturns ==
    /\ AllAtOnce
    /\ BatchDone
    /\ Conclude(batch, Recorded(Unanswered), [session EXCEPT !.open = Unanswered])
    /\ UNCHANGED cut

\* With hooks the calls are made one by one.
OneByOne == pc = "batch" /\ hooks /\ api # "run"
NextCall(c) == c \in session.open /\ \A d \in session.open : c <= d

\* respond_stream looks at the event before each call.
Leaves == Live /\ cancel = "set"

\* before_tool_call may answer for the tool.
HookDecides(c) ==
    /\ OneByOne /\ ~ stop /\ ~ Leaves
    /\ NextCall(c) /\ at[c] = "queued"
    /\ \E r \in Results :
         Finish(c, r) /\ stop' = (r \in Aborting)
    /\ session' = AddResult(session, c)
    /\ history' = IF Live THEN AddResult(history, c) ELSE history
    /\ UNCHANGED <<cancel, fixed, control, flow, extra, cut>>

OneCall(c) ==
    /\ OneByOne /\ ~ stop /\ ~ Leaves
    /\ NextCall(c) /\ at[c] = "queued"
    /\ Execute(c)
    /\ UNCHANGED <<cancel, fixed, control, flow, record>>

\* after_tool_call may replace the result; on_tool_end may raise after the
\* result was recorded, and an error is recorded too.
Override(c) == result' \in {result} \cup {[result EXCEPT ![c] = r] : r \in Results}

OneResult(c) ==
    /\ OneByOne
    /\ NextCall(c) /\ at[c] = "done"
    /\ session' = AddResult(session, c)
    /\ \/ /\ Override(c)
          /\ history' = IF Live THEN AddResult(history, c) ELSE history
          /\ stop' = (Live /\ result'[c] \in Aborting)
          /\ UNCHANGED <<extra, cut>>
       \/ /\ result' = IF Live THEN [result EXCEPT ![c] = "failed"] ELSE result
          /\ history' = IF Live THEN AddResult(AddResult(history, c), c) ELSE history
          /\ extra' = TRUE /\ cut' = TRUE
          /\ UNCHANGED stop
    /\ UNCHANGED <<batch, safe, at, leg, attempt, cancel, fixed, control, flow>>

\* run calls a tool without timeout, retry or fallback, and only a hook ends
\* its batch.
RunTool(c) ==
    /\ pc = "batch" /\ api = "run" /\ ~ stop
    /\ NextCall(c)
    /\ \E r \in Results :
         Finish(c, r) /\ stop' \in {FALSE, hooks /\ r \in Aborting}
    /\ session' = AddResult(session, c)
    /\ UNCHANGED <<cancel, fixed, control, flow, history, extra, cut>>

Answered == batch \ session.open

CallsDone ==
    /\ pc = "batch" /\ (hooks \/ api = "run")
    /\ \/ stop \/ session.open = {}
       \/ Leaves /\ \A c \in session.open : at[c] = "queued"
    /\ cut' = (cut \/ session.open # {})
    /\ Conclude(Answered, Recorded(session.open), session)

\* An authority's error, the end of the task or an interrupt.
TurnRaises ==
    /\ pc = "batch"
    /\ Raise
    /\ NewBatch({}, {})
    /\ cut' = TRUE /\ extra' = FALSE /\ stop' = FALSE
    /\ UNCHANGED <<fixed, history, session>>

\* Switching branches and compacting rebuild the history.
RebuildHistory ==
    /\ pc = "idle"
    /\ history # session
    /\ history' = session
    /\ UNCHANGED <<toolVars, fixed, control, flow, session, extra, stop, cut>>

Tool(c) == Working(c) /\ UNCHANGED <<fixed, control, flow, record>>

-----------------------------------------------------------------------------
Progress ==
    \/ Round \/ ProviderError \/ Aborted \/ FinalAnswer \/ CallsRequested
    \/ BatchReturns \/ CallsDone
    \/ \E c \in Calls :
         \/ Enter(c) \/ HookDecides(c) \/ OneCall(c) \/ OneResult(c) \/ RunTool(c)
         \/ Tool(c)

Next ==
    \/ Progress
    \/ TurnRaises
    \/ OverflowRecovered
    \/ StartTurn
    \/ SetCancel
    \/ \E kind \in {"steering", "followup"} : Submit(kind)
    \/ RebuildHistory

Spec == Init /\ [][Next]_vars

\* Providers answer or fail, tools end or time out, permission prompts are
\* answered, and the event loop runs what is ready.
FairSpec == Spec /\ WF_vars(Progress)

-----------------------------------------------------------------------------
(* Properties.                                                             *)

Transcript == [open : SUBSET Calls, bad : BOOLEAN]

TypeOK ==
    /\ ToolTypes
    /\ api \in Apis /\ hooks \in BOOLEAN /\ mode \in {"one-at-a-time", "all"}
    /\ pc \in {"idle", "round", "request", "batch"}
    /\ left \in 0..MaxIterations /\ unbounded \in BOOLEAN
    /\ queue \in Seq(Messages) /\ todo \in Seq(Messages) /\ taken \in Seq(Messages)
    /\ sent \in 0..MaxMessages /\ lost \subseteq Messages
    /\ history \in Transcript /\ session \in Transcript
    /\ extra \in BOOLEAN /\ stop \in BOOLEAN /\ cut \in BOOLEAN

\* A queued message is in one place: in the queue, taken by a call under way,
\* in the history, or, in the mode "all", lost to an exception
\* (message_queue.py 45, 65; agent.py 1460).
Places(m) ==
    Len(Only(queue \o todo \o taken, {m}))
        + (IF m \in lost THEN 1 ELSE 0)
MessageFlow ==
    /\ \A m \in Messages : Places(m) <= 1
    /\ \A n \in 1..sent : \E m \in Messages : m.n = n /\ Places(m) = 1
    /\ lost # {} => mode = "all"

\* Steering messages reach the history in the order in which they were
\* typed, follow-ups too when they are taken one at a time.
Increasing(s) == \A i, j \in 1..Len(s) : i < j => s[i].n < s[j].n
InOrder ==
    /\ Increasing(OfKind(taken \o queue, "steering"))
    /\ mode = "one-at-a-time" => Increasing(OfKind(taken \o todo \o queue, "followup"))

\* The provider is sent exactly one result for each tool call of the history,
\* whatever was cancelled, stopped, retried or rebuilt, unless a batch was left
\* early, on_tool_end raised after a result, or an overflow was recovered from in
\* the midst of results (agent.py 1424, 1565; pig-coding-agent agent.py 111).
RequestsWellFormed ==
    pc = "request" /\ ~ cut => history = Empty

\* After an interrupt no handler starts and nobody is asked for permission, in
\* a retry, a fallback or the rest of a batch.
NothingStartsAfterCancel ==
    [][\A c \in Calls :
         at'[c] # at[c] /\ at'[c] \in {"preflight", "running"} => cancel # "set"]_vars

\* A tool that is not parallel-safe runs alone (registry.py 924), but for
\* threads that nobody waits for any more.
SequentialRunsAlone ==
    \A c \in batch \ safe : \A d \in batch : Active(c) /\ Active(d) => c = d

\* An interrupt ends the turn, even one without a bound on its iterations,
\* and whatever follow-ups it took.
CancelEndsTurn == cancel = "set" ~> pc = "idle"
=============================================================================

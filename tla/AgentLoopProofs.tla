---------------------------- MODULE AgentLoopProofs ----------------------------
(***************************************************************************)
(* For any batch of calls, any number of attempts, iterations and messages *)
(* and each entry point: an interrupt starts nothing, a tool that is not   *)
(* parallel-safe runs alone, the provider is sent exactly one result for   *)
(* each of its calls unless a batch was left early; queued messages are    *)
(* accounted for and stay in order, and the budgets are kept.              *)
(***************************************************************************)
EXTENDS AgentLoop, FiniteSetTheorems, TLAPS

Shape ==
    /\ batch \subseteq Calls /\ safe \subseteq batch
    /\ at \in [Calls -> Place]
    /\ pc \in {"idle", "round", "request", "batch"}
    /\ history \in Transcript /\ session \in Transcript
    /\ hooks \in BOOLEAN /\ extra \in BOOLEAN /\ cut \in BOOLEAN

\* A call is made when those that come before it are over.
Ordered == \A c \in batch : at[c] # "queued" => \A d \in Before(c) : at[d] = "done"

\* Calls that are made one by one have a result only when they are over.
Single == hooks \/ api = "run"
Reported ==
    pc = "batch" /\ Single =>
        safe = {} /\ \A d \in batch \ session.open : at[d] = "done"

OrderInv == Shape /\ Ordered /\ Reported

-----------------------------------------------------------------------------
(* Steps of one call.                                                      *)

Starting == {"preflight", "running"}

\* Call c moves on, and starts something only if nobody has interrupted.
Step(c) ==
    /\ UNCHANGED <<batch, safe>>
    /\ \E x \in Place \ {"queued"} :
         at' = [at EXCEPT ![c] = x] /\ (x \in Starting => cancel # "set")

LEMMA StepTo ==
    ASSUME NEW c, NEW x \in Place \ {"queued"},
           at' = [at EXCEPT ![c] = x], UNCHANGED <<batch, safe>>,
           x \in Starting => cancel # "set"
    PROVE  Step(c)
  BY DEF Step

LEMMA FinishSteps ==
    ASSUME NEW c, NEW r, Finish(c, r)
    PROVE  Step(c) /\ at' = [at EXCEPT ![c] = "done"]
<1>1. at' = [at EXCEPT ![c] = "done"] /\ UNCHANGED <<batch, safe>>
  BY DEF Finish
<1>2. "done" \in Place \ {"queued"} /\ "done" \notin Starting
  BY DEF Place, Starting
<1> QED
  BY <1>1, <1>2, StepTo

LEMMA LegSteps ==
    ASSUME NEW c, NEW r, LegReturns(c, r)
    PROVE  Step(c)
<1>1. CASE Finish(c, r) \/ Finish(c, result[c]) \/ Finish(c, "failed")
  BY <1>1, FinishSteps
<1>2. CASE cancel # "set" /\ at' = [at EXCEPT ![c] = "preflight"] /\ UNCHANGED <<batch, safe>>
  BY <1>2, StepTo DEF Place, Starting
<1> QED
  BY <1>1, <1>2 DEF LegReturns

LEMMA AttemptSteps ==
    ASSUME NEW c, StartAttempt(c) \/ Execute(c)
    PROVE  Step(c)
<1>1. CASE LegReturns(c, "failed") \/ Finish(c, "failed")
  BY <1>1, LegSteps, FinishSteps
<1>2. ASSUME cancel # "set", NEW x \in Starting, at' = [at EXCEPT ![c] = x], UNCHANGED <<batch, safe>>
      PROVE  Step(c)
  BY <1>2, StepTo DEF Place, Starting
<1> QED
  BY <1>1, <1>2 DEF StartAttempt, Execute, CancelledNow, Starting

LEMMA WorkingSteps ==
    ASSUME NEW c, Working(c)
    PROVE  Step(c) /\ Active(c) /\ UNCHANGED cancel
<1>1. CASE Preflight(c)
  BY <1>1, FinishSteps, LegSteps, AttemptSteps DEF Preflight, Active
<1>2. CASE Return(c)
  <2>1. ASSUME Retry(c) PROVE Step(c)
    <3>1. CASE at' = [at EXCEPT ![c] = "backoff"] /\ UNCHANGED <<batch, safe>>
      BY <3>1, StepTo DEF Place, Starting
    <3> QED
      BY <2>1, <3>1, LegSteps DEF Retry
  <2> QED
    BY <1>2, <2>1, LegSteps DEF Return, Active
<1>3. CASE CancelRunning(c)
  BY <1>3, LegSteps DEF CancelRunning, Active
<1>4. CASE Backoff(c)
  BY <1>4, AttemptSteps DEF Backoff, Active
<1> QED
  BY <1>1, <1>2, <1>3, <1>4 DEF Working

LEMMA EnterSteps ==
    ASSUME NEW c, EnterBatch(c)
    PROVE  /\ Step(c) /\ at[c] = "queued" /\ UNCHANGED cancel
           /\ \A d \in Before(c) : at[d] = "done"
  BY FinishSteps, AttemptSteps DEF EnterBatch

-----------------------------------------------------------------------------
(* An interrupt starts nothing.                                            *)

\* What a step of the loop does to the calls: nothing, a step of one of them,
\* or another batch takes their place.
Fresh == \E B \in SUBSET Calls : \E S \in SUBSET B : NewBatch(B, S)

LEMMA NextSteps ==
    ASSUME Next
    PROVE  \/ UNCHANGED <<batch, safe, at>>
           \/ \E c \in Calls : Step(c)
           \/ Fresh
<1>1. CASE Round \/ ProviderError \/ Aborted \/ StartTurn \/ SetCancel \/ RebuildHistory
           \/ OverflowRecovered \/ FinalAnswer \/ \E kind \in {"steering", "followup"} : Submit(kind)
  BY <1>1 DEF Round, ProviderError, Aborted, StartTurn, SetCancel, RebuildHistory, FinalAnswer,
     OverflowRecovered, Submit, toolVars, calls
<1>2. CASE CallsRequested \/ BatchReturns \/ CallsDone \/ TurnRaises
  <2>1. ASSUME NEW B \in SUBSET Calls, NEW S \in SUBSET B, NewBatch(B, S) PROVE Fresh
    BY <2>1 DEF Fresh
  <2> QED
    BY <1>2, <2>1 DEF CallsRequested, BatchReturns, CallsDone, TurnRaises, Conclude
<1>3. ASSUME NEW c \in Calls,
             Enter(c) \/ HookDecides(c) \/ OneCall(c) \/ RunTool(c) \/ Tool(c)
      PROVE  Step(c)
  BY <1>3, EnterSteps, FinishSteps, AttemptSteps, WorkingSteps
     DEF Enter, HookDecides, OneCall, RunTool, Tool
<1>4. ASSUME NEW c \in Calls, OneResult(c)
      PROVE  UNCHANGED <<batch, safe, at>>
  BY <1>4 DEF OneResult
<1> QED
  BY <1>1, <1>2, <1>3, <1>4 DEF Next, Progress

-----------------------------------------------------------------------------
(* The shape of the state.                                                 *)

LEMMA ToolShape ==
    ASSUME Shape, Next
    PROVE  batch' \subseteq Calls /\ safe' \subseteq batch' /\ at' \in [Calls -> Place]
<1>1. CASE Fresh
  BY <1>1 DEF Fresh, NewBatch, Place
<1>2. ASSUME NEW c \in Calls, Step(c)
      PROVE  batch' \subseteq Calls /\ safe' \subseteq batch' /\ at' \in [Calls -> Place]
  BY <1>2 DEF Shape, Step
<1> QED
  BY <1>1, <1>2, NextSteps DEF Shape

\* The transcript's operators yield transcripts.
LEMMA TranscriptTypes ==
    ASSUME NEW t \in Transcript, NEW B \in SUBSET Calls, NEW c
    PROVE  /\ AddText(t) \in Transcript /\ AddText(t) = [open |-> {}, bad |-> t.bad \/ t.open # {}]
           /\ AddCalls(t, B) = [open |-> B, bad |-> t.bad \/ t.open # {}]
           /\ AddCalls(t, B) \in Transcript
           /\ AddResult(t, c) \in Transcript
           /\ [t EXCEPT !.open = B] \in Transcript
<1>1. t.open \subseteq Calls /\ t.bad \in BOOLEAN
  BY DEF Transcript
<1>2. AddText(t) = [open |-> {}, bad |-> t.bad \/ t.open # {}]
  BY DEF AddText
<1>3. AddCalls(t, B) = [open |-> B, bad |-> t.bad \/ t.open # {}]
  BY <1>2 DEF AddCalls
<1>4. AddResult(t, c) = [open |-> t.open \ {c}, bad |-> t.bad \/ c \notin t.open]
  BY DEF AddResult
<1>5. \A O \in SUBSET Calls, b \in BOOLEAN : [open |-> O, bad |-> b] \in Transcript
  BY DEF Transcript
<1>6. (t.bad \/ t.open # {}) \in BOOLEAN /\ (t.bad \/ c \notin t.open) \in BOOLEAN
  BY <1>1
<1>7. t.open \ {c} \in SUBSET Calls /\ {} \in SUBSET Calls
  BY <1>1
<1>8. [t EXCEPT !.open = B] \in Transcript
  BY DEF Transcript
<1> QED
  BY <1>2, <1>3, <1>4, <1>5, <1>6, <1>7, <1>8

LEMMA RecordedTypes ==
    ASSUME Shape, NEW B \in SUBSET Calls
    PROVE  Recorded(B) \in Transcript
<1> DEFINE h == IF Live THEN history ELSE AddCalls(history, batch)
<1>1. h \in Transcript
  BY TranscriptTypes DEF Shape
<1>2. extra \in BOOLEAN
  BY DEF Shape
<1> HIDE DEF h
<1>3. [h EXCEPT !.open = B, !.bad = @ \/ extra] \in Transcript
  BY <1>1, <1>2 DEF Transcript
<1> QED
  BY <1>3 DEF Recorded, h

\* What the end of a call of the agent does to the transcripts.
LEMMA EndTypes ==
    ASSUME NEW o, NEW h \in Transcript, NEW s \in Transcript, CallEnds(o, h, s)
    PROVE  /\ pc' \in {"idle", "round"}
           /\ history' \in {h, AddText(h)} /\ session' \in {s, AddText(s)}
  BY DEF CallEnds, CallReturns

LEMMA SteerTypes ==
    ASSUME NEW h \in Transcript, Steer(h)
    PROVE  pc' = "round" /\ history' \in {h, AddText(h)}
  BY DEF Steer

LEMMA ConcludeTypes ==
    ASSUME NEW A, NEW h \in Transcript, NEW s \in Transcript, Conclude(A, h, s)
    PROVE  /\ pc' \in {"idle", "round"}
           /\ \E g \in {h, AddText(h)} : history' \in {g, AddText(g)}
           /\ session' \in {s, AddText(s)}
           /\ extra' = FALSE
<1> DEFINE ending == {c \in A : result[c] \in Terminating}
           first  == CHOOSE c \in ending : \A d \in ending : c <= d
           o      == IF result[first] = "end" THEN "completed" ELSE "other"
<1>1. AddText(h) \in Transcript
  BY TranscriptTypes
<1>2. extra' = FALSE
  BY DEF Conclude
<1>3. CASE ending # {}
  <2>1. CallEnds(o, AddText(h), s)
    BY <1>3 DEF Conclude
  <2> QED
    BY <1>1, <1>2, <2>1, EndTypes
<1>4. CASE ending = {}
  <2>1. Steer(h) /\ session' = s
    BY <1>4 DEF Conclude
  <2> QED
    BY <1>2, <2>1, SteerTypes
<1> QED
  BY <1>3, <1>4

LEMMA ShapeInd ==
    ASSUME Shape, [Next]_vars
    PROVE  Shape'
<1> DEFINE Texts == /\ pc' \in {"idle", "round", "request", "batch"}
                    /\ history' \in Transcript /\ session' \in Transcript
                    /\ hooks' \in BOOLEAN /\ extra' \in BOOLEAN /\ cut' \in BOOLEAN
<1>1. /\ history \in Transcript /\ session \in Transcript /\ batch \in SUBSET Calls
      /\ pc \in {"idle", "round", "request", "batch"}
      /\ hooks \in BOOLEAN /\ extra \in BOOLEAN /\ cut \in BOOLEAN
  BY DEF Shape
<1>2. \A t \in Transcript : AddText(t) \in Transcript
  <2> TAKE t \in Transcript
  <2> QED
    BY TranscriptTypes
<1>3. CASE StartTurn \/ SetCancel \/ RebuildHistory \/ \E kind \in {"steering", "followup"} : Submit(kind)
  <2>1. Texts
    BY <1>1, <1>2, <1>3 DEF StartTurn, SetCancel, RebuildHistory, Submit, fixed, control, record
  <2> QED
    BY <1>3, <2>1, ToolShape DEF Next, Shape
<1>4. CASE Round
  <2>1. hooks' = hooks /\ extra' = extra /\ cut' = cut
    BY <1>4 DEF Round, fixed
  <2>2. ASSUME NEW o, NEW h \in Transcript, CallEnds(o, h, session) PROVE Texts
    BY <1>1, <1>2, <2>1, <2>2, EndTypes
  <2>3. (IF Live THEN history ELSE AddText(history)) \in Transcript
    BY <1>1, <1>2
  <2>4. \/ \E o : \E h \in Transcript : CallEnds(o, h, session)
        \/ pc' = "request" /\ history' = history /\ session' = session
    <3>1. \/ CallEnds("length", IF Live THEN history ELSE AddText(history), session)
          \/ CallEnds("aborted", history, session)
          \/ pc' = "request" /\ history' = history /\ session' = session
      BY <1>4, Zenon DEF Round
    <3> QED
      BY <1>1, <2>3, <3>1, Zenon
  <2>5. Texts
    BY <1>1, <2>1, <2>2, <2>4
  <2> QED
    BY <1>4, <2>5, ToolShape DEF Next, Progress, Shape
<1>5. CASE ProviderError \/ Aborted \/ FinalAnswer \/ TurnRaises
  <2>1. ASSUME NEW o, NEW h \in Transcript, CallEnds(o, h, session), Aborted \/ FinalAnswer
        PROVE  Texts
    BY <1>1, <1>2, <2>1, EndTypes DEF Aborted, FinalAnswer, fixed
  <2>2. ASSUME Steer(AddText(history)), FinalAnswer, UNCHANGED session PROVE Texts
    BY <1>1, <1>2, <2>2, SteerTypes DEF FinalAnswer, fixed
  <2>3. ASSUME ProviderError PROVE Texts
    BY <1>1, <1>2, <2>3 DEF ProviderError, Raise, fixed
  <2>4. ASSUME TurnRaises PROVE Texts
    BY <1>1, <2>4 DEF TurnRaises, Raise, fixed
  <2>5. ASSUME Aborted PROVE Texts
    BY <1>1, <1>2, <2>1, <2>5 DEF Aborted
  <2>6. ASSUME FinalAnswer PROVE Texts
    BY <1>1, <1>2, <2>1, <2>2, <2>6 DEF FinalAnswer
  <2>7. Texts
    BY <1>5, <2>3, <2>4, <2>5, <2>6
  <2> QED
    BY <1>5, <2>7, ToolShape DEF Next, Progress, Shape
<1>6. CASE CallsRequested
  <2>1. PICK B \in SUBSET Calls : session' = AddCalls(session, B)
                                   /\ history' \in {history, AddCalls(history, B)}
    BY <1>6 DEF CallsRequested
  <2>2. Texts
    <3>1. /\ AddCalls(session, B) \in Transcript
          /\ AddCalls(history, B) \in Transcript
      BY <1>1, TranscriptTypes
    <3> QED
      BY <1>1, <1>6, <2>1, <3>1 DEF CallsRequested, fixed
  <2> QED
    BY <1>6, <2>2, ToolShape DEF Next, Progress, Shape
<1>7. CASE BatchReturns \/ CallsDone
  <2>1. Unanswered \in SUBSET Calls /\ session.open \in SUBSET Calls
    BY <1>1 DEF Unanswered, Transcript
  <2>2. PICK A : \E B \in SUBSET Calls : \E s \in Transcript : Conclude(A, Recorded(B), s)
    <3>1. [session EXCEPT !.open = Unanswered] \in Transcript
      BY <1>1, <2>1, TranscriptTypes
    <3>2. CASE BatchReturns
      BY <2>1, <3>1, <3>2, Zenon DEF BatchReturns
    <3>3. CASE CallsDone
      BY <1>1, <2>1, <3>3, Zenon DEF CallsDone
    <3> QED
      BY <1>7, <3>2, <3>3
  <2>3. PICK B \in SUBSET Calls, s \in Transcript : Conclude(A, Recorded(B), s)
    BY <2>2
  <2>4. Recorded(B) \in Transcript
    BY RecordedTypes
  <2>5. cut' \in BOOLEAN /\ UNCHANGED fixed
    BY <1>1, <1>7 DEF BatchReturns, CallsDone, Conclude
  <2>6. PICK g \in {Recorded(B), AddText(Recorded(B))} : history' \in {g, AddText(g)}
    BY <2>3, <2>4, ConcludeTypes
  <2>7. g \in Transcript
    BY <1>2, <2>4, <2>6
  <2>8. history' \in Transcript
    BY <1>2, <2>6, <2>7
  <2>9. pc' \in {"idle", "round"} /\ session' \in {s, AddText(s)} /\ extra' = FALSE
    BY <2>3, <2>4, ConcludeTypes
  <2>10. Texts
    BY <1>1, <1>2, <2>5, <2>8, <2>9 DEF fixed
  <2> QED
    BY <1>7, <2>10, ToolShape DEF Next, Progress, Shape
<1>8. ASSUME NEW c \in Calls,
             Enter(c) \/ HookDecides(c) \/ OneCall(c) \/ OneResult(c) \/ RunTool(c) \/ Tool(c)
      PROVE  Shape'
  <2>1. \A t \in Transcript : AddResult(t, c) \in Transcript
    <3> TAKE t \in Transcript
    <3> QED
      BY <1>1, TranscriptTypes
  <2>2. Texts
    BY <1>1, <1>8, <2>1 DEF Enter, HookDecides, OneCall, OneResult, RunTool, Tool,
       fixed, control, record
  <2> QED
    BY <1>8, <2>2, ToolShape DEF Next, Progress, Shape
<1>9. CASE OverflowRecovered
  <2>1. PICK orphans \in BOOLEAN :
          /\ history' = [open |-> {}, bad |-> orphans] /\ session' = history'
          /\ cut' = orphans
    BY <1>9 DEF OverflowRecovered
  <2>2. [open |-> {}, bad |-> orphans] \in Transcript
    BY DEF Transcript
  <2>3. UNCHANGED <<pc, hooks, extra>>
    BY <1>9 DEF OverflowRecovered, fixed, control
  <2>4. Texts
    BY <1>1, <2>1, <2>2, <2>3
  <2> QED
    BY <1>9, <2>4, ToolShape DEF Next, Shape
<1>10. CASE UNCHANGED vars
  BY <1>10 DEF vars, toolVars, calls, fixed, control, record, Shape
<1> QED
  BY <1>3, <1>4, <1>5, <1>6, <1>7, <1>8, <1>9, <1>10 DEF Next, Progress

-----------------------------------------------------------------------------
(* The order of the calls.                                                 *)

LEMMA StepOrdered ==
    ASSUME Shape, Ordered, NEW c \in Calls, Step(c),
           c \in batch => \A d \in Before(c) : at[d] = "done",
           at[c] = "done" => at'[c] = "done"
    PROVE  Ordered'
<1>1. batch' = batch /\ safe' = safe /\ \A e \in Calls : e # c => at'[e] = at[e]
  BY DEF Step, Shape
<1>2. \A e : Before(e)' = Before(e)
  BY <1>1 DEF Before
<1>3. \A e : Before(e) \subseteq Calls
  BY DEF Before, Shape
<1>4. \A e \in Calls : at[e] = "done" => at'[e] = "done"
  BY <1>1
<1>5. ASSUME NEW e \in batch, at'[e] # "queued", NEW d \in Before(e) PROVE at'[d] = "done"
  <2>1. at[d] = "done"
    BY <1>1, <1>5 DEF Ordered, Shape
  <2> QED
    BY <1>3, <1>4, <2>1
<1> QED
  BY <1>1, <1>2, <1>5 DEF Ordered

\* The first call without a result is the one whose turn it is.
LEMMA TurnOfNext ==
    ASSUME OrderInv, pc = "batch", Single, NEW c \in Calls, NextCall(c)
    PROVE  \A d \in Before(c) : at[d] = "done"
<1>1. safe = {} /\ \A d \in batch \ session.open : at[d] = "done"
  BY DEF OrderInv, Reported
<1> SUFFICES ASSUME NEW d \in batch, d < c PROVE at[d] = "done"
  BY <1>1 DEF Before
<1>2. c \in Nat /\ d \in Nat
  BY CallAssumption DEF OrderInv, Shape
<1>3. d \notin session.open
  BY <1>2 DEF NextCall
<1> QED
  BY <1>1, <1>3

LEMMA FreshOrdered == Fresh => Ordered'
  BY DEF Fresh, NewBatch, Ordered

LEMMA OrderInd ==
    ASSUME OrderInv, [Next]_vars
    PROVE  OrderInv'
<1>1. Shape'
  BY ShapeInd DEF OrderInv
<1>2. CASE Submit("steering") \/ Submit("followup") \/ SetCancel \/ UNCHANGED vars
  <2>1. UNCHANGED <<batch, safe, at, pc, hooks, api, session>>
    BY <1>2 DEF Submit, SetCancel, vars, toolVars, calls, fixed, control, record
  <2> QED
    BY <1>1, <2>1 DEF OrderInv, Ordered, Before, Reported, Single
<1>3. CASE StartTurn \/ Round \/ ProviderError \/ Aborted \/ FinalAnswer \/ RebuildHistory
           \/ OverflowRecovered
  <2>1. UNCHANGED <<batch, safe, at>>
    BY <1>3 DEF StartTurn, Round, ProviderError, Aborted, FinalAnswer, RebuildHistory,
       OverflowRecovered, toolVars, calls
  <2>2. pc' # "batch"
    BY <1>3 DEF StartTurn, Round, ProviderError, Aborted, FinalAnswer, RebuildHistory,
       OverflowRecovered,
       CallEnds, CallReturns, Steer, Raise, control
  <2> QED
    BY <1>1, <2>1, <2>2 DEF OrderInv, Ordered, Before, Reported
<1>4. CASE CallsRequested
  <2>1. PICK B \in SUBSET Calls : \E S \in (IF hooks \/ api = "run" THEN {{}} ELSE SUBSET B) :
          NewBatch(B, S) /\ session' = AddCalls(session, B)
    BY <1>4 DEF CallsRequested
  <2>2. UNCHANGED <<hooks, api>>
    BY <1>4 DEF CallsRequested, fixed
  <2>3. Fresh
    BY <2>1 DEF Fresh
  <2>4. session'.open = B
    <3>1. session \in Transcript
      BY DEF OrderInv, Shape
    <3>2. AddCalls(session, B) = [open |-> B, bad |-> session.bad \/ session.open # {}]
      BY <3>1, TranscriptTypes
    <3> QED
      BY <2>1, <3>2
  <2>5. Reported'
    BY <2>1, <2>2, <2>4 DEF Reported, Single, NewBatch
  <2> QED
    BY <1>1, <2>3, <2>5, FreshOrdered DEF OrderInv
<1>5. CASE BatchReturns \/ CallsDone \/ TurnRaises
  <2>1. NewBatch({}, {}) /\ pc' # "batch"
    BY <1>5 DEF BatchReturns, CallsDone, TurnRaises, Conclude, Raise, CallEnds, CallReturns, Steer
  <2>2. Fresh
    BY <2>1 DEF Fresh
  <2> QED
    BY <1>1, <2>1, <2>2, FreshOrdered DEF OrderInv, Reported
<1>6. ASSUME NEW c \in Calls, Enter(c) PROVE OrderInv'
  <2>1. Step(c) /\ at[c] = "queued" /\ (\A d \in Before(c) : at[d] = "done")
    BY <1>6, EnterSteps DEF Enter
  <2>2. ~ Single' \/ pc' # "batch"
    BY <1>6 DEF Enter, AllAtOnce, Single, fixed, control
  <2> QED
    BY <1>1, <2>1, <2>2, StepOrdered DEF OrderInv, Reported
<1>7. ASSUME NEW c \in Calls, HookDecides(c) \/ RunTool(c) PROVE OrderInv'
  <2>1. /\ pc = "batch" /\ Single /\ NextCall(c)
        /\ session' = AddResult(session, c) /\ UNCHANGED <<hooks, api, pc>>
    BY <1>7 DEF HookDecides, RunTool, OneByOne, Single, fixed, control
  <2>2. Step(c) /\ at' = [at EXCEPT ![c] = "done"]
    BY <1>7, FinishSteps DEF HookDecides, RunTool
  <2>3. Ordered'
    BY <2>1, <2>2, StepOrdered, TurnOfNext DEF OrderInv, Shape
  <2>4. session'.open = session.open \ {c}
    BY <2>1 DEF AddResult
  <2>5. Reported'
    BY <2>1, <2>2, <2>4 DEF OrderInv, Reported, Shape, Step
  <2> QED
    BY <1>1, <2>3, <2>5 DEF OrderInv
<1>8. ASSUME NEW c \in Calls, OneCall(c) PROVE OrderInv'
  <2>1. /\ pc = "batch" /\ Single /\ NextCall(c) /\ at[c] = "queued"
        /\ UNCHANGED <<hooks, api, pc, session>>
    BY <1>8 DEF OneCall, OneByOne, Single, fixed, control, record
  <2>2. Step(c)
    BY <1>8, AttemptSteps DEF OneCall
  <2>3. Ordered'
    BY <2>1, <2>2, StepOrdered, TurnOfNext DEF OrderInv
  <2>4. Reported'
    BY <2>1, <2>2 DEF OrderInv, Reported, NextCall, Shape, Step
  <2> QED
    BY <1>1, <2>3, <2>4 DEF OrderInv
<1>9. ASSUME NEW c \in Calls, OneResult(c) PROVE OrderInv'
  <2>1. /\ at[c] = "done" /\ session' = AddResult(session, c)
        /\ UNCHANGED <<batch, safe, at, hooks, api, pc>>
    BY <1>9 DEF OneResult, fixed, control
  <2>2. session'.open = session.open \ {c}
    BY <2>1 DEF AddResult
  <2> QED
    BY <1>1, <2>1, <2>2 DEF OrderInv, Ordered, Before, Reported, Single
<1>10. ASSUME NEW c \in Calls, Tool(c) PROVE OrderInv'
  <2>1. Step(c) /\ Active(c) /\ UNCHANGED <<hooks, api, pc, session>>
    BY <1>10, WorkingSteps DEF Tool, fixed, control, record
  <2>2. at[c] # "queued" /\ at[c] # "done"
    BY <2>1 DEF Active
  <2>3. Ordered'
    BY <2>1, <2>2, StepOrdered DEF OrderInv, Ordered
  <2>4. Reported'
    BY <2>1, <2>2 DEF OrderInv, Reported, Single, Shape, Step
  <2> QED
    BY <1>1, <2>3, <2>4 DEF OrderInv
<1> QED
  BY <1>2, <1>3, <1>4, <1>5, <1>6, <1>7, <1>8, <1>9, <1>10 DEF Next, Progress

LEMMA InitOrder == Init => OrderInv
<1> SUFFICES ASSUME Init PROVE OrderInv
  OBVIOUS
<1>1. batch = {} /\ safe = {} /\ at \in [Calls -> Place] /\ pc = "idle"
  BY DEF Init, NoCalls, Place
<1>2. Empty \in Transcript
  BY DEF Empty, Transcript
<1>3. Shape
  BY <1>1, <1>2 DEF Init, Shape
<1> QED
  BY <1>1, <1>3 DEF OrderInv, Ordered, Reported

LEMMA SpecOrder == Spec => []OrderInv
  BY InitOrder, OrderInd, PTL DEF Spec

\* Whatever the batch and however its calls retry, fall back or are cancelled,
\* two calls are under way together only if both tools are parallel-safe
\* (execute_batch).
THEOREM SequentialAlone == Spec => []SequentialRunsAlone
<1>1. OrderInv => SequentialRunsAlone
  <2> SUFFICES ASSUME OrderInv, NEW c \in batch \ safe, NEW d \in batch, Active(c), Active(d), c # d
               PROVE  FALSE
    BY DEF SequentialRunsAlone
  <2>1. c \in Nat /\ d \in Nat
    BY CallAssumption DEF OrderInv, Shape
  <2>2. at[c] \notin {"queued", "done"} /\ at[d] \notin {"queued", "done"}
    BY DEF Active
  <2>3. d \notin Before(c) /\ c \notin Before(d)
    BY <2>2 DEF OrderInv, Ordered
  <2> QED
    BY <2>1, <2>3 DEF Before
<1> QED
  BY <1>1, SpecOrder, PTL

\* After an interrupt no handler starts and nobody is asked, whatever was
\* queued, retried or about to fall back (_execute_tool, execute).
THEOREM NothingStarts == Spec => NothingStartsAfterCancel
<1> DEFINE Quiet ==
      \A c \in Calls : at'[c] # at[c] /\ at'[c] \in {"preflight", "running"} => cancel # "set"
<1>1. OrderInv /\ [Next]_vars => [Quiet]_vars
  <2> SUFFICES ASSUME OrderInv, Next PROVE Quiet
    OBVIOUS
  <2>1. CASE Fresh
    BY <2>1 DEF Fresh, NewBatch
  <2>2. ASSUME NEW c \in Calls, Step(c) PROVE Quiet
    BY <2>2 DEF Step, Starting, OrderInv, Shape
  <2> QED
    BY <2>1, <2>2, NextSteps
<1> QED
  BY <1>1, SpecOrder, PTL DEF Spec, NothingStartsAfterCancel

-----------------------------------------------------------------------------
(* The transcript.                                                         *)

\* Unless a batch was left early: between batches nothing is unanswered, and in
\* a batch the session, and the history where it is kept up to date, lack the
\* results of calls of this batch only.
InBatch ==
    /\ session.bad = FALSE /\ session.open \subseteq batch
    /\ history = (IF Live THEN session ELSE Empty)
    /\ ~ Single => session.open = batch
Between == history = Empty /\ session = Empty
Clean ==
    /\ pc # "batch" => extra = FALSE
    /\ cut = FALSE =>
        /\ extra = FALSE
        /\ pc = "batch" => InBatch
        /\ pc # "batch" => Between

CleanInv == OrderInv /\ Clean

LEMMA EmptyIs ==
    ASSUME NEW t \in Transcript, t.open = {}, t.bad = FALSE
    PROVE  t = Empty
  BY DEF Transcript, Empty

LEMMA EmptyReset ==
    ASSUME NEW t \in Transcript, t.bad = FALSE
    PROVE  [t EXCEPT !.open = {}] = Empty
<1> DEFINE g == [t EXCEPT !.open = {}]
<1>1. g \in Transcript
  BY DEF Transcript
<1>2. g.open = {}
  BY DEF Transcript
<1>3. g.bad = FALSE
  BY DEF Transcript
<1> HIDE DEF g
<1>4. g = Empty
  BY <1>1, <1>2, <1>3, EmptyIs
<1> QED
  BY <1>4 DEF g

LEMMA EmptyText == AddText(Empty) = Empty /\ Empty \in Transcript
  BY DEF AddText, Empty, Transcript

LEMMA EmptyRecorded ==
    ASSUME Shape, InBatch, extra = FALSE
    PROVE  Recorded({}) = Empty
<1> DEFINE h == IF Live THEN history ELSE AddCalls(history, batch)
<1>1. h \in Transcript
  BY TranscriptTypes DEF Shape
<1>2. h.bad = FALSE
  <2>1. CASE Live
    BY <2>1 DEF InBatch
  <2>2. CASE ~ Live
    <3>1. history = Empty /\ batch \in SUBSET Calls
      BY <2>2 DEF InBatch, Shape
    <3>2. AddCalls(history, batch) = [open |-> batch, bad |-> Empty.bad \/ Empty.open # {}]
      BY <3>1, EmptyText, TranscriptTypes
    <3>3. AddCalls(history, batch).bad = (Empty.bad \/ Empty.open # {})
      BY <3>2
    <3>4. Empty.bad = FALSE /\ Empty.open = {}
      BY DEF Empty
    <3> QED
      BY <2>2, <3>3, <3>4
  <2> QED
    BY <2>1, <2>2
<1> HIDE DEF h
<1> DEFINE g == [h EXCEPT !.open = {}, !.bad = @ \/ extra]
<1>3. g.open = {}
  BY <1>1 DEF Transcript
<1>4. g.bad = (h.bad \/ extra)
  BY <1>1 DEF Transcript
<1>5. g \in Transcript
  BY <1>1 DEF Transcript
<1>6. g = Empty
  <2> HIDE DEF g
  <2>1. g.bad = FALSE
    BY <1>2, <1>4
  <2> QED
    BY <1>3, <1>5, <2>1, EmptyIs
<1> QED
  BY <1>6 DEF Recorded, h

LEMMA EndClean ==
    ASSUME NEW o, CallEnds(o, Empty, Empty)
    PROVE  pc' # "batch" /\ Between'
  BY EmptyText, EndTypes DEF Between

LEMMA ConcludeClean ==
    ASSUME NEW A, Conclude(A, Empty, Empty)
    PROVE  pc' # "batch" /\ Between' /\ extra' = FALSE
<1>1. AddText(Empty) = Empty /\ Empty \in Transcript
  BY EmptyText
<1>2. /\ pc' \in {"idle", "round"} /\ extra' = FALSE
      /\ \E g \in {Empty, AddText(Empty)} : history' \in {g, AddText(g)}
      /\ session' \in {Empty, AddText(Empty)}
  BY <1>1, ConcludeTypes
<1> QED
  BY <1>1, <1>2 DEF Between

\* A second result is an affair of the batch it belongs to.
LEMMA ExtraInd ==
    ASSUME pc # "batch" => extra = FALSE, [Next]_vars
    PROVE  pc' # "batch" => extra' = FALSE
<1>1. CASE BatchReturns \/ CallsDone \/ TurnRaises
  BY <1>1 DEF BatchReturns, CallsDone, Conclude, TurnRaises
<1>2. CASE Round \/ ProviderError \/ Aborted \/ FinalAnswer \/ CallsRequested
             \/ OverflowRecovered \/ StartTurn \/ RebuildHistory
  BY <1>2 DEF Round, ProviderError, Aborted, FinalAnswer, CallsRequested,
     OverflowRecovered, StartTurn, RebuildHistory
<1>3. CASE SetCancel \/ (\E kind \in {"steering", "followup"} : Submit(kind))
             \/ UNCHANGED vars
  BY <1>3 DEF SetCancel, Submit, control, record, vars
<1>4. ASSUME NEW c \in Calls,
             Enter(c) \/ HookDecides(c) \/ OneCall(c) \/ RunTool(c) \/ Tool(c)
      PROVE  UNCHANGED <<pc, extra>>
  BY <1>4 DEF Enter, HookDecides, OneCall, RunTool, Tool, control, record
<1>5. ASSUME NEW c \in Calls, OneResult(c) PROVE pc' = "batch"
  BY <1>5 DEF OneResult, OneByOne, control
<1> QED
  BY <1>1, <1>2, <1>3, <1>4, <1>5 DEF Next, Progress

LEMMA CleanInd ==
    ASSUME CleanInv, [Next]_vars
    PROVE  CleanInv'
<1> SUFFICES ASSUME cut' = FALSE
             PROVE  /\ extra' = FALSE
                    /\ pc' = "batch" => InBatch'
                    /\ pc' # "batch" => Between'
  BY OrderInd, ExtraInd DEF CleanInv, Clean
<1> DEFINE Goal == /\ extra' = FALSE
                   /\ pc' = "batch" => InBatch'
                   /\ pc' # "batch" => Between'
<1>1. Shape
  BY DEF CleanInv, OrderInv
<1>2. ASSUME cut = FALSE
      PROVE  /\ extra = FALSE
             /\ pc = "batch" => InBatch
             /\ pc # "batch" => Between
  BY <1>2 DEF CleanInv, Clean
<1>3. CASE Submit("steering") \/ Submit("followup") \/ SetCancel \/ UNCHANGED vars
  <2>1. UNCHANGED <<batch, pc, hooks, api, session, history, extra, cut>>
    BY <1>3 DEF Submit, SetCancel, vars, toolVars, calls, fixed, control, record
  <2> QED
    BY <1>2, <2>1 DEF InBatch, Between, Single, Live
<1>4. CASE StartTurn \/ RebuildHistory
  <2>1. UNCHANGED <<extra, cut>> /\ pc = "idle" /\ pc' # "batch"
    BY <1>4 DEF StartTurn, RebuildHistory, control
  <2>2. Between
    BY <1>2, <2>1
  <2> QED
    BY <1>2, <1>4, <2>1, <2>2, EmptyText DEF StartTurn, RebuildHistory, Between
<1>5. CASE Round
  <2>1. UNCHANGED <<extra, cut>> /\ pc = "round"
    BY <1>5 DEF Round
  <2>2. history = Empty /\ session = Empty
    BY <1>2, <2>1 DEF Between
  <2>3. \/ CallEnds("length", IF Live THEN history ELSE AddText(history), session)
        \/ CallEnds("aborted", history, session)
        \/ pc' = "request" /\ history' = history /\ session' = session
    BY <1>5, Zenon DEF Round
  <2>4. (IF Live THEN history ELSE AddText(history)) = Empty
    BY <2>2, EmptyText
  <2> QED
    BY <1>2, <2>1, <2>2, <2>3, <2>4, EndClean DEF Between
<1>6. CASE ProviderError
  <2>1. UNCHANGED <<extra, cut, session>> /\ pc = "request" /\ pc' # "batch"
    BY <1>6 DEF ProviderError, Raise
  <2>2. history = Empty /\ session = Empty
    BY <1>2, <2>1 DEF Between
  <2>3. history' = Empty
    BY <1>6, <2>2, EmptyText DEF ProviderError
  <2> QED
    BY <1>2, <2>1, <2>2, <2>3 DEF Between
<1>7. CASE Aborted \/ FinalAnswer
  <2>1. UNCHANGED <<extra, cut>> /\ pc = "request"
    BY <1>7 DEF Aborted, FinalAnswer
  <2>2. history = Empty /\ session = Empty /\ AddText(history) = Empty
    BY <1>2, <2>1, EmptyText DEF Between
  <2>3. CASE Aborted
    BY <1>2, <2>1, <2>2, <2>3, EndClean DEF Aborted
  <2>4. CASE FinalAnswer
    <3>1. CASE Steer(AddText(history)) /\ UNCHANGED session
      BY <1>2, <2>1, <2>2, <3>1, EmptyText, SteerTypes DEF Between
    <3>2. ASSUME NEW o, CallEnds(o, AddText(history), session) PROVE Goal
      BY <1>2, <2>1, <2>2, <3>2, EndClean
    <3> QED
      BY <2>4, <3>1, <3>2 DEF FinalAnswer
  <2> QED
    BY <1>7, <2>3, <2>4
<1>8. CASE CallsRequested
  <2>1. UNCHANGED <<extra, cut, hooks, api>> /\ pc = "request" /\ pc' = "batch"
    BY <1>8 DEF CallsRequested, fixed
  <2>2. history = Empty /\ session = Empty
    BY <1>2, <2>1 DEF Between
  <2>3. PICK B \in SUBSET Calls :
          /\ batch' = B
          /\ session' = AddCalls(session, B)
          /\ history' = IF Live THEN AddCalls(history, B) ELSE history
    BY <1>8 DEF CallsRequested, NewBatch
  <2>4. AddCalls(Empty, B) = [open |-> B, bad |-> Empty.bad \/ Empty.open # {}]
    BY EmptyText, TranscriptTypes
  <2>5. AddCalls(Empty, B) = [open |-> B, bad |-> FALSE]
    BY <2>4 DEF Empty
  <2>6. session'.bad = FALSE /\ session'.open = B
    BY <2>2, <2>3, <2>5
  <2>7. history' = IF Live THEN session' ELSE Empty
    BY <2>2, <2>3
  <2> QED
    BY <1>2, <2>1, <2>3, <2>6, <2>7 DEF InBatch, Live
<1>9. CASE BatchReturns
  <2>1. /\ cut = FALSE /\ pc = "batch" /\ Unanswered = {}
        /\ Conclude(batch, Recorded(Unanswered), [session EXCEPT !.open = Unanswered])
    BY <1>9 DEF BatchReturns, AllAtOnce, BatchDone
  <2>2. session \in Transcript /\ session.bad = FALSE
    BY <1>1, <1>2, <2>1 DEF Shape, InBatch
  <2>3. [session EXCEPT !.open = {}] = Empty
    BY <2>2, EmptyReset
  <2>4. Recorded({}) = Empty
    BY <1>1, <1>2, <2>1, EmptyRecorded
  <2>5. Conclude(batch, Empty, Empty)
    BY <2>1, <2>3, <2>4, Zenon
  <2> QED
    BY <2>5, ConcludeClean
<1>10. CASE CallsDone
  <2>1. /\ cut' = (cut \/ session.open # {}) /\ pc = "batch"
        /\ Conclude(Answered, Recorded(session.open), session)
    BY <1>10 DEF CallsDone
  <2>2. cut = FALSE /\ session.open = {}
    BY <1>1, <2>1 DEF Shape
  <2>3. session = Empty
    BY <1>1, <1>2, <2>1, <2>2, EmptyIs DEF Shape, InBatch
  <2>4. Recorded({}) = Empty
    BY <1>1, <1>2, <2>1, <2>2, EmptyRecorded
  <2>5. Conclude(Answered, Empty, Empty)
    BY <2>1, <2>2, <2>3, <2>4, Zenon
  <2> QED
    BY <2>5, ConcludeClean
<1>11. CASE TurnRaises
  BY <1>11 DEF TurnRaises
<1>12. ASSUME NEW c \in Calls, HookDecides(c) \/ RunTool(c) \/ OneResult(c) PROVE Goal
  <2>1. pc = "batch" /\ pc' = "batch" /\ Single /\ UNCHANGED <<hooks, api, batch>>
    BY <1>12 DEF HookDecides, RunTool, OneResult, OneByOne, Single, fixed, control, Finish
  <2>2. /\ UNCHANGED <<extra, cut>> /\ c \in session.open
        /\ session' = AddResult(session, c)
        /\ history' = IF Live THEN AddResult(history, c) ELSE history
    BY <1>12 DEF HookDecides, RunTool, OneResult, NextCall, Live
  <2>3. InBatch /\ extra = FALSE
    BY <1>2, <2>1, <2>2
  <2>4. session'.open = session.open \ {c} /\ session'.bad = FALSE
    BY <2>2, <2>3 DEF AddResult, InBatch
  <2> QED
    BY <2>1, <2>2, <2>3, <2>4 DEF InBatch, Live, Single
<1>13. ASSUME NEW c \in Calls, Enter(c) \/ OneCall(c) \/ Tool(c) PROVE Goal
  <2>1. Step(c)
    BY <1>13, EnterSteps, AttemptSteps, WorkingSteps DEF Enter, OneCall, Tool
  <2>2. UNCHANGED <<batch, pc, hooks, api, session, history, extra, cut>>
    BY <1>13, <2>1 DEF Enter, OneCall, Tool, fixed, control, record, Step
  <2> QED
    BY <1>2, <2>2 DEF InBatch, Between, Single, Live
<1>14. CASE OverflowRecovered
  <2>1. PICK orphans \in BOOLEAN :
          /\ history' = [open |-> {}, bad |-> orphans] /\ session' = history'
          /\ cut' = orphans
    BY <1>14 DEF OverflowRecovered
  <2>2. orphans = FALSE
    BY <2>1
  <2>3. UNCHANGED <<pc, extra>> /\ pc = "request"
    BY <1>14 DEF OverflowRecovered, control
  <2>4. Between'
    BY <2>1, <2>2 DEF Between, Empty
  <2> QED
    BY <2>3, <2>4 DEF CleanInv, Clean
<1> QED
  BY <1>3, <1>4, <1>5, <1>6, <1>7, <1>8, <1>9, <1>10, <1>11, <1>12, <1>13, <1>14
     DEF Next, Progress

LEMMA SpecClean == Spec => []CleanInv
<1>1. Init => CleanInv
  BY InitOrder DEF Init, CleanInv, Clean, Between
<1> QED
  BY <1>1, CleanInd, PTL DEF Spec

\* Whatever was cancelled, stopped by a hook, retried or rebuilt, a request
\* carries exactly one result for each earlier tool call, as long as no batch
\* was left early, no end hook raised and no recovery from an overflow cut
\* results off their calls (respond_stream, run, arun).
THEOREM WellFormedRequests == Spec => []RequestsWellFormed
<1>1. CleanInv => RequestsWellFormed
  BY DEF CleanInv, Clean, OrderInv, Shape, Between, RequestsWellFormed
<1> QED
  BY <1>1, SpecClean, PTL

-----------------------------------------------------------------------------
(* Sequences.                                                              *)

\* Induction, in a form without an operator for a parameter: were n the end of
\* a set that holds 0 and successors, the successor would map it into itself
\* less 0.
LEMMA Induction ==
    ASSUME NEW T \in SUBSET Nat, 0 \in T, \A n \in T : n + 1 \in T
    PROVE  \A n \in Nat : n \in T
<1> SUFFICES ASSUME NEW n \in Nat, n \notin T PROVE FALSE
  OBVIOUS
<1> DEFINE A == {i \in T : i <= n}
           B == A \ {0}
           next == [i \in A |-> i + 1]
<1>1. IsFiniteSet(A)
  <2>1. A \in SUBSET Nat /\ \A i \in A : i <= n
    OBVIOUS
  <2> QED
    BY <2>1, FS_BoundedSetOfNaturals
<1>2. IsFiniteSet(B) /\ Cardinality(B) = Cardinality(A) - 1 /\ Cardinality(A) \in Nat
  <2>1. 0 \in A
    OBVIOUS
  <2> HIDE DEF A
  <2> QED
    BY <1>1, <2>1, FS_RemoveElement, FS_CardinalityType
<1>3. next \in [A -> B]
  <2>1. ASSUME NEW i \in A PROVE i + 1 \in B
    <3>1. i \in Nat /\ i <= n /\ i # n /\ i + 1 \in T
      OBVIOUS
    <3> QED
      BY <3>1
  <2> QED
    BY <2>1
<1>4. \A x, y \in A : next[x] = next[y] => x = y
  OBVIOUS
<1>5. Cardinality(B) < Cardinality(A)
  <2> HIDE DEF A, B
  <2> QED
    BY <1>2
<1> HIDE DEF A, B, next
<1> QED
  BY <1>1, <1>2, <1>3, <1>4, <1>5, FS_PigeonHole

\* f is what Only computes for the first n elements of s.
Choice(s, T, n, f) ==
    f = [i \in 0..n |->
          IF i = 0 THEN <<>>
          ELSE IF s[i] \in T THEN Append(f[i - 1], s[i]) ELSE f[i - 1]]

LEMMA ChoiceExists ==
    ASSUME NEW s, NEW T
    PROVE  \A n \in Nat : \E f : Choice(s, T, n, f)
<1> DEFINE P == {n \in Nat : \E f : Choice(s, T, n, f)}
<1>1. 0 \in P
  <2> DEFINE f == [i \in 0..0 |-> << >>]
  <2>1. Choice(s, T, 0, f)
    BY DEF Choice
  <2> QED
    BY <2>1
<1>2. ASSUME NEW n \in P PROVE n + 1 \in P
  <2>1. PICK f : Choice(s, T, n, f)
    OBVIOUS
  <2> DEFINE g == [i \in 0..n + 1 |->
                IF i <= n THEN f[i]
                ELSE IF s[i] \in T THEN Append(f[i - 1], s[i]) ELSE f[i - 1]]
  <2>2. \A i \in 0..n : g[i] = f[i]
    OBVIOUS
  <2>3. \A i \in 0..n : f[i] = IF i = 0 THEN <<>>
          ELSE IF s[i] \in T THEN Append(f[i - 1], s[i]) ELSE f[i - 1]
    BY <2>1 DEF Choice
  <2>4. ASSUME NEW i \in 0..n + 1
        PROVE  g[i] = IF i = 0 THEN <<>>
                      ELSE IF s[i] \in T THEN Append(g[i - 1], s[i]) ELSE g[i - 1]
    <3>1. i # 0 => g[i - 1] = f[i - 1]
      BY <2>2
    <3> QED
      BY <2>3, <3>1
  <2>5. Choice(s, T, n + 1, g)
    BY <2>4 DEF Choice
  <2> QED
    BY <2>5
<1> HIDE DEF P
<1>3. \A n \in Nat : n \in P
  BY <1>1, <1>2, Induction DEF P
<1> QED
  BY <1>3 DEF P

\* The places of s that give the elements of r, in their order.
Picks(s, T, n, r, g) ==
    /\ g \in [1..Len(r) -> 1..n]
    /\ \A i, j \in 1..Len(r) : i < j => g[i] < g[j]
    /\ \A i \in 1..Len(r) : r[i] = s[g[i]] /\ s[g[i]] \in T
    /\ \A k \in 1..n : s[k] \in T => \E i \in 1..Len(r) : g[i] = k

LEMMA OnlyPicks ==
    ASSUME NEW S, NEW s \in Seq(S), NEW T
    PROVE  Only(s, T) \in Seq(S) /\ \E g : Picks(s, T, Len(s), Only(s, T), g)
<1>1. PICK f : Choice(s, T, Len(s), f) /\ Only(s, T) = f[Len(s)]
  <2>1. Len(s) \in Nat
    OBVIOUS
  <2>2. \E f : f = [i \in 0..Len(s) |->
          IF i = 0 THEN <<>>
          ELSE IF s[i] \in T THEN Append(f[i - 1], s[i]) ELSE f[i - 1]]
    <3>1. \E f : Choice(s, T, Len(s), f)
      BY <2>1, ChoiceExists
    <3> QED
      BY <3>1 DEF Choice
  <2> QED
    BY <2>2 DEF Only, Choice
<1> DEFINE Right(n) == f[n] \in Seq(S) /\ \E g : Picks(s, T, n, f[n], g)
           P == {n \in Nat : n <= Len(s) => Right(n)}
<1>2. 0 \in P
  <2>1. f[0] = << >>
    BY <1>1 DEF Choice
  <2>2. Picks(s, T, 0, f[0], << >>)
    BY <2>1 DEF Picks
  <2>3. Right(0)
    BY <2>1, <2>2
  <2> QED
    BY <2>3
<1>3. ASSUME NEW n \in P PROVE n + 1 \in P
  <2> SUFFICES ASSUME n + 1 <= Len(s) PROVE Right(n + 1)
    OBVIOUS
  <2>1. /\ n \in Nat /\ n <= Len(s)
        /\ f[n + 1] = IF s[n + 1] \in T THEN Append(f[n], s[n + 1]) ELSE f[n]
        /\ s[n + 1] \in S
    <3>1. n \in Nat /\ Len(s) \in Nat /\ n + 1 \in 0..Len(s) /\ n + 1 # 0 /\ (n + 1) - 1 = n
      OBVIOUS
    <3>2. \A i \in 0..Len(s) : f[i] = IF i = 0 THEN <<>>
            ELSE IF s[i] \in T THEN Append(f[i - 1], s[i]) ELSE f[i - 1]
      BY <1>1 DEF Choice
    <3>3. f[n + 1] = IF s[n + 1] \in T THEN Append(f[n], s[n + 1]) ELSE f[n]
      <4> HIDE DEF P
      <4> QED
        BY <3>1, <3>2
    <3>4. s[n + 1] \in S
      BY <3>1
    <3> QED
      BY <3>1, <3>3, <3>4
  <2>2. f[n] \in Seq(S)
    BY <2>1
  <2>3. PICK g : Picks(s, T, n, f[n], g)
    BY <2>1
  <2>4. CASE s[n + 1] \notin T
    <3>1. Picks(s, T, n + 1, f[n], g)
      BY <2>1, <2>3, <2>4 DEF Picks
    <3> QED
      BY <2>1, <2>2, <2>4, <3>1
  <2>5. CASE s[n + 1] \in T
    <3> DEFINE r == f[n]
               q == Append(r, s[n + 1])
               h == [i \in 1..Len(q) |-> IF i <= Len(r) THEN g[i] ELSE n + 1]
    <3> HIDE DEF r, P
    <3>1. r \in Seq(S) /\ Picks(s, T, n, r, g)
      BY <2>2, <2>3 DEF r
    <3>2. /\ q \in Seq(S) /\ Len(q) = Len(r) + 1 /\ Len(r) \in Nat
          /\ \A i \in 1..Len(r) : q[i] = r[i]
          /\ q[Len(r) + 1] = s[n + 1]
      BY <2>1, <3>1
    <3>3. g \in [1..Len(r) -> 1..n]
      BY <3>1 DEF Picks
    <3> HIDE DEF q
    <3>4. h \in [1..Len(q) -> 1..n + 1]
      BY <2>1, <3>2, <3>3
    <3>5. /\ \A i \in 1..Len(r) : h[i] = g[i]
          /\ h[Len(r) + 1] = n + 1
      BY <3>2
    <3>6. \A i \in 1..Len(q) : i \in 1..Len(r) \/ i = Len(r) + 1
      BY <3>2
    <3> HIDE DEF h
    <3>7. \A i, j \in 1..Len(q) : i < j => h[i] < h[j]
      <4> SUFFICES ASSUME NEW i \in 1..Len(q), NEW j \in 1..Len(q), i < j PROVE h[i] < h[j]
        OBVIOUS
      <4>1. i \in 1..Len(r) /\ g[i] \in 1..n
        BY <3>2, <3>3, <3>6
      <4>2. CASE j \in 1..Len(r)
        BY <3>1, <3>5, <4>1, <4>2 DEF Picks
      <4>3. CASE j = Len(r) + 1
        BY <2>1, <3>5, <4>1, <4>3
      <4> QED
        BY <3>6, <4>2, <4>3
    <3>8. \A i \in 1..Len(q) : q[i] = s[h[i]] /\ s[h[i]] \in T
      BY <2>5, <3>1, <3>2, <3>5, <3>6 DEF Picks
    <3>9. \A k \in 1..n + 1 : s[k] \in T => \E i \in 1..Len(q) : h[i] = k
      <4> SUFFICES ASSUME NEW k \in 1..n + 1, s[k] \in T PROVE \E i \in 1..Len(q) : h[i] = k
        OBVIOUS
      <4>1. CASE k = n + 1
        BY <3>2, <3>5, <4>1
      <4>2. CASE k \in 1..n
        <5>1. PICK i \in 1..Len(r) : g[i] = k
          BY <3>1, <4>2 DEF Picks
        <5> QED
          BY <3>2, <3>5, <5>1
      <4> QED
        BY <2>1, <4>1, <4>2
    <3>10. Picks(s, T, n + 1, q, h)
      BY <3>4, <3>7, <3>8, <3>9 DEF Picks
    <3>11. f[n + 1] = q
      BY <2>1, <2>5 DEF q, r
    <3> QED
      BY <3>2, <3>10, <3>11
  <2> QED
    BY <2>4, <2>5
<1> HIDE DEF P
<1>4. \A n \in Nat : n \in P
  BY <1>2, <1>3, Induction DEF P
<1>5. Right(Len(s))
  BY <1>4 DEF P
<1> QED
  BY <1>1, <1>5

NoRepeat(s)      == \A i, j \in 1..Len(s) : s[i] = s[j] => i = j
Sorted(s, T)     == \A i, j \in 1..Len(s) : i < j /\ s[i] \in T /\ s[j] \in T => s[i].n < s[j].n
Precede(A, B, T) == \A x \in A \cap T, y \in B \cap T : x.n < y.n

LEMMA OnlySubsequence ==
    ASSUME NEW S, NEW s \in Seq(S), NEW T
    PROVE  /\ Only(s, T) \in Seq(S)
           /\ ToSet(Only(s, T)) = ToSet(s) \cap T
           /\ Sorted(s, T) => Increasing(Only(s, T))
<1> DEFINE r == Only(s, T)
<1>1. PICK g : r \in Seq(S) /\ Picks(s, T, Len(s), r, g)
  BY OnlyPicks
<1> HIDE DEF r
<1>2. Len(s) \in Nat /\ Len(r) \in Nat /\ DOMAIN s = 1..Len(s) /\ DOMAIN r = 1..Len(r)
  BY <1>1
<1>3. \A i \in 1..Len(r) : g[i] \in 1..Len(s) /\ r[i] = s[g[i]] /\ s[g[i]] \in T
  BY <1>1 DEF Picks
<1>4. ToSet(r) = ToSet(s) \cap T
  <2>1. ASSUME NEW x \in ToSet(r) PROVE x \in ToSet(s) \cap T
    <3>1. PICK i \in 1..Len(r) : x = r[i]
      BY <1>2 DEF ToSet
    <3> QED
      BY <1>2, <1>3, <3>1 DEF ToSet
  <2>2. ASSUME NEW x \in ToSet(s), x \in T PROVE x \in ToSet(r)
    <3>1. PICK k \in 1..Len(s) : x = s[k]
      BY <1>2 DEF ToSet
    <3>2. PICK i \in 1..Len(r) : g[i] = k
      BY <1>1, <2>2, <3>1 DEF Picks
    <3> QED
      BY <1>2, <1>3, <3>1, <3>2 DEF ToSet
  <2> QED
    BY <2>1, <2>2
<1>5. ASSUME Sorted(s, T) PROVE Increasing(r)
  <2> SUFFICES ASSUME NEW i \in 1..Len(r), NEW j \in 1..Len(r), i < j PROVE r[i].n < r[j].n
    BY DEF Increasing
  <2>1. g[i] < g[j]
    BY <1>1 DEF Picks
  <2> QED
    BY <1>3, <1>5, <2>1 DEF Sorted
<1> QED
  BY <1>1, <1>4, <1>5 DEF r

LEMMA OnlyOnce ==
    ASSUME NEW S, NEW s \in Seq(S), NoRepeat(s), NEW m
    PROVE  Len(Only(s, {m})) = IF m \in ToSet(s) THEN 1 ELSE 0
<1> DEFINE r == Only(s, {m})
<1>1. PICK g : r \in Seq(S) /\ Picks(s, {m}, Len(s), r, g)
  BY OnlyPicks
<1>2. ToSet(r) = ToSet(s) \cap {m}
  BY OnlySubsequence
<1> HIDE DEF r
<1>3. Len(r) \in Nat /\ DOMAIN r = 1..Len(r)
  BY <1>1
<1>4. \A i \in 1..Len(r) : g[i] \in 1..Len(s) /\ s[g[i]] = m
  BY <1>1 DEF Picks
<1>5. Len(r) <= 1
  <2> SUFFICES ASSUME Len(r) > 1 PROVE FALSE
    BY <1>3
  <2>1. 1 \in 1..Len(r) /\ 2 \in 1..Len(r)
    BY <1>3
  <2>2. g[1] < g[2]
    BY <1>1, <2>1 DEF Picks
  <2>3. g[1] = g[2] /\ g[1] \in Nat
    BY <1>4, <2>1 DEF NoRepeat
  <2> QED
    BY <2>2, <2>3
<1>6. m \in ToSet(s) => Len(r) # 0
  <2> SUFFICES ASSUME m \in ToSet(s) PROVE Len(r) # 0
    OBVIOUS
  <2>1. m \in ToSet(r)
    BY <1>2
  <2>2. PICK i \in 1..Len(r) : r[i] = m
    BY <1>3, <2>1 DEF ToSet
  <2> QED
    BY <1>3, <2>2
<1>7. m \notin ToSet(s) => Len(r) = 0
  <2> SUFFICES ASSUME Len(r) # 0 PROVE m \in ToSet(s)
    OBVIOUS
  <2>1. 1 \in 1..Len(r)
    BY <1>3
  <2>2. r[1] \in ToSet(r)
    BY <1>3, <2>1 DEF ToSet
  <2> QED
    BY <1>2, <1>3, <2>1, <2>2
<1> QED
  BY <1>3, <1>5, <1>6, <1>7 DEF r

LEMMA Concatenation ==
    ASSUME NEW S, NEW s \in Seq(S), NEW t \in Seq(S)
    PROVE  /\ s \o t \in Seq(S)
           /\ ToSet(s \o t) = ToSet(s) \cup ToSet(t)
           /\ NoRepeat(s) /\ NoRepeat(t) /\ ToSet(s) \cap ToSet(t) = {} => NoRepeat(s \o t)
           /\ \A T : Sorted(s, T) /\ Sorted(t, T) /\ Precede(ToSet(s), ToSet(t), T)
                  => Sorted(s \o t, T)
<1> DEFINE w == s \o t
<1>1. /\ w \in Seq(S) /\ Len(w) = Len(s) + Len(t) /\ Len(s) \in Nat /\ Len(t) \in Nat
      /\ DOMAIN w = 1..Len(w) /\ DOMAIN s = 1..Len(s) /\ DOMAIN t = 1..Len(t)
      /\ \A i \in 1..Len(s) : w[i] = s[i]
      /\ \A i \in 1..Len(t) : w[Len(s) + i] = t[i]
  OBVIOUS
<1> HIDE DEF w
<1>2. \A i \in 1..Len(w) : i \in 1..Len(s) \/ \E j \in 1..Len(t) : i = Len(s) + j
  <2> TAKE i \in 1..Len(w)
  <2>1. i > Len(s) => i - Len(s) \in 1..Len(t) /\ i = Len(s) + (i - Len(s))
    BY <1>1
  <2> QED
    BY <1>1, <2>1
<1>3. \A i \in 1..Len(s) : i \in 1..Len(w) /\ s[i] \in ToSet(s)
  BY <1>1 DEF ToSet
<1>4. \A i \in 1..Len(t) : Len(s) + i \in 1..Len(w) /\ t[i] \in ToSet(t)
  BY <1>1 DEF ToSet
<1>5. ToSet(w) = ToSet(s) \cup ToSet(t)
  <2>1. ASSUME NEW x \in ToSet(w) PROVE x \in ToSet(s) \cup ToSet(t)
    BY <1>1, <1>2, <1>3, <1>4 DEF ToSet
  <2>2. ASSUME NEW x \in ToSet(s) PROVE x \in ToSet(w)
    BY <1>1, <1>3 DEF ToSet
  <2>3. ASSUME NEW x \in ToSet(t) PROVE x \in ToSet(w)
    BY <1>1, <1>4 DEF ToSet
  <2> QED
    BY <2>1, <2>2, <2>3
<1>6. ASSUME NoRepeat(s), NoRepeat(t), ToSet(s) \cap ToSet(t) = {} PROVE NoRepeat(w)
  <2> SUFFICES ASSUME NEW i \in 1..Len(w), NEW j \in 1..Len(w), w[i] = w[j] PROVE i = j
    BY DEF NoRepeat
  <2>1. CASE i \in 1..Len(s) /\ j \in 1..Len(s)
    BY <1>1, <1>6, <2>1 DEF NoRepeat
  <2>2. CASE \E x \in 1..Len(t), y \in 1..Len(t) : i = Len(s) + x /\ j = Len(s) + y
    BY <1>1, <1>6, <2>2 DEF NoRepeat
  <2>3. ASSUME NEW x \in 1..Len(s), NEW y \in 1..Len(t), w[x] = w[Len(s) + y] PROVE FALSE
    BY <1>1, <1>3, <1>4, <1>6, <2>3
  <2> QED
    BY <1>2, <2>1, <2>2, <2>3
<1>7. ASSUME NEW T, Sorted(s, T), Sorted(t, T), Precede(ToSet(s), ToSet(t), T) PROVE Sorted(w, T)
  <2> SUFFICES ASSUME NEW i \in 1..Len(w), NEW j \in 1..Len(w), i < j, w[i] \in T, w[j] \in T
               PROVE  w[i].n < w[j].n
    BY DEF Sorted
  <2>1. CASE i \in 1..Len(s) /\ j \in 1..Len(s)
    BY <1>1, <1>7, <2>1 DEF Sorted
  <2>2. ASSUME NEW x \in 1..Len(t), i = Len(s) + x PROVE w[i].n < w[j].n
    <3>1. PICK y \in 1..Len(t) : j = Len(s) + y
      <4>1. j \notin 1..Len(s)
        BY <1>1, <2>2
      <4> QED
        BY <1>2, <4>1
    <3>2. x < y /\ w[i] = t[x] /\ w[j] = t[y]
      BY <1>1, <2>2, <3>1
    <3> QED
      BY <1>7, <3>2 DEF Sorted
  <2>3. ASSUME NEW y \in 1..Len(t), j = Len(s) + y, i \in 1..Len(s) PROVE w[i].n < w[j].n
    <3>1. w[i] = s[i] /\ w[j] = t[y]
      BY <1>1, <2>3
    <3> QED
      BY <1>3, <1>4, <1>7, <2>3, <3>1 DEF Precede
  <2> QED
    BY <1>2, <2>1, <2>2, <2>3
<1> QED
  BY <1>1, <1>5, <1>6, <1>7 DEF w

LEMMA AppendedSet ==
    ASSUME NEW S, NEW s \in Seq(S), NEW x \in S
    PROVE  ToSet(Append(s, x)) = ToSet(s) \cup {x}
<1>1. /\ Len(s) \in Nat /\ DOMAIN s = 1..Len(s) /\ DOMAIN Append(s, x) = 1..Len(s) + 1
      /\ \A i \in 1..Len(s) : Append(s, x)[i] = s[i]
      /\ Append(s, x)[Len(s) + 1] = x
  OBVIOUS
<1>2. ASSUME NEW y \in ToSet(Append(s, x)) PROVE y \in ToSet(s) \cup {x}
  <2>1. PICK i \in 1..Len(s) + 1 : y = Append(s, x)[i]
    BY <1>1 DEF ToSet
  <2> QED
    BY <1>1, <2>1 DEF ToSet
<1>3. ASSUME NEW y \in ToSet(s) PROVE y \in ToSet(Append(s, x))
  <2>1. PICK i \in 1..Len(s) : y = s[i]
    BY <1>1 DEF ToSet
  <2> QED
    BY <1>1, <2>1 DEF ToSet
<1>4. x \in ToSet(Append(s, x))
  BY <1>1 DEF ToSet
<1> QED
  BY <1>2, <1>3, <1>4

LEMMA Appended ==
    ASSUME NEW S, NEW s \in Seq(S), NEW x \in S
    PROVE  /\ Append(s, x) \in Seq(S)
           /\ ToSet(Append(s, x)) = ToSet(s) \cup {x}
           /\ NoRepeat(s) /\ x \notin ToSet(s) => NoRepeat(Append(s, x))
           /\ \A T : Sorted(s, T) /\ Precede(ToSet(s), {x}, T) => Sorted(Append(s, x), T)
<1> DEFINE t == <<x>>
<1>1. /\ t \in Seq(S) /\ Append(s, x) = s \o t
      /\ DOMAIN t = {1} /\ t[1] = x /\ Len(t) = 1
  OBVIOUS
<1> HIDE DEF t
<1>2. ToSet(t) = {x} /\ NoRepeat(t) /\ \A T : Sorted(t, T)
  BY <1>1 DEF ToSet, NoRepeat, Sorted
<1>3. /\ s \o t \in Seq(S) /\ ToSet(s \o t) = ToSet(s) \cup ToSet(t)
      /\ NoRepeat(s) /\ NoRepeat(t) /\ ToSet(s) \cap ToSet(t) = {} => NoRepeat(s \o t)
      /\ \A T : Sorted(s, T) /\ Sorted(t, T) /\ Precede(ToSet(s), ToSet(t), T)
             => Sorted(s \o t, T)
  BY <1>1, Concatenation
<1>4. Append(s, x) = s \o t
  BY <1>1
<1> QED
  BY <1>2, <1>3, <1>4

LEMMA HeadAndTail ==
    ASSUME NEW S, NEW s \in Seq(S), s # << >>
    PROVE  /\ Head(s) \in S /\ Tail(s) \in Seq(S) /\ Len(Tail(s)) = Len(s) - 1
           /\ ToSet(s) = {Head(s)} \cup ToSet(Tail(s))
           /\ NoRepeat(s) => NoRepeat(Tail(s)) /\ Head(s) \notin ToSet(Tail(s))
<1> DEFINE t == Tail(s)
<1>1. /\ Len(s) \in Nat /\ Len(s) # 0 /\ DOMAIN s = 1..Len(s) /\ Head(s) = s[1] /\ s[1] \in S
      /\ t \in Seq(S) /\ Len(t) = Len(s) - 1 /\ DOMAIN t = 1..Len(t)
      /\ \A i \in 1..Len(t) : t[i] = s[i + 1]
  OBVIOUS
<1> HIDE DEF t
<1>2. \A i \in 1..Len(s) : i = 1 \/ \E j \in 1..Len(t) : i = j + 1
  <2> TAKE i \in 1..Len(s)
  <2>1. i # 1 => i - 1 \in 1..Len(t) /\ i = (i - 1) + 1
    BY <1>1
  <2> QED
    BY <2>1
<1>3. \A j \in 1..Len(t) : j + 1 \in 1..Len(s) /\ j + 1 # 1
  BY <1>1
<1>4. 1 \in 1..Len(s)
  BY <1>1
<1>5. ToSet(s) = {s[1]} \cup ToSet(t)
  <2>1. ASSUME NEW x \in ToSet(s) PROVE x \in {s[1]} \cup ToSet(t)
    <3>1. PICK k \in 1..Len(s) : x = s[k]
      BY <1>1, <2>1 DEF ToSet
    <3>2. ASSUME NEW j \in 1..Len(t), k = j + 1 PROVE x \in ToSet(t)
      BY <1>1, <3>1, <3>2 DEF ToSet
    <3> QED
      BY <1>2, <3>1, <3>2
  <2>2. ASSUME NEW x \in ToSet(t) PROVE x \in ToSet(s)
    BY <1>1, <1>3 DEF ToSet
  <2>3. s[1] \in ToSet(s)
    BY <1>1, <1>4 DEF ToSet
  <2> QED
    BY <2>1, <2>2, <2>3
<1>6. ASSUME NoRepeat(s) PROVE NoRepeat(t) /\ s[1] \notin ToSet(t)
  <2>1. NoRepeat(t)
    <3> SUFFICES ASSUME NEW i \in 1..Len(t), NEW j \in 1..Len(t), t[i] = t[j] PROVE i = j
      BY DEF NoRepeat
    <3>1. i + 1 = j + 1
      BY <1>1, <1>3, <1>6 DEF NoRepeat
    <3> QED
      BY <1>1, <3>1
  <2>2. ASSUME s[1] \in ToSet(t) PROVE FALSE
    <3>1. PICK i \in 1..Len(t) : t[i] = s[1]
      BY <1>1, <2>2 DEF ToSet
    <3>2. s[i + 1] = s[1]
      BY <1>1, <3>1
    <3> QED
      BY <1>3, <1>4, <1>6, <3>2 DEF NoRepeat
  <2> QED
    BY <2>1, <2>2
<1> QED
  BY <1>1, <1>5, <1>6 DEF t

-----------------------------------------------------------------------------
(* The flow of the messages.                                               *)

\* The kinds of messages whose order is kept.
Ranked == IF mode = "all" THEN {"steering"} ELSE {"steering", "followup"}

\* Every message up to the n-th is in A, and no other.
Accounted(A, n) ==
    /\ \A m \in A : m.n <= n
    /\ \A i \in 1..n : \E m \in A : m.n = i

\* What holds of a queue q, follow-ups d under way, messages t of the history
\* and those that were lost, l, when n were sent.
Flow(q, d, t, l, n) ==
    /\ q \in Seq(Messages) /\ d \in Seq(Messages) /\ t \in Seq(Messages)
    /\ l \subseteq Messages /\ n \in 0..MaxMessages
    /\ Increasing(q) /\ NoRepeat(d) /\ NoRepeat(t)
    /\ ToSet(q) \cap (ToSet(d) \cup ToSet(t) \cup l) = {}
    /\ ToSet(d) \cap (ToSet(t) \cup l) = {} /\ ToSet(t) \cap l = {}
    /\ Accounted(ToSet(q) \cup ToSet(d) \cup ToSet(t) \cup l, n)
    /\ ToSet(d) \subseteq Of("followup")
    /\ mode # "all" => l = {} /\ Len(d) <= 1
    /\ \A k \in Ranked :
         /\ Sorted(t, Of(k))
         /\ Precede(ToSet(t), ToSet(d), Of(k))
         /\ Precede(ToSet(t) \cup ToSet(d), ToSet(q), Of(k))

FlowInv ==
    /\ mode \in {"one-at-a-time", "all"}
    /\ Flow(queue, todo, taken, lost, sent)
    /\ mode # "all" => todo = << >>

\* What is got from the queue and what is left of it.
Taking(got, rest, kind) ==
    /\ got \in Seq(Messages) /\ rest \in Seq(Messages)
    /\ Increasing(got) /\ Increasing(rest)
    /\ ToSet(got) \cap ToSet(rest) = {} /\ ToSet(got) \cup ToSet(rest) = ToSet(queue)
    /\ ToSet(got) \subseteq Of(kind)
    /\ Precede(ToSet(got), ToSet(rest), Of(kind))
    /\ mode # "all" => Len(got) <= 1

LEMMA EmptySequence ==
    << >> \in Seq(Messages) /\ Increasing(<< >>) /\ ToSet(<< >>) = {} /\ Len(<< >>) = 0
  BY DEF Increasing, ToSet

LEMMA IncreasingIsSorted ==
    ASSUME NEW s, Increasing(s)
    PROVE  \A T : Sorted(s, T)
  BY DEF Increasing, Sorted

LEMMA IncreasingNoRepeat ==
    ASSUME NEW s \in Seq(Messages), Increasing(s)
    PROVE  NoRepeat(s)
<1> SUFFICES ASSUME NEW i \in 1..Len(s), NEW j \in 1..Len(s), s[i] = s[j], i < j PROVE FALSE
  BY DEF NoRepeat
<1>1. s[i].n < s[j].n
  BY DEF Increasing
<1>2. s[i] \in Messages
  OBVIOUS
<1>3. s[i].n \in Nat
  BY <1>2 DEF Messages
<1> QED
  BY <1>1, <1>3

LEMMA SequenceIn ==
    ASSUME NEW S, NEW s \in Seq(S)
    PROVE  ToSet(s) \subseteq S /\ (ToSet(s) = {} <=> s = << >>)
  BY DEF ToSet

LEMMA TakingIs ==
    ASSUME queue \in Seq(Messages), Increasing(queue), NEW kind
    PROVE  Taking(Got(kind), Without(kind), kind)
<1> DEFINE all == OfKind(queue, kind)
<1>1. all \in Seq(Messages) /\ ToSet(all) = ToSet(queue) \cap Of(kind) /\ Increasing(all)
  BY OnlySubsequence, IncreasingIsSorted DEF OfKind
<1>2. ASSUME NEW T
      PROVE  /\ Only(queue, T) \in Seq(Messages) /\ Increasing(Only(queue, T))
             /\ ToSet(Only(queue, T)) = ToSet(queue) \cap T
  BY OnlySubsequence, IncreasingIsSorted
<1>3. Got(kind) = IF mode = "all" \/ all = << >> THEN all ELSE <<Head(all)>>
  BY DEF Got
<1>4. ToSet(queue) \subseteq Messages
  BY SequenceIn
<1> HIDE DEF all
<1>5. CASE all = << >>
  <2>1. Got(kind) = << >> /\ Without(kind) = queue
    BY <1>3, <1>5 DEF Without
  <2> QED
    BY <2>1, EmptySequence DEF Taking, Precede
<1>6. CASE all # << >> /\ mode = "all"
  <2>1. Got(kind) = all /\ Without(kind) = Only(queue, Messages \ Of(kind))
    BY <1>3, <1>6 DEF Without
  <2>2. /\ ToSet(Without(kind)) = ToSet(queue) \ Of(kind)
        /\ Without(kind) \in Seq(Messages) /\ Increasing(Without(kind))
    BY <1>2, <1>4, <2>1
  <2>3. Precede(ToSet(all), ToSet(Without(kind)), Of(kind))
    BY <2>2 DEF Precede
  <2> QED
    BY <1>1, <1>6, <2>1, <2>2, <2>3 DEF Taking
<1>7. CASE all # << >> /\ mode # "all"
  <2> DEFINE h == Head(all)
  <2>1. h \in Messages /\ h \in ToSet(all)
    BY <1>1, <1>7, HeadAndTail
  <2>2. Got(kind) = <<h>>
    BY <1>3, <1>7
  <2>3. Without(kind) = Only(queue, Messages \ {h})
    <3>1. <<h>> # << >> /\ Head(<<h>>) = h
      OBVIOUS
    <3> QED
      BY <1>7, <2>2, <3>1 DEF Without
  <2>4. \A y \in ToSet(all) \ {h} : h.n < y.n
    <3> SUFFICES ASSUME NEW y \in ToSet(all), y # h PROVE h.n < y.n
      OBVIOUS
    <3>1. Len(all) \in Nat /\ DOMAIN all = 1..Len(all) /\ h = all[1]
      BY <1>1, <1>7
    <3>2. PICK j \in 1..Len(all) : y = all[j]
      BY <3>1 DEF ToSet
    <3>3. 1 < j /\ 1 \in 1..Len(all)
      BY <3>1, <3>2
    <3> QED
      BY <1>1, <3>1, <3>2, <3>3 DEF Increasing
  <2> HIDE DEF h
  <2>5. /\ <<h>> \in Seq(Messages) /\ Increasing(<<h>>) /\ ToSet(<<h>>) = {h} /\ Len(<<h>>) = 1
    BY <2>1 DEF Increasing, ToSet
  <2>6. /\ ToSet(Without(kind)) = ToSet(queue) \ {h}
        /\ Without(kind) \in Seq(Messages) /\ Increasing(Without(kind))
    BY <1>2, <1>4, <2>3
  <2>7. Precede({h}, ToSet(Without(kind)), Of(kind))
    BY <1>1, <2>4, <2>6 DEF Precede
  <2>8. {h} \subseteq Of(kind) /\ {h} \cup (ToSet(queue) \ {h}) = ToSet(queue)
    BY <1>1, <2>1
  <2> QED
    BY <2>2, <2>5, <2>6, <2>7, <2>8 DEF Taking
<1> QED
  BY <1>5, <1>6, <1>7

\* A message that is typed.
LEMMA FlowSubmit ==
    ASSUME FlowInv, NEW kind \in {"steering", "followup"}, Submit(kind)
    PROVE  FlowInv'
<1> DEFINE m == [n |-> sent + 1, kind |-> kind]
<1>1. /\ queue' = Append(queue, m) /\ sent' = sent + 1 /\ sent < MaxMessages
      /\ UNCHANGED <<mode, todo, taken, lost>>
  BY DEF Submit, fixed
<1>2. Flow(queue, todo, taken, lost, sent)
  BY DEF FlowInv
<1>3. m \in Messages /\ m.n = sent + 1 /\ sent \in Nat /\ sent + 1 \in 0..MaxMessages
  BY <1>1, <1>2, LoopAssumption DEF Messages, Flow
<1> HIDE DEF m
<1> DEFINE A == ToSet(queue) \cup ToSet(todo) \cup ToSet(taken) \cup lost
<1>4. A \subseteq Messages /\ Accounted(A, sent) /\ queue \in Seq(Messages)
  BY <1>2, SequenceIn DEF Flow
<1>5. \A x \in A : x.n \in Nat /\ x.n < m.n /\ x # m
  <2> TAKE x \in A
  <2>1. x \in Messages /\ x.n <= sent
    BY <1>4 DEF Accounted
  <2>2. x.n \in Nat
    BY <2>1 DEF Messages
  <2> QED
    BY <1>3, <2>1, <2>2
<1>6. /\ Append(queue, m) \in Seq(Messages)
      /\ ToSet(Append(queue, m)) = ToSet(queue) \cup {m}
      /\ \A T : Sorted(queue, T) /\ Precede(ToSet(queue), {m}, T) => Sorted(Append(queue, m), T)
  <2>1. m \in Messages /\ queue \in Seq(Messages)
    BY <1>3, <1>4
  <2>2. ASSUME NEW T, Sorted(queue, T), Precede(ToSet(queue), {m}, T)
        PROVE  Sorted(Append(queue, m), T)
    BY ONLY <2>1, <2>2, Appended
  <2>3. Append(queue, m) \in Seq(Messages)
    BY ONLY <2>1
  <2>4. ToSet(Append(queue, m)) = ToSet(queue) \cup {m}
    BY ONLY <2>1, AppendedSet
  <2> QED
    BY <2>2, <2>3, <2>4
<1>7. Increasing(Append(queue, m))
  <2>1. Append(queue, m) \in Seq(Messages) /\ Sorted(Append(queue, m), Messages)
    BY <1>2, <1>5, <1>6, IncreasingIsSorted DEF Flow, Precede
  <2> QED
    BY <2>1 DEF Sorted, Increasing
<1>8. Accounted(A \cup {m}, sent + 1)
  <2>1. \A x \in A \cup {m} : x.n <= sent + 1
    BY <1>3, <1>5
  <2>2. \A i \in 1..sent + 1 : \E x \in A \cup {m} : x.n = i
    <3> TAKE i \in 1..sent + 1
    <3>1. CASE i = sent + 1
      BY <1>3, <3>1
    <3>2. CASE i \in 1..sent
      BY <1>4, <3>2 DEF Accounted
    <3> QED
      BY <1>3, <3>1, <3>2
  <2> QED
    BY <2>1, <2>2 DEF Accounted
<1>9. m \notin A
  BY <1>5
<1>10. A \cup {m} = ToSet(Append(queue, m)) \cup ToSet(todo) \cup ToSet(taken) \cup lost
  BY <1>6
<1>11. \A T : Precede(ToSet(taken) \cup ToSet(todo), ToSet(queue), T)
              => Precede(ToSet(taken) \cup ToSet(todo), ToSet(Append(queue, m)), T)
  BY <1>5, <1>6 DEF Precede
<1>12. Flow(Append(queue, m), todo, taken, lost, sent + 1)
  <2>1. \A k \in Ranked : Precede(ToSet(taken) \cup ToSet(todo), ToSet(Append(queue, m)), Of(k))
    BY <1>2, <1>11 DEF Flow
  <2>2. ToSet(Append(queue, m)) \cap (ToSet(todo) \cup ToSet(taken) \cup lost) = {}
    BY <1>2, <1>6, <1>9 DEF Flow
  <2> HIDE DEF A
  <2> QED
    BY <1>2, <1>3, <1>6, <1>7, <1>8, <1>10, <2>1, <2>2 DEF Flow
<1>13. Flow(queue, todo, taken, lost, sent)'
  BY <1>1, <1>12 DEF Flow, Ranked
<1> QED
  BY <1>1, <1>13 DEF FlowInv

\* Follow-ups that a call takes when it is completed.
LEMMA FlowFollow ==
    ASSUME FlowInv
    PROVE  Flow(Without("followup"), Got("followup") \o todo, taken, lost, sent)
<1> DEFINE got  == Got("followup")
           rest == Without("followup")
           d    == got \o todo
<1>1. Flow(queue, todo, taken, lost, sent)
  BY DEF FlowInv
<1>2. Taking(got, rest, "followup")
  BY <1>1, TakingIs DEF Flow
<1> HIDE DEF got, rest
<1>3. /\ d \in Seq(Messages) /\ ToSet(d) = ToSet(got) \cup ToSet(todo)
      /\ NoRepeat(got) /\ NoRepeat(todo) /\ ToSet(got) \cap ToSet(todo) = {} => NoRepeat(d)
  BY <1>1, <1>2, Concatenation DEF Flow, Taking
<1>4. NoRepeat(d)
  BY <1>1, <1>2, <1>3, IncreasingNoRepeat DEF Flow, Taking
<1>5. mode # "all" => todo = << >> /\ Len(d) <= 1
  <2> SUFFICES ASSUME mode # "all" PROVE todo = << >> /\ Len(d) <= 1
    OBVIOUS
  <2>1. todo = << >> /\ Len(got) <= 1 /\ got \in Seq(Messages)
    BY <1>2 DEF FlowInv, Taking
  <2> QED
    BY <2>1
<1> HIDE DEF d
<1>6. ToSet(rest) \cup ToSet(d) \cup ToSet(taken) \cup lost
        = ToSet(queue) \cup ToSet(todo) \cup ToSet(taken) \cup lost
  BY <1>2, <1>3 DEF Taking
<1>7. ASSUME NEW k \in Ranked
      PROVE  /\ Precede(ToSet(taken), ToSet(d), Of(k))
             /\ Precede(ToSet(taken) \cup ToSet(d), ToSet(rest), Of(k))
  <2>1. /\ Precede(ToSet(taken), ToSet(todo), Of(k))
        /\ Precede(ToSet(taken) \cup ToSet(todo), ToSet(queue), Of(k))
    BY <1>1, <1>7 DEF Flow
  <2>2. ToSet(got) \subseteq ToSet(queue) /\ ToSet(rest) \subseteq ToSet(queue)
    BY <1>2 DEF Taking
  <2>3. Precede(ToSet(got), ToSet(rest), Of(k))
    <3>1. CASE k = "followup"
      BY <1>2, <3>1 DEF Taking
    <3>2. CASE k = "steering"
      BY <1>2, <3>2 DEF Taking, Precede, Of
    <3> QED
      BY <1>7, <3>1, <3>2 DEF Ranked
  <2> QED
    BY <1>3, <2>1, <2>2, <2>3 DEF Precede
<1>8. ToSet(d) \subseteq Of("followup")
  BY <1>1, <1>2, <1>3 DEF Flow, Taking
<1>9. /\ ToSet(rest) \cap (ToSet(d) \cup ToSet(taken) \cup lost) = {}
      /\ ToSet(d) \cap (ToSet(taken) \cup lost) = {}
  BY <1>1, <1>2, <1>3 DEF Flow, Taking
<1>10. rest \in Seq(Messages) /\ Increasing(rest)
  BY <1>2 DEF Taking
<1>11. Flow(rest, d, taken, lost, sent)
  BY <1>1, <1>3, <1>4, <1>5, <1>6, <1>7, <1>8, <1>9, <1>10 DEF Flow
<1> QED
  BY <1>11 DEF rest, d, got

\* A nested call answers the first of them.
LEMMA FlowPop ==
    ASSUME NEW q, NEW d, d # << >>, Flow(q, d, taken, lost, sent)
    PROVE  /\ Flow(q, Tail(d), Append(taken, Head(d)), lost, sent)
           /\ mode # "all" => Tail(d) = << >>
<1> DEFINE h == Head(d)
           e == Tail(d)
           t == Append(taken, h)
<1>1. d \in Seq(Messages) /\ taken \in Seq(Messages)
  BY DEF Flow
<1>2. /\ h \in Messages /\ e \in Seq(Messages) /\ Len(e) = Len(d) - 1
      /\ ToSet(d) = {h} \cup ToSet(e) /\ NoRepeat(e) /\ h \notin ToSet(e)
  BY <1>1, HeadAndTail DEF Flow
<1>3. mode # "all" => e = << >>
  <2>1. mode # "all" => Len(d) <= 1
    BY DEF Flow
  <2> HIDE DEF e
  <2> QED
    BY <1>1, <1>2, <2>1
<1> HIDE DEF h, e
<1>4. /\ t \in Seq(Messages) /\ ToSet(t) = ToSet(taken) \cup {h}
      /\ NoRepeat(taken) /\ h \notin ToSet(taken) => NoRepeat(t)
      /\ \A T : Sorted(taken, T) /\ Precede(ToSet(taken), {h}, T) => Sorted(t, T)
  <2>1. taken \in Seq(Messages) /\ h \in Messages
    BY <1>1, <1>2
  <2>2. ToSet(t) = ToSet(taken) \cup {h}
    BY <2>1, Appended DEF ToSet
  <2>3. t \in Seq(Messages) /\ (NoRepeat(taken) /\ h \notin ToSet(taken) => NoRepeat(t))
    BY <2>1, Appended
  <2>4. \A T : Sorted(taken, T) /\ Precede(ToSet(taken), {h}, T) => Sorted(t, T)
    BY <2>1, Appended
  <2> QED
    BY <2>2, <2>3, <2>4
<1> HIDE DEF t
<1>5. h \notin ToSet(taken) /\ NoRepeat(t)
  BY <1>2, <1>4 DEF Flow
<1>6. ToSet(q) \cup ToSet(e) \cup ToSet(t) \cup lost
        = ToSet(q) \cup ToSet(d) \cup ToSet(taken) \cup lost
  BY <1>2, <1>4
<1>7. /\ ToSet(q) \cap (ToSet(e) \cup ToSet(t) \cup lost) = {}
      /\ ToSet(e) \cap (ToSet(t) \cup lost) = {} /\ ToSet(t) \cap lost = {}
  BY <1>2, <1>4 DEF Flow
<1>8. ToSet(e) \subseteq Of("followup") /\ (mode # "all" => Len(e) <= 1)
  BY <1>1, <1>2, <1>3 DEF Flow
<1>9. ASSUME NEW k \in Ranked
      PROVE  /\ Sorted(t, Of(k)) /\ Precede(ToSet(t), ToSet(e), Of(k))
             /\ Precede(ToSet(t) \cup ToSet(e), ToSet(q), Of(k))
  <2>1. /\ Sorted(taken, Of(k)) /\ Precede(ToSet(taken), ToSet(d), Of(k))
        /\ Precede(ToSet(taken) \cup ToSet(d), ToSet(q), Of(k))
    BY <1>9 DEF Flow
  <2>2. Precede({h}, ToSet(e), Of(k))
    <3>1. CASE k = "steering"
      BY <1>8, <3>1 DEF Precede, Of
    <3>2. CASE mode # "all"
      BY <1>3, <3>2, EmptySequence DEF Precede
    <3> QED
      BY <1>9, <3>1, <3>2 DEF Ranked
  <2>3. Sorted(t, Of(k))
    BY <1>2, <1>4, <2>1 DEF Precede
  <2> QED
    BY <1>2, <1>4, <2>1, <2>2, <2>3 DEF Precede
<1>10. Flow(q, e, t, lost, sent)
  BY <1>2, <1>4, <1>5, <1>6, <1>7, <1>8, <1>9 DEF Flow
<1> QED
  BY <1>3, <1>10 DEF e, t, h

\* Steering messages become part of the history.
LEMMA FlowSteer ==
    ASSUME FlowInv
    PROVE  Flow(Without("steering"), todo, taken \o Got("steering"), lost, sent)
<1> DEFINE got  == Got("steering")
           rest == Without("steering")
           t    == taken \o got
<1>1. Flow(queue, todo, taken, lost, sent)
  BY DEF FlowInv
<1>2. Taking(got, rest, "steering")
  BY <1>1, TakingIs DEF Flow
<1> HIDE DEF got, rest
<1>3. /\ t \in Seq(Messages) /\ ToSet(t) = ToSet(taken) \cup ToSet(got)
      /\ NoRepeat(taken) /\ NoRepeat(got) /\ ToSet(taken) \cap ToSet(got) = {} => NoRepeat(t)
      /\ \A T : Sorted(taken, T) /\ Sorted(got, T) /\ Precede(ToSet(taken), ToSet(got), T)
             => Sorted(t, T)
  BY <1>1, <1>2, Concatenation DEF Flow, Taking
<1> HIDE DEF t
<1>4. NoRepeat(t)
  BY <1>1, <1>2, <1>3, IncreasingNoRepeat DEF Flow, Taking
<1>5. ToSet(rest) \cup ToSet(todo) \cup ToSet(t) \cup lost
        = ToSet(queue) \cup ToSet(todo) \cup ToSet(taken) \cup lost
  BY <1>2, <1>3 DEF Taking
<1>6. /\ ToSet(rest) \cap (ToSet(todo) \cup ToSet(t) \cup lost) = {}
      /\ ToSet(todo) \cap (ToSet(t) \cup lost) = {} /\ ToSet(t) \cap lost = {}
  BY <1>1, <1>2, <1>3 DEF Flow, Taking
<1>7. ASSUME NEW k \in Ranked
      PROVE  /\ Sorted(t, Of(k)) /\ Precede(ToSet(t), ToSet(todo), Of(k))
             /\ Precede(ToSet(t) \cup ToSet(todo), ToSet(rest), Of(k))
  <2>1. /\ Sorted(taken, Of(k)) /\ Precede(ToSet(taken), ToSet(todo), Of(k))
        /\ Precede(ToSet(taken) \cup ToSet(todo), ToSet(queue), Of(k))
    BY <1>1, <1>7 DEF Flow
  <2>2. ToSet(got) \subseteq ToSet(queue) /\ ToSet(rest) \subseteq ToSet(queue)
    BY <1>2 DEF Taking
  <2>3. Precede(ToSet(got), ToSet(rest), Of(k))
    <3>1. CASE k = "steering"
      BY <1>2, <3>1 DEF Taking
    <3>2. CASE k = "followup"
      BY <1>2, <3>2 DEF Taking, Precede, Of
    <3> QED
      BY <1>7, <3>1, <3>2 DEF Ranked
  <2>4. Precede(ToSet(got), ToSet(todo), Of(k))
    BY <1>1, <1>2 DEF Flow, Taking, Precede, Of
  <2>5. Sorted(t, Of(k))
    BY <1>2, <1>3, <2>1, <2>2, IncreasingIsSorted DEF Taking, Precede
  <2> QED
    BY <1>3, <2>1, <2>2, <2>3, <2>4, <2>5 DEF Precede
<1>8. rest \in Seq(Messages) /\ Increasing(rest)
  BY <1>2 DEF Taking
<1>9. Flow(rest, todo, t, lost, sent)
  BY <1>1, <1>3, <1>4, <1>5, <1>6, <1>7, <1>8 DEF Flow
<1> QED
  BY <1>9 DEF rest, t, got

\* An exception loses what calls under way had taken.
LEMMA FlowRaise ==
    ASSUME FlowInv
    PROVE  Flow(queue, << >>, taken, lost \cup ToSet(todo), sent)
<1>1. Flow(queue, todo, taken, lost, sent)
  BY DEF FlowInv
<1>2. ToSet(todo) \subseteq Messages
  BY <1>1, SequenceIn DEF Flow
<1>3. mode # "all" => lost \cup ToSet(todo) = {}
  BY <1>1, EmptySequence DEF FlowInv, Flow
<1>4. NoRepeat(<< >>)
  BY DEF NoRepeat
<1>5. ToSet(queue) \cup {} \cup ToSet(taken) \cup (lost \cup ToSet(todo))
        = ToSet(queue) \cup ToSet(todo) \cup ToSet(taken) \cup lost
  OBVIOUS
<1>6. \A T : Precede(ToSet(taken), {}, T)
           /\ (Precede(ToSet(taken) \cup ToSet(todo), ToSet(queue), T)
                 => Precede(ToSet(taken) \cup {}, ToSet(queue), T))
  BY DEF Precede
<1>7. /\ ToSet(queue) \cap ({} \cup ToSet(taken) \cup (lost \cup ToSet(todo))) = {}
      /\ ToSet(taken) \cap (lost \cup ToSet(todo)) = {}
  BY <1>1 DEF Flow
<1>8. ASSUME NEW k \in Ranked
      PROVE  /\ Sorted(taken, Of(k)) /\ Precede(ToSet(taken), {}, Of(k))
             /\ Precede(ToSet(taken) \cup {}, ToSet(queue), Of(k))
  BY <1>1, <1>6, <1>8 DEF Flow
<1>9. Accounted(ToSet(queue) \cup {} \cup ToSet(taken) \cup (lost \cup ToSet(todo)), sent)
  BY <1>1, <1>5 DEF Flow
<1>10. lost \cup ToSet(todo) \subseteq Messages
  BY <1>1, <1>2 DEF Flow
<1> DEFINE e == << >>
<1>11. e \in Seq(Messages) /\ ToSet(e) = {} /\ Len(e) <= 1 /\ NoRepeat(e)
  BY <1>4, EmptySequence
<1> HIDE DEF e
<1>12. Flow(queue, e, taken, lost \cup ToSet(todo), sent)
  BY <1>1, <1>3, <1>7, <1>8, <1>9, <1>10, <1>11 DEF Flow
<1> QED
  BY <1>12 DEF e

LEMMA FlowReturns ==
    ASSUME NEW q, NEW f, NEW h, NEW s, mode \in {"one-at-a-time", "all"},
           Flow(q, f, taken, lost, sent), queue' = q, UNCHANGED <<mode, sent, lost>>,
           CallReturns(f, h, s)
    PROVE  FlowInv'
<1>1. CASE f = << >>
  <2>1. todo' = << >> /\ taken' = taken
    BY <1>1 DEF CallReturns
  <2> QED
    BY <1>1, <2>1 DEF FlowInv, Flow, Ranked
<1>2. CASE f # << >>
  <2>1. todo' = Tail(f) /\ taken' = Append(taken, Head(f))
    BY <1>2 DEF CallReturns
  <2>2. /\ Flow(q, Tail(f), Append(taken, Head(f)), lost, sent)
        /\ mode # "all" => Tail(f) = << >>
    BY <1>2, FlowPop
  <2> QED
    BY <2>1, <2>2 DEF FlowInv, Flow, Ranked
<1> QED
  BY <1>1, <1>2

LEMMA FlowCallEnds ==
    ASSUME FlowInv, NEW o, NEW h, NEW s, CallEnds(o, h, s), UNCHANGED <<mode, sent, lost>>
    PROVE  FlowInv'
<1>1. CASE o = "completed"
  BY <1>1, FlowFollow, FlowReturns DEF CallEnds, FlowInv
<1>2. CASE o # "completed"
  BY <1>2, FlowReturns DEF CallEnds, FlowInv
<1> QED
  BY <1>1, <1>2

LEMMA FlowSteers ==
    ASSUME FlowInv, NEW h, Steer(h), UNCHANGED <<mode, sent, lost>>
    PROVE  FlowInv'
<1>1. Flow(Without("steering"), todo, taken \o Got("steering"), lost, sent)
  BY FlowSteer
<1>2. /\ queue' = Without("steering") /\ taken' = taken \o Got("steering")
      /\ UNCHANGED <<todo, mode, sent, lost>>
  BY DEF Steer
<1> QED
  BY <1>1, <1>2 DEF FlowInv, Flow, Ranked

LEMMA FlowRaises ==
    ASSUME FlowInv, Raise, UNCHANGED mode
    PROVE  FlowInv'
<1>1. Flow(queue, << >>, taken, lost \cup ToSet(todo), sent)
  BY FlowRaise
<1>2. todo' = << >> /\ lost' = lost \cup ToSet(todo) /\ UNCHANGED <<queue, sent, taken, mode>>
  BY DEF Raise
<1> QED
  BY <1>1, <1>2 DEF FlowInv, Flow, Ranked

LEMMA FlowConcludes ==
    ASSUME FlowInv, NEW A, NEW h, NEW s, Conclude(A, h, s)
    PROVE  FlowInv'
<1>1. UNCHANGED <<mode, sent, lost>>
  BY DEF Conclude, fixed
<1>2. (\E o, g : CallEnds(o, g, s)) \/ Steer(h)
  BY DEF Conclude
<1> QED
  BY <1>1, <1>2, FlowCallEnds, FlowSteers

LEMMA FlowInd ==
    ASSUME FlowInv, [Next]_vars
    PROVE  FlowInv'
<1>1. ASSUME UNCHANGED <<mode, queue, sent, todo, taken, lost>> PROVE FlowInv'
  BY <1>1 DEF FlowInv, Flow, Ranked
<1>2. CASE \E kind \in {"steering", "followup"} : Submit(kind)
  BY <1>2, FlowSubmit
<1>3. CASE StartTurn \/ SetCancel \/ OverflowRecovered \/ RebuildHistory \/ CallsRequested
            \/ UNCHANGED vars
  BY <1>1, <1>3 DEF StartTurn, SetCancel, OverflowRecovered, RebuildHistory, CallsRequested,
     fixed, flow, vars
<1>4. CASE Round
  <2>1. UNCHANGED <<mode, sent, lost>>
    BY <1>4 DEF Round, fixed
  <2>2. (\E o, h : CallEnds(o, h, session)) \/ UNCHANGED <<queue, todo, taken>>
    BY <1>4, Zenon DEF Round
  <2> QED
    BY <1>1, <2>1, <2>2, FlowCallEnds
<1>5. CASE Aborted \/ FinalAnswer
  <2>1. UNCHANGED <<mode, sent, lost>>
    BY <1>5 DEF Aborted, FinalAnswer, fixed
  <2>2. (\E o, h : CallEnds(o, h, session)) \/ (\E h : Steer(h))
    BY <1>5, Zenon DEF Aborted, FinalAnswer
  <2> QED
    BY <2>1, <2>2, FlowCallEnds, FlowSteers
<1>6. CASE ProviderError \/ TurnRaises
  BY <1>6, FlowRaises DEF ProviderError, TurnRaises, fixed
<1>7. CASE BatchReturns \/ CallsDone
  <2>1. \E A, h, s : Conclude(A, h, s)
    BY <1>7, Zenon DEF BatchReturns, CallsDone
  <2> QED
    BY <2>1, FlowConcludes
<1>8. ASSUME NEW c \in Calls,
             Enter(c) \/ HookDecides(c) \/ OneCall(c) \/ OneResult(c) \/ RunTool(c) \/ Tool(c)
      PROVE  FlowInv'
  BY <1>1, <1>8 DEF Enter, HookDecides, OneCall, OneResult, RunTool, Tool, fixed, flow
<1> QED
  BY <1>2, <1>3, <1>4, <1>5, <1>6, <1>7, <1>8 DEF Next, Progress

LEMMA InitFlow == Init => FlowInv
<1> SUFFICES ASSUME Init PROVE FlowInv
  OBVIOUS
<1>1. NoRepeat(<< >>) /\ \A T : Sorted(<< >>, T)
  BY DEF NoRepeat, Sorted
<1>2. Accounted({}, 0) /\ \A T : Precede({}, {}, T)
  BY DEF Accounted, Precede
<1>3. /\ queue = << >> /\ todo = << >> /\ taken = << >> /\ lost = {} /\ sent = 0
      /\ mode \in {"one-at-a-time", "all"}
  BY DEF Init
<1>4. 0 \in 0..MaxMessages
  BY LoopAssumption
<1> DEFINE e == << >>
<1>5. e \in Seq(Messages) /\ Increasing(e) /\ ToSet(e) = {} /\ Len(e) <= 1
  BY EmptySequence
<1> HIDE DEF e
<1>6. Flow(e, e, e, {}, 0)
  <2>1. NoRepeat(e) /\ \A T : Sorted(e, T)
    BY <1>1 DEF e
  <2>2. \A T : Precede(ToSet(e), ToSet(e), T) /\ Precede(ToSet(e) \cup ToSet(e), ToSet(e), T)
    BY <1>2, <1>5
  <2>3. Accounted(ToSet(e) \cup ToSet(e) \cup ToSet(e) \cup {}, 0)
    BY <1>2, <1>5
  <2> QED
    BY <1>4, <1>5, <2>1, <2>2, <2>3 DEF Flow
<1> QED
  BY <1>3, <1>6 DEF FlowInv, e

\* Whatever the modes of the queue, the entry point and the exceptions, the
\* messages are accounted for and in order (the strengthening of what follows).
THEOREM FlowInvariant == Spec => []FlowInv
  BY InitFlow, FlowInd, PTL DEF Spec

\* Each of any number of queued messages is in one place: in the queue, taken by
\* a call under way, in the history, or lost to an exception, the last in the
\* mode "all" only (MessageQueue, arun, respond_stream).
THEOREM MessagesFlow == Spec => []MessageFlow
<1>1. FlowInv => MessageFlow
  <2> SUFFICES ASSUME FlowInv PROVE MessageFlow
    OBVIOUS
  <2> DEFINE w == queue \o todo \o taken
             A == ToSet(queue) \cup ToSet(todo) \cup ToSet(taken)
  <2>1. Flow(queue, todo, taken, lost, sent)
    BY DEF FlowInv
  <2>2. w \in Seq(Messages) /\ NoRepeat(w) /\ ToSet(w) = A
    <3> DEFINE v == queue \o todo
    <3>1. v \in Seq(Messages) /\ ToSet(v) = ToSet(queue) \cup ToSet(todo)
      BY <2>1, Concatenation DEF Flow
    <3>2. NoRepeat(v)
      BY <2>1, Concatenation, IncreasingNoRepeat DEF Flow
    <3> HIDE DEF v
    <3>3. /\ ToSet(v) \cap ToSet(taken) = {} /\ NoRepeat(taken) /\ taken \in Seq(Messages)
      BY <2>1, <3>1 DEF Flow
    <3>4. v \o taken \in Seq(Messages) /\ ToSet(v \o taken) = ToSet(v) \cup ToSet(taken)
      BY <3>1, <3>3, Concatenation
    <3>5. NoRepeat(v \o taken)
      BY <3>1, <3>2, <3>3, Concatenation
    <3> QED
      BY <3>1, <3>4, <3>5 DEF v
  <2> HIDE DEF w
  <2>3. \A m : Len(Only(w, {m})) = IF m \in A THEN 1 ELSE 0
    <3> TAKE m
    <3> QED
      BY <2>2, OnlyOnce
  <2>4. A \cap lost = {}
    BY <2>1 DEF Flow
  <2>5. \A m : Places(m) = (IF m \in A THEN 1 ELSE 0) + (IF m \in lost THEN 1 ELSE 0)
    BY <2>3 DEF Places, w
  <2>6. \A m : Places(m) = IF m \in A \cup lost THEN 1 ELSE 0
    BY <2>4, <2>5
  <2>7. A \cup lost \subseteq Messages /\ Accounted(A \cup lost, sent)
    BY <2>1, SequenceIn DEF Flow
  <2>8. lost # {} => mode = "all"
    BY <2>1 DEF Flow
  <2> HIDE DEF A
  <2> QED
    BY <2>6, <2>7, <2>8 DEF MessageFlow, Accounted
<1> QED
  BY <1>1, FlowInvariant, PTL

\* Steering messages reach the history in the order in which they were typed,
\* and follow-ups too when they are taken one at a time, however many are queued
\* and whenever they are (get_steering_messages, get_followup_messages).
THEOREM MessagesInOrder == Spec => []InOrder
<1>1. FlowInv => InOrder
  <2> SUFFICES ASSUME FlowInv PROVE InOrder
    OBVIOUS
  <2>1. Flow(queue, todo, taken, lost, sent)
    BY DEF FlowInv
  <2>2. \A T : Sorted(queue, T)
    BY <2>1, IncreasingIsSorted DEF Flow
  <2>3. ASSUME NEW k \in Ranked
        PROVE  taken \o queue \in Seq(Messages) /\ Sorted(taken \o queue, Of(k))
    <3>1. Sorted(taken, Of(k)) /\ Precede(ToSet(taken), ToSet(queue), Of(k))
      BY <2>1, <2>3 DEF Flow, Precede
    <3> QED
      BY <2>1, <2>2, <3>1, Concatenation DEF Flow
  <2>4. ASSUME NEW k \in Ranked
        PROVE  Increasing(OfKind(taken \o queue, k))
    BY <2>3, <2>4, OnlySubsequence DEF OfKind
  <2>5. "steering" \in Ranked
    BY DEF Ranked
  <2>6. ASSUME mode = "one-at-a-time"
        PROVE  Increasing(OfKind(taken \o todo \o queue, "followup"))
    <3>1. "followup" \in Ranked /\ todo = << >> /\ taken \o todo = taken
      BY <2>1, <2>6 DEF Ranked, FlowInv, Flow
    <3> QED
      BY <2>4, <3>1
  <2> QED
    BY <2>4, <2>5, <2>6 DEF InOrder
<1> QED
  BY <1>1, FlowInvariant, PTL

-----------------------------------------------------------------------------
(* Types, and with them the budgets of attempts and of iterations.         *)

CallTypes ==
    /\ leg \in [Calls -> 1..2]
    /\ attempt \in [Calls -> 1..MaxAttempts]
    /\ result \in [Calls -> Results \cup {"none"}]

LEMMA FinishTypes ==
    ASSUME CallTypes, NEW c, NEW r, r \in Results \cup {"none"} \/ (c \in Calls /\ r = result[c]),
           Finish(c, r)
    PROVE  CallTypes'
<1>1. 1 \in 1..2 /\ 1 \in 1..MaxAttempts
  BY CallAssumption
<1>2. r \in Results \cup {"none"}
  BY DEF CallTypes
<1> QED
  BY <1>1, <1>2 DEF CallTypes, Finish

LEMMA LegTypes ==
    ASSUME CallTypes, NEW c \in Calls, NEW r \in Results, LegReturns(c, r)
    PROVE  CallTypes'
<1>1. CASE Finish(c, r) \/ Finish(c, result[c]) \/ Finish(c, "failed")
  BY <1>1, FinishTypes DEF Results
<1>2. CASE /\ leg' = [leg EXCEPT ![c] = 2] /\ attempt' = [attempt EXCEPT ![c] = 1]
           /\ result' = [result EXCEPT ![c] = r]
  <2>1. 2 \in 1..2 /\ 1 \in 1..MaxAttempts
    BY CallAssumption
  <2> QED
    BY <1>2, <2>1 DEF CallTypes
<1> QED
  BY <1>1, <1>2 DEF LegReturns

LEMMA AttemptTypes ==
    ASSUME CallTypes, NEW c \in Calls, StartAttempt(c) \/ Execute(c)
    PROVE  CallTypes'
<1>1. "failed" \in Results
  BY DEF Results
<1>2. CASE LegReturns(c, "failed") \/ Finish(c, "failed")
  BY <1>1, <1>2, LegTypes, FinishTypes
<1>3. CASE UNCHANGED <<leg, attempt, result>>
  BY <1>3 DEF CallTypes
<1> QED
  BY <1>2, <1>3 DEF StartAttempt, Execute

LEMMA WorkingTypes ==
    ASSUME CallTypes, NEW c \in Calls, Working(c) \/ EnterBatch(c)
    PROVE  CallTypes'
<1>1. {"ok", "end", "failed", "stop", "denied"} \subseteq Results
  BY DEF Results, Good, Aborting
<1>2. ASSUME Retry(c) PROVE CallTypes'
  <2>1. CASE attempt[c] < MaxAttempts
    <3>1. attempt[c] + 1 \in 1..MaxAttempts
      BY <2>1, CallAssumption DEF CallTypes
    <3>2. attempt' = [attempt EXCEPT ![c] = attempt[c] + 1] /\ UNCHANGED <<leg, result>>
      BY <1>2, <2>1 DEF Retry
    <3> QED
      BY <3>1, <3>2 DEF CallTypes
  <2>2. CASE ~ attempt[c] < MaxAttempts
    BY <1>1, <1>2, <2>2, LegTypes DEF Retry
  <2> QED
    BY <2>1, <2>2
<1>3. ASSUME Preflight(c) PROVE CallTypes'
  BY <1>1, <1>3, FinishTypes, LegTypes, AttemptTypes DEF Preflight
<1>4. ASSUME Return(c) PROVE CallTypes'
  BY <1>1, <1>2, <1>4, LegTypes DEF Return
<1>5. ASSUME CancelRunning(c) \/ Backoff(c) \/ EnterBatch(c) PROVE CallTypes'
  BY <1>1, <1>5, LegTypes, AttemptTypes, FinishTypes DEF CancelRunning, Backoff, EnterBatch
<1> QED
  BY <1>3, <1>4, <1>5 DEF Working

LEMMA NewBatchTypes ==
    ASSUME NEW B, NEW S, NewBatch(B, S)
    PROVE  CallTypes'
<1>1. 1 \in 1..2 /\ 1 \in 1..MaxAttempts
  BY CallAssumption
<1> QED
  BY <1>1 DEF NewBatch, CallTypes

LEMMA CallTypesInd ==
    ASSUME CallTypes, [Next]_vars
    PROVE  CallTypes'
<1>1. ASSUME UNCHANGED <<leg, attempt, result>> PROVE CallTypes'
  BY <1>1 DEF CallTypes
<1>2. CASE \/ Round \/ ProviderError \/ Aborted \/ StartTurn \/ SetCancel \/ RebuildHistory
           \/ OverflowRecovered \/ FinalAnswer \/ \E kind \in {"steering", "followup"} : Submit(kind)
           \/ UNCHANGED vars
  BY <1>1, <1>2 DEF Round, ProviderError, Aborted, StartTurn, SetCancel, RebuildHistory,
     OverflowRecovered, FinalAnswer, Submit, vars, toolVars, calls
<1>3. CASE CallsRequested \/ BatchReturns \/ CallsDone \/ TurnRaises
  BY <1>3, NewBatchTypes DEF CallsRequested, BatchReturns, CallsDone, TurnRaises, Conclude
<1>4. ASSUME NEW c \in Calls, Enter(c) \/ OneCall(c) \/ Tool(c) PROVE CallTypes'
  BY <1>4, AttemptTypes, WorkingTypes DEF Enter, OneCall, Tool
<1>5. ASSUME NEW c \in Calls, HookDecides(c) \/ RunTool(c) PROVE CallTypes'
  BY <1>5, FinishTypes DEF HookDecides, RunTool
<1>6. ASSUME NEW c \in Calls, OneResult(c) PROVE CallTypes'
  <2>1. UNCHANGED <<leg, attempt>>
    BY <1>6 DEF OneResult
  <2>2. result' \in {result} \cup {[result EXCEPT ![c] = r] : r \in Results}
    BY <1>6 DEF OneResult, Override, Results
  <2>3. result' \in [Calls -> Results \cup {"none"}]
    BY <2>2 DEF CallTypes
  <2> QED
    BY <2>1, <2>3 DEF CallTypes
<1> QED
  BY <1>2, <1>3, <1>4, <1>5, <1>6 DEF Next, Progress

\* What is left of the budget of iterations, and what may interrupt the call.
LoopTypes ==
    /\ api \in Apis /\ mode \in {"one-at-a-time", "all"}
    /\ left \in 0..MaxIterations /\ unbounded \in BOOLEAN
    /\ cancel \in {"none", "unset", "set"} /\ stop \in BOOLEAN

LEMMA EndBudget ==
    ASSUME LoopTypes, NEW o, NEW h, NEW s, CallEnds(o, h, s)
    PROVE  /\ left' \in 0..MaxIterations /\ unbounded' \in BOOLEAN
           /\ cancel' \in {"none", "unset", "set"}
<1>1. 0 \in 0..MaxIterations /\ MaxIterations \in 0..MaxIterations
  BY LoopAssumption
<1>2. PICK f : CallReturns(f, h, s)
  BY DEF CallEnds
<1>3. CASE f = << >>
  BY <1>1, <1>2, <1>3 DEF CallReturns, NoCall
<1>4. CASE f # << >>
  BY <1>1, <1>2, <1>4 DEF CallReturns, LoopTypes
<1> QED
  BY <1>3, <1>4

LEMMA LoopTypesInd ==
    ASSUME LoopTypes, OrderInv, [Next]_vars
    PROVE  LoopTypes'
<1> DEFINE Budget == /\ left' \in 0..MaxIterations /\ unbounded' \in BOOLEAN
                     /\ cancel' \in {"none", "unset", "set"}
<1>1. 0 \in 0..MaxIterations /\ MaxIterations \in 0..MaxIterations
  BY LoopAssumption
<1>2. UNCHANGED <<left, unbounded, cancel>> => Budget
  BY DEF LoopTypes
<1>3. ASSUME Raise PROVE Budget
  BY <1>1, <1>3 DEF Raise, NoCall
<1>4. ASSUME NEW h, Steer(h) PROVE Budget
  BY <1>2, <1>4 DEF Steer
<1>5. CASE \/ SetCancel \/ RebuildHistory \/ OverflowRecovered \/ CallsRequested
           \/ (\E kind \in {"steering", "followup"} : Submit(kind)) \/ UNCHANGED vars
  BY <1>5 DEF LoopTypes, SetCancel, RebuildHistory, OverflowRecovered, CallsRequested, Submit,
     vars, toolVars, fixed, control, record
<1>6. CASE StartTurn
  BY <1>1, <1>6 DEF LoopTypes, StartTurn, fixed
<1>7. CASE Round
  <2>1. UNCHANGED <<api, mode, stop>>
    BY <1>7 DEF Round, fixed
  <2>2. \/ \E o, h : CallEnds(o, h, session)
        \/ /\ ~ Exhausted /\ left' = (IF unbounded THEN left ELSE left - 1)
           /\ UNCHANGED <<unbounded, cancel>>
    BY <1>7, Zenon DEF Round, toolVars
  <2>3. ASSUME ~ Exhausted, left' = (IF unbounded THEN left ELSE left - 1)
        PROVE  left' \in 0..MaxIterations
    BY <2>3, LoopAssumption DEF LoopTypes, Exhausted
  <2>4. Budget
    BY <2>2, <2>3, EndBudget DEF LoopTypes
  <2> QED
    BY <2>1, <2>4 DEF LoopTypes
<1>8. CASE Aborted \/ FinalAnswer
  <2>1. UNCHANGED <<api, mode, stop>>
    BY <1>8 DEF Aborted, FinalAnswer, fixed
  <2>2. (\E o, h : CallEnds(o, h, session)) \/ (\E h : Steer(h))
    BY <1>8, Zenon DEF Aborted, FinalAnswer
  <2>3. Budget
    BY <1>4, <2>2, EndBudget
  <2> QED
    BY <2>1, <2>3 DEF LoopTypes
<1>9. CASE ProviderError \/ TurnRaises
  BY <1>3, <1>9 DEF LoopTypes, ProviderError, TurnRaises, fixed
<1>10. CASE BatchReturns \/ CallsDone
  <2>1. PICK A, h, s : Conclude(A, h, s)
    BY <1>10, Zenon DEF BatchReturns, CallsDone
  <2>2. UNCHANGED <<api, mode>> /\ stop' = FALSE
    BY <2>1 DEF Conclude, fixed
  <2>3. (\E o, g : CallEnds(o, g, s)) \/ Steer(h)
    BY <2>1 DEF Conclude
  <2>4. Budget
    BY <1>4, <2>3, EndBudget
  <2> QED
    BY <2>2, <2>4 DEF LoopTypes
<1>11. ASSUME NEW c \in Calls, Enter(c) \/ OneCall(c) \/ Tool(c) PROVE LoopTypes'
  <2>1. UNCHANGED <<api, mode, left, unbounded, cancel, stop>>
    BY <1>11, EnterSteps, WorkingSteps DEF Enter, OneCall, Tool, fixed, control, record
  <2> QED
    BY <2>1 DEF LoopTypes
<1>12. ASSUME NEW c \in Calls, HookDecides(c) \/ RunTool(c) \/ OneResult(c) PROVE LoopTypes'
  <2>1. UNCHANGED <<api, mode, left, unbounded, cancel>>
    BY <1>12 DEF HookDecides, RunTool, OneResult, fixed, control
  <2>2. hooks \in BOOLEAN /\ stop \in BOOLEAN
    BY DEF LoopTypes, OrderInv, Shape
  <2>3. stop' \in BOOLEAN
    <3>1. CASE HookDecides(c)
      BY <3>1 DEF HookDecides
    <3>2. CASE RunTool(c)
      <4>1. PICK r \in Results : stop' \in {FALSE, hooks /\ r \in Aborting}
        BY <3>2 DEF RunTool
      <4>2. (hooks /\ r \in Aborting) \in BOOLEAN
        BY <2>2
      <4> QED
        BY <4>1, <4>2
    <3>3. CASE OneResult(c)
      BY <2>2, <3>3 DEF OneResult, Live
    <3> QED
      BY <1>12, <3>1, <3>2, <3>3
  <2> QED
    BY <2>1, <2>3 DEF LoopTypes
<1> QED
  BY <1>5, <1>6, <1>7, <1>8, <1>9, <1>10, <1>11, <1>12 DEF Next, Progress

\* Whatever fails, is retried, interrupted or answered, the state is well typed: a
\* tool is never tried more than its attempts allow, and a call of the agent never
\* makes more requests than its iterations allow.
THEOREM TypeCorrect == Spec => []TypeOK
<1>1. Init => CallTypes /\ LoopTypes
  <2> SUFFICES ASSUME Init PROVE CallTypes /\ LoopTypes
    OBVIOUS
  <2>1. 1 \in 1..2 /\ 1 \in 1..MaxAttempts /\ 0 \in 0..MaxIterations
    BY CallAssumption, LoopAssumption
  <2> QED
    BY <2>1 DEF Init, NoCalls, CallTypes, LoopTypes
<1>2. OrderInv /\ FlowInv /\ CallTypes /\ LoopTypes => TypeOK
  BY DEF OrderInv, Shape, FlowInv, Flow, CallTypes, LoopTypes, TypeOK, ToolTypes
<1> QED
  BY <1>1, <1>2, CallTypesInd, LoopTypesInd, SpecOrder, FlowInvariant, PTL DEF Spec
=============================================================================

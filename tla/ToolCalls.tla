------------------------------- MODULE ToolCalls -------------------------------
(***************************************************************************)
(* A round's tool calls in the registry (ToolRegistry, tools/registry.py): *)
(* preflight, attempts under a timeout, retries, a fallback tool, and the  *)
(* race of all of them against the cancel event.                           *)
(*                                                                         *)
(* A call is its index in the batch.  What a handler returns is reduced to *)
(* what its callers look at: whether it is ok, and whether it ends the     *)
(* batch (abort_batch) or the turn (terminate).                            *)
(***************************************************************************)
EXTENDS Naturals, FiniteSets

CONSTANTS
    Calls,         \* indices of the calls of a batch
    HasFallback,   \* the calls of tools that have a fallback tool
    MaxAttempts    \* attempts of a tool, retries included

ASSUME CallAssumption ==
    /\ Calls \subseteq Nat
    /\ MaxAttempts \in Nat \ {0}

VARIABLES
    batch,     \* the calls of the present batch
    safe,      \* those of parallel-safe tools
    at,        \* where a call is
    leg,       \* 1 for the tool itself, 2 for its fallback
    attempt,   \* the present attempt
    result,    \* what a call, or its first leg, came to
    cancel     \* the cancel event of the call of the agent, if it has one

calls == <<batch, safe, at, leg, attempt, result>>
toolVars == <<calls, cancel>>

Place       == {"idle", "queued", "preflight", "running", "backoff", "done"}
Good        == {"ok", "end"}
Terminating == {"end", "denied"}
Aborting    == {"stop", "denied"}
Results     == Good \cup Aborting \cup {"failed"}

Active(c) == at[c] \in {"preflight", "running", "backoff"}

NoCalls ==
    /\ batch = {} /\ safe = {}
    /\ at = [c \in Calls |-> "idle"]
    /\ leg = [c \in Calls |-> 1]
    /\ attempt = [c \in Calls |-> 1]
    /\ result = [c \in Calls |-> "none"]

\* The calls of a new response, B; S of them are of parallel-safe tools.
NewBatch(B, S) ==
    /\ batch' = B /\ safe' = S
    /\ at' = [c \in Calls |-> IF c \in B THEN "queued" ELSE "idle"]
    /\ leg' = [c \in Calls |-> 1]
    /\ attempt' = [c \in Calls |-> 1]
    /\ result' = [c \in Calls |-> "none"]

-----------------------------------------------------------------------------
Finish(c, r) ==
    /\ at' = [at EXCEPT ![c] = "done"]
    /\ leg' = [leg EXCEPT ![c] = 1]
    /\ attempt' = [attempt EXCEPT ![c] = 1]
    /\ result' = [result EXCEPT ![c] = r]
    /\ UNCHANGED <<batch, safe>>

\* _execute_tool returned r: the end of the call, or the turn of its fallback.
LegReturns(c, r) ==
    IF r \in Good \/ (leg[c] = 1 /\ c \notin HasFallback) THEN Finish(c, r)
    ELSE IF leg[c] = 2 THEN Finish(c, result[c])
    ELSE IF cancel = "set" THEN Finish(c, "failed")
    ELSE /\ at' = [at EXCEPT ![c] = "preflight"]
         /\ leg' = [leg EXCEPT ![c] = 2]
         /\ attempt' = [attempt EXCEPT ![c] = 1]
         /\ result' = [result EXCEPT ![c] = r]
         /\ UNCHANGED <<batch, safe>>

\* Seeded fault: a retry does not look at the cancel event.
CancelledAtFirst(c) == cancel = "set" /\ attempt[c] = 1
CancelledNow(c)     == cancel = "set"

\* The head of the retry loop.
StartAttempt(c) ==
    IF CancelledNow(c)
    THEN LegReturns(c, "failed")
    ELSE /\ at' = [at EXCEPT ![c] = "running"]
         /\ UNCHANGED <<batch, safe, leg, attempt, result>>

\* execute, up to the preflight.
Execute(c) ==
    IF cancel = "set"
    THEN Finish(c, "failed")
    ELSE /\ at' = [at EXCEPT ![c] = "preflight"]
         /\ UNCHANGED <<batch, safe, leg, attempt, result>>

\* A preflight (a permission, a confirmation) decides, or the tool is unknown,
\* or its first attempt starts.
Preflight(c) ==
    /\ at[c] = "preflight"
    /\ \/ \E r \in {"failed", "denied"} : Finish(c, r)
       \/ LegReturns(c, "failed")
       \/ StartAttempt(c)
    /\ UNCHANGED cancel

Retry(c) ==
    IF attempt[c] < MaxAttempts
    THEN /\ at' = [at EXCEPT ![c] = "backoff"]
         /\ attempt' = [attempt EXCEPT ![c] = @ + 1]
         /\ UNCHANGED <<batch, safe, leg, result>>
    ELSE LegReturns(c, "failed")

\* A handler returns, whatever the cancel event, with any result that a tool may
\* give (only permissions deny), or it raises or is too slow.
\* (The thread of a handler without coroutine goes on, unobserved.)
Return(c) ==
    /\ at[c] = "running"
    /\ \/ \E r \in {"ok", "end", "failed", "stop"} : LegReturns(c, r)
       \/ Retry(c)
    /\ UNCHANGED cancel

CancelRunning(c) ==
    /\ at[c] = "running"
    /\ cancel = "set"
    /\ LegReturns(c, "failed")
    /\ UNCHANGED cancel

Backoff(c) ==
    /\ at[c] = "backoff"
    /\ StartAttempt(c)
    /\ UNCHANGED cancel

-----------------------------------------------------------------------------
(* execute_batch: the parallel-safe calls together, then the others in     *)
(* their order.                                                            *)

\* Seeded fault: only the other sequential calls are waited for.
EarlierSequential(c) == {d \in batch \ safe : d < c}
Before(c) == IF c \in safe THEN {} ELSE safe \cup {d \in batch \ safe : d < c}

Stopped(c) == \E d \in batch \ safe : d < c /\ result[d] \in Aborting

\* Seeded fault: a cancelled batch enters no more calls, and fills in nothing.
EnterUncancelled(c) ==
    /\ at[c] = "queued" /\ cancel # "set"
    /\ \A d \in Before(c) : at[d] = "done"
    /\ Execute(c)
    /\ UNCHANGED cancel

EnterBatch(c) ==
    /\ at[c] = "queued"
    /\ \A d \in Before(c) : at[d] = "done"
    /\ IF c \notin safe /\ cancel # "set" /\ Stopped(c)
       THEN Finish(c, "failed")
       ELSE Execute(c)
    /\ UNCHANGED cancel

Unanswered == {c \in batch : at[c] # "done"}

\* Seeded fault: a cancelled batch returns what it has.
DoneOrCancelled == cancel = "set" \/ Unanswered = {}
BatchDone       == Unanswered = {}

Working(c) ==
    Preflight(c) \/ Return(c) \/ CancelRunning(c) \/ Backoff(c)

ToolTypes ==
    /\ batch \subseteq Calls /\ safe \subseteq batch
    /\ at \in [Calls -> Place]
    /\ leg \in [Calls -> 1..2]
    /\ attempt \in [Calls -> 1..MaxAttempts]
    /\ result \in [Calls -> Results \cup {"none"}]
    /\ cancel \in {"none", "unset", "set"}
=============================================================================

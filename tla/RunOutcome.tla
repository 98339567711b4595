------------------------------ MODULE RunOutcome -----------------------------
(***************************************************************************)
(* What run integrity promises its user, without ledgers, leases, attempts *)
(* or recovery: the effect of an operation happens at most once, the run   *)
(* gets at most one outcome, and that outcome is a known one (completed,   *)
(* failed, cancelled) only if no effect is left unconfirmed.  When nobody  *)
(* can tell, the outcome is "unknown", and only then may an effect still   *)
(* surface after the run ended.                                            *)
(***************************************************************************)
CONSTANT Operations

VARIABLES outcome,   \* "open", "known" or "unknown"
          effects    \* operation |-> "none", "begun" or "confirmed"

vars == <<outcome, effects>>

Init ==
    /\ outcome = "open"
    /\ effects = [o \in Operations |-> "none"]

Begin(o) ==
    /\ outcome # "known"
    /\ effects[o] = "none"
    /\ effects' = [effects EXCEPT ![o] = "begun"]
    /\ UNCHANGED outcome

Confirm(o) ==
    /\ outcome = "open"
    /\ effects[o] = "begun"
    /\ effects' = [effects EXCEPT ![o] = "confirmed"]
    /\ UNCHANGED outcome

\* Ending a run may confirm some effects in the same step.
End(result) ==
    /\ outcome = "open"
    /\ result \in {"known", "unknown"}
    /\ outcome' = result
    /\ effects' \in [Operations -> {"none", "begun", "confirmed"}]
    /\ \A o \in Operations :
         effects'[o] # effects[o] => effects[o] = "begun" /\ effects'[o] = "confirmed"
    /\ result = "known" => \A o \in Operations : effects'[o] # "begun"

Next ==
    \/ \E o \in Operations : Begin(o) \/ Confirm(o)
    \/ \E result \in {"known", "unknown"} : End(result)

Spec == Init /\ [][Next]_vars
=============================================================================

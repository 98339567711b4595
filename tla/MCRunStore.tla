----------------------------- MODULE MCRunStore ------------------------------
(* A small instance of RunStore: one tool operation and one provider        *)
(* operation, two attempts of the first and one of the second, one owner.   *)
EXTENDS RunStore, TLC

CONSTANTS toolCall, modelCall,      \* operations
          t1, t2, m1                \* attempts

MCOperations == {toolCall, modelCall}
MCAttempts   == {t1, t2, m1}
MCOpOf   == (t1 :> toolCall) @@ (t2 :> toolCall) @@ (m1 :> modelCall)
MCKindOf == (toolCall :> "tool") @@ (modelCall :> "provider")
MCKeyOf  == (toolCall :> "tool:1") @@ (modelCall :> "provider:1")
MCKeys   == {"tool:1", "provider:1"}
MCTurnOf == [o \in MCOperations |-> "turn"]
MCTurns  == {"turn"}
MCLeases == [owner : Owners, expires : 1..(MaxTime + Duration)]

\* The attempts of the tool operation are interchangeable.
MCSymmetry == Permutations({t1, t2})
=============================================================================

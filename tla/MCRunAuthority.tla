---------------------------- MODULE MCRunAuthority ---------------------------
(* A small instance of RunAuthority: a turn with one provider call, which   *)
(* may be retried once, and two tool calls, made one after the other, in    *)
(* one batch, or as a call and its fallback.                                *)
EXTENDS RunAuthority, TLC

CONSTANTS modelCall, readCall, fetchCall,   \* operations
          m1, m2, t1, t2                    \* attempts

MCOperations == {modelCall, readCall, fetchCall}
MCAttempts   == {m1, m2, t1, t2}
MCOpOf   == (m1 :> modelCall) @@ (m2 :> modelCall) @@ 
            (t1 :> readCall) @@ (t2 :> fetchCall)
MCKindOf == (modelCall :> "provider") @@ 
            (readCall :> "tool") @@ (fetchCall :> "tool")
MCKeyOf  == (modelCall :> "provider:1") @@ 
            (readCall :> "tool:1") @@ (fetchCall :> "tool:2")
MCKeys   == {"provider:1", "tool:1", "tool:2"}
MCTurns  == {"turn"}
MCTurnOf == [o \in MCOperations |-> "turn"]
MCOwners == {Self, Other}
MCLeases == [owner : MCOwners, expires : 0..(MaxTime + Duration)]

\* The attempts of the provider call are interchangeable.
MCSymmetry == Permutations({m1, m2})
=============================================================================

------------------------------ MODULE MessageFate ----------------------------
(***************************************************************************)
(* What a channel promises about the messages its manager accepted: each   *)
(* waits, is given to an agent, and is answered, at most once.  It may be  *)
(* lost on the way (a full queue, an error, a crash, an expired key); a    *)
(* message that was answered or lost never comes back.                     *)
(***************************************************************************)
CONSTANT Messages

VARIABLE fate

Fates == {"none", "waiting", "running", "answered", "lost"}

Init == fate = [m \in Messages |-> "none"]

Moves ==
    {<<"none", "waiting">>, <<"waiting", "running">>, <<"running", "answered">>}
    \cup ({"waiting", "running"} \X {"lost"})

\* Several messages may move in one step: an agent that finishes one message
\* goes on with the next.
Next ==
    /\ fate' \in [Messages -> Fates]
    /\ \A m \in Messages :
         fate'[m] # fate[m] => <<fate[m], fate'[m]>> \in Moves

Spec == Init /\ [][Next]_fate
=============================================================================

------------------------------ MODULE Breaker ------------------------------
(***************************************************************************)
(* What a circuit promises its callers, one subject at a time: who may     *)
(* trip it, who may decide its recovery, and that an open circuit is       *)
(* neither re-armed nor admitted to.  Subjects change independently, and   *)
(* one step may move several of them (a permit covers two).                *)
(***************************************************************************)
CONSTANTS
    Subjects, Tokens, None,
    MayReset  \* whether operators may switch circuits off

VARIABLES
    phase,  \* "closed", "open" (cooling down) or "recovering" (half-open)
    owner   \* the attempt that owns the recovery probe

Init ==
    /\ phase = [s \in Subjects |-> "closed"]
    /\ owner = [s \in Subjects |-> None]

Becomes(s, p, o) == phase'[s] = p /\ owner'[s] = o

\* Failures of closed-mode attempts trip a closed circuit, and only that.
Trip(s) == phase[s] = "closed" /\ Becomes(s, "open", owner[s])

Elapse(s) == phase[s] = "open" /\ Becomes(s, "recovering", owner[s])

\* One probe at a time.
Grant(s) ==
    /\ phase[s] = "recovering" /\ owner[s] = None
    /\ \E t \in Tokens : Becomes(s, "recovering", t)

\* The owner's success closes the circuit; its failure opens it, unless it is
\* open already.  The owner decides once.
Succeed(s) == owner[s] # None /\ Becomes(s, "closed", None)
Fail(s) == owner[s] # None /\ phase[s] # "open" /\ Becomes(s, "open", None)

\* Ownership is lost by release or by its lifetime.
Lose(s) == owner[s] # None /\ Becomes(s, phase[s], None)

\* A circuit that was not opened again for long enough forgets its history.
Forget(s) == phase[s] = "recovering" /\ Becomes(s, "closed", owner[s])

\* Circuits are switched off: everything about the subject is dropped.
Reset(s) == MayReset /\ Becomes(s, "closed", None)

Step(s) ==
    \/ Trip(s) \/ Elapse(s) \/ Grant(s) \/ Succeed(s) \/ Fail(s)
    \/ Lose(s) \/ Forget(s) \/ Reset(s)
    \/ Becomes(s, phase[s], owner[s])

Next == \A s \in Subjects : Step(s)

Spec == Init /\ [][Next]_<<phase, owner>>
=============================================================================

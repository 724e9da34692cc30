----------------------------- MODULE CallBudget -----------------------------
(***************************************************************************)
(* What a rate limiter promises, without saying how it keeps its records:  *)
(* time is cut into periods that last at least CallFrequency, and in each  *)
(* of them a peer is granted at most CallCount calls.  Whether a peer is   *)
(* connected, has just reconnected or was forgotten plays no part in it.   *)
(***************************************************************************)
EXTENDS Naturals

CONSTANTS Peers, CallCount, CallFrequency

VARIABLES
    now,    \* the time
    start,  \* when the current period began
    used    \* used[p]: the calls granted to p in the current period

vars == <<now, start, used>>

Init ==
    /\ now = 0
    /\ start = 0
    /\ used = [p \in Peers |-> 0]

Tick ==
    /\ now' = now + 1
    /\ UNCHANGED <<start, used>>

Grant(p) ==
    /\ used[p] < CallCount
    /\ used' = [used EXCEPT ![p] = @ + 1]
    /\ UNCHANGED <<now, start>>

\* A new period may begin once the current one has lasted CallFrequency.  The
\* call that noticed it may be granted (to one of S) in the same step.
NewPeriod(S) ==
    /\ now - start >= CallFrequency
    /\ start' = now
    /\ used' = [p \in Peers |-> IF p \in S /\ CallCount > 0 THEN 1 ELSE 0]
    /\ UNCHANGED now

Next ==
    \/ Tick
    \/ \E p \in Peers : Grant(p) \/ NewPeriod({p})
    \/ NewPeriod({})

Spec == Init /\ [][Next]_vars
=============================================================================

---------------------------- MODULE TokenLimiter ----------------------------
(***************************************************************************)
(* The token limiter of rate_limit.rs.  It tracks the peers and limits the *)
(* onion messages accepted from each of them to CallCount per period of    *)
(* CallFrequency.  Periods are advanced lazily, by the call that asks, and *)
(* a peer that disconnects is remembered until the next period begins.     *)
(***************************************************************************)
EXTENDS Integers, Sequences

CONSTANTS
    Peers,          \* the public keys that can show up
    CallCount,      \* call_count, a u8
    CallFrequency,  \* call_frequency, in ticks of the clock
    MaxTime         \* bound: the clock stops here

ASSUME LimiterAssumption ==
    /\ CallCount \in 0..255
    /\ CallFrequency \in Nat
    /\ MaxTime \in Nat

VARIABLES
    peer_map,     \* the HashMap: a function from the tracked peers to records
    last_update,  \* when the current period began
    now,          \* the Clock
    log           \* history: log[p] is the sequence of times p was let through

vars == <<peer_map, last_update, now, log>>

PeerRecord == [online : BOOLEAN, remaining_calls : 0..CallCount]

TypeOK ==
    /\ \E D \in SUBSET Peers : peer_map \in [D -> PeerRecord]
    /\ last_update \in 0..now
    /\ now \in Nat
    /\ log \in [Peers -> Seq(Nat)]

Fresh == [online |-> TRUE, remaining_calls |-> CallCount]

-----------------------------------------------------------------------------
(* new: every peer the caller lists starts online with a full allocation.  *)
New(peers) == [p \in peers |-> Fresh]

Init ==
    /\ \E peers \in SUBSET Peers : peer_map = New(peers)
    /\ last_update = 0
    /\ now = 0
    /\ log = [p \in Peers |-> <<>>]

Tick ==
    /\ now < MaxTime
    /\ now' = now + 1
    /\ UNCHANGED <<peer_map, last_update, log>>

\* Mutant: the period is taken to be over one tick early.
needs_update_Early == now - last_update + 1 >= CallFrequency

needs_update == now - last_update >= CallFrequency

\* peers: the online ones, which the consumer of SendOutgoing visits and which
\* update retains.
OnlinePeers == {p \in DOMAIN peer_map : peer_map[p].online}

\* update: forget the peers that are offline, refill the others.
Refreshed ==
    [p \in OnlinePeers |-> [peer_map[p] EXCEPT !.remaining_calls = CallCount]]

\* Mutant: a peer that reconnects is given a fresh allocation.
Connected_Refill(m, p) ==
    [q \in DOMAIN m \cup {p} |-> IF q # p THEN m[q] ELSE Fresh]

Connected(m, p) ==
    [q \in DOMAIN m \cup {p} |->
        IF q # p THEN m[q]
        ELSE IF p \in DOMAIN m THEN [m[p] EXCEPT !.online = TRUE]
        ELSE Fresh]

PeerConnected(p) ==
    /\ peer_map' = Connected(peer_map, p)
    /\ UNCHANGED <<last_update, now, log>>

Disconnected(m, p) ==
    [q \in DOMAIN m |-> IF q = p THEN [m[q] EXCEPT !.online = FALSE] ELSE m[q]]

PeerDisconnected(p) ==
    /\ peer_map' = Disconnected(peer_map, p)
    /\ UNCHANGED <<last_update, now, log>>

\* Mutant: the test for an exhausted allocation is missing.
Permits_NoFloor(m, p) == p \in DOMAIN m

Permits(m, p) == p \in DOMAIN m /\ m[p].remaining_calls > 0

\* hit: take one of p's remaining calls from map m if it has any.
Hit(m, p) ==
    IF Permits(m, p)
    THEN /\ peer_map' = [m EXCEPT ![p].remaining_calls = @ - 1]
         /\ log' = [log EXCEPT ![p] = Append(@, now)]
    ELSE /\ peer_map' = m
         /\ UNCHANGED log

\* Mutant: update forgets to restart the period.
QueryPeer_NoRestart(p) ==
    /\ IF needs_update THEN Hit(Refreshed, p) ELSE Hit(peer_map, p)
    /\ UNCHANGED <<last_update, now>>

QueryPeer(p) ==
    /\ IF needs_update
       THEN Hit(Refreshed, p) /\ last_update' = now
       ELSE Hit(peer_map, p) /\ UNCHANGED last_update
    /\ UNCHANGED now

Next ==
    \/ Tick
    \/ \E p \in Peers : PeerConnected(p) \/ PeerDisconnected(p) \/ QueryPeer(p)

Spec == Init /\ [][Next]_vars

-----------------------------------------------------------------------------
(* The calls that map m charges to p for the current period: a peer that  *)
(* is not tracked has made none.                                           *)
Charged(m, p) ==
    IF p \in DOMAIN m THEN CallCount - m[p].remaining_calls ELSE 0

Used(p) == Charged(peer_map, p)

\* The records tell the truth: the calls peer_map charges to a peer are exactly
\* the ones it was let through since last_update, however often it left, came
\* back (peer_connected keeps the record) or was forgotten by update.
BudgetHeld ==
    \A p \in Peers :
        LET n == Len(log[p])
        IN  /\ Used(p) <= n
            /\ \A i \in 1..n : i <= n - Used(p) => log[p][i] <= last_update
            /\ \A i \in 1..n : i > n - Used(p)  => log[p][i] >= last_update

\* No window of time shorter than CallFrequency, wherever it begins, holds more
\* than twice CallCount accepted calls of one peer: the worst that query_peer's
\* lazily advanced periods allow (a burst before and one after an update).
WindowBound ==
    \A p \in Peers : \A i \in 1..Len(log[p]) :
        i + 2 * CallCount <= Len(log[p])
            => log[p][i + 2 * CallCount] - log[p][i] >= CallFrequency

Budget == INSTANCE CallBudget
    WITH start <- last_update, used <- [p \in Peers |-> Used(p)]

\* The limiter implements the call budget: connecting, disconnecting and being
\* forgotten never change what a peer has used, and periods are long enough.
KeepsBudget == Budget!Spec
=============================================================================

------------------------- MODULE TokenLimiterProofs -------------------------
(***************************************************************************)
(* Theorems about TokenLimiter, for every set of peers, every call count   *)
(* and every period.                                                       *)
(***************************************************************************)
EXTENDS TokenLimiter, TLAPS

\* A map of peer records over some of the peers.
IsPeerMap(m) == /\ DOMAIN m \subseteq Peers
                /\ m \in [DOMAIN m -> PeerRecord]

LEMMA FreshType == Fresh \in PeerRecord
  BY LimiterAssumption DEF Fresh, PeerRecord

LEMMA TypeIsMap ==
  ASSUME TypeOK
  PROVE  IsPeerMap(peer_map)
  BY DEF TypeOK, IsPeerMap

LEMMA MapIsType ==
  ASSUME IsPeerMap(peer_map), last_update \in 0..now, now \in Nat,
         log \in [Peers -> Seq(Nat)]
  PROVE  TypeOK
  <1>1. DOMAIN peer_map \in SUBSET Peers
    BY DEF IsPeerMap
  <1> QED
    BY <1>1 DEF TypeOK, IsPeerMap

LEMMA NewType ==
  ASSUME NEW S \in SUBSET Peers
  PROVE  IsPeerMap(New(S))
  BY FreshType DEF New, IsPeerMap

\* What each operation makes of the map: it stays a map of peer records, and
\* only update changes what peers are charged.
LEMMA RefreshedMap ==
  ASSUME IsPeerMap(peer_map)
  PROVE  /\ IsPeerMap(Refreshed)
         /\ \A q \in Peers : Charged(Refreshed, q) = 0
  BY LimiterAssumption DEF Refreshed, OnlinePeers, IsPeerMap, PeerRecord, Charged

LEMMA ConnectedMap ==
  ASSUME IsPeerMap(peer_map), NEW p \in Peers
  PROVE  /\ IsPeerMap(Connected(peer_map, p))
         /\ \A q \in Peers :
                Charged(Connected(peer_map, p), q) = Charged(peer_map, q)
  <1> DEFINE m == Connected(peer_map, p)
  <1>1. DOMAIN m = DOMAIN peer_map \cup {p}
    BY DEF Connected
  <1>2. \A q \in DOMAIN m : m[q] \in PeerRecord
    BY FreshType DEF Connected, IsPeerMap, PeerRecord
  <1>3. \A q \in Peers : Charged(m, q) = Charged(peer_map, q)
    BY LimiterAssumption DEF Connected, IsPeerMap, PeerRecord, Charged, Fresh
  <1>4. m \in [DOMAIN m -> PeerRecord]
    BY <1>1, <1>2 DEF Connected
  <1> QED
    BY <1>1, <1>3, <1>4 DEF IsPeerMap

LEMMA DisconnectedMap ==
  ASSUME IsPeerMap(peer_map), NEW p \in Peers
  PROVE  /\ IsPeerMap(Disconnected(peer_map, p))
         /\ \A q \in Peers :
                Charged(Disconnected(peer_map, p), q) = Charged(peer_map, q)
  BY DEF Disconnected, IsPeerMap, PeerRecord, Charged

LEMMA ChargedRange ==
  ASSUME NEW m, IsPeerMap(m), NEW p \in Peers
  PROVE  /\ Charged(m, p) \in 0..CallCount
         /\ Permits(m, p) => Charged(m, p) < CallCount
  BY LimiterAssumption DEF IsPeerMap, PeerRecord, Charged, Permits

\* hit on map m: either p is charged one call and nobody else is, or the map
\* stays as it is.
LEMMA HitEffect ==
  ASSUME NEW m, IsPeerMap(m), NEW p \in Peers, Hit(m, p)
  PROVE  /\ IsPeerMap(peer_map')
         /\ \/ /\ Permits(m, p)
               /\ Charged(peer_map', p) = Charged(m, p) + 1
               /\ \A q \in Peers \ {p} : Charged(peer_map', q) = Charged(m, q)
               /\ log' = [log EXCEPT ![p] = Append(@, now)]
            \/ /\ ~Permits(m, p)
               /\ peer_map' = m
               /\ log' = log
  <1>1. CASE ~Permits(m, p)
    BY <1>1 DEF Hit
  <1>2. CASE Permits(m, p)
    <2> DEFINE r == [m[p] EXCEPT !.remaining_calls = m[p].remaining_calls - 1]
    <2>1. peer_map' = [m EXCEPT ![p] = r]
      BY <1>2 DEF Hit
    <2>2. /\ p \in DOMAIN m
          /\ m[p] \in PeerRecord
          /\ m[p].remaining_calls > 0
      BY <1>2 DEF Permits, IsPeerMap
    <2>3. /\ r \in PeerRecord
          /\ r.remaining_calls = m[p].remaining_calls - 1
      BY <2>2, LimiterAssumption DEF PeerRecord
    <2> HIDE DEF r
    <2>4. IsPeerMap(peer_map')
      BY <2>1, <2>2, <2>3 DEF IsPeerMap
    <2>5. Charged(peer_map', p) = Charged(m, p) + 1
      BY <2>1, <2>2, <2>3, LimiterAssumption DEF Charged, IsPeerMap, PeerRecord
    <2>6. \A q \in Peers \ {p} : Charged(peer_map', q) = Charged(m, q)
      BY <2>1, <2>2 DEF Charged, IsPeerMap
    <2> QED
      BY <1>2, <2>4, <2>5, <2>6 DEF Hit
  <1> QED
    BY <1>1, <1>2

-----------------------------------------------------------------------------
(* The type invariant.  *)

LEMMA TypeInit == Init => TypeOK
  <1> SUFFICES ASSUME Init PROVE TypeOK
    OBVIOUS
  <1>1. PICK S \in SUBSET Peers : peer_map = New(S)
    BY DEF Init
  <1>2. IsPeerMap(peer_map)
    BY <1>1, NewType
  <1> QED
    BY <1>2, MapIsType DEF Init

LEMMA AppendNow ==
  ASSUME TypeOK, NEW p \in Peers, log' = [log EXCEPT ![p] = Append(@, now)]
  PROVE  log' \in [Peers -> Seq(Nat)]
  BY DEF TypeOK

LEMMA MapIsTypeNext ==
  ASSUME IsPeerMap(peer_map'), last_update' \in 0..now', now' \in Nat,
         log' \in [Peers -> Seq(Nat)]
  PROVE  TypeOK'
  <1>1. DOMAIN peer_map' \in SUBSET Peers
    BY DEF IsPeerMap
  <1> QED
    BY <1>1 DEF TypeOK, IsPeerMap

LEMMA TypeStep == TypeOK /\ [Next]_vars => TypeOK'
  <1> SUFFICES ASSUME TypeOK, [Next]_vars PROVE TypeOK'
    OBVIOUS
  <1>m. IsPeerMap(peer_map)
    BY TypeIsMap
  <1>1. CASE Tick
    <2>1. IsPeerMap(peer_map')
      BY <1>1, <1>m DEF Tick
    <2> QED
      BY <1>1, <2>1, MapIsTypeNext DEF Tick, TypeOK
  <1>2. ASSUME NEW p \in Peers, PeerConnected(p) PROVE TypeOK'
    <2>1. IsPeerMap(peer_map')
      BY <1>2, <1>m, ConnectedMap DEF PeerConnected
    <2> QED
      BY <1>2, <2>1, MapIsTypeNext DEF PeerConnected, TypeOK
  <1>3. ASSUME NEW p \in Peers, PeerDisconnected(p) PROVE TypeOK'
    <2>1. IsPeerMap(peer_map')
      BY <1>3, <1>m, DisconnectedMap DEF PeerDisconnected
    <2> QED
      BY <1>3, <2>1, MapIsTypeNext DEF PeerDisconnected, TypeOK
  <1>4. ASSUME NEW p \in Peers, QueryPeer(p) PROVE TypeOK'
    <2>1. PICK m : IsPeerMap(m) /\ Hit(m, p)
      BY <1>4, <1>m, RefreshedMap DEF QueryPeer
    <2>2. IsPeerMap(peer_map')
      BY <2>1, HitEffect
    <2>3. log' \in [Peers -> Seq(Nat)]
      BY <2>1, HitEffect, AppendNow DEF TypeOK
    <2>4. last_update' \in 0..now' /\ now' \in Nat
      BY <1>4 DEF QueryPeer, TypeOK
    <2> QED
      BY <2>2, <2>3, <2>4, MapIsTypeNext
  <1>5. CASE UNCHANGED vars
    BY <1>5 DEF vars, TypeOK
  <1> QED
    BY <1>1, <1>2, <1>3, <1>4, <1>5 DEF Next

\* peer_map always holds proper records, in particular remaining_calls never
\* drops below zero (hit's u8 subtraction does not underflow).
THEOREM TypeInvariant == Spec => []TypeOK
  BY TypeInit, TypeStep, PTL DEF Spec

-----------------------------------------------------------------------------
(***************************************************************************)
(* The budget and the window bound.  WindowBound is not inductive: a call  *)
(* that is let through must be known to come long enough after the one     *)
(* 2 * CallCount before it.  PastBursts says what makes it so: all but the *)
(* calls of this period and CallCount more came before the last period,    *)
(* which lasted CallFrequency at least.                                    *)
(***************************************************************************)

PastBursts ==
    \A p \in Peers : \A i \in 1..Len(log[p]) :
        i <= Len(log[p]) - Used(p) - CallCount
            => last_update - log[p][i] >= CallFrequency

LogPast == \A p \in Peers : \A i \in 1..Len(log[p]) : log[p][i] <= now

IInv == TypeOK /\ BudgetHeld /\ LogPast /\ PastBursts /\ WindowBound

\* The parts of IInv that speak of one peer with n logged calls l, of which u
\* are charged to the period that began at s, at time t.
PeerInv(n, l, u, s, t) ==
    /\ u <= n
    /\ \A i \in 1..n : i <= n - u => l[i] <= s
    /\ \A i \in 1..n : i > n - u  => l[i] >= s
    /\ \A i \in 1..n : l[i] <= t
    /\ \A i \in 1..n : i <= n - u - CallCount => s - l[i] >= CallFrequency
    /\ \A i \in 1..n : i + 2 * CallCount <= n
                          => l[i + 2 * CallCount] - l[i] >= CallFrequency

LEMMA IInvPerPeer ==
  IInv <=> /\ TypeOK
           /\ \A p \in Peers :
                PeerInv(Len(log[p]), log[p], Used(p), last_update, now)
  BY DEF IInv, BudgetHeld, LogPast, PastBursts, WindowBound, PeerInv

\* Time passing keeps the invariant.
LEMMA PeerInvTick ==
  ASSUME NEW n \in Nat, NEW l \in Seq(Nat), Len(l) = n, NEW u \in 0..CallCount,
         NEW s \in Nat, NEW t \in Nat, PeerInv(n, l, u, s, t)
  PROVE  PeerInv(n, l, u, s, t + 1)
  BY LimiterAssumption DEF PeerInv

\* A new period, begun no earlier than CallFrequency after the last one.
LEMMA PeerInvPeriod ==
  ASSUME NEW n \in Nat, NEW l \in Seq(Nat), Len(l) = n, NEW u \in 0..CallCount,
         NEW s \in Nat, NEW t \in Nat, PeerInv(n, l, u, s, t),
         t - s >= CallFrequency
  PROVE  PeerInv(n, l, 0, t, t)
  <1>1. \A i \in 1..n : l[i] \in Nat
    OBVIOUS
  <1>2. \A i \in 1..n : i <= n - 0 - CallCount => t - l[i] >= CallFrequency
    <2> SUFFICES ASSUME NEW i \in 1..n, i <= n - 0 - CallCount
                 PROVE  t - l[i] >= CallFrequency
      OBVIOUS
    <2>1. i <= n - u
      BY LimiterAssumption
    <2>2. l[i] <= s
      BY <2>1 DEF PeerInv
    <2> QED
      BY <2>2, <1>1, LimiterAssumption
  <1>3. \A i \in 1..n : ~ i > n - 0
    OBVIOUS
  <1> QED
    BY <1>2, <1>3 DEF PeerInv

\* A call let through at time t.
LEMMA PeerInvCall ==
  ASSUME NEW n \in Nat, NEW l \in Seq(Nat), Len(l) = n, NEW u \in 0..CallCount,
         NEW s \in Nat, NEW t \in Nat, PeerInv(n, l, u, s, t),
         u < CallCount, s <= t
  PROVE  PeerInv(n + 1, Append(l, t), u + 1, s, t)
  <1> DEFINE k == Append(l, t)
  <1>1. /\ \A i \in 1..n : k[i] = l[i]
        /\ k[n + 1] = t
    OBVIOUS
  <1>2. \A i \in 1..n : l[i] \in Nat
    OBVIOUS
  <1> HIDE DEF k
  <1>3. \A i \in 1..n+1 : i <= (n + 1) - (u + 1) => k[i] <= s
    BY <1>1 DEF PeerInv
  <1>4. \A i \in 1..n+1 : i > (n + 1) - (u + 1) => k[i] >= s
    BY <1>1 DEF PeerInv
  <1>5. \A i \in 1..n+1 : k[i] <= t
    BY <1>1 DEF PeerInv
  <1>6. \A i \in 1..n+1 : i <= (n + 1) - (u + 1) - CallCount
                            => s - k[i] >= CallFrequency
    BY <1>1, LimiterAssumption DEF PeerInv
  <1>7. \A i \in 1..n+1 : i + 2 * CallCount <= n + 1
                            => k[i + 2 * CallCount] - k[i] >= CallFrequency
    <2> SUFFICES ASSUME NEW i \in 1..n+1, i + 2 * CallCount <= n + 1
                 PROVE  k[i + 2 * CallCount] - k[i] >= CallFrequency
      OBVIOUS
    <2>0. i \in 1..n
      BY LimiterAssumption
    <2>1. CASE i + 2 * CallCount <= n
      BY <2>0, <2>1, <1>1, LimiterAssumption DEF PeerInv
    <2>2. CASE i + 2 * CallCount = n + 1
      <3>1. i <= n - u - CallCount
        BY <2>2, LimiterAssumption
      <3>2. s - l[i] >= CallFrequency
        BY <2>0, <3>1 DEF PeerInv
      <3>3. k[i + 2 * CallCount] = t /\ k[i] = l[i]
        BY <2>0, <2>2, <1>1
      <3> QED
        BY <2>0, <3>2, <3>3, <1>2, LimiterAssumption
    <2> QED
      BY <2>0, <2>1, <2>2, LimiterAssumption
  <1>8. u + 1 <= n + 1
    BY DEF PeerInv
  <1>9. PeerInv(n + 1, k, u + 1, s, t)
    BY <1>3, <1>4, <1>5, <1>6, <1>7, <1>8 DEF PeerInv
  <1> QED
    BY <1>9 DEF k

LEMMA UsedRange ==
  ASSUME TypeOK, NEW p \in Peers
  PROVE  Used(p) \in 0..CallCount
  BY TypeIsMap, ChargedRange DEF Used

LEMMA InitUsed ==
  ASSUME Init, NEW p \in Peers
  PROVE  Used(p) = 0
  BY LimiterAssumption DEF Init, Used, Charged, New, Fresh

LEMMA IInvInit == Init => IInv
  <1> SUFFICES ASSUME Init PROVE IInv
    OBVIOUS
  <1>1. TypeOK
    BY TypeInit
  <1>2. ASSUME NEW p \in Peers
        PROVE  PeerInv(Len(log[p]), log[p], Used(p), last_update, now)
    <2>1. Used(p) = 0
      BY InitUsed
    <2>2. log[p] = <<>>
      BY DEF Init
    <2> QED
      BY <2>1, <2>2, LimiterAssumption DEF PeerInv, Init
  <1> QED
    BY <1>1, <1>2, IInvPerPeer

LEMMA IInvStep == IInv /\ [Next]_vars => IInv'
  <1> SUFFICES ASSUME IInv, [Next]_vars PROVE IInv'
    OBVIOUS
  <1> DEFINE Holds(p) ==
        PeerInv(Len(log[p]), log[p], Used(p), last_update, now)
  <1>t. TypeOK /\ TypeOK' /\ IsPeerMap(peer_map)
    BY TypeStep, TypeIsMap DEF IInv
  <1>h. \A p \in Peers : Holds(p)
    BY IInvPerPeer
  <1>f. \A p \in Peers : /\ Used(p) \in 0..CallCount
                         /\ log[p] \in Seq(Nat)
                         /\ Len(log[p]) \in Nat
    BY <1>t, UsedRange DEF TypeOK
  <1>s. last_update \in Nat /\ now \in Nat /\ last_update <= now
    BY <1>t DEF TypeOK
  <1>g. SUFFICES ASSUME NEW q \in Peers PROVE Holds(q)'
    <2>1. TypeOK' /\ \A q \in Peers : Holds(q)'
      BY <1>t, <1>g
    <2> QED
      BY <2>1 DEF IInv, BudgetHeld, LogPast, PastBursts, WindowBound, PeerInv
  <1>1. CASE Tick
    <2>1. /\ log' = log
          /\ Used(q)' = Used(q)
          /\ last_update' = last_update
          /\ now' = now + 1
      BY <1>1 DEF Tick, Used
    <2>2. PeerInv(Len(log[q]), log[q], Used(q), last_update, now + 1)
      BY <1>h, <1>f, <1>s, PeerInvTick
    <2> QED
      BY <2>1, <2>2
  <1>2. ASSUME NEW p \in Peers, PeerConnected(p) \/ PeerDisconnected(p)
        PROVE  Holds(q)'
    <2>1. UNCHANGED <<log, last_update, now>>
      BY <1>2 DEF PeerConnected, PeerDisconnected
    <2>2. Used(q)' = Used(q)
      BY <1>2, <1>t, ConnectedMap, DisconnectedMap
         DEF PeerConnected, PeerDisconnected, Used
    <2> QED
      BY <2>1, <2>2, <1>h
  <1>3. ASSUME NEW p \in Peers, QueryPeer(p) PROVE Holds(q)'
    <2> DEFINE s == last_update'
    <2>1. PICK m : /\ IsPeerMap(m)
                   /\ Hit(m, p)
                   /\ PeerInv(Len(log[q]), log[q], Charged(m, q), s, now)
      <3>1. CASE needs_update
        <4>1. /\ IsPeerMap(Refreshed)
              /\ Charged(Refreshed, q) = 0
              /\ Hit(Refreshed, p)
              /\ s = now
          BY <1>3, <3>1, <1>t, RefreshedMap DEF QueryPeer
        <4>2. PeerInv(Len(log[q]), log[q], 0, now, now)
          BY <3>1, <1>h, <1>f, <1>s, PeerInvPeriod DEF needs_update
        <4> QED
          BY <4>1, <4>2
      <3>2. CASE ~needs_update
        BY <1>3, <3>2, <1>t, <1>h DEF QueryPeer, Used
      <3> QED
        BY <3>1, <3>2
    <2>2. s \in Nat /\ s <= now /\ now' = now
      BY <1>3, <1>s DEF QueryPeer
    <2>3. CASE ~Permits(m, p) \/ q # p
      <3>1. log'[q] = log[q] /\ Charged(peer_map', q) = Charged(m, q)
        BY <2>1, <2>3, HitEffect, <1>t DEF TypeOK
      <3> QED
        BY <2>1, <2>2, <3>1 DEF Used
    <2>4. CASE Permits(m, p) /\ q = p
      <3>1. /\ log'[q] = Append(log[q], now)
            /\ Charged(peer_map', q) = Charged(m, q) + 1
        BY <2>1, <2>4, HitEffect, <1>t DEF TypeOK
      <3>2. Charged(m, q) \in 0..CallCount /\ Charged(m, q) < CallCount
        BY <2>1, <2>4, ChargedRange
      <3>3. PeerInv(Len(log[q]) + 1, Append(log[q], now), Charged(m, q) + 1, s, now)
        BY <2>1, <2>2, <3>2, <1>f, <1>s, PeerInvCall
      <3>4. Len(log'[q]) = Len(log[q]) + 1
        BY <3>1, <1>f
      <3> QED
        BY <2>2, <3>1, <3>3, <3>4 DEF Used
    <2> QED
      BY <2>3, <2>4
  <1>4. CASE UNCHANGED vars
    BY <1>4, <1>h DEF vars, Used
  <1> QED
    BY <1>1, <1>2, <1>3, <1>4 DEF Next

\* The records charge a peer with exactly its calls of the current period,
\* through any number of disconnections and reconnections.
THEOREM BudgetTheorem == Spec => []BudgetHeld
  <1>1. IInv => BudgetHeld
    BY DEF IInv
  <1> QED
    BY <1>1, IInvInit, IInvStep, PTL DEF Spec

\* Lazily advanced periods let a peer have at most twice its budget in any
\* window shorter than the period.
THEOREM WindowTheorem == Spec => []WindowBound
  <1>1. IInv => WindowBound
    BY DEF IInv
  <1> QED
    BY <1>1, IInvInit, IInvStep, PTL DEF Spec

-----------------------------------------------------------------------------
(* The limiter implements the abstract call budget.                        *)

used == [p \in Peers |-> Used(p)]

LEMMA BudgetInit == Init => Budget!Init
  <1> SUFFICES ASSUME Init PROVE Budget!Init
    OBVIOUS
  <1>1. \A p \in Peers : Used(p) = 0
    BY InitUsed
  <1>2. now = 0 /\ last_update = 0
    BY DEF Init
  <1> QED
    BY <1>1, <1>2 DEF Budget!Init

LEMMA BudgetStep ==
  ASSUME TypeOK, [Next]_vars
  PROVE  [Budget!Next]_(Budget!vars)
  <1>m. IsPeerMap(peer_map)
    BY TypeIsMap
  <1>1. CASE Tick
    <2>1. /\ now' = now + 1
          /\ last_update' = last_update
          /\ used' = used
      BY <1>1 DEF Tick, used, Used
    <2> QED
      BY <2>1 DEF Budget!Next, Budget!Tick, used
  <1>2. ASSUME NEW p \in Peers, PeerConnected(p) \/ PeerDisconnected(p)
        PROVE  UNCHANGED Budget!vars
    <2>1. UNCHANGED <<now, last_update>>
      BY <1>2 DEF PeerConnected, PeerDisconnected
    <2>2. \A q \in Peers : Used(q)' = Used(q)
      BY <1>2, <1>m, ConnectedMap, DisconnectedMap
         DEF PeerConnected, PeerDisconnected, Used
    <2> QED
      BY <2>1, <2>2 DEF Budget!vars
  <1>3. ASSUME NEW p \in Peers, QueryPeer(p)
        PROVE  [Budget!Next]_(Budget!vars)
    <2>1. CASE needs_update
      <3>1. /\ IsPeerMap(Refreshed)
            /\ \A q \in Peers : Charged(Refreshed, q) = 0
            /\ Hit(Refreshed, p)
        BY <1>3, <2>1, <1>m, RefreshedMap DEF QueryPeer
      <3>2. /\ now' = now
            /\ last_update' = now
            /\ now - last_update >= CallFrequency
        BY <1>3, <2>1 DEF QueryPeer, needs_update
      <3>3. CASE Permits(Refreshed, p)
        <4>1. \A q \in Peers : Used(q)' = IF q = p THEN 1 ELSE 0
          BY <3>1, <3>3, HitEffect DEF Used
        <4>2. CallCount > 0
          BY <3>1, <3>3, ChargedRange, LimiterAssumption
        <4>3. used' = [q \in Peers |-> IF q \in {p} /\ CallCount > 0 THEN 1 ELSE 0]
          BY <4>1, <4>2 DEF used
        <4> QED
          BY <3>2, <4>3 DEF Budget!Next, Budget!NewPeriod, used
      <3>4. CASE ~Permits(Refreshed, p)
        <4>1. \A q \in Peers : Used(q)' = 0
          BY <3>1, <3>4, HitEffect DEF Used
        <4>2. used' = [q \in Peers |-> IF q \in {} /\ CallCount > 0 THEN 1 ELSE 0]
          BY <4>1 DEF used
        <4> QED
          BY <3>2, <4>2 DEF Budget!Next, Budget!NewPeriod, used
      <3> QED
        BY <3>3, <3>4
    <2>2. CASE ~needs_update
      <3>1. Hit(peer_map, p) /\ UNCHANGED <<now, last_update>>
        BY <1>3, <2>2 DEF QueryPeer
      <3>2. CASE Permits(peer_map, p)
        <4>1. /\ Used(p)' = Used(p) + 1
              /\ \A q \in Peers \ {p} : Used(q)' = Used(q)
          BY <1>m, <3>1, <3>2, HitEffect DEF Used
        <4>2. Used(p) < CallCount
          BY <1>m, <3>2, ChargedRange DEF Used
        <4>3. used' = [used EXCEPT ![p] = @ + 1] /\ used[p] < CallCount
          BY <4>1, <4>2 DEF used
        <4> QED
          BY <3>1, <4>3 DEF Budget!Next, Budget!Grant, used
      <3>3. CASE ~Permits(peer_map, p)
        <4>1. used' = used
          BY <1>m, <3>1, <3>3, HitEffect DEF used, Used
        <4> QED
          BY <3>1, <4>1 DEF Budget!vars, used
      <3> QED
        BY <3>2, <3>3
    <2> QED
      BY <2>1, <2>2
  <1>4. CASE UNCHANGED vars
    BY <1>4 DEF vars, Budget!vars, Used
  <1> QED
    BY <1>1, <1>2, <1>3, <1>4 DEF Next

\* Every behaviour of the limiter is one of the call budget: what a peer has
\* used is not changed by connecting, disconnecting or being forgotten.
THEOREM BudgetRefinement == Spec => KeepsBudget
  <1>1. TypeOK /\ [Next]_vars => [Budget!Next]_(Budget!vars)
    BY BudgetStep
  <1> QED
    BY <1>1, BudgetInit, TypeInvariant, PTL DEF Spec, KeepsBudget, Budget!Spec
=============================================================================

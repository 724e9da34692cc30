------------------------- MODULE OfferHandlerProofs -------------------------
(***************************************************************************)
(* Theorems about OfferHandler, for any number of calls, any invoices with *)
(* any paths and any timeout.                                              *)
(***************************************************************************)
EXTENDS OfferHandler, TLAPS

IsActive(m) == /\ DOMAIN m \subseteq OfferCalls
               /\ m \in [DOMAIN m -> PaymentInfo]

\* The parts of the type invariant other than active_payments.
CallTypes ==
    /\ pc \in [Calls -> {"idle", "sending", "waiting", "got", "removing",
                         "paying", "routing", "launching", "launched",
                         "tracking", "done"}]
    /\ result \in [Calls -> {"none", "ok", "rejected", "unsent", "panicked",
                             "timeout", "unresolved", "failed", "cancelled",
                             "lost"}]
    /\ invoice \in [Calls -> Invoices \cup {NoInvoice}]
    /\ path \in [Calls -> Nat]

WaitTypes ==
    /\ age \in [Calls -> 0..InvoiceTimeout]
    /\ due \in [Calls -> Nat]

WorldTypes ==
    /\ pending \in Seq(OfferCalls)
    /\ requested \subseteq OfferCalls
    /\ lnd \in [Invoices -> {"none", "inflight", "succeeded", "failed"}]
    /\ launcher \in [Invoices -> PayCalls \cup {"nobody"}]
    /\ restarts \in 0..MaxRestarts

HistoryTypes ==
    /\ abandoned \in [Calls -> {"no", "early", "late"}]
    /\ storedAt \in [Calls -> {Never} \cup 0..InvoiceTimeout]
    /\ faulted \subseteq PayCalls

LEMMA TypeParts ==
  TypeOK <=> CallTypes /\ WaitTypes /\ IsActive(active) /\ WorldTypes /\ HistoryTypes
  <1>1. (\E D \in SUBSET OfferCalls : active \in [D -> PaymentInfo]) <=> IsActive(active)
    BY DEF IsActive
  <1> QED
    BY <1>1 DEF TypeOK, CallTypes, WaitTypes, WorldTypes, HistoryTypes

LEMMA KindsOfCalls ==
  /\ OfferCalls \subseteq Calls
  /\ PayCalls \subseteq Calls
  /\ PayInvoiceCalls \subseteq Calls
  /\ GetInvoiceCalls \subseteq OfferCalls
  /\ GetInvoiceCalls \cap PayCalls = {}
  /\ PayInvoiceCalls \cap OfferCalls = {}
  BY HandlerAssumption DEF Calls, OfferCalls, PayCalls

-----------------------------------------------------------------------------
(* The operations on active_payments.                                      *)

LEMMA InsertedMap ==
  ASSUME IsActive(active), NEW c \in OfferCalls
  PROVE  /\ IsActive(Inserted(c))
         /\ DOMAIN Inserted(c) = DOMAIN active \cup {c}
         /\ Inserted(c)[c] = [state |-> "InvoiceRequestCreated", invoice |-> NoInvoice]
         /\ \A d \in DOMAIN active : d # c => Inserted(c)[d] = active[d]
  BY DEF Inserted, IsActive, PaymentInfo, PaymentState

LEMMA WithoutMap ==
  ASSUME IsActive(active), NEW c
  PROVE  /\ IsActive(Without(c))
         /\ DOMAIN Without(c) = DOMAIN active \ {c}
         /\ \A d \in DOMAIN active : d # c => Without(c)[d] = active[d]
  BY DEF Without, IsActive

LEMMA WithStateMap ==
  ASSUME IsActive(active), NEW c, NEW s \in PaymentState
  PROVE  /\ IsActive(WithState(c, s))
         /\ DOMAIN WithState(c, s) = DOMAIN active
         /\ c \in DOMAIN active => /\ WithState(c, s)[c].state = s
                                   /\ WithState(c, s)[c].invoice = active[c].invoice
         /\ \A d \in DOMAIN active : d # c => WithState(c, s)[d] = active[d]
  <1>1. \A d \in DOMAIN active : active[d] \in PaymentInfo
    BY DEF IsActive
  <1> QED
    BY <1>1 DEF WithState, IsActive, PaymentInfo

LEMMA StoredMap ==
  ASSUME IsActive(active), NEW c \in OfferCalls, NEW i \in Invoices
  PROVE  /\ IsActive(Stored(c, i))
         /\ DOMAIN Stored(c, i) = DOMAIN active
         /\ c \in DOMAIN active =>
               Stored(c, i)[c] = [state |-> "InvoiceReceived", invoice |-> i]
         /\ \A d \in DOMAIN active : d # c => Stored(c, i)[d] = active[d]
  BY DEF Stored, IsActive, PaymentInfo, PaymentState

LEMMA EmptyMap == IsActive([c \in {} |-> NoInvoice])
  BY DEF IsActive

-----------------------------------------------------------------------------
(* The type invariant.                                                     *)

LEMMA TypePartsNext ==
  ASSUME CallTypes', WaitTypes', IsActive(active'), WorldTypes', HistoryTypes'
  PROVE  TypeOK'
  <1>1. \E D \in SUBSET OfferCalls : active' \in [D -> PaymentInfo]
    BY DEF IsActive
  <1> QED
    BY <1>1 DEF TypeOK, CallTypes, WaitTypes, WorldTypes, HistoryTypes

LEMMA TypeInit == Init => TypeOK
  <1> SUFFICES ASSUME Init PROVE TypeOK
    OBVIOUS
  <1>1. IsActive(active)
    BY EmptyMap DEF Init
  <1>2. CallTypes /\ WaitTypes /\ WorldTypes /\ HistoryTypes
    BY HandlerAssumption DEF Init, CallTypes, WaitTypes, WorldTypes, HistoryTypes
  <1> QED
    BY <1>1, <1>2, TypeParts

LEMMA TypeStep == TypeOK /\ [Next]_vars => TypeOK'
  <1> SUFFICES ASSUME TypeOK, [Next]_vars PROVE TypeOK'
    OBVIOUS
  <1>t. CallTypes /\ WaitTypes /\ IsActive(active) /\ WorldTypes /\ HistoryTypes
    BY TypeParts
  <1>1. ASSUME NEW c \in Calls, Reject(c) PROVE TypeOK'
    <2>1. IsActive(active')
      BY <1>1, <1>t DEF Reject
    <2>2. CallTypes' /\ WaitTypes' /\ WorldTypes' /\ HistoryTypes'
      BY <1>1, <1>t, KindsOfCalls, HandlerAssumption
         DEF Reject, Goto, End, TryNext, CallTypes, WaitTypes, WorldTypes,
             HistoryTypes, callVars, waitVars, lndVars, worldVars, history
    <2> QED
      BY <2>1, <2>2, TypePartsNext
  <1>2. ASSUME NEW c \in Calls, Cancel(c) PROVE TypeOK'
    <2>1. IsActive(active')
      BY <1>2, <1>t DEF Cancel
    <2>2. CallTypes' /\ WaitTypes' /\ WorldTypes' /\ HistoryTypes'
      BY <1>2, <1>t, KindsOfCalls, HandlerAssumption
         DEF Cancel, Goto, End, TryNext, CallTypes, WaitTypes, WorldTypes,
             HistoryTypes, callVars, waitVars, lndVars, worldVars, history
    <2> QED
      BY <2>1, <2>2, TypePartsNext
  <1>3. ASSUME NEW c \in OfferCalls, CreateRequest(c) PROVE TypeOK'
    <2>1. IsActive(active')
      BY <1>3, <1>t, InsertedMap DEF CreateRequest
    <2>2. CallTypes' /\ WaitTypes' /\ WorldTypes' /\ HistoryTypes'
      BY <1>3, <1>t, KindsOfCalls, HandlerAssumption
         DEF CreateRequest, Goto, End, TryNext, CallTypes, WaitTypes, WorldTypes,
             HistoryTypes, callVars, waitVars, lndVars, worldVars, history
    <2> QED
      BY <2>1, <2>2, TypePartsNext
  <1>4. ASSUME NEW c \in OfferCalls, RequestFails(c) PROVE TypeOK'
    <2>1. IsActive(active')
      BY <1>4, <1>t, WithoutMap DEF RequestFails
    <2>2. CallTypes' /\ WaitTypes' /\ WorldTypes' /\ HistoryTypes'
      BY <1>4, <1>t, KindsOfCalls, HandlerAssumption
         DEF RequestFails, Goto, End, TryNext, CallTypes, WaitTypes, WorldTypes,
             HistoryTypes, callVars, waitVars, lndVars, worldVars, history
    <2> QED
      BY <2>1, <2>2, TypePartsNext
  <1>5. ASSUME NEW c \in OfferCalls, RequestPanics(c) PROVE TypeOK'
    <2>1. IsActive(active')
      BY <1>5, <1>t DEF RequestPanics
    <2>2. CallTypes' /\ WaitTypes' /\ WorldTypes' /\ HistoryTypes'
      BY <1>5, <1>t, KindsOfCalls, HandlerAssumption
         DEF RequestPanics, Goto, End, TryNext, CallTypes, WaitTypes, WorldTypes,
             HistoryTypes, callVars, waitVars, lndVars, worldVars, history
    <2> QED
      BY <2>1, <2>2, TypePartsNext
  <1>6. ASSUME NEW c \in OfferCalls, PushRequest(c) PROVE TypeOK'
    <2>1. IsActive(active')
      BY <1>6, <1>t DEF PushRequest
    <2>2. CallTypes' /\ WaitTypes' /\ WorldTypes' /\ HistoryTypes'
      BY <1>6, <1>t, KindsOfCalls, HandlerAssumption
         DEF PushRequest, Goto, End, TryNext, CallTypes, WaitTypes, WorldTypes,
             HistoryTypes, callVars, waitVars, lndVars, worldVars, history
    <2> QED
      BY <2>1, <2>2, TypePartsNext
  <1>7. ASSUME NEW c \in OfferCalls, Tick(c) PROVE TypeOK'
    <2>1. IsActive(active')
      BY <1>7, <1>t DEF Tick
    <2>2. CallTypes' /\ WaitTypes' /\ WorldTypes' /\ HistoryTypes'
      BY <1>7, <1>t, KindsOfCalls, HandlerAssumption
         DEF Tick, Goto, End, TryNext, CallTypes, WaitTypes, WorldTypes,
             HistoryTypes, callVars, waitVars, lndVars, worldVars, history
    <2> QED
      BY <2>1, <2>2, TypePartsNext
  <1>8. ASSUME NEW c \in OfferCalls, Poll(c) PROVE TypeOK'
    <2>1. IsActive(active')
      BY <1>8, <1>t DEF Poll
    <2>2. WorldTypes' /\ HistoryTypes' /\ age' = age /\ path' = path
      BY <1>8, <1>t DEF Poll, WorldTypes, HistoryTypes, lndVars, worldVars, history
    <2>3. CASE HasInvoice(c)
      <3>1. active[c].invoice \in Invoices
        BY <1>t, <2>3 DEF HasInvoice, IsActive, PaymentInfo
      <3>2. CallTypes' /\ WaitTypes'
        BY <1>8, <1>t, <2>2, <2>3, <3>1, KindsOfCalls DEF Poll, Goto, CallTypes, WaitTypes
      <3> QED
        BY <2>1, <2>2, <3>2, TypePartsNext
    <2>4. CASE ~HasInvoice(c)
      <3>1. NextLook(c) \in Nat
        BY <1>t, KindsOfCalls, HandlerAssumption DEF NextLook, WaitTypes
      <3>2. CallTypes' /\ WaitTypes'
        BY <1>8, <1>t, <2>2, <2>4, <3>1, KindsOfCalls DEF Poll, CallTypes, WaitTypes
      <3> QED
        BY <2>1, <2>2, <3>2, TypePartsNext
    <2> QED
      BY <2>3, <2>4
  <1>9. ASSUME NEW c \in OfferCalls, TimeoutFires(c) PROVE TypeOK'
    <2>1. IsActive(active')
      BY <1>9, <1>t, WithoutMap DEF TimeoutFires
    <2>2. CallTypes' /\ WaitTypes' /\ WorldTypes' /\ HistoryTypes'
      BY <1>9, <1>t, KindsOfCalls, HandlerAssumption
         DEF TimeoutFires, Goto, End, TryNext, CallTypes, WaitTypes, WorldTypes,
             HistoryTypes, callVars, waitVars, lndVars, worldVars, history
    <2> QED
      BY <2>1, <2>2, TypePartsNext
  <1>10. ASSUME NEW c \in OfferCalls, MarkReceived(c) PROVE TypeOK'
    <2>1. IsActive(active')
      BY <1>10, <1>t, WithStateMap DEF MarkReceived, PaymentState
    <2>2. CallTypes' /\ WaitTypes' /\ WorldTypes' /\ HistoryTypes'
      BY <1>10, <1>t, KindsOfCalls, HandlerAssumption
         DEF MarkReceived, Goto, End, TryNext, CallTypes, WaitTypes, WorldTypes,
             HistoryTypes, callVars, waitVars, lndVars, worldVars, history
    <2> QED
      BY <2>1, <2>2, TypePartsNext
  <1>11. ASSUME NEW c \in OfferCalls, RemoveActivePayment(c) PROVE TypeOK'
    <2>1. IsActive(active')
      BY <1>11, <1>t, WithoutMap DEF RemoveActivePayment
    <2>2. CallTypes' /\ WaitTypes' /\ WorldTypes' /\ HistoryTypes'
      BY <1>11, <1>t, KindsOfCalls, HandlerAssumption
         DEF RemoveActivePayment, Goto, End, TryNext, CallTypes, WaitTypes, WorldTypes,
             HistoryTypes, callVars, waitVars, lndVars, worldVars, history
    <2> QED
      BY <2>1, <2>2, TypePartsNext
  <1>12. ASSUME NEW c \in OfferCalls, HandleInvoiceError(c) PROVE TypeOK'
    <2>1. IsActive(active')
      BY <1>12, <1>t, WithoutMap DEF HandleInvoiceError
    <2>2. CallTypes' /\ WaitTypes' /\ WorldTypes' /\ HistoryTypes'
      BY <1>12, <1>t, KindsOfCalls, HandlerAssumption
         DEF HandleInvoiceError, Goto, End, TryNext, CallTypes, WaitTypes, WorldTypes,
             HistoryTypes, callVars, waitVars, lndVars, worldVars, history
    <2> QED
      BY <2>1, <2>2, TypePartsNext
  <1>13. ASSUME NEW c \in OfferCalls, NEW i \in Invoices, HandleInvoice(c, i) PROVE TypeOK'
    <2>1. IsActive(active')
      BY <1>13, <1>t, StoredMap DEF HandleInvoice
    <2>2. CallTypes' /\ WaitTypes' /\ WorldTypes' /\ HistoryTypes'
      BY <1>13, <1>t, KindsOfCalls, HandlerAssumption
         DEF HandleInvoice, Goto, End, TryNext, CallTypes, WaitTypes, WorldTypes,
             HistoryTypes, callVars, waitVars, lndVars, worldVars, history
    <2> QED
      BY <2>1, <2>2, TypePartsNext
  <1>14. ASSUME NEW c \in PayInvoiceCalls, NEW i \in Invoices, PayInvoice(c, i) PROVE TypeOK'
    <2>1. IsActive(active')
      BY <1>14, <1>t DEF PayInvoice
    <2>2. CallTypes' /\ WaitTypes' /\ WorldTypes' /\ HistoryTypes'
      BY <1>14, <1>t, KindsOfCalls, HandlerAssumption
         DEF PayInvoice, Goto, End, TryNext, CallTypes, WaitTypes, WorldTypes,
             HistoryTypes, callVars, waitVars, lndVars, worldVars, history
    <2> QED
      BY <2>1, <2>2, TypePartsNext
  <1>15. ASSUME NEW c \in PayCalls, TakePath(c) PROVE TypeOK'
    <2>1. IsActive(active')
      BY <1>15, <1>t DEF TakePath
    <2>2. CallTypes' /\ WaitTypes' /\ WorldTypes' /\ HistoryTypes'
      BY <1>15, <1>t, KindsOfCalls, HandlerAssumption
         DEF TakePath, Goto, End, TryNext, CallTypes, WaitTypes, WorldTypes,
             HistoryTypes, callVars, waitVars, lndVars, worldVars, history
    <2> QED
      BY <2>1, <2>2, TypePartsNext
  <1>16. ASSUME NEW c \in PayCalls, ResolveFails(c) PROVE TypeOK'
    <2>1. IsActive(active')
      BY <1>16, <1>t DEF ResolveFails
    <2>2. CallTypes' /\ WaitTypes' /\ WorldTypes' /\ HistoryTypes'
      BY <1>16, <1>t, KindsOfCalls, HandlerAssumption
         DEF ResolveFails, Goto, End, TryNext, CallTypes, WaitTypes, WorldTypes,
             HistoryTypes, callVars, waitVars, lndVars, worldVars, history
    <2> QED
      BY <2>1, <2>2, TypePartsNext
  <1>17. ASSUME NEW c \in PayCalls, OutOfPaths(c) PROVE TypeOK'
    <2>1. IsActive(active')
      BY <1>17, <1>t, WithoutMap DEF OutOfPaths
    <2>2. CallTypes' /\ WaitTypes' /\ WorldTypes' /\ HistoryTypes'
      BY <1>17, <1>t, KindsOfCalls, HandlerAssumption
         DEF OutOfPaths, Goto, End, TryNext, CallTypes, WaitTypes, WorldTypes,
             HistoryTypes, callVars, waitVars, lndVars, worldVars, history
    <2> QED
      BY <2>1, <2>2, TypePartsNext
  <1>18. ASSUME NEW c \in PayCalls, RouteFound(c) PROVE TypeOK'
    <2>1. IsActive(active')
      BY <1>18, <1>t DEF RouteFound
    <2>2. CallTypes' /\ WaitTypes' /\ WorldTypes' /\ HistoryTypes'
      BY <1>18, <1>t, KindsOfCalls, HandlerAssumption
         DEF RouteFound, Goto, End, TryNext, CallTypes, WaitTypes, WorldTypes,
             HistoryTypes, callVars, waitVars, lndVars, worldVars, history
    <2> QED
      BY <2>1, <2>2, TypePartsNext
  <1>19. ASSUME NEW c \in PayCalls, NoRoute(c) PROVE TypeOK'
    <2>1. IsActive(active')
      BY <1>19, <1>t DEF NoRoute
    <2>2. CallTypes' /\ WaitTypes' /\ WorldTypes' /\ HistoryTypes'
      BY <1>19, <1>t, KindsOfCalls, HandlerAssumption
         DEF NoRoute, Goto, End, TryNext, CallTypes, WaitTypes, WorldTypes,
             HistoryTypes, callVars, waitVars, lndVars, worldVars, history
    <2> QED
      BY <2>1, <2>2, TypePartsNext
  <1>20. ASSUME NEW c \in PayCalls, SendToRoute(c) PROVE TypeOK'
    <2>1. IsActive(active')
      BY <1>20, <1>t DEF SendToRoute
    <2>2. CallTypes' /\ WaitTypes' /\ WorldTypes' /\ HistoryTypes'
      BY <1>20, <1>t, KindsOfCalls, HandlerAssumption
         DEF SendToRoute, Goto, End, TryNext, CallTypes, WaitTypes, WorldTypes,
             HistoryTypes, callVars, waitVars, lndVars, worldVars, history
    <2> QED
      BY <2>1, <2>2, TypePartsNext
  <1>21. ASSUME NEW c \in PayCalls, SendRefused(c) PROVE TypeOK'
    <2>1. IsActive(active')
      BY <1>21, <1>t DEF SendRefused
    <2>2. CallTypes' /\ WaitTypes' /\ WorldTypes' /\ HistoryTypes'
      BY <1>21, <1>t, KindsOfCalls, HandlerAssumption
         DEF SendRefused, Goto, End, TryNext, CallTypes, WaitTypes, WorldTypes,
             HistoryTypes, callVars, waitVars, lndVars, worldVars, history
    <2> QED
      BY <2>1, <2>2, TypePartsNext
  <1>22. ASSUME NEW c \in PayCalls, SendReturns(c) PROVE TypeOK'
    <2>1. IsActive(active')
      BY <1>22, <1>t, WithStateMap DEF SendReturns, PaymentState
    <2>2. CallTypes' /\ WaitTypes' /\ WorldTypes' /\ HistoryTypes'
      BY <1>22, <1>t, KindsOfCalls, HandlerAssumption
         DEF SendReturns, Goto, End, TryNext, CallTypes, WaitTypes, WorldTypes,
             HistoryTypes, callVars, waitVars, lndVars, worldVars, history
    <2> QED
      BY <2>1, <2>2, TypePartsNext
  <1>23. ASSUME NEW c \in PayCalls, TrackSucceeds(c) PROVE TypeOK'
    <2>1. IsActive(active')
      BY <1>23, <1>t, WithoutMap DEF TrackSucceeds
    <2>2. CallTypes' /\ WaitTypes' /\ WorldTypes' /\ HistoryTypes'
      BY <1>23, <1>t, KindsOfCalls, HandlerAssumption
         DEF TrackSucceeds, Goto, End, TryNext, CallTypes, WaitTypes, WorldTypes,
             HistoryTypes, callVars, waitVars, lndVars, worldVars, history
    <2> QED
      BY <2>1, <2>2, TypePartsNext
  <1>24. ASSUME NEW c \in PayCalls, TrackFails(c) PROVE TypeOK'
    <2>1. IsActive(active')
      BY <1>24, <1>t DEF TrackFails
    <2>2. CallTypes' /\ WaitTypes' /\ WorldTypes' /\ HistoryTypes'
      BY <1>24, <1>t, KindsOfCalls, HandlerAssumption
         DEF TrackFails, Goto, End, TryNext, CallTypes, WaitTypes, WorldTypes,
             HistoryTypes, callVars, waitVars, lndVars, worldVars, history
    <2> QED
      BY <2>1, <2>2, TypePartsNext
  <1>25. ASSUME NEW c \in PayCalls, ConnectionLost(c) PROVE TypeOK'
    <2>1. IsActive(active')
      BY <1>25, <1>t DEF ConnectionLost
    <2>2. CallTypes' /\ WaitTypes' /\ WorldTypes' /\ HistoryTypes'
      BY <1>25, <1>t, KindsOfCalls, HandlerAssumption
         DEF ConnectionLost, Goto, End, TryNext, CallTypes, WaitTypes, WorldTypes,
             HistoryTypes, callVars, waitVars, lndVars, worldVars, history
    <2> QED
      BY <2>1, <2>2, TypePartsNext
  <1>26. CASE ReleasePendingMessages
    <2>1. IsActive(active')
      BY <1>26, <1>t DEF ReleasePendingMessages
    <2>2. CallTypes' /\ WaitTypes' /\ WorldTypes' /\ HistoryTypes'
      BY <1>26, <1>t, KindsOfCalls, HandlerAssumption
         DEF ReleasePendingMessages, Goto, End, TryNext, CallTypes, WaitTypes, WorldTypes,
             HistoryTypes, callVars, waitVars, lndVars, worldVars, history
    <2> QED
      BY <2>1, <2>2, TypePartsNext
  <1>27. ASSUME NEW i \in Invoices, NEW o \in {"succeeded", "failed"}, LndFinishes(i, o) PROVE TypeOK'
    <2>1. IsActive(active')
      BY <1>27, <1>t DEF LndFinishes
    <2>2. CallTypes' /\ WaitTypes' /\ WorldTypes' /\ HistoryTypes'
      BY <1>27, <1>t, KindsOfCalls, HandlerAssumption
         DEF LndFinishes, Goto, End, TryNext, CallTypes, WaitTypes, WorldTypes,
             HistoryTypes, callVars, waitVars, lndVars, worldVars, history
    <2> QED
      BY <2>1, <2>2, TypePartsNext
  <1>28. CASE Restart
    <2>1. IsActive(active')
      BY <1>28, <1>t, EmptyMap DEF Restart
    <2>2. CallTypes' /\ WaitTypes' /\ WorldTypes' /\ HistoryTypes'
      BY <1>28, <1>t, KindsOfCalls, HandlerAssumption
         DEF Restart, Goto, End, TryNext, CallTypes, WaitTypes, WorldTypes,
             HistoryTypes, callVars, waitVars, lndVars, worldVars, history
    <2> QED
      BY <2>1, <2>2, TypePartsNext
  <1>29. ASSUME NEW c \in PayCalls, RoutesMissing(c) PROVE TypeOK'
    <2>1. IsActive(active')
      BY <1>29, <1>t DEF RoutesMissing
    <2>2. CallTypes' /\ WaitTypes' /\ WorldTypes' /\ HistoryTypes'
      BY <1>29, <1>t, KindsOfCalls, HandlerAssumption
         DEF RoutesMissing, Goto, End, TryNext, CallTypes, WaitTypes, WorldTypes,
             HistoryTypes, callVars, waitVars, lndVars, worldVars, history
    <2> QED
      BY <2>1, <2>2, TypePartsNext
  <1>30. CASE UNCHANGED vars
    <2>1. UNCHANGED <<callVars, waitVars, active, pending, lndVars, worldVars, history>>
      BY <1>30 DEF vars
    <2> QED
      BY <2>1 DEF TypeOK, callVars, waitVars, lndVars, worldVars, history
  <1> QED
    BY <1>1, <1>2, <1>3, <1>4, <1>5, <1>6, <1>7, <1>8, <1>9, <1>10, <1>11, <1>12, <1>13, <1>14, <1>15, <1>16, <1>17, <1>18, <1>19, <1>20, <1>21, <1>22, <1>23, <1>24, <1>25, <1>26, <1>27, <1>28, <1>29, <1>30, KindsOfCalls
       DEF Next, GetInvoiceStep, PayInvoiceStep

\* The shared maps and queues of the handler stay well formed under every
\* interleaving of calls, messages, cancellations and restarts.
THEOREM TypeInvariant == Spec => []TypeOK
  BY TypeInit, TypeStep, PTL DEF Spec

-----------------------------------------------------------------------------
(***************************************************************************)
(* The safety invariants.  They are not inductive by themselves: that an   *)
(* entry agrees with its call rests on calls that have not begun owning    *)
(* nothing (IdleClean) and calls that pay holding an invoice               *)
(* (HoldsInvoice); that an abandoned payment stays so rests on its entry   *)
(* being gone for good (AbandonedGone); and that a failure is final rests  *)
(* on whoever launched an HTLC still waiting for it (LaunchedWatched).     *)
(***************************************************************************)

IdleClean ==
    \A c \in Calls : pc[c] = "idle" =>
        /\ invoice[c] = NoInvoice
        /\ c \notin DOMAIN active
        /\ c \notin requested
        /\ \A k \in 1..Len(pending) : pending[k] # c

HoldsInvoice ==
    \A c \in Calls :
        /\ pc[c] \in {"got", "removing", "paying", "routing", "launching",
                      "launched", "tracking"} => invoice[c] # NoInvoice
        /\ pc[c] = "removing" => c \in GetInvoiceCalls
        /\ pc[c] # "done" => result[c] = "none"
        /\ result[c] \in {"ok", "failed"} => invoice[c] # NoInvoice

AbandonedGone ==
    \A c \in Calls : abandoned[c] # "no" => c \in requested /\ c \notin DOMAIN active

LaunchedWatched ==
    \A i \in Invoices, c \in PayCalls :
        lnd[i] = "inflight" /\ launcher[i] = c =>
            \/ c \in faulted
            \/ pc[c] = "launched" /\ invoice[c] = i
            \/ pc[c] = "done" /\ result[c] \in {"cancelled", "lost"}

IInv ==
    /\ TypeOK
    /\ IdleClean
    /\ HoldsInvoice
    /\ AbandonedGone
    /\ LaunchedWatched
    /\ EntryTracksCall
    /\ EndedIsForgotten
    /\ AbandonedEarlyNeverPays

\* The invariant holds before the first call.
LEMMA IInvInit == Init => IInv
  <1> SUFFICES ASSUME Init PROVE IInv
    OBVIOUS
  <1>1. TypeOK
    BY TypeInit
  <1>2. /\ IdleClean /\ HoldsInvoice /\ AbandonedGone /\ LaunchedWatched
        /\ EntryTracksCall /\ EndedIsForgotten /\ AbandonedEarlyNeverPays
    BY KindsOfCalls
       DEF Init, IdleClean, HoldsInvoice, AbandonedGone, LaunchedWatched,
           EntryTracksCall, EndedIsForgotten, AbandonedEarlyNeverPays, Ended
  <1> QED
    BY <1>1, <1>2 DEF IInv

\* A call that is under way moves from one label to another and changes nothing
\* else that the invariant speaks of.
LEMMA MoveKeeps ==
  ASSUME IInv, TypeOK', NEW c \in Calls, NEW l,
         pc[c] \notin {"idle", "done", "launched"},
         l \notin {"idle", "removing", "tracking", "done"},
         invoice[c] # NoInvoice \/ l \in {"sending", "waiting"},
         pc' = [pc EXCEPT ![c] = l],
         UNCHANGED <<result, invoice, active, requested, lnd, launcher, abandoned, faulted>>,
         pending' = pending \/ pending' = Append(pending, c)
  PROVE  IInv'
  <1>t. CallTypes /\ WorldTypes /\ IsActive(active)
    BY TypeParts DEF IInv
  <1>1. IdleClean'
    <2> SUFFICES ASSUME NEW d \in Calls, pc'[d] = "idle"
                 PROVE  /\ invoice[d] = NoInvoice
                        /\ d \notin DOMAIN active
                        /\ d \notin requested
                        /\ \A k \in 1..Len(pending') : pending'[k] # d
      BY DEF IdleClean
    <2>1. d # c /\ pc[d] = "idle"
      BY <1>t DEF CallTypes
    <2>2. \A k \in 1..Len(pending') : pending'[k] # d
      BY <2>1, <1>t DEF IInv, IdleClean, WorldTypes
    <2> QED
      BY <2>1, <2>2 DEF IInv, IdleClean
  <1>2. HoldsInvoice'
    BY <1>t DEF IInv, HoldsInvoice, CallTypes
  <1>3. AbandonedGone' /\ AbandonedEarlyNeverPays'
    BY DEF IInv, AbandonedGone, AbandonedEarlyNeverPays
  <1>4. LaunchedWatched'
    BY <1>t, KindsOfCalls DEF IInv, LaunchedWatched, CallTypes
  <1>5. EntryTracksCall' /\ EndedIsForgotten'
    BY <1>t, KindsOfCalls DEF IInv, EntryTracksCall, EndedIsForgotten, Ended, CallTypes, IsActive
  <1> QED
    BY <1>1, <1>2, <1>3, <1>4, <1>5 DEF IInv

\* A call ends with r.  It takes its entry along, or r is one of the results
\* that leave it behind.
LEMMA EndKeeps ==
  ASSUME IInv, TypeOK', NEW c \in Calls, NEW r,
         pc[c] # "done",
         End(c, r),
         \/ active' = Without(c)
         \/ active' = active /\ (pc[c] = "idle" \/ r \in {"unresolved", "panicked", "cancelled"}),
         pc[c] = "launched" => r = "cancelled",
         r \in {"ok", "failed"} => invoice[c] # NoInvoice,
         UNCHANGED <<invoice, pending, requested, lnd, launcher, abandoned, faulted>>
  PROVE  IInv'
  <1>t. CallTypes /\ IsActive(active)
    BY TypeParts DEF IInv
  <1>e. /\ \A d \in Calls : pc'[d] = IF d = c THEN "done" ELSE pc[d]
        /\ \A d \in Calls : result'[d] = IF d = c THEN r ELSE result[d]
    BY <1>t DEF End, CallTypes
  <1>a. /\ DOMAIN active' \subseteq DOMAIN active
        /\ \A d \in DOMAIN active' : active'[d] = active[d]
        /\ c \in DOMAIN active' => r \in {"unresolved", "panicked", "cancelled"}
    <2>1. CASE active' = Without(c)
      <3>1. /\ DOMAIN Without(c) = DOMAIN active \ {c}
            /\ \A d \in DOMAIN active : d # c => Without(c)[d] = active[d]
        BY <1>t, WithoutMap
      <3> QED
        BY <2>1, <3>1
    <2>2. CASE active' = active /\ pc[c] = "idle"
      BY <2>2 DEF IInv, IdleClean
    <2>3. CASE active' = active /\ r \in {"unresolved", "panicked", "cancelled"}
      BY <2>3
    <2> QED
      BY <2>1, <2>2, <2>3
  <1>1. IdleClean' /\ AbandonedGone'
    BY <1>e, <1>a DEF IInv, IdleClean, AbandonedGone
  <1>5. HoldsInvoice'
    BY <1>e DEF IInv, HoldsInvoice
  <1>2. LaunchedWatched'
    BY <1>e, KindsOfCalls DEF IInv, LaunchedWatched
  <1>3. EntryTracksCall' /\ EndedIsForgotten'
    BY <1>t, <1>e, <1>a, KindsOfCalls
       DEF IInv, EntryTracksCall, EndedIsForgotten, Ended, IsActive
  <1>4. AbandonedEarlyNeverPays'
    BY <1>e, KindsOfCalls DEF IInv, AbandonedEarlyNeverPays
  <1> QED
    BY <1>1, <1>2, <1>3, <1>4, <1>5 DEF IInv

\* Time and positions may change: the invariant does not speak of them.
LEMMA IdleStepKeeps ==
  ASSUME IInv, TypeOK',
         UNCHANGED <<pc, result, invoice, active, pending, requested, lnd, launcher,
                     abandoned, faulted>>
  PROVE  IInv'
  BY DEF IInv, IdleClean, HoldsInvoice, AbandonedGone, LaunchedWatched, EntryTracksCall,
         EndedIsForgotten, AbandonedEarlyNeverPays, Ended

\* The steps of get_invoice that store or read something.
LEMMA CreateRequestKeeps ==
  ASSUME IInv, TypeOK', NEW c \in OfferCalls, CreateRequest(c)
  PROVE  IInv'
  <1>t. CallTypes /\ WorldTypes /\ IsActive(active) /\ c \in Calls
    BY TypeParts, KindsOfCalls DEF IInv
  <1>u. UNCHANGED <<result, invoice, pending, requested, lnd, launcher, abandoned, faulted>>
    BY DEF CreateRequest, Goto, lndVars, worldVars, history
  <1>e. pc[c] = "idle" /\ \A d \in Calls : pc'[d] = IF d = c THEN "sending" ELSE pc[d]
    BY <1>t DEF CreateRequest, Goto, CallTypes
  <1>a. /\ DOMAIN active' = DOMAIN active \cup {c}
        /\ active'[c].state = "InvoiceRequestCreated" /\ active'[c].invoice = NoInvoice
        /\ \A d \in DOMAIN active : d # c => active'[d] = active[d]
    BY <1>t, InsertedMap DEF CreateRequest
  <1>1. IdleClean' /\ HoldsInvoice' /\ AbandonedEarlyNeverPays'
    BY <1>u, <1>e, <1>a, KindsOfCalls
       DEF IInv, IdleClean, HoldsInvoice, AbandonedEarlyNeverPays
  <1>2. AbandonedGone'
    BY <1>u, <1>e, <1>a DEF IInv, IdleClean, AbandonedGone
  <1>3. LaunchedWatched'
    BY <1>u, <1>e, KindsOfCalls DEF IInv, LaunchedWatched
  <1>4. EntryTracksCall'
    BY <1>t, <1>u, <1>e, <1>a, KindsOfCalls DEF IInv, IdleClean, EntryTracksCall, IsActive
  <1>5. EndedIsForgotten'
    BY <1>t, <1>u, <1>e, <1>a, KindsOfCalls DEF IInv, EndedIsForgotten, Ended, IsActive
  <1> QED
    BY <1>1, <1>2, <1>3, <1>4, <1>5 DEF IInv

LEMMA PollKeeps ==
  ASSUME IInv, TypeOK', NEW c \in OfferCalls, Poll(c)
  PROVE  IInv'
  <1>t. CallTypes /\ WorldTypes /\ IsActive(active) /\ c \in Calls
    BY TypeParts, KindsOfCalls DEF IInv
  <1>u. UNCHANGED <<result, active, pending, requested, lnd, launcher, abandoned, faulted>>
    BY DEF Poll, Goto, lndVars, worldVars, history
  <1>1. CASE ~HasInvoice(c)
    <2>1. UNCHANGED <<pc, invoice>>
      BY <1>1 DEF Poll
    <2> QED
      BY <2>1, <1>u, IdleStepKeeps
  <1>2. CASE HasInvoice(c)
    <2>e. /\ pc[c] = "waiting" /\ c \in DOMAIN active /\ active[c].invoice # NoInvoice
          /\ \A d \in Calls : pc'[d] = IF d = c THEN "got" ELSE pc[d]
          /\ \A d \in Calls : invoice'[d] = IF d = c THEN active[c].invoice ELSE invoice[d]
      BY <1>t, <1>2 DEF Poll, Goto, HasInvoice, CallTypes
    <2>1. IdleClean' /\ HoldsInvoice' /\ AbandonedGone'
      BY <1>u, <2>e DEF IInv, IdleClean, HoldsInvoice, AbandonedGone
    <2>2. AbandonedEarlyNeverPays'
      BY <1>t, <1>u, <2>e, KindsOfCalls
         DEF IInv, HoldsInvoice, AbandonedGone, AbandonedEarlyNeverPays
    <2>3. LaunchedWatched'
      BY <1>u, <2>e, KindsOfCalls DEF IInv, LaunchedWatched
    <2>4. EntryTracksCall' /\ EndedIsForgotten'
      BY <1>t, <1>u, <2>e, KindsOfCalls
         DEF IInv, EntryTracksCall, EndedIsForgotten, Ended, IsActive
    <2> QED
      BY <2>1, <2>2, <2>3, <2>4 DEF IInv
  <1> QED
    BY <1>1, <1>2

LEMMA MarkReceivedKeeps ==
  ASSUME IInv, TypeOK', NEW c \in OfferCalls, MarkReceived(c)
  PROVE  IInv'
  <1>t. CallTypes /\ WorldTypes /\ IsActive(active) /\ c \in Calls
    BY TypeParts, KindsOfCalls DEF IInv
  <1>u. UNCHANGED <<result, invoice, pending, requested, lnd, launcher, abandoned, faulted>>
    BY DEF MarkReceived, Goto, lndVars, worldVars, history
  <1>e. /\ pc[c] = "got"
        /\ pc'[c] \in {"removing", "paying"} /\ (pc'[c] = "removing" => c \in GetInvoiceCalls)
        /\ \A d \in Calls : d # c => pc'[d] = pc[d]
    BY <1>t DEF MarkReceived, Goto, CallTypes
  <1>a. /\ DOMAIN active' = DOMAIN active
        /\ c \in DOMAIN active => /\ active'[c].state = "InvoiceReceived"
                                  /\ active'[c].invoice = active[c].invoice
        /\ \A d \in DOMAIN active : d # c => active'[d] = active[d]
    BY <1>t, WithStateMap DEF MarkReceived, PaymentState
  <1>1. IdleClean' /\ AbandonedGone' /\ AbandonedEarlyNeverPays'
    BY <1>u, <1>e, <1>a
       DEF IInv, IdleClean, AbandonedGone, AbandonedEarlyNeverPays
  <1>2. HoldsInvoice'
    BY <1>u, <1>e DEF IInv, HoldsInvoice
  <1>3. LaunchedWatched'
    BY <1>u, <1>e, KindsOfCalls DEF IInv, LaunchedWatched
  <1>4. EntryTracksCall'
    BY <1>t, <1>u, <1>e, <1>a, KindsOfCalls DEF IInv, HoldsInvoice, EntryTracksCall, IsActive
  <1>5. EndedIsForgotten'
    BY <1>t, <1>u, <1>e, <1>a, KindsOfCalls DEF IInv, EndedIsForgotten, Ended, IsActive
  <1> QED
    BY <1>1, <1>2, <1>3, <1>4, <1>5 DEF IInv

\* The steps of pay_invoice that take an invoice, launch an HTLC or let go of one.
LEMMA PayInvoiceKeeps ==
  ASSUME IInv, TypeOK', NEW c \in PayInvoiceCalls, NEW i \in Invoices, PayInvoice(c, i)
  PROVE  IInv'
  <1>t. CallTypes /\ IsActive(active) /\ c \in Calls /\ c \notin OfferCalls
    BY TypeParts, KindsOfCalls DEF IInv
  <1>u. UNCHANGED <<result, active, pending, requested, lnd, launcher, abandoned, faulted>>
    BY DEF PayInvoice, Goto, lndVars, worldVars, history
  <1>e. /\ pc[c] = "idle" /\ i # NoInvoice
        /\ \A d \in Calls : pc'[d] = IF d = c THEN "paying" ELSE pc[d]
        /\ \A d \in Calls : invoice'[d] = IF d = c THEN i ELSE invoice[d]
    BY <1>t, HandlerAssumption DEF PayInvoice, Goto, CallTypes
  <1>1. IdleClean' /\ HoldsInvoice' /\ AbandonedGone'
    BY <1>u, <1>e DEF IInv, IdleClean, HoldsInvoice, AbandonedGone
  <1>2. AbandonedEarlyNeverPays'
    BY <1>t, <1>u, <1>e, KindsOfCalls
       DEF IInv, HoldsInvoice, AbandonedEarlyNeverPays
  <1>3. LaunchedWatched'
    BY <1>u, <1>e, KindsOfCalls DEF IInv, LaunchedWatched
  <1>4. EntryTracksCall' /\ EndedIsForgotten'
    BY <1>t, <1>u, <1>e, KindsOfCalls
       DEF IInv, EntryTracksCall, EndedIsForgotten, Ended, IsActive
  <1> QED
    BY <1>1, <1>2, <1>3, <1>4 DEF IInv

LEMMA SendToRouteKeeps ==
  ASSUME IInv, TypeOK', NEW c \in PayCalls, SendToRoute(c)
  PROVE  IInv'
  <1>t. CallTypes /\ WorldTypes /\ IsActive(active) /\ c \in Calls
    BY TypeParts, KindsOfCalls DEF IInv
  <1>u. UNCHANGED <<result, invoice, active, pending, requested, abandoned, faulted>>
    BY DEF SendToRoute, Goto, worldVars, history
  <1>i. pc[c] = "launching" /\ invoice[c] \in Invoices
    BY <1>t DEF SendToRoute, IInv, HoldsInvoice, CallTypes
  <1>e. /\ lnd[invoice[c]] \in {"none", "failed"}
        /\ \A d \in Calls : pc'[d] = IF d = c THEN "launched" ELSE pc[d]
        /\ \A i \in Invoices : lnd'[i] = IF i = invoice[c] THEN "inflight" ELSE lnd[i]
        /\ \A i \in Invoices : launcher'[i] = IF i = invoice[c] THEN c ELSE launcher[i]
    BY <1>t, <1>i DEF SendToRoute, Goto, CallTypes, WorldTypes
  <1>1. IdleClean' /\ HoldsInvoice' /\ AbandonedGone' /\ AbandonedEarlyNeverPays'
    BY <1>u, <1>i, <1>e
       DEF IInv, IdleClean, HoldsInvoice, AbandonedGone, AbandonedEarlyNeverPays
  <1>3. LaunchedWatched'
    BY <1>u, <1>i, <1>e, KindsOfCalls DEF IInv, LaunchedWatched
  <1>4. EntryTracksCall' /\ EndedIsForgotten'
    BY <1>t, <1>u, <1>i, <1>e, KindsOfCalls
       DEF IInv, EntryTracksCall, EndedIsForgotten, Ended, IsActive
  <1> QED
    BY <1>1, <1>3, <1>4 DEF IInv

LEMMA SendReturnsKeeps ==
  ASSUME IInv, TypeOK', NEW c \in PayCalls, SendReturns(c)
  PROVE  IInv'
  <1>t. CallTypes /\ WorldTypes /\ IsActive(active) /\ c \in Calls
    BY TypeParts, KindsOfCalls DEF IInv
  <1>u. UNCHANGED <<result, invoice, pending, requested, lnd, launcher, abandoned, faulted>>
    BY DEF SendReturns, Goto, lndVars, worldVars, history
  <1>e. /\ pc[c] = "launched" /\ AttemptOver(c)
        /\ \A d \in Calls : pc'[d] = IF d = c THEN "tracking" ELSE pc[d]
    BY <1>t DEF SendReturns, Goto, CallTypes
  <1>a. /\ DOMAIN active' = DOMAIN active
        /\ c \in DOMAIN active => /\ active'[c].state = "PaymentDispatched"
                                  /\ active'[c].invoice = active[c].invoice
        /\ \A d \in DOMAIN active : d # c => active'[d] = active[d]
    BY <1>t, WithStateMap DEF SendReturns, PaymentState
  <1>1. IdleClean' /\ AbandonedGone' /\ AbandonedEarlyNeverPays'
    BY <1>u, <1>e, <1>a
       DEF IInv, IdleClean, AbandonedGone, AbandonedEarlyNeverPays
  <1>2. HoldsInvoice'
    BY <1>u, <1>e DEF IInv, HoldsInvoice
  <1>3. LaunchedWatched'
    BY <1>u, <1>e, KindsOfCalls DEF IInv, LaunchedWatched, AttemptOver
  <1>4. EntryTracksCall'
    BY <1>t, <1>u, <1>e, <1>a, KindsOfCalls DEF IInv, HoldsInvoice, EntryTracksCall, IsActive
  <1>5. EndedIsForgotten'
    BY <1>t, <1>u, <1>e, <1>a, KindsOfCalls DEF IInv, EndedIsForgotten, Ended, IsActive
  <1> QED
    BY <1>1, <1>2, <1>3, <1>4, <1>5 DEF IInv

LEMMA ConnectionLostKeeps ==
  ASSUME IInv, TypeOK', NEW c \in PayCalls, ConnectionLost(c)
  PROVE  IInv'
  <1>t. CallTypes /\ IsActive(active) /\ c \in Calls
    BY TypeParts, KindsOfCalls DEF IInv
  <1>u. /\ UNCHANGED <<result, invoice, active, pending, requested, lnd, launcher, abandoned>>
        /\ faulted' = faulted \cup {c}
    BY DEF ConnectionLost, TryNext, Goto, lndVars, worldVars
  <1>e. /\ pc[c] \in {"launched", "tracking"}
        /\ \A d \in Calls : pc'[d] = IF d = c THEN "paying" ELSE pc[d]
    BY <1>t DEF ConnectionLost, TryNext, Goto, CallTypes
  <1>1. IdleClean' /\ AbandonedGone' /\ AbandonedEarlyNeverPays'
    BY <1>u, <1>e DEF IInv, IdleClean, AbandonedGone, AbandonedEarlyNeverPays
  <1>2. HoldsInvoice'
    BY <1>u, <1>e DEF IInv, HoldsInvoice
  <1>3. LaunchedWatched'
    BY <1>u, <1>e, KindsOfCalls DEF IInv, LaunchedWatched
  <1>4. EntryTracksCall' /\ EndedIsForgotten'
    BY <1>t, <1>u, <1>e, KindsOfCalls
       DEF IInv, EntryTracksCall, EndedIsForgotten, Ended, IsActive
  <1> QED
    BY <1>1, <1>2, <1>3, <1>4 DEF IInv

\* The messenger's steps, LND's and the restart.
LEMMA ReleaseKeeps ==
  ASSUME IInv, TypeOK', ReleasePendingMessages
  PROVE  IInv'
  <1>t. WorldTypes
    BY TypeParts DEF IInv
  <1>u. /\ UNCHANGED <<pc, result, invoice, active, lnd, launcher, abandoned, faulted>>
        /\ requested' = requested \cup {pending[k] : k \in 1..Len(pending)}
        /\ pending' = <<>>
    BY DEF ReleasePendingMessages, callVars, lndVars, history
  <1>1. IdleClean' /\ AbandonedGone'
    BY <1>t, <1>u DEF IInv, IdleClean, AbandonedGone, WorldTypes
  <1>2. HoldsInvoice' /\ LaunchedWatched' /\ EntryTracksCall' /\ EndedIsForgotten'
        /\ AbandonedEarlyNeverPays'
    BY <1>u DEF IInv, HoldsInvoice, LaunchedWatched, EntryTracksCall, EndedIsForgotten,
                AbandonedEarlyNeverPays, Ended
  <1> QED
    BY <1>1, <1>2 DEF IInv

LEMMA HandleInvoiceKeeps ==
  ASSUME IInv, TypeOK', NEW c \in OfferCalls, NEW i \in Invoices, HandleInvoice(c, i)
  PROVE  IInv'
  <1>t. CallTypes /\ WorldTypes /\ IsActive(active) /\ c \in Calls /\ i # NoInvoice
    BY TypeParts, KindsOfCalls, HandlerAssumption DEF IInv
  <1>u. /\ UNCHANGED <<pc, result, invoice, pending, requested, lnd, launcher, abandoned,
                       faulted>>
        /\ c \in DOMAIN active /\ active[c].invoice = NoInvoice
    BY DEF HandleInvoice, Stores, callVars, lndVars, worldVars
  <1>a. /\ DOMAIN active' = DOMAIN active
        /\ active'[c].state = "InvoiceReceived" /\ active'[c].invoice = i
        /\ \A d \in DOMAIN active : d # c => active'[d] = active[d]
    <2>1. /\ DOMAIN Stored(c, i) = DOMAIN active
          /\ Stored(c, i)[c] = [state |-> "InvoiceReceived", invoice |-> i]
          /\ \A d \in DOMAIN active : d # c => Stored(c, i)[d] = active[d]
      BY <1>t, <1>u, StoredMap
    <2> QED
      BY <2>1 DEF HandleInvoice
  <1>1. IdleClean' /\ AbandonedGone' /\ EndedIsForgotten'
    BY <1>u, <1>a DEF IInv, IdleClean, AbandonedGone, EndedIsForgotten, Ended
  <1>2. HoldsInvoice' /\ LaunchedWatched' /\ AbandonedEarlyNeverPays'
    BY <1>u DEF IInv, HoldsInvoice, LaunchedWatched, AbandonedEarlyNeverPays
  <1>3. EntryTracksCall'
    BY <1>t, <1>u, <1>a DEF IInv, HoldsInvoice, EntryTracksCall
  <1> QED
    BY <1>1, <1>2, <1>3 DEF IInv

LEMMA HandleInvoiceErrorKeeps ==
  ASSUME IInv, TypeOK', NEW c \in OfferCalls, HandleInvoiceError(c)
  PROVE  IInv'
  <1>t. CallTypes /\ HistoryTypes /\ IsActive(active) /\ c \in Calls
    BY TypeParts, KindsOfCalls DEF IInv
  <1>u. /\ UNCHANGED <<pc, result, invoice, pending, requested, lnd, launcher, faulted>>
        /\ c \in requested
    BY DEF HandleInvoiceError, callVars, lndVars, worldVars
  <1>e. /\ abandoned'[c] = "early" => abandoned[c] = "early" \/ invoice[c] = NoInvoice
        /\ \A d \in Calls : d # c => abandoned'[d] = abandoned[d]
    BY <1>t DEF HandleInvoiceError, HistoryTypes
  <1>a. /\ DOMAIN active' = DOMAIN active \ {c}
        /\ \A d \in DOMAIN active : d # c => active'[d] = active[d]
    BY <1>t, WithoutMap DEF HandleInvoiceError
  <1>1. IdleClean' /\ AbandonedGone' /\ EndedIsForgotten'
    BY <1>u, <1>e, <1>a DEF IInv, IdleClean, AbandonedGone, EndedIsForgotten, Ended
  <1>2. HoldsInvoice' /\ LaunchedWatched'
    BY <1>u DEF IInv, HoldsInvoice, LaunchedWatched
  <1>3. AbandonedEarlyNeverPays'
    BY <1>u, <1>e, KindsOfCalls DEF IInv, AbandonedEarlyNeverPays
  <1>4. EntryTracksCall'
    BY <1>u, <1>a DEF IInv, EntryTracksCall
  <1> QED
    BY <1>1, <1>2, <1>3, <1>4 DEF IInv

LEMMA LndFinishesKeeps ==
  ASSUME IInv, TypeOK', NEW i \in Invoices, NEW o \in {"succeeded", "failed"},
         LndFinishes(i, o)
  PROVE  IInv'
  <1>t. CallTypes /\ WorldTypes
    BY TypeParts DEF IInv
  <1>u. UNCHANGED <<pc, result, invoice, active, pending, requested, launcher, abandoned,
                    faulted>>
    BY DEF LndFinishes, callVars, worldVars, history
  <1>e. /\ lnd[i] = "inflight"
        /\ \A j \in Invoices : lnd'[j] = IF j = i THEN o ELSE lnd[j]
    BY <1>t DEF LndFinishes, WorldTypes
  <1>1. IdleClean' /\ HoldsInvoice' /\ AbandonedGone' /\ EntryTracksCall'
        /\ EndedIsForgotten' /\ AbandonedEarlyNeverPays'
    BY <1>u DEF IInv, IdleClean, HoldsInvoice, AbandonedGone, EntryTracksCall,
                EndedIsForgotten, AbandonedEarlyNeverPays, Ended
  <1>2. LaunchedWatched'
    BY <1>u, <1>e DEF IInv, LaunchedWatched
  <1> QED
    BY <1>1, <1>2 DEF IInv

LEMMA RestartKeeps ==
  ASSUME IInv, TypeOK', Restart
  PROVE  IInv'
  <1>u. /\ UNCHANGED <<invoice, requested, lnd, launcher, abandoned, faulted>>
        /\ \A c \in Calls : pc'[c] = IF pc[c] = "idle" THEN "idle" ELSE "done"
        /\ \A c \in Calls : result'[c] =
              IF pc[c] \in {"idle", "done"} THEN result[c] ELSE "lost"
        /\ DOMAIN active' = {}
        /\ pending' = <<>>
    BY DEF Restart, lndVars, history
  <1>1. IdleClean' /\ HoldsInvoice' /\ AbandonedGone'
    BY <1>u DEF IInv, IdleClean, HoldsInvoice, AbandonedGone
  <1>2. LaunchedWatched'
    BY <1>u, KindsOfCalls DEF IInv, HoldsInvoice, LaunchedWatched
  <1>3. EntryTracksCall' /\ EndedIsForgotten'
    BY <1>u DEF EntryTracksCall, EndedIsForgotten
  <1>4. AbandonedEarlyNeverPays'
    BY <1>u, KindsOfCalls DEF IInv, AbandonedEarlyNeverPays
  <1> QED
    BY <1>1, <1>2, <1>3, <1>4 DEF IInv

-----------------------------------------------------------------------------

LEMMA IInvStep == IInv /\ [Next]_vars => IInv'
  <1> SUFFICES ASSUME IInv, [Next]_vars PROVE IInv'
    OBVIOUS
  <1>T. TypeOK'
    BY TypeStep DEF IInv
  <1>t. CallTypes
    BY TypeParts DEF IInv
  <1> USE DEF lndVars, worldVars, history, callVars, waitVars, Goto, TryNext
  <1>h. \A c \in Calls : pc[c] \in {"got", "removing", "paying", "routing", "launching",
                                    "launched", "tracking"} => invoice[c] # NoInvoice
    BY DEF IInv, HoldsInvoice
  <1>1. ASSUME NEW c \in Calls, Reject(c) PROVE IInv'
    BY <1>1, <1>T, EndKeeps DEF Reject
  <1>2. ASSUME NEW c \in Calls, Cancel(c) PROVE IInv'
    BY <1>2, <1>T, EndKeeps DEF Cancel
  <1>3. ASSUME NEW c \in OfferCalls, RequestFails(c) PROVE IInv'
    BY <1>3, <1>T, EndKeeps, KindsOfCalls DEF RequestFails
  <1>4. ASSUME NEW c \in OfferCalls, RequestPanics(c) PROVE IInv'
    BY <1>4, <1>T, EndKeeps, KindsOfCalls DEF RequestPanics
  <1>5. ASSUME NEW c \in OfferCalls, PushRequest(c) PROVE IInv'
    BY <1>5, <1>T, MoveKeeps, KindsOfCalls DEF PushRequest
  <1>6. ASSUME NEW c \in OfferCalls, Tick(c) PROVE IInv'
    BY <1>6, <1>T, IdleStepKeeps DEF Tick
  <1>7. ASSUME NEW c \in OfferCalls, TimeoutFires(c) PROVE IInv'
    BY <1>7, <1>T, EndKeeps, KindsOfCalls DEF TimeoutFires
  <1>8. ASSUME NEW c \in OfferCalls, RemoveActivePayment(c) PROVE IInv'
    <2>1. c \notin PayCalls /\ c \in Calls /\ invoice[c] # NoInvoice
      BY <1>8, KindsOfCalls DEF RemoveActivePayment, IInv, HoldsInvoice
    <2> QED
      BY <1>8, <2>1, <1>T, EndKeeps DEF RemoveActivePayment
  <1>9. ASSUME NEW c \in PayCalls, TakePath(c) PROVE IInv'
    BY <1>9, <1>T, <1>h, MoveKeeps, KindsOfCalls DEF TakePath
  <1>10. ASSUME NEW c \in PayCalls, ResolveFails(c) PROVE IInv'
    BY <1>10, <1>T, EndKeeps, KindsOfCalls DEF ResolveFails
  <1>11. ASSUME NEW c \in PayCalls, OutOfPaths(c) PROVE IInv'
    BY <1>11, <1>T, <1>h, EndKeeps, KindsOfCalls DEF OutOfPaths
  <1>12. ASSUME NEW c \in PayCalls, RouteFound(c) PROVE IInv'
    BY <1>12, <1>T, <1>h, MoveKeeps, KindsOfCalls DEF RouteFound
  <1>13. ASSUME NEW c \in PayCalls, NoRoute(c) PROVE IInv'
    BY <1>13, <1>T, <1>h, MoveKeeps, KindsOfCalls DEF NoRoute
  <1>14. ASSUME NEW c \in PayCalls, SendRefused(c) PROVE IInv'
    BY <1>14, <1>T, <1>h, MoveKeeps, KindsOfCalls DEF SendRefused
  <1>15. ASSUME NEW c \in PayCalls, TrackSucceeds(c) PROVE IInv'
    BY <1>15, <1>T, <1>h, EndKeeps, KindsOfCalls DEF TrackSucceeds
  <1>16. ASSUME NEW c \in PayCalls, TrackFails(c) PROVE IInv'
    BY <1>16, <1>T, <1>h, MoveKeeps, KindsOfCalls DEF TrackFails
  <1>17. ASSUME NEW c \in PayCalls, RoutesMissing(c) PROVE IInv'
    BY <1>17, <1>T, EndKeeps, KindsOfCalls DEF RoutesMissing
  <1>18. CASE UNCHANGED vars
    BY <1>18, <1>T, IdleStepKeeps DEF vars
  <1> QED
    BY <1>T, <1>1, <1>2, <1>3, <1>4, <1>5, <1>6, <1>7, <1>8, <1>9, <1>10, <1>11, <1>12,
       <1>13, <1>14, <1>15, <1>16, <1>17, <1>18, CreateRequestKeeps, PollKeeps, MarkReceivedKeeps,
       PayInvoiceKeeps, SendToRouteKeeps, SendReturnsKeeps, ConnectionLostKeeps,
       ReleaseKeeps, HandleInvoiceKeeps, HandleInvoiceErrorKeeps, LndFinishesKeeps,
       RestartKeeps
       DEF Next, GetInvoiceStep, PayInvoiceStep

\* What every call, message and restart preserves together.
THEOREM Invariance == Spec => []IInv
  BY IInvInit, IInvStep, PTL DEF Spec

\* However calls, replies, errors, cancellations and restarts interleave, an entry of
\* active_payments agrees with the call that made it and is never overwritten.
THEOREM EntryTheorem == Spec => []EntryTracksCall
  <1>1. IInv => EntryTracksCall
    BY DEF IInv
  <1> QED
    BY <1>1, Invariance, PTL

\* Only the three exits that skip the removal leave a payment id behind.
THEOREM ForgottenTheorem == Spec => []EndedIsForgotten
  <1>1. IInv => EndedIsForgotten
    BY DEF IInv
  <1> QED
    BY <1>1, Invariance, PTL

\* A payment abandoned before its invoice was found is never given one again.
THEOREM AbandonedTheorem == Spec => []AbandonedEarlyNeverPays
  <1>1. IInv => AbandonedEarlyNeverPays
    BY DEF IInv
  <1> QED
    BY <1>1, Invariance, PTL

\* A call whose connection to LND held has no HTLC in flight when it returns: it
\* waited for each HTLC that it launched, whichever way out of pay_invoice it took.
THEOREM FailureTheorem == Spec => []FailureIsFinal
  <1>1. IInv => FailureIsFinal
    <2> SUFFICES ASSUME IInv, NEW c \in PayCalls, c \notin faulted, NEW i \in Invoices,
                        result[c] \notin {"none", "cancelled", "lost"},
                        lnd[i] = "inflight", launcher[i] = c
                 PROVE  FALSE
      BY DEF FailureIsFinal
    <2>1. c \in Calls
      BY KindsOfCalls
    <2>2. pc[c] = "done"
      BY <2>1 DEF IInv, HoldsInvoice
    <2> QED
      BY <2>2 DEF IInv, LaunchedWatched
  <1> QED
    BY <1>1, Invariance, PTL

-----------------------------------------------------------------------------
(***************************************************************************)
(* The wait for the invoice.  A missed invoice came late because the next  *)
(* look is never more than PollInterval away, an invoice that is stored    *)
(* stays stored while the call waits, and the looks after it find it.      *)
(***************************************************************************)

Timely(c) ==
    /\ pc[c] = "idle" => storedAt[c] = Never
    /\ pc[c] \in {"idle", "sending", "waiting"} => due[c] <= age[c] + PollInterval
    /\ pc[c] \in {"sending", "waiting"} /\ abandoned[c] = "no" /\ storedAt[c] # Never =>
          HasInvoice(c) /\ due[c] <= storedAt[c] + PollInterval
    /\ result[c] = "timeout" /\ abandoned[c] = "no" /\ storedAt[c] # Never =>
          InvoiceTimeout - storedAt[c] < PollInterval

TimingInv == \A c \in OfferCalls : Timely(c)

LEMMA TimingTypes ==
  ASSUME IInv, NEW c \in OfferCalls
  PROVE  /\ age[c] \in Nat /\ age[c] <= InvoiceTimeout /\ due[c] \in Nat
         /\ storedAt[c] # Never => storedAt[c] \in Nat
         /\ PollInterval \in Nat \ {0} /\ InvoiceTimeout \in Nat
  BY TypeParts, KindsOfCalls, HandlerAssumption DEF IInv, WaitTypes, HistoryTypes

\* A step that does not concern c's wait: nothing of it is taken back.
LEMMA TimelyKept ==
  ASSUME IInv, NEW c \in OfferCalls, Timely(c),
         age'[c] \in Nat, age[c] <= age'[c],
         due'[c] = due[c], storedAt'[c] = storedAt[c],
         abandoned'[c] # "no" \/ abandoned'[c] = abandoned[c],
         result'[c] = "timeout" => result[c] = "timeout",
         \/ pc'[c] = pc[c]
         \/ pc[c] = "sending" /\ pc'[c] = "waiting"
         \/ pc'[c] \notin {"idle", "sending", "waiting"},
         HasInvoice(c) /\ pc'[c] \in {"sending", "waiting"} /\ abandoned'[c] = "no" =>
            HasInvoice(c)'
  PROVE  Timely(c)'
  <1>1. /\ age[c] \in Nat /\ due[c] \in Nat /\ PollInterval \in Nat
    BY TimingTypes
  <1> QED
    BY <1>1 DEF Timely

LEMMA TimingStep == IInv /\ IInv' /\ TimingInv /\ [Next]_vars => TimingInv'
  <1> SUFFICES ASSUME IInv, IInv', TimingInv, [Next]_vars, NEW d \in OfferCalls
               PROVE  Timely(d)'
    BY DEF TimingInv
  <1>t. CallTypes /\ WaitTypes /\ IsActive(active) /\ HistoryTypes
    BY TypeParts DEF IInv
  <1>d. Timely(d) /\ d \in Calls
    BY KindsOfCalls DEF TimingInv
  <1>n. age[d] \in Nat /\ age[d] <= age[d] /\ due[d] \in Nat /\ PollInterval \in Nat
    BY TimingTypes
  <1> USE DEF lndVars, worldVars, history, callVars, waitVars, Goto, End, TryNext
  \* Only active_payments and where the calls are change.
  <1>m. ASSUME UNCHANGED <<waitVars, history>>,
               result'[d] = "timeout" => result[d] = "timeout",
               \/ pc'[d] = pc[d]
               \/ pc[d] = "sending" /\ pc'[d] = "waiting"
               \/ pc'[d] \notin {"idle", "sending", "waiting"},
               HasInvoice(d) /\ pc'[d] \in {"sending", "waiting"} => HasInvoice(d)'
        PROVE  Timely(d)'
    BY <1>m, <1>d, <1>n, TimelyKept
  \* A call moves on.
  <1>g. ASSUME NEW c \in Calls, NEW l, UNCHANGED <<waitVars, active, history, result>>,
               pc' = [pc EXCEPT ![c] = l], l \notin {"idle", "sending", "waiting"}
        PROVE  Timely(d)'
    <2>1. pc'[d] = IF d = c THEN l ELSE pc[d]
      BY <1>g, <1>t, <1>d DEF CallTypes
    <2>2. HasInvoice(d)' = HasInvoice(d)
      BY <1>g DEF HasInvoice
    <2> QED
      BY <1>g, <1>m, <2>1, <2>2
  \* A call ends, otherwise than by its timeout.
  <1>e. ASSUME NEW c \in Calls, NEW r, UNCHANGED <<waitVars, history>>, End(c, r),
               r # "timeout", active' = active \/ active' = Without(c)
        PROVE  Timely(d)'
    <2>1. /\ pc'[d] = IF d = c THEN "done" ELSE pc[d]
          /\ result'[d] = IF d = c THEN r ELSE result[d]
      BY <1>e, <1>t, <1>d DEF CallTypes
    <2>2. HasInvoice(d) /\ d # c => HasInvoice(d)'
      BY <1>e, <1>t, WithoutMap DEF HasInvoice
    <2> QED
      BY <1>e, <1>m, <2>1, <2>2
  <1>1. ASSUME NEW c \in Calls, Reject(c) \/ Cancel(c) PROVE Timely(d)'
    BY <1>1, <1>e DEF Reject, Cancel
  <1>2. ASSUME NEW c \in OfferCalls, CreateRequest(c) PROVE Timely(d)'
    <2>1. pc'[d] = (IF d = c THEN "sending" ELSE pc[d]) /\ pc[c] = "idle"
      BY <1>2, <1>t, <1>d DEF CreateRequest, CallTypes
    <2>2. CASE d = c
      BY <1>2, <1>d, <2>1, <2>2 DEF CreateRequest, Timely
    <2>3. CASE d # c
      <3>1. HasInvoice(d) => HasInvoice(d)'
        BY <1>2, <1>t, <2>3, InsertedMap DEF CreateRequest, HasInvoice
      <3> QED
        BY <1>2, <1>m, <2>1, <2>3, <3>1 DEF CreateRequest
    <2> QED
      BY <2>2, <2>3
  <1>3. ASSUME NEW c \in OfferCalls, RequestFails(c) \/ RequestPanics(c) \/ RemoveActivePayment(c)
        PROVE  Timely(d)'
    BY <1>3, <1>e, KindsOfCalls DEF RequestFails, RequestPanics, RemoveActivePayment
  <1>4. ASSUME NEW c \in OfferCalls, PushRequest(c) PROVE Timely(d)'
    <2>1. /\ pc[c] = "sending" /\ pc'[d] = IF d = c THEN "waiting" ELSE pc[d]
          /\ UNCHANGED <<waitVars, history, result>>
      BY <1>4, <1>t, <1>d DEF PushRequest, CallTypes
    <2>2. HasInvoice(d)' = HasInvoice(d)
      BY <1>4 DEF PushRequest, HasInvoice
    <2> QED
      BY <1>m, <2>1, <2>2
  <1>5. ASSUME NEW c \in OfferCalls, Tick(c) PROVE Timely(d)'
    <2>1. age'[d] \in Nat /\ age[d] <= age'[d]
      BY <1>5, <1>t, <1>d, <1>n DEF Tick, WaitTypes
    <2>2. /\ UNCHANGED <<pc, result, due, active, history>>
          /\ HasInvoice(d)' = HasInvoice(d)
      BY <1>5 DEF Tick, HasInvoice
    <2> QED
      BY <1>d, <2>1, <2>2, TimelyKept
  <1>6. ASSUME NEW c \in OfferCalls, Poll(c) PROVE Timely(d)'
    <2>1. HasInvoice(d)' = HasInvoice(d) /\ UNCHANGED <<age, history, active>>
      BY <1>6 DEF Poll, HasInvoice
    <2>2. CASE HasInvoice(c)
      BY <1>6, <1>g, <2>2, KindsOfCalls DEF Poll
    <2>3. CASE ~HasInvoice(c) /\ d # c
      <3>1. UNCHANGED <<pc, result>> /\ due'[d] = due[d]
        BY <1>6, <1>t, <1>d, <2>3 DEF Poll, WaitTypes
      <3> QED
        BY <1>d, <1>n, <2>1, <3>1, TimelyKept
    <2>4. CASE ~HasInvoice(c) /\ d = c
      <3>1. UNCHANGED <<pc, result>> /\ pc[d] = "waiting" /\ due'[d] = age[d] + PollInterval
        BY <1>6, <1>t, <1>d, <2>4 DEF Poll, NextLook, WaitTypes
      <3> QED
        BY <1>d, <1>n, <2>1, <2>4, <3>1 DEF Timely
    <2> QED
      BY <2>2, <2>3, <2>4
  <1>7. ASSUME NEW c \in OfferCalls, TimeoutFires(c) PROVE Timely(d)'
    <2>1. /\ pc'[d] = IF d = c THEN "done" ELSE pc[d]
          /\ result'[d] = IF d = c THEN "timeout" ELSE result[d]
          /\ pc[c] = "waiting" /\ age[c] = InvoiceTimeout /\ age[c] < due[c]
          /\ UNCHANGED <<waitVars, history>>
      BY <1>7, <1>t, <1>d DEF TimeoutFires, CallTypes
    <2>2. CASE d = c
      <3>1. storedAt[c] # Never => storedAt[c] \in Nat
        BY TimingTypes
      <3> QED
        BY <1>d, <1>n, <2>1, <2>2, <3>1 DEF Timely
    <2>3. CASE d # c
      <3>1. HasInvoice(d) => HasInvoice(d)'
        BY <1>7, <1>t, <2>3, WithoutMap DEF TimeoutFires, HasInvoice
      <3> QED
        BY <1>m, <2>1, <2>3, <3>1
    <2> QED
      BY <2>2, <2>3
  <1>8. ASSUME NEW c \in OfferCalls, MarkReceived(c) PROVE Timely(d)'
    <2>1. pc'[d] = IF d = c THEN (IF c \in GetInvoiceCalls THEN "removing" ELSE "paying")
                   ELSE pc[d]
      BY <1>8, <1>t, <1>d DEF MarkReceived, CallTypes
    <2>2. HasInvoice(d) => HasInvoice(d)'
      <3>1. "InvoiceReceived" \in PaymentState
        BY DEF PaymentState
      <3> QED
        BY <1>8, <1>t, <3>1, WithStateMap DEF MarkReceived, HasInvoice
    <2> QED
      BY <1>8, <1>m, <2>1, <2>2 DEF MarkReceived
  <1>9. ASSUME NEW c \in OfferCalls, HandleInvoiceError(c) PROVE Timely(d)'
    <2>1. /\ abandoned'[d] # "no" \/ abandoned'[d] = abandoned[d]
          /\ d = c => abandoned'[d] # "no"
      BY <1>9, <1>t, <1>d DEF HandleInvoiceError, HistoryTypes
    <2>2. HasInvoice(d) /\ d # c => HasInvoice(d)'
      BY <1>9, <1>t, WithoutMap DEF HandleInvoiceError, HasInvoice
    <2>3. UNCHANGED <<pc, result, waitVars, storedAt>>
      BY <1>9 DEF HandleInvoiceError
    <2> QED
      BY <1>d, <1>n, <2>1, <2>2, <2>3, TimelyKept
  <1>10. ASSUME NEW c \in OfferCalls, NEW i \in Invoices, HandleInvoice(c, i)
         PROVE  Timely(d)'
    <2>1. /\ UNCHANGED <<pc, result, waitVars, abandoned>> /\ c \in DOMAIN active
          /\ storedAt'[d] = IF d = c THEN age[d] ELSE storedAt[d]
      BY <1>10, <1>t, <1>d DEF HandleInvoice, Stores, HistoryTypes
    <2>2. /\ d = c => HasInvoice(d)'
          /\ d # c => HasInvoice(d)' = HasInvoice(d)
      <3>1. /\ DOMAIN active' = DOMAIN active
            /\ active'[c] = [state |-> "InvoiceReceived", invoice |-> i]
            /\ \A e \in DOMAIN active : e # c => active'[e] = active[e]
        BY <1>10, <1>t, <2>1, StoredMap DEF HandleInvoice
      <3>2. i # NoInvoice
        BY HandlerAssumption
      <3> QED
        BY <2>1, <3>1, <3>2 DEF HasInvoice
    <2>3. CASE d = c
      <3>1. pc[d] # "idle" /\ result[d] # "timeout"
        BY <2>1, <2>3, KindsOfCalls
           DEF IInv, IdleClean, HoldsInvoice, EndedIsForgotten, Ended
      <3> QED
        BY <1>d, <1>n, <2>1, <2>2, <2>3, <3>1 DEF Timely
    <2>4. CASE d # c
      BY <1>d, <1>n, <2>1, <2>2, <2>4, TimelyKept
    <2> QED
      BY <2>3, <2>4
  <1>11. ASSUME NEW c \in PayCalls, PayInvoiceStep(c) PROVE Timely(d)'
    <2>1. CASE TakePath(c) \/ RouteFound(c) \/ NoRoute(c) \/ SendRefused(c) \/ SendToRoute(c)
               \/ TrackFails(c)
      BY <1>11, <2>1, <1>g, KindsOfCalls
         DEF TakePath, RouteFound, NoRoute, SendRefused, SendToRoute, TrackFails
    <2>2. CASE ResolveFails(c) \/ OutOfPaths(c) \/ TrackSucceeds(c)
      BY <1>11, <2>2, <1>e, KindsOfCalls DEF ResolveFails, OutOfPaths, TrackSucceeds
    <2>3. CASE SendReturns(c)
      <3>1. pc'[d] = IF d = c THEN "tracking" ELSE pc[d]
        BY <2>3, <1>t, <1>d DEF SendReturns, CallTypes
      <3>2. HasInvoice(d) => HasInvoice(d)'
        <4>1. "PaymentDispatched" \in PaymentState
          BY DEF PaymentState
        <4> QED
          BY <2>3, <1>t, <4>1, WithStateMap DEF SendReturns, HasInvoice
      <3> QED
        BY <2>3, <1>m, <3>1, <3>2 DEF SendReturns
    <2> QED
      BY <1>11, <2>1, <2>2, <2>3 DEF PayInvoiceStep
  <1>r. ASSUME NEW c \in PayCalls, RoutesMissing(c) PROVE Timely(d)'
    BY <1>r, <1>e, KindsOfCalls DEF RoutesMissing
  <1>12. ASSUME NEW c \in PayCalls, ConnectionLost(c) PROVE Timely(d)'
    <2>1. /\ pc'[d] = IF d = c THEN "paying" ELSE pc[d]
          /\ UNCHANGED <<waitVars, result, abandoned, storedAt>>
      BY <1>12, <1>t, <1>d DEF ConnectionLost, CallTypes
    <2>2. HasInvoice(d)' = HasInvoice(d)
      BY <1>12 DEF ConnectionLost, HasInvoice
    <2> QED
      BY <1>d, <1>n, <2>1, <2>2, TimelyKept
  <1>13. ASSUME NEW c \in PayInvoiceCalls, NEW i \in Invoices, PayInvoice(c, i)
         PROVE  Timely(d)'
    BY <1>13, <1>g, KindsOfCalls DEF PayInvoice
  <1>14. CASE ReleasePendingMessages \/ UNCHANGED vars
              \/ \E i \in Invoices, o \in {"succeeded", "failed"} : LndFinishes(i, o)
    <2>1. UNCHANGED <<pc, result, waitVars, active, history>>
      BY <1>14 DEF ReleasePendingMessages, LndFinishes, vars
    <2>2. HasInvoice(d)' = HasInvoice(d)
      BY <2>1 DEF HasInvoice
    <2> QED
      BY <1>m, <2>1, <2>2
  <1>15. CASE Restart
    <2>1. /\ pc'[d] = IF pc[d] = "idle" THEN "idle" ELSE "done"
          /\ result'[d] = "timeout" => result[d] = "timeout"
          /\ UNCHANGED <<waitVars, history>>
      BY <1>15, <1>d DEF Restart
    <2> QED
      BY <1>m, <2>1
  <1> QED
    BY <1>1, <1>2, <1>3, <1>4, <1>5, <1>6, <1>7, <1>8, <1>9, <1>10, <1>11, <1>12, <1>13,
       <1>14, <1>15, <1>r DEF Next, GetInvoiceStep

\* For every timeout and every polling interval: a call that timed out although its
\* invoice had been stored was less than one interval from finding it.
THEOREM LastMomentTheorem == Spec => []OnlyLastMomentMissed
  <1>1. Init => TimingInv
    <2> SUFFICES ASSUME Init, NEW c \in OfferCalls PROVE Timely(c)
      BY DEF TimingInv
    <2>1. pc[c] = "idle" /\ storedAt[c] = Never /\ due[c] = 0 /\ age[c] = 0 /\ result[c] = "none"
      BY KindsOfCalls DEF Init
    <2> QED
      BY <2>1, HandlerAssumption DEF Timely
  <1>2. TimingInv => OnlyLastMomentMissed
    BY DEF TimingInv, Timely, OnlyLastMomentMissed
  <1> QED
    BY <1>1, <1>2, TimingStep, Invariance, PTL DEF Spec

-----------------------------------------------------------------------------
(***************************************************************************)
(* The promise of Payments.  A call may report that it has not paid        *)
(* because every attempt of its own that is or may become a payment is one *)
(* it still waits for (Owing), and it finds at most one invoice because it *)
(* has none while it waits for one (Unfound).                              *)
(***************************************************************************)

Owing ==
    \A i \in Invoices, c \in PayCalls \ faulted :
        launcher[i] = c /\ lnd[i] \in {"inflight", "succeeded"} =>
            \/ pc[c] \in {"launched", "tracking"} /\ invoice[c] = i
            \/ pc[c] = "done" /\ result[c] \in {"ok", "cancelled", "lost"}

Unfound ==
    \A c \in Calls : pc[c] \in {"sending", "waiting"} => invoice[c] = NoInvoice

PromiseInv == Owing /\ Unfound

\* A call moves on, without an attempt that it has to wait for, or ends.
LEMMA OwingKept ==
  ASSUME IInv, PromiseInv, NEW c \in Calls,
         UNCHANGED <<lnd, launcher, faulted>>,
         \A d \in Calls : d # c => /\ pc'[d] = pc[d] /\ invoice'[d] = invoice[d]
                                   /\ result'[d] = result[d],
         pc[c] # "done",
         \/ pc[c] \notin {"launched", "tracking"}
         \/ invoice'[c] = invoice[c] /\ pc'[c] = "tracking"
         \/ lnd[invoice[c]] = "failed"
         \/ pc'[c] = "done" /\ result'[c] \in {"ok", "cancelled", "lost"},
         pc'[c] \in {"sending", "waiting"} => invoice'[c] = NoInvoice
  PROVE  PromiseInv'
  <1>1. Owing'
    <2> SUFFICES ASSUME NEW i \in Invoices, NEW d \in PayCalls, d \notin faulted,
                        launcher[i] = d, lnd[i] \in {"inflight", "succeeded"}
                 PROVE  \/ pc'[d] \in {"launched", "tracking"} /\ invoice'[d] = i
                        \/ pc'[d] = "done" /\ result'[d] \in {"ok", "cancelled", "lost"}
      BY DEF Owing
    <2>1. \/ pc[d] \in {"launched", "tracking"} /\ invoice[d] = i
          \/ pc[d] = "done" /\ result[d] \in {"ok", "cancelled", "lost"}
      BY DEF PromiseInv, Owing
    <2>2. CASE d # c
      BY <2>1, <2>2, KindsOfCalls
    <2>3. CASE d = c
      BY <2>1, <2>3
    <2> QED
      BY <2>2, <2>3
  <1>2. Unfound'
    BY DEF PromiseInv, Unfound
  <1> QED
    BY <1>1, <1>2 DEF PromiseInv

\* Nothing changes for the calls and the payments.
LEMMA OwingSame ==
  ASSUME PromiseInv, UNCHANGED <<pc, result, invoice, lnd, launcher, faulted>>
  PROVE  PromiseInv'
  BY DEF PromiseInv, Owing, Unfound

LEMMA PromiseInvStep == IInv /\ PromiseInv /\ [Next]_vars => PromiseInv'
  <1> SUFFICES ASSUME IInv, PromiseInv, [Next]_vars PROVE PromiseInv'
    OBVIOUS
  <1>t. CallTypes /\ WorldTypes
    BY TypeParts DEF IInv
  <1> USE DEF lndVars, worldVars, history, callVars, waitVars, Goto, End, TryNext
  \* A call that does not wait for LND moves to l.
  <1>g. ASSUME NEW c \in Calls, NEW l, UNCHANGED <<lnd, launcher, faulted, result, invoice>>,
               pc' = [pc EXCEPT ![c] = l],
               pc[c] \notin {"launched", "tracking", "done"},
               l \notin {"sending", "waiting"} \/ invoice[c] = NoInvoice
        PROVE  PromiseInv'
    <2>1. pc'[c] = l /\ \A d \in Calls : d # c => pc'[d] = pc[d]
      BY <1>g, <1>t DEF CallTypes
    <2> QED
      BY <1>g, <2>1, OwingKept
  \* A call ends.
  <1>e. ASSUME NEW c \in Calls, NEW r, UNCHANGED <<lnd, launcher, faulted, invoice>>,
               End(c, r), pc[c] # "done",
               pc[c] \notin {"launched", "tracking"} \/ r \in {"ok", "cancelled"}
        PROVE  PromiseInv'
    <2>1. /\ pc'[c] = "done" /\ result'[c] = r
          /\ \A d \in Calls : d # c => pc'[d] = pc[d] /\ result'[d] = result[d]
      BY <1>e, <1>t DEF CallTypes
    <2> QED
      BY <1>e, <2>1, OwingKept
  <1>1. ASSUME NEW c \in Calls, Reject(c) \/ Cancel(c) PROVE PromiseInv'
    BY <1>1, <1>e DEF Reject, Cancel
  <1>2. ASSUME NEW c \in OfferCalls, CreateRequest(c) PROVE PromiseInv'
    <2>1. c \in Calls /\ invoice[c] = NoInvoice
      BY <1>2, KindsOfCalls DEF CreateRequest, IInv, IdleClean
    <2> QED
      BY <1>2, <1>g, <2>1 DEF CreateRequest
  <1>3. ASSUME NEW c \in OfferCalls,
               RequestFails(c) \/ RequestPanics(c) \/ TimeoutFires(c) \/ RemoveActivePayment(c)
        PROVE  PromiseInv'
    BY <1>3, <1>e, KindsOfCalls
       DEF RequestFails, RequestPanics, TimeoutFires, RemoveActivePayment
  <1>4. ASSUME NEW c \in OfferCalls, PushRequest(c) PROVE PromiseInv'
    <2>1. c \in Calls /\ invoice[c] = NoInvoice
      BY <1>4, KindsOfCalls DEF PushRequest, PromiseInv, Unfound
    <2> QED
      BY <1>4, <1>g, <2>1 DEF PushRequest
  <1>5. ASSUME NEW c \in OfferCalls, Poll(c) PROVE PromiseInv'
    <2>1. CASE HasInvoice(c)
      <3>1. /\ pc[c] = "waiting" /\ pc'[c] = "got" /\ c \in Calls
            /\ \A d \in Calls : d # c => /\ pc'[d] = pc[d] /\ invoice'[d] = invoice[d]
                                         /\ result'[d] = result[d]
            /\ UNCHANGED <<lnd, launcher, faulted>>
        BY <1>5, <1>t, <2>1, KindsOfCalls DEF Poll, CallTypes
      <3> QED
        BY <3>1, OwingKept
    <2>2. CASE ~HasInvoice(c)
      BY <1>5, <2>2, OwingSame DEF Poll
    <2> QED
      BY <2>1, <2>2
  <1>6. ASSUME NEW c \in OfferCalls, MarkReceived(c) PROVE PromiseInv'
    BY <1>6, <1>g, KindsOfCalls DEF MarkReceived
  <1>7. ASSUME NEW c \in PayInvoiceCalls, NEW i \in Invoices, PayInvoice(c, i)
        PROVE  PromiseInv'
    <2>1. /\ pc[c] = "idle" /\ pc'[c] = "paying" /\ c \in Calls
          /\ \A d \in Calls : d # c => /\ pc'[d] = pc[d] /\ invoice'[d] = invoice[d]
                                       /\ result'[d] = result[d]
          /\ UNCHANGED <<lnd, launcher, faulted>>
      BY <1>7, <1>t, KindsOfCalls DEF PayInvoice, CallTypes
    <2> QED
      BY <2>1, OwingKept
  <1>8. ASSUME NEW c \in PayCalls,
               TakePath(c) \/ RouteFound(c) \/ NoRoute(c) \/ SendRefused(c)
        PROVE  PromiseInv'
    BY <1>8, <1>g, KindsOfCalls DEF TakePath, RouteFound, NoRoute, SendRefused
  <1>9. ASSUME NEW c \in PayCalls,
               ResolveFails(c) \/ RoutesMissing(c) \/ OutOfPaths(c) \/ TrackSucceeds(c)
        PROVE  PromiseInv'
    BY <1>9, <1>e, KindsOfCalls DEF ResolveFails, RoutesMissing, OutOfPaths, TrackSucceeds
  <1>10. ASSUME NEW c \in PayCalls, SendToRoute(c) PROVE PromiseInv'
    <2>1. pc[c] = "launching" /\ invoice[c] \in Invoices /\ c \in Calls
      BY <1>10, <1>t, KindsOfCalls DEF SendToRoute, IInv, HoldsInvoice, CallTypes
    <2>2. /\ \A d \in Calls : pc'[d] = IF d = c THEN "launched" ELSE pc[d]
          /\ \A i \in Invoices : lnd'[i] = IF i = invoice[c] THEN "inflight" ELSE lnd[i]
          /\ \A i \in Invoices : launcher'[i] = IF i = invoice[c] THEN c ELSE launcher[i]
          /\ UNCHANGED <<result, invoice, faulted>>
      BY <1>10, <1>t, <2>1 DEF SendToRoute, CallTypes, WorldTypes
    <2> QED
      BY <2>1, <2>2, KindsOfCalls DEF PromiseInv, Owing, Unfound
  <1>11. ASSUME NEW c \in PayCalls, SendReturns(c) PROVE PromiseInv'
    <2>1. /\ pc[c] = "launched" /\ pc'[c] = "tracking" /\ c \in Calls
          /\ \A d \in Calls : d # c => pc'[d] = pc[d]
          /\ UNCHANGED <<result, invoice, lnd, launcher, faulted>>
      BY <1>11, <1>t, KindsOfCalls DEF SendReturns, CallTypes
    <2> QED
      BY <2>1, OwingKept
  <1>12. ASSUME NEW c \in PayCalls, TrackFails(c) PROVE PromiseInv'
    <2>1. /\ pc[c] = "tracking" /\ pc'[c] = "paying" /\ c \in Calls
          /\ lnd[invoice[c]] = "failed"
          /\ \A d \in Calls : d # c => pc'[d] = pc[d]
          /\ UNCHANGED <<result, invoice, lnd, launcher, faulted>>
      BY <1>12, <1>t, KindsOfCalls DEF TrackFails, CallTypes
    <2> QED
      BY <2>1, OwingKept
  <1>13. ASSUME NEW c \in PayCalls, ConnectionLost(c) PROVE PromiseInv'
    <2>1. /\ pc'[c] = "paying" /\ c \in Calls /\ faulted' = faulted \cup {c}
          /\ \A d \in Calls : d # c => pc'[d] = pc[d]
          /\ UNCHANGED <<result, invoice, lnd, launcher>>
      BY <1>13, <1>t, KindsOfCalls DEF ConnectionLost, CallTypes
    <2> QED
      BY <2>1, KindsOfCalls DEF PromiseInv, Owing, Unfound
  <1>14. ASSUME NEW i \in Invoices, NEW o \in {"succeeded", "failed"}, LndFinishes(i, o)
         PROVE  PromiseInv'
    <2>1. /\ lnd[i] = "inflight"
          /\ \A j \in Invoices : lnd'[j] = IF j = i THEN o ELSE lnd[j]
          /\ UNCHANGED <<pc, result, invoice, launcher, faulted>>
      BY <1>14, <1>t DEF LndFinishes, WorldTypes
    <2> QED
      BY <2>1 DEF PromiseInv, Owing, Unfound
  <1>15. CASE Restart
    <2>1. /\ \A c \in Calls : pc'[c] = IF pc[c] = "idle" THEN "idle" ELSE "done"
          /\ \A c \in Calls : result'[c] =
                IF pc[c] \in {"idle", "done"} THEN result[c] ELSE "lost"
          /\ UNCHANGED <<invoice, lnd, launcher, faulted>>
      BY <1>15 DEF Restart
    <2> QED
      BY <2>1, KindsOfCalls DEF PromiseInv, Owing, Unfound
  <1>16. CASE \/ ReleasePendingMessages \/ UNCHANGED vars
              \/ \E c \in OfferCalls : Tick(c) \/ HandleInvoiceError(c)
              \/ \E c \in OfferCalls, i \in Invoices : HandleInvoice(c, i)
    BY <1>16, OwingSame DEF ReleasePendingMessages, vars, Tick, HandleInvoiceError, HandleInvoice
  <1> QED
    BY <1>1, <1>2, <1>3, <1>4, <1>5, <1>6, <1>7, <1>8, <1>9, <1>10, <1>11, <1>12, <1>13,
       <1>14, <1>15, <1>16 DEF Next, GetInvoiceStep, PayInvoiceStep

\* What the clients have been told changes for nobody.
LEMMA NothingPromised ==
  ASSUME UNCHANGED <<lnd, launcher>>,
         \A c \in PayCalls : invoice'[c] = invoice[c] /\ Report(c)' = Report(c)
  PROVE  UNCHANGED Promise!vars
  BY DEF Promise!vars

LEMMA SameReports ==
  ASSUME UNCHANGED <<result, invoice, lnd, launcher, faulted>>
  PROVE  UNCHANGED Promise!vars
  <1>1. \A c \in PayCalls : Report(c)' = Report(c)
    BY DEF Report
  <1> QED
    BY <1>1, NothingPromised

\* A call that has not ended has reported nothing.
LEMMA OpenReport ==
  ASSUME IInv, NEW c \in PayCalls, pc[c] # "done"
  PROVE  result[c] = "none" /\ Report(c) = "open"
  BY KindsOfCalls DEF IInv, HoldsInvoice, Report

\* A call ends without a payment: it has none to come, or says that it does not know.
LEMMA EndPromised ==
  ASSUME IInv, PromiseInv, NEW c \in Calls,
         NEW r \in {"rejected", "unsent", "panicked", "timeout", "unresolved", "failed",
                    "cancelled"},
         End(c, r), pc[c] # "done",
         pc[c] \notin {"launched", "tracking"} \/ r = "cancelled",
         UNCHANGED <<invoice, lnd, launcher, faulted>>
  PROVE  [Promise!Next]_(Promise!vars)
  <1>t. CallTypes
    BY TypeParts DEF IInv
  <1>r. \A d \in Calls : result'[d] = IF d = c THEN r ELSE result[d]
    BY <1>t DEF End, CallTypes
  <1>o. \A d \in PayCalls : d # c => Report(d)' = Report(d)
    BY <1>r, KindsOfCalls DEF Report
  <1>1. CASE c \notin PayCalls
    BY <1>1, <1>o, NothingPromised
  <1>2. CASE c \in PayCalls /\ (r = "cancelled" \/ c \in faulted)
    <2>1. Report(c) = "open" /\ Report(c)' = "unknown"
      BY <1>2, <1>r, OpenReport DEF Report
    <2>2. Promise!LoseTouch({c})
      BY <1>2, <1>o, <2>1 DEF Promise!LoseTouch
    <2> QED
      BY <1>2, <2>2 DEF Promise!Next
  <1>3. CASE c \in PayCalls /\ r # "cancelled" /\ c \notin faulted
    <2>1. Report(c) = "open" /\ Report(c)' = "unpaid"
      BY <1>3, <1>r, OpenReport DEF Report
    <2>2. \A i \in Invoices : ~ (launcher[i] = c /\ lnd[i] \in {"inflight", "succeeded"})
      BY <1>3 DEF PromiseInv, Owing
    <2>3. Promise!ReportUnpaid(c)
      BY <1>3, <1>o, <2>1, <2>2 DEF Promise!ReportUnpaid, Promise!Owes
    <2> QED
      BY <1>3, <2>3 DEF Promise!Next
  <1> QED
    BY <1>1, <1>2, <1>3

\* A call finds or is given its invoice.
LEMMA HoldPromised ==
  ASSUME IInv, NEW c \in Calls, NEW i \in Invoices, pc[c] # "done", invoice[c] = NoInvoice,
         invoice' = [invoice EXCEPT ![c] = i],
         UNCHANGED <<result, lnd, launcher, faulted>>
  PROVE  [Promise!Next]_(Promise!vars)
  <1>t. CallTypes
    BY TypeParts DEF IInv
  <1>i. \A d \in Calls : invoice'[d] = IF d = c THEN i ELSE invoice[d]
    BY <1>t DEF CallTypes
  <1>r. \A d \in PayCalls : Report(d)' = Report(d)
    BY DEF Report
  <1>1. CASE c \notin PayCalls
    BY <1>1, <1>i, <1>r, KindsOfCalls, NothingPromised
  <1>2. CASE c \in PayCalls
    <2>1. Report(c) = "open"
      BY <1>2, OpenReport
    <2>2. [d \in PayCalls |-> invoice'[d]] =
            [[d \in PayCalls |-> invoice[d]] EXCEPT ![c] = i]
      BY <1>i, <1>2, KindsOfCalls
    <2>3. Promise!Hold(c, i)
      BY <1>2, <1>r, <2>1, <2>2 DEF Promise!Hold
    <2> QED
      BY <1>2, <2>3 DEF Promise!Next
  <1> QED
    BY <1>1, <1>2

LEMMA PromiseInit == Init => Promise!Init
  <1> SUFFICES ASSUME Init PROVE Promise!Init
    OBVIOUS
  <1>1. \A c \in PayCalls : invoice[c] = NoInvoice /\ Report(c) = "open"
    BY KindsOfCalls DEF Init, Report
  <1> QED
    BY <1>1 DEF Init, Promise!Init

LEMMA PromiseStep == IInv /\ PromiseInv /\ [Next]_vars => [Promise!Next]_(Promise!vars)
  <1> SUFFICES ASSUME IInv, PromiseInv, [Next]_vars PROVE [Promise!Next]_(Promise!vars)
    OBVIOUS
  <1>t. CallTypes /\ WorldTypes
    BY TypeParts DEF IInv
  <1> USE DEF lndVars, worldVars, history, callVars, waitVars, Goto, TryNext
  <1>1. ASSUME NEW c \in Calls, Reject(c) \/ Cancel(c) PROVE [Promise!Next]_(Promise!vars)
    BY <1>1, EndPromised DEF Reject, Cancel
  <1>2. ASSUME NEW c \in OfferCalls, RequestFails(c) \/ RequestPanics(c) \/ TimeoutFires(c)
        PROVE  [Promise!Next]_(Promise!vars)
    BY <1>2, EndPromised, KindsOfCalls DEF RequestFails, RequestPanics, TimeoutFires
  <1>3. ASSUME NEW c \in OfferCalls,
               CreateRequest(c) \/ PushRequest(c) \/ Tick(c) \/ MarkReceived(c)
               \/ HandleInvoiceError(c)
        PROVE  [Promise!Next]_(Promise!vars)
    BY <1>3, SameReports
       DEF CreateRequest, PushRequest, Tick, MarkReceived, HandleInvoiceError
  <1>4. ASSUME NEW c \in OfferCalls, Poll(c) PROVE [Promise!Next]_(Promise!vars)
    <2>1. CASE HasInvoice(c)
      <3>1. active[c].invoice \in Invoices
        BY <2>1, TypeParts DEF IInv, IsActive, HasInvoice, PaymentInfo
      <3>2. /\ pc[c] = "waiting" /\ c \in Calls
            /\ invoice' = [invoice EXCEPT ![c] = active[c].invoice]
            /\ UNCHANGED <<result, lnd, launcher, faulted>>
        BY <1>4, <2>1, KindsOfCalls DEF Poll
      <3>3. invoice[c] = NoInvoice /\ pc[c] # "done"
        BY <3>2 DEF PromiseInv, Unfound
      <3> QED
        BY <3>1, <3>2, <3>3, HoldPromised
    <2>2. CASE ~HasInvoice(c)
      BY <1>4, <2>2, SameReports DEF Poll
    <2> QED
      BY <2>1, <2>2
  <1>5. ASSUME NEW c \in OfferCalls, RemoveActivePayment(c)
        PROVE  [Promise!Next]_(Promise!vars)
    <2>1. c \notin PayCalls
      BY <1>5, KindsOfCalls DEF RemoveActivePayment, IInv, HoldsInvoice
    <2>2. /\ \A d \in Calls : d # c => result'[d] = result[d]
          /\ UNCHANGED <<invoice, lnd, launcher, faulted>>
      BY <1>5, <1>t DEF RemoveActivePayment, End, CallTypes
    <2>3. \A d \in PayCalls : Report(d)' = Report(d)
      BY <2>1, <2>2, KindsOfCalls DEF Report
    <2> QED
      BY <2>2, <2>3, NothingPromised
  <1>6. ASSUME NEW c \in PayInvoiceCalls, NEW i \in Invoices, PayInvoice(c, i)
        PROVE  [Promise!Next]_(Promise!vars)
    <2>1. c \in Calls /\ invoice[c] = NoInvoice /\ pc[c] # "done"
      BY <1>6, KindsOfCalls DEF PayInvoice, IInv, IdleClean
    <2> QED
      BY <1>6, <2>1, HoldPromised DEF PayInvoice
  <1>7. ASSUME NEW c \in PayCalls, ResolveFails(c) \/ RoutesMissing(c) \/ OutOfPaths(c)
        PROVE  [Promise!Next]_(Promise!vars)
    BY <1>7, EndPromised, KindsOfCalls DEF ResolveFails, RoutesMissing, OutOfPaths
  <1>8. ASSUME NEW c \in PayCalls,
               TakePath(c) \/ RouteFound(c) \/ NoRoute(c) \/ SendRefused(c) \/ SendReturns(c)
               \/ TrackFails(c)
        PROVE  [Promise!Next]_(Promise!vars)
    BY <1>8, SameReports
       DEF TakePath, RouteFound, NoRoute, SendRefused, SendReturns, TrackFails
  <1>9. ASSUME NEW c \in PayCalls, SendToRoute(c) PROVE [Promise!Next]_(Promise!vars)
    <2>1. pc[c] = "launching" /\ invoice[c] \in Invoices
      BY <1>9, <1>t, KindsOfCalls DEF SendToRoute, IInv, HoldsInvoice, CallTypes
    <2>2. Report(c) = "open" /\ \A d \in PayCalls : Report(d)' = Report(d)
      BY <1>9, <2>1, OpenReport DEF SendToRoute, Report
    <2>3. Promise!Attempt(c, invoice[c])
      BY <1>9, <2>1, <2>2 DEF SendToRoute, Promise!Attempt
    <2> QED
      BY <2>1, <2>3 DEF Promise!Next
  <1>10. ASSUME NEW c \in PayCalls, TrackSucceeds(c) PROVE [Promise!Next]_(Promise!vars)
    <2>1. pc[c] = "tracking" /\ invoice[c] \in Invoices /\ c \in Calls
      BY <1>10, <1>t, KindsOfCalls DEF TrackSucceeds, IInv, HoldsInvoice, CallTypes
    <2>2. /\ \A d \in Calls : result'[d] = IF d = c THEN "ok" ELSE result[d]
          /\ lnd[invoice[c]] = "succeeded"
          /\ UNCHANGED <<invoice, lnd, launcher, faulted>>
      BY <1>10, <1>t DEF TrackSucceeds, Settled, End, CallTypes
    <2>3. /\ Report(c) = "open" /\ Report(c)' = "paid"
          /\ \A d \in PayCalls : d # c => Report(d)' = Report(d)
      BY <2>1, <2>2, OpenReport, KindsOfCalls DEF Report
    <2>4. Promise!ReportPaid(c, invoice[c])
      BY <2>2, <2>3 DEF Promise!ReportPaid
    <2> QED
      BY <2>1, <2>4 DEF Promise!Next
  <1>11. ASSUME NEW c \in PayCalls, ConnectionLost(c) PROVE [Promise!Next]_(Promise!vars)
    <2>1. /\ result[c] = "none" /\ faulted' = faulted \cup {c}
          /\ UNCHANGED <<invoice, result, lnd, launcher>>
      BY <1>11, OpenReport DEF ConnectionLost
    <2>2. \A d \in PayCalls : Report(d)' = Report(d)
      BY <2>1 DEF Report
    <2> QED
      BY <2>1, <2>2, NothingPromised
  <1>12. ASSUME NEW i \in Invoices, NEW o \in {"succeeded", "failed"}, LndFinishes(i, o)
         PROVE  [Promise!Next]_(Promise!vars)
    <2>1. \A d \in PayCalls : Report(d)' = Report(d)
      BY <1>12 DEF LndFinishes, Report
    <2>2. Promise!Resolve(i, o)
      BY <1>12, <2>1 DEF LndFinishes, Promise!Resolve
    <2> QED
      BY <2>2 DEF Promise!Next
  <1>13. CASE Restart
    <2> DEFINE S == {c \in PayCalls : pc[c] \notin {"idle", "done"}}
    <2>1. /\ \A c \in Calls : result'[c] =
                IF pc[c] \in {"idle", "done"} THEN result[c] ELSE "lost"
          /\ UNCHANGED <<invoice, lnd, launcher, faulted>>
      BY <1>13 DEF Restart
    <2>2. \A c \in PayCalls :
            /\ c \in S => Report(c) = "open" /\ Report(c)' = "unknown"
            /\ c \notin S => Report(c)' = Report(c)
      BY <2>1, OpenReport, KindsOfCalls DEF Report
    <2>3. S \in SUBSET PayCalls
      OBVIOUS
    <2> HIDE DEF S
    <2>4. Promise!LoseTouch(S)
      BY <2>1, <2>2, <2>3 DEF Promise!LoseTouch
    <2> QED
      BY <2>3, <2>4 DEF Promise!Next
  <1>14. CASE \/ ReleasePendingMessages \/ UNCHANGED vars
              \/ \E c \in OfferCalls, i \in Invoices : HandleInvoice(c, i)
    BY <1>14, SameReports DEF ReleasePendingMessages, vars, HandleInvoice
  <1> QED
    BY <1>1, <1>2, <1>3, <1>4, <1>5, <1>6, <1>7, <1>8, <1>9, <1>10, <1>11, <1>12, <1>13,
       <1>14 DEF Next, GetInvoiceStep, PayInvoiceStep

\* The refinement, for any calls, invoices and paths: whatever interleaving of calls,
\* replies, broken connections, cancellations and restarts, an invoice is paid once, and
\* a call that reports a failure has launched nothing that is or will be paid.
THEOREM PaymentsRefinement == Spec => PaysAsPromised
  <1>1. Init => PromiseInv
    BY DEF Init, PromiseInv, Owing, Unfound
  <1>2. Spec => []PromiseInv
    BY <1>1, PromiseInvStep, Invariance, PTL DEF Spec
  <1> QED
    BY <1>2, PromiseInit, PromiseStep, Invariance, PTL DEF Spec, PaysAsPromised, Promise!Spec
=============================================================================

---------------------------- MODULE OfferHandler ----------------------------
(***************************************************************************)
(* The payer's side of offers/handler.rs: the calls pay_offer, get_invoice *)
(* and pay_invoice of the server, each a task of its own, the shared       *)
(* active_payments and pending_messages, the handler that the messenger    *)
(* calls with invoices and invoice errors, and the payments LND makes.     *)
(*                                                                         *)
(* A step is what a task does between two points where another task can    *)
(* see or change shared state: an await, or the release of a lock.  The    *)
(* payment id of a call is 32 fresh random bytes, so the call itself names *)
(* it.  An invoice stands for its payment hash.                            *)
(***************************************************************************)
EXTENDS Integers, Sequences

CONSTANTS
    PayOfferCalls, GetInvoiceCalls, PayInvoiceCalls,  \* the calls, by kind
    Invoices,       \* the invoices an offer maker may send
    Paths,          \* Paths[i]: the introduction nodes of i's payment paths
    NoInvoice,      \* not an invoice
    InvoiceTimeout, \* response_invoice_timeout, in seconds
    PollInterval,   \* wait_for_invoice's sleep, in seconds
    MaxRestarts     \* bound: how often the process is restarted

OfferCalls == PayOfferCalls \cup GetInvoiceCalls
PayCalls   == PayOfferCalls \cup PayInvoiceCalls
Calls      == OfferCalls \cup PayInvoiceCalls

ASSUME HandlerAssumption ==
    /\ PayOfferCalls \cap GetInvoiceCalls = {}
    /\ OfferCalls \cap PayInvoiceCalls = {}
    /\ NoInvoice \notin Invoices
    /\ Paths \in [Invoices -> Seq({"node", "scid"})]
    /\ InvoiceTimeout \in Nat
    /\ PollInterval \in Nat \ {0}
    /\ MaxRestarts \in Nat

VARIABLES
    \* The calls.
    pc,         \* where a call is
    result,     \* how an ended call ended
    invoice,    \* the invoice a call holds: found by wait_for_invoice or given
    path,       \* the index of the payment path being tried
    age,        \* seconds since wait_for_invoice began
    due,        \* the age at which wait_for_invoice looks next
    \* The handler's shared state.
    active,     \* active_payments: a function from payment ids to PaymentInfo
    pending,    \* pending_messages: the invoice requests not yet released
    \* The world.
    requested,  \* the calls whose invoice request was handed to the network
    lnd,        \* LND's payment of an invoice
    launcher,   \* the call that made LND's last attempt for an invoice
    restarts,
    \* History.
    abandoned,  \* did an invoice error come, before or after the invoice was found
    storedAt,   \* the age at which handle_message stored an invoice
    faulted     \* the calls that lost their connection to LND while paying

callVars  == <<pc, result, invoice, path>>
waitVars  == <<age, due>>
lndVars   == <<lnd, launcher>>
worldVars == <<requested, restarts>>
history   == <<abandoned, storedAt, faulted>>
vars == <<callVars, waitVars, active, pending, lndVars, worldVars, history>>

Never == -1

PaymentState == {"InvoiceRequestCreated", "InvoiceReceived", "PaymentDispatched"}
PaymentInfo  == [state : PaymentState, invoice : Invoices \cup {NoInvoice}]

TypeOK ==
    /\ pc \in [Calls -> {"idle", "sending", "waiting", "got", "removing",
                         "paying", "routing", "launching", "launched",
                         "tracking", "done"}]
    /\ result \in [Calls -> {"none", "ok", "rejected", "unsent", "panicked",
                             "timeout", "unresolved", "failed", "cancelled",
                             "lost"}]
    /\ invoice \in [Calls -> Invoices \cup {NoInvoice}]
    /\ path \in [Calls -> Nat]
    /\ age \in [Calls -> 0..InvoiceTimeout]
    /\ due \in [Calls -> Nat]
    /\ \E D \in SUBSET OfferCalls : active \in [D -> PaymentInfo]
    /\ pending \in Seq(OfferCalls)
    /\ requested \subseteq OfferCalls
    /\ lnd \in [Invoices -> {"none", "inflight", "succeeded", "failed"}]
    /\ launcher \in [Invoices -> PayCalls \cup {"nobody"}]
    /\ restarts \in 0..MaxRestarts
    /\ abandoned \in [Calls -> {"no", "early", "late"}]
    /\ storedAt \in [Calls -> {Never} \cup 0..InvoiceTimeout]
    /\ faulted \subseteq PayCalls

Init ==
    /\ pc = [c \in Calls |-> "idle"]
    /\ result = [c \in Calls |-> "none"]
    /\ invoice = [c \in Calls |-> NoInvoice]
    /\ path = [c \in Calls |-> 1]
    /\ age = [c \in Calls |-> 0]
    /\ due = [c \in Calls |-> 0]
    /\ active = [c \in {} |-> NoInvoice]
    /\ pending = <<>>
    /\ requested = {}
    /\ lnd = [i \in Invoices |-> "none"]
    /\ launcher = [i \in Invoices |-> "nobody"]
    /\ restarts = 0
    /\ abandoned = [c \in Calls |-> "no"]
    /\ storedAt = [c \in Calls |-> Never]
    /\ faulted = {}

-----------------------------------------------------------------------------
(* Operations on active_payments.                                          *)

Inserted(c) ==
    [d \in DOMAIN active \cup {c} |->
        IF d = c THEN [state |-> "InvoiceRequestCreated", invoice |-> NoInvoice]
                 ELSE active[d]]

Without(c) == [d \in DOMAIN active \ {c} |-> active[d]]

\* entry(c).and_modify: nothing happens when c is not there.
WithState(c, s) ==
    [d \in DOMAIN active |->
        IF d = c THEN [active[d] EXCEPT !.state = s] ELSE active[d]]

Goto(c, l) == pc' = [pc EXCEPT ![c] = l] /\ UNCHANGED result

End(c, r) ==
    /\ pc' = [pc EXCEPT ![c] = "done"]
    /\ result' = [result EXCEPT ![c] = r]

-----------------------------------------------------------------------------
(* get_invoice, the first half of pay_offer.                               *)

\* The offer or the amount is refused before anything is recorded.
Reject(c) ==
    /\ pc[c] = "idle"
    /\ End(c, "rejected")
    /\ UNCHANGED <<invoice, path, waitVars, active, pending, lndVars, worldVars, history>>

CreateRequest(c) ==
    /\ pc[c] = "idle"
    /\ c \notin DOMAIN active
    /\ active' = Inserted(c)
    /\ Goto(c, "sending")
    /\ UNCHANGED <<invoice, path, waitVars, pending, lndVars, worldVars, history>>

\* send_invoice_request fails: no connection to the introduction node, or no
\* reply path.
RequestFails(c) ==
    /\ pc[c] = "sending"
    /\ active' = Without(c)
    /\ End(c, "unsent")
    /\ UNCHANGED <<invoice, path, waitVars, pending, lndVars, worldVars, history>>

\* send_invoice_request expects get_info to succeed and panics when it does not.
RequestPanics(c) ==
    /\ pc[c] = "sending"
    /\ End(c, "panicked")
    /\ UNCHANGED <<invoice, path, waitVars, active, pending, lndVars, worldVars, history>>

PushRequest(c) ==
    /\ pc[c] = "sending"
    /\ pending' = Append(pending, c)
    /\ Goto(c, "waiting")
    /\ UNCHANGED <<invoice, path, waitVars, active, lndVars, worldVars, history>>

\* Mutant: the wait is not cut off at the timeout.
Tick_Unbounded(c) ==
    /\ pc[c] = "waiting"
    /\ age[c] < due[c]
    /\ age' = [age EXCEPT ![c] = @ + 1]
    /\ UNCHANGED <<callVars, due, active, pending, lndVars, worldVars, history>>

\* A second passes for c.  The sleeping task is woken when its time has come.
Tick(c) ==
    /\ pc[c] = "waiting"
    /\ age[c] < due[c]
    /\ age[c] < InvoiceTimeout
    /\ age' = [age EXCEPT ![c] = @ + 1]
    /\ UNCHANGED <<callVars, due, active, pending, lndVars, worldVars, history>>

\* Mutant: wait_for_invoice looks once and not again.
NextLook_Once(c) == InvoiceTimeout + 1

NextLook(c) == age[c] + PollInterval

HasInvoice(c) == c \in DOMAIN active /\ active[c].invoice # NoInvoice

\* One turn of wait_for_invoice's loop.
Poll(c) ==
    /\ pc[c] = "waiting"
    /\ age[c] = due[c]
    /\ \/ /\ HasInvoice(c)
          /\ invoice' = [invoice EXCEPT ![c] = active[c].invoice]
          /\ Goto(c, "got")
          /\ UNCHANGED due
       \/ /\ ~HasInvoice(c)
          /\ due' = [due EXCEPT ![c] = NextLook(c)]
          /\ UNCHANGED <<pc, result, invoice>>
    /\ UNCHANGED <<path, age, active, pending, lndVars, worldVars, history>>

\* Mutant: only a payment that an invoice error removed is given up.
TimeoutFires_IfRemoved(c) ==
    /\ pc[c] = "waiting"
    /\ age[c] = InvoiceTimeout
    /\ age[c] < due[c]
    /\ c \notin DOMAIN active
    /\ End(c, "timeout")
    /\ UNCHANGED <<invoice, path, waitVars, active, pending, lndVars, worldVars, history>>

TimeoutFires(c) ==
    /\ pc[c] = "waiting"
    /\ age[c] = InvoiceTimeout
    /\ age[c] < due[c]
    /\ active' = Without(c)
    /\ End(c, "timeout")
    /\ UNCHANGED <<invoice, path, waitVars, pending, lndVars, worldVars, history>>

MarkReceived(c) ==
    /\ pc[c] = "got"
    /\ active' = WithState(c, "InvoiceReceived")
    /\ Goto(c, IF c \in GetInvoiceCalls THEN "removing" ELSE "paying")
    /\ UNCHANGED <<invoice, path, waitVars, pending, lndVars, worldVars, history>>

\* remove_active_payment, called by the server's get_invoice.
RemoveActivePayment(c) ==
    /\ pc[c] = "removing"
    /\ active' = Without(c)
    /\ End(c, "ok")
    /\ UNCHANGED <<invoice, path, waitVars, pending, lndVars, worldVars, history>>

-----------------------------------------------------------------------------
(* pay_invoice: the second half of pay_offer and the call of that name,    *)
(* which has no entry in active_payments.                                  *)

PayInvoice(c, i) ==
    /\ pc[c] = "idle"
    /\ invoice' = [invoice EXCEPT ![c] = i]
    /\ Goto(c, "paying")
    /\ UNCHANGED <<path, waitVars, active, pending, lndVars, worldVars, history>>

HasPath(c) == path[c] <= Len(Paths[invoice[c]])
Intro(c)   == Paths[invoice[c]][path[c]]

\* continue: on to the next path.
TryNext(c) ==
    /\ path' = [path EXCEPT ![c] = @ + 1]
    /\ Goto(c, "paying")

\* The introduction node is known, or get_node_id_from_scid finds it.
TakePath(c) ==
    /\ pc[c] = "paying"
    /\ HasPath(c)
    /\ Goto(c, "routing")
    /\ UNCHANGED <<invoice, path, waitVars, active, pending, lndVars, worldVars, history>>

\* get_node_id_from_scid fails and `?` leaves pay_invoice at once.
ResolveFails(c) ==
    /\ pc[c] = "paying"
    /\ HasPath(c)
    /\ Intro(c) = "scid"
    /\ End(c, "unresolved")
    /\ UNCHANGED <<invoice, path, waitVars, active, pending, lndVars, worldVars, history>>

\* Mutant: the entry is left behind when every path has failed.
OutOfPaths_Keeps(c) ==
    /\ pc[c] = "paying"
    /\ ~HasPath(c)
    /\ End(c, "failed")
    /\ UNCHANGED <<invoice, path, waitVars, active, pending, lndVars, worldVars, history>>

OutOfPaths(c) ==
    /\ pc[c] = "paying"
    /\ ~HasPath(c)
    /\ active' = Without(c)
    /\ End(c, "failed")
    /\ UNCHANGED <<invoice, path, waitVars, pending, lndVars, worldVars, history>>

\* query_routes.  It turns the hex string of the node found for an scid into a
\* key with from_slice, which takes 33 bytes and gets 66: such a path has no route.
RouteFound(c) ==
    /\ pc[c] = "routing"
    /\ Intro(c) = "node"
    /\ Goto(c, "launching")
    /\ UNCHANGED <<invoice, path, waitVars, active, pending, lndVars, worldVars, history>>

\* query_routes succeeds with an empty list, and the first of its routes is taken:
\* the call's task panics.
RoutesMissing(c) ==
    /\ pc[c] = "routing"
    /\ Intro(c) = "node"
    /\ End(c, "panicked")
    /\ UNCHANGED <<invoice, path, waitVars, active, pending, lndVars, worldVars, history>>

NoRoute(c) ==
    /\ pc[c] = "routing"
    /\ TryNext(c)
    /\ UNCHANGED <<invoice, waitVars, active, pending, lndVars, worldVars, history>>

\* send_to_route: LND refuses a hash that is in flight or paid.
SendToRoute(c) ==
    /\ pc[c] = "launching"
    /\ lnd[invoice[c]] \in {"none", "failed"}
    /\ lnd' = [lnd EXCEPT ![invoice[c]] = "inflight"]
    /\ launcher' = [launcher EXCEPT ![invoice[c]] = c]
    /\ Goto(c, "launched")
    /\ UNCHANGED <<invoice, path, waitVars, active, pending, worldVars, history>>

SendRefused(c) ==
    /\ pc[c] = "launching"
    /\ lnd[invoice[c]] \in {"inflight", "succeeded"}
    /\ TryNext(c)
    /\ UNCHANGED <<invoice, waitVars, active, pending, lndVars, worldVars, history>>

AttemptOver(c) == lnd[invoice[c]] # "inflight" \/ launcher[invoice[c]] # c

\* Mutant: an answer that takes too long is an error.
SendReturns_Impatient(c) ==
    /\ pc[c] = "launched"
    /\ \/ /\ AttemptOver(c)
          /\ active' = WithState(c, "PaymentDispatched")
          /\ Goto(c, "tracking")
          /\ UNCHANGED path
       \/ /\ TryNext(c)
          /\ UNCHANGED active
    /\ UNCHANGED <<invoice, waitVars, pending, lndVars, worldVars, history>>

\* send_to_route answers once the attempt is over.  Its status is only logged.
SendReturns(c) ==
    /\ pc[c] = "launched"
    /\ AttemptOver(c)
    /\ active' = WithState(c, "PaymentDispatched")
    /\ Goto(c, "tracking")
    /\ UNCHANGED <<invoice, path, waitVars, pending, lndVars, worldVars, history>>

\* Mutant: the first final status that LND sends is taken for a success.
Settled_AnyFinal(c) == lnd[invoice[c]] \in {"succeeded", "failed"}

Settled(c) == lnd[invoice[c]] = "succeeded"

\* track_payment ends with a payment that succeeded.
TrackSucceeds(c) ==
    /\ pc[c] = "tracking"
    /\ Settled(c)
    /\ active' = Without(c)
    /\ End(c, "ok")
    /\ UNCHANGED <<invoice, path, waitVars, pending, lndVars, worldVars, history>>

TrackFails(c) ==
    /\ pc[c] = "tracking"
    /\ lnd[invoice[c]] = "failed"
    /\ TryNext(c)
    /\ UNCHANGED <<invoice, waitVars, active, pending, lndVars, worldVars, history>>

\* The connection to LND breaks while send_to_route or track_payment waits: an
\* error like any other to pay_invoice, whatever becomes of the payment.
ConnectionLost(c) ==
    /\ pc[c] \in {"launched", "tracking"}
    /\ TryNext(c)
    /\ faulted' = faulted \cup {c}
    /\ UNCHANGED <<invoice, waitVars, active, pending, lndVars, worldVars,
                   abandoned, storedAt>>

-----------------------------------------------------------------------------
(* The messenger's side: release_pending_messages and handle_message.      *)

ReleasePendingMessages ==
    /\ pending # <<>>
    /\ requested' = requested \cup {pending[k] : k \in 1..Len(pending)}
    /\ pending' = <<>>
    /\ UNCHANGED <<callVars, waitVars, active, lndVars, restarts, history>>

\* Mutant: a later invoice takes the place of the first.
Stores_Again(c) == c \in DOMAIN active

Stores(c) == c \in DOMAIN active /\ active[c].invoice = NoInvoice

Stored(c, i) ==
    [d \in DOMAIN active |->
        IF d = c THEN [state |-> "InvoiceReceived", invoice |-> i] ELSE active[d]]

\* Mutant: an invoice for a payment that is not there makes an entry.
HandleInvoice_Inserts(c, i) ==
    /\ c \in requested
    /\ active' = [d \in DOMAIN active \cup {c} |->
                    IF d = c THEN [state |-> "InvoiceReceived", invoice |-> i]
                             ELSE active[d]]
    /\ storedAt' = [storedAt EXCEPT ![c] = age[c]]
    /\ UNCHANGED <<callVars, waitVars, pending, lndVars, worldVars, abandoned, faulted>>

\* An invoice that verifies for c's payment id: it is stored if the payment is
\* still waited for and has none, and ignored otherwise.
HandleInvoice(c, i) ==
    /\ c \in requested
    /\ Stores(c)
    /\ active' = Stored(c, i)
    /\ storedAt' = [storedAt EXCEPT ![c] = age[c]]
    /\ UNCHANGED <<callVars, waitVars, pending, lndVars, worldVars, abandoned, faulted>>

\* An invoice error that verifies for c's payment id: the payment is abandoned.
HandleInvoiceError(c) ==
    /\ c \in requested
    /\ active' = Without(c)
    /\ abandoned' = [abandoned EXCEPT ![c] =
          IF @ # "no" THEN @ ELSE IF invoice[c] = NoInvoice THEN "early" ELSE "late"]
    /\ UNCHANGED <<callVars, waitVars, pending, lndVars, worldVars, storedAt, faulted>>

-----------------------------------------------------------------------------
(* The environment: LND's payments, clients that go away, restarts.        *)

LndFinishes(i, outcome) ==
    /\ lnd[i] = "inflight"
    /\ lnd' = [lnd EXCEPT ![i] = outcome]
    /\ UNCHANGED <<callVars, waitVars, active, pending, launcher, worldVars, history>>

\* The client of a call goes away and the server drops the call's future at the
\* await it is in.
Cancel(c) ==
    /\ pc[c] \in {"sending", "waiting", "routing", "launching", "launched", "tracking"}
    /\ End(c, "cancelled")
    /\ UNCHANGED <<invoice, path, waitVars, active, pending, lndVars, worldVars, history>>

\* Nothing of the handler is stored on disk.
Restart ==
    /\ restarts < MaxRestarts
    /\ restarts' = restarts + 1
    /\ pc' = [c \in Calls |-> IF pc[c] = "idle" THEN "idle" ELSE "done"]
    /\ result' = [c \in Calls |->
                    IF pc[c] \in {"idle", "done"} THEN result[c] ELSE "lost"]
    /\ active' = [c \in {} |-> NoInvoice]
    /\ pending' = <<>>
    /\ UNCHANGED <<invoice, path, waitVars, lndVars, requested, history>>

-----------------------------------------------------------------------------

\* What a call does by itself once it is under way.
GetInvoiceStep(c) ==
    \/ RequestFails(c) \/ PushRequest(c)
    \/ Tick(c) \/ Poll(c) \/ TimeoutFires(c) \/ MarkReceived(c)
    \/ RemoveActivePayment(c)

PayInvoiceStep(c) ==
    \/ TakePath(c) \/ ResolveFails(c) \/ OutOfPaths(c)
    \/ RouteFound(c) \/ NoRoute(c) \/ SendToRoute(c) \/ SendRefused(c)
    \/ SendReturns(c) \/ TrackSucceeds(c) \/ TrackFails(c)

Next ==
    \/ \E c \in Calls : Reject(c) \/ Cancel(c)
    \/ \E c \in OfferCalls : \/ CreateRequest(c) \/ GetInvoiceStep(c)
                             \/ RequestPanics(c) \/ HandleInvoiceError(c)
    \/ \E c \in OfferCalls, i \in Invoices : HandleInvoice(c, i)
    \/ \E c \in PayInvoiceCalls, i \in Invoices : PayInvoice(c, i)
    \/ \E c \in PayCalls : PayInvoiceStep(c) \/ RoutesMissing(c) \/ ConnectionLost(c)
    \/ ReleasePendingMessages
    \/ \E i \in Invoices, o \in {"succeeded", "failed"} : LndFinishes(i, o)
    \/ Restart

\* tokio runs every task that can run, and time passes; LND answers, and it
\* resolves what is in flight: an HTLC that nobody settles times out.  Nothing
\* makes clients call, peers reply or connections break.
Fairness ==
    /\ \A c \in OfferCalls : WF_vars(GetInvoiceStep(c))
    /\ \A c \in PayCalls : WF_vars(PayInvoiceStep(c))
    /\ \A i \in Invoices : WF_vars(\E o \in {"succeeded", "failed"} : LndFinishes(i, o))

Spec == Init /\ [][Next]_vars

FairSpec == Spec /\ Fairness

-----------------------------------------------------------------------------
Ended(c) == pc[c] = "done"

\* No call leaves its payment id behind, however late an invoice arrives, except
\* where pay_invoice returns through `?`, panics or is dropped by the server.
EndedIsForgotten ==
    \A c \in DOMAIN active :
        Ended(c) => result[c] \in {"unresolved", "panicked", "cancelled"}

\* The entry agrees with the call it belongs to: it has left its first state
\* exactly when an invoice is stored, that invoice is never replaced once the
\* call has found it, and it says dispatched while the payment is tracked.
EntryTracksCall ==
    \A c \in DOMAIN active :
        /\ active[c].state = "InvoiceRequestCreated" <=> active[c].invoice = NoInvoice
        /\ invoice[c] # NoInvoice => active[c].invoice = invoice[c]
        /\ pc[c] = "tracking" => active[c].state = "PaymentDispatched"

\* An invoice error that comes before the call has found an invoice ends the
\* payment: no invoice that arrives later revives it (handle_invoice_error).
AbandonedEarlyNeverPays ==
    \A c \in OfferCalls : abandoned[c] = "early" => invoice[c] = NoInvoice

\* A call that is over is done with LND: unless it lost its connection to LND, or was
\* itself dropped, no HTLC it launched is in flight when it returns, by whichever of
\* pay_invoice's ways out.
FailureIsFinal ==
    \A c \in PayCalls \ faulted, i \in Invoices :
        result[c] \notin {"none", "cancelled", "lost"}
            => ~(lnd[i] = "inflight" /\ launcher[i] = c)

\* What the client of c may conclude from how the call ended.
Report(c) ==
    IF result[c] = "none" THEN "open"
    ELSE IF result[c] = "ok" THEN "paid"
    ELSE IF result[c] \in {"cancelled", "lost"} \/ c \in faulted THEN "unknown"
    ELSE "unpaid"

Promise == INSTANCE Payments
    WITH Calls <- PayCalls, Nobody <- "nobody", ledger <- lnd, by <- launcher,
         held <- [c \in PayCalls |-> invoice[c]],
         report <- [c \in PayCalls |-> Report(c)]

\* pay_offer and pay_invoice keep the promise of Payments: no interleaving of calls,
\* replies, broken connections and restarts pays an invoice twice, and the client of
\* a call that failed may pay again, since nothing it launched is or will be paid.
PaysAsPromised == Promise!Spec

\* An invoice is missed only in the last moments: when get_invoice times out, an
\* invoice stored earlier than one PollInterval before would have been found.
OnlyLastMomentMissed ==
    \A c \in OfferCalls :
        result[c] = "timeout" /\ abandoned[c] = "no" /\ storedAt[c] # Never
            => InvoiceTimeout - storedAt[c] < PollInterval

\* Every call ends: with the timeout of get_invoice, and because each path is
\* tried once and LND resolves what is in flight.
EveryCallEnds == \A c \in Calls : pc[c] # "idle" ~> Ended(c)

-----------------------------------------------------------------------------
(* What comments and messages of the code say that it does not do.         *)

\* "if this method returns an error after create_invoice_request is called, we
\* must remove the payment_id": pay_invoice's `?` on get_node_id_from_scid does not.
ErrorRemovesPaymentId ==
    \A c \in DOMAIN active :
        result[c] \notin {"rejected", "unsent", "timeout", "unresolved", "failed"}
=============================================================================

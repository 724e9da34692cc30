------------------------- MODULE OfferExchangeProofs -------------------------
(***************************************************************************)
(* For any calls, channels, amounts and bounds: what a payer is asked for  *)
(* is enough for LND, replies never share a payment hash, LND holds no     *)
(* stray invoice, and an offer has one to three paths.                     *)
(***************************************************************************)
EXTENDS OfferExchange, FiniteSetTheorems, TLAPS

-----------------------------------------------------------------------------
(* The inductive invariant.                                                *)

\* A request that a payer works on or has sent is for an offer that exists, and
\* its amount covers the one of the offer.
RequestsCover ==
    \A p \in PayCalls : pc[p] \in {"listing", "asking", "done"} =>
       /\ wants[p] \in OfferCalls /\ pc[wants[p]] = "done"
       /\ amount[p] \in Nat
       /\ Expected(wants[p]) <= amount[p]

\* The consumer handles a request that was sent and delivered, at first without an
\* invoice.
HandlesRequest ==
    /\ step # "idle" => request \in PayCalls /\ pc[request] = "done" /\ taken >= 1
    /\ step \in {"idle", "adding"} => hash = 0

\* The invoice being handled is the last of LND's, for the amount of the offer,
\* and no reply has its hash.
HandlesInvoice ==
    step \in {"decoding", "building"} =>
       /\ hash = Len(invoices) /\ hash >= 1
       /\ invoices[hash] = Expected(wants[request])
       /\ \A r \in Replies : r.hash # hash
       /\ cause[hash] = taken

\* The request that caused an invoice is the one that its reply answers, so that a
\* restart, which loses the reply, is held to account for the invoice.
CausesKnown ==
    /\ Len(cause) = Len(invoices)
    /\ \A r \in Replies : cause[r.hash] = r.delivery

IntroFinite == \A c \in Calls : IsFiniteSet(intro[c])

IInv ==
    /\ TypeOK
    /\ RequestsCover
    /\ HandlesRequest
    /\ HandlesInvoice
    /\ PayableAsAsked
    /\ OwnHash
    /\ CausesKnown
    /\ NoStrayInvoice
    /\ IntroFinite

TodoOK ==
    /\ todo \in [Calls -> Seq(Nat)]
    /\ \A c \in Calls : todo[c] \in Seq(DOMAIN Listed(c))

\* A call's list stays one of the entries that LND has listed for it.
LEMMA TodoTyped ==
  ASSUME TypeOK, NEW c \in Calls, NEW q \in Seq(Nat), q \in Seq(DOMAIN Listed(c)),
         todo' = [todo EXCEPT ![c] = q]
  PROVE  TodoOK'
<1>1. todo' \in [Calls -> Seq(Nat)]
  BY DEF TypeOK
<1>2. ASSUME NEW d \in Calls PROVE todo'[d] \in Seq(DOMAIN Listed(d))
  <2>1. CASE d = c
    BY <2>1 DEF TypeOK
  <2>2. CASE d # c
    BY <2>2 DEF TypeOK
  <2> QED
    BY <2>1, <2>2
<1> QED
  BY <1>1, <1>2 DEF TodoOK, Listed

Elements(q) == {q[i] : i \in DOMAIN q}

\* What Respond does to the set of the replies.
LEMMA RangeAppend ==
  ASSUME NEW S, NEW q \in Seq(S), NEW x \in S
  PROVE  Elements(Append(q, x)) = Elements(q) \cup {x}
<1>1. DOMAIN Append(q, x) = 1..Len(q) + 1 /\ DOMAIN q = 1..Len(q) /\ Len(q) \in Nat
  OBVIOUS
<1>2. \A i \in 1..Len(q) : Append(q, x)[i] = q[i]
  OBVIOUS
<1>3. Append(q, x)[Len(q) + 1] = x
  OBVIOUS
<1> QED
  BY <1>1, <1>2, <1>3 DEF Elements

\* An action that leaves the recipient's task, LND and the replies alone, and of
\* the calls neither the amounts of what is done nor what is done, keeps what the
\* invariant says of them.
LEMMA Undisturbed ==
  ASSUME IInv, TypeOK', UNCHANGED <<handling, outVars, ledger, history>>,
         RequestsCover', IntroFinite',
         \A p \in PayCalls : pc[p] = "done" => pc'[p] = "done" /\ wants'[p] = wants[p],
         \A o \in OfferCalls : pc[o] = "done" => amount'[o] = amount[o]
  PROVE  IInv'
<1>1. HandlesRequest'
  BY DEF IInv, HandlesRequest, handling, history
<1>2. Unreleased' = Unreleased /\ Replies' = Replies
  BY DEF outVars, Unreleased, Replies
<1>3. HandlesInvoice'
  BY <1>2 DEF IInv, HandlesInvoice, HandlesRequest, RequestsCover, Expected, handling,
              ledger, history
<1>4. PayableAsAsked' /\ OwnHash'
  BY <1>2 DEF IInv, PayableAsAsked, OwnHash, ledger
<1>5. CausesKnown' /\ NoStrayInvoice'
  BY <1>2 DEF IInv, CausesKnown, NoStrayInvoice, ledger, handling, outVars, history
<1> QED
  BY <1>1, <1>3, <1>4, <1>5 DEF IInv

-----------------------------------------------------------------------------
\* Every action keeps the invariant.
LEMMA Inductive == IInv /\ [Next]_vars => IInv'
<1> SUFFICES ASSUME IInv, [Next]_vars PROVE IInv'
  OBVIOUS
<1> USE ExchangeAssumption
<1> USE DEF Goto, callVars, search, world, handling, outVars, ledger, history, Calls
<1>1. ASSUME NEW o \in OfferCalls, Expire(o) PROVE IInv'
  <2>1. TypeOK' /\ RequestsCover' /\ IntroFinite'
    BY <1>1 DEF Expire, IInv, TypeOK, RequestsCover, IntroFinite, Expected
  <2> QED
    BY <1>1, <2>1, Undisturbed DEF Expire
<1>2. ASSUME NEW o \in OfferCalls, NEW a \in Amounts \cup {NoAmount}, CreateOffer(o, a)
      PROVE IInv'
  <2>1. TypeOK'
    BY <1>2 DEF CreateOffer, IInv, TypeOK
  <2>2. RequestsCover'
    BY <1>2 DEF CreateOffer, IInv, TypeOK, RequestsCover, Expected
  <2>3. IntroFinite'
    BY <1>2 DEF CreateOffer, IInv, IntroFinite
  <2> QED
    BY <1>2, <2>1, <2>2, <2>3, Undisturbed DEF CreateOffer, IInv, TypeOK
<1>3. ASSUME NEW o \in OfferCalls, NEW p \in PayCalls,
             NEW u \in Amounts \cup {NoAmount}, RequestInvoice(p, o, u)
      PROVE IInv'
  <2>1. amount[o] \in Nat \cup {NoAmount}
    BY DEF IInv, TypeOK
  <2>2. /\ validate_amount(amount[o], u) \in Nat \cup {NoAmount}
        /\ validate_amount(amount[o], u) \in Nat => Expected(o) <= validate_amount(amount[o], u)
    BY <2>1 DEF validate_amount, Expected
  <2>3. TypeOK' /\ RequestsCover'
    <3> DEFINE v == validate_amount(amount[o], u)
    <3>1. CASE v = NoAmount
      <4>1. pc' = [pc EXCEPT ![p] = "failed"] /\ UNCHANGED <<amount, wants>>
        BY <1>3, <3>1 DEF RequestInvoice
      <4>2. TypeOK'
        BY <1>3, <4>1 DEF RequestInvoice, IInv, TypeOK
      <4>3. RequestsCover'
        BY <1>3, <4>1 DEF RequestInvoice, IInv, TypeOK, RequestsCover, Expected
      <4> QED
        BY <4>2, <4>3
    <3>2. CASE v # NoAmount
      <4> HIDE DEF v
      <4>1. /\ pc' = [pc EXCEPT ![p] = "listing"]
            /\ amount' = [amount EXCEPT ![p] = v]
            /\ wants' = [wants EXCEPT ![p] = o]
        BY <1>3, <3>2 DEF RequestInvoice, v
      <4>2. v \in Nat /\ Expected(o) <= v
        BY <2>2, <3>2 DEF v
      <4>3. TypeOK'
        BY <1>3, <4>1, <4>2 DEF RequestInvoice, IInv, TypeOK
      <4>4. \A q \in OfferCalls : amount'[q] = amount[q] /\ pc'[q] = pc[q]
        BY <4>1 DEF IInv, TypeOK
      <4>5. ASSUME NEW q \in PayCalls, pc'[q] \in {"listing", "asking", "done"}
            PROVE /\ wants'[q] \in OfferCalls /\ pc'[wants'[q]] = "done"
                  /\ amount'[q] \in Nat
                  /\ Expected(wants[q])' <= amount'[q]
        <5>1. CASE q = p
          BY <1>3, <5>1, <4>1, <4>2, <4>4 DEF RequestInvoice, Expected, IInv, TypeOK
        <5>2. CASE q # p
          BY <5>2, <4>1, <4>4, <4>5 DEF IInv, TypeOK, RequestsCover, Expected
        <5> QED
          BY <5>1, <5>2
      <4> QED
        BY <4>3, <4>5 DEF RequestsCover, Expected
    <3> QED
      BY <3>1, <3>2
  <2>5. IntroFinite'
    BY <1>3 DEF RequestInvoice, IInv, IntroFinite
  <2> QED
    BY <1>3, <2>3, <2>5, Undisturbed DEF RequestInvoice, IInv, TypeOK
<1>4. ASSUME NEW c \in Calls, NEW n \in 0..Len(Listed(c)), List(c, n) PROVE IInv'
  <2>1. [i \in 1..n |-> i] \in Seq(Nat) /\ [i \in 1..n |-> i] \in Seq(DOMAIN Listed(c))
    BY DEF Listed
  <2>2. TypeOK'
    BY <1>4, <2>1 DEF List, IInv, TypeOK
  <2>3. RequestsCover' /\ IntroFinite'
    BY <1>4 DEF List, IInv, TypeOK, RequestsCover, Expected, IntroFinite
  <2> QED
    BY <1>4, <2>2, <2>3, Undisturbed DEF List, IInv, TypeOK
<1>5. ASSUME NEW o \in OfferCalls, AskChannel(o) PROVE IInv'
  <2>1. Head(todo[o]) \in DOMAIN Channels /\ Channels[Head(todo[o])] \in Nodes
    BY <1>5 DEF AskChannel, IInv, TypeOK, Listed
  <2>2. Tail(todo[o]) \in Seq(Nat) /\ Tail(todo[o]) \in Seq(DOMAIN Listed(o))
    BY <1>5 DEF AskChannel, IInv, TypeOK
  <2>3. intro' = intro
        \/ intro' = [intro EXCEPT ![o] = @ \cup {Channels[Head(todo[o])]}]
    BY <1>5 DEF AskChannel, IInv, TypeOK
  <2>4. TypeOK'
    <3>1. TodoOK'
      BY <1>5, <2>2, TodoTyped DEF AskChannel, IInv
    <3>2. intro' \in [Calls -> SUBSET Nodes]
      <4>1. intro \in [Calls -> SUBSET Nodes]
        BY DEF IInv, TypeOK
      <4>2. intro[o] \cup {Channels[Head(todo[o])]} \in SUBSET Nodes
        BY <4>1, <2>1
      <4> QED
        BY <4>1, <4>2, <2>3
    <3> QED
      BY <1>5, <3>1, <3>2 DEF AskChannel, IInv, TypeOK, TodoOK
  <2>5. IntroFinite'
    <3>1. IsFiniteSet(intro[o] \cup {Channels[Head(todo[o])]})
      BY FS_AddElement DEF IInv, IntroFinite
    <3> QED
      BY <2>3, <3>1 DEF IInv, IntroFinite, TypeOK
  <2>6. RequestsCover'
    BY <1>5 DEF AskChannel, IInv, RequestsCover, Expected
  <2> QED
    BY <1>5, <2>4, <2>5, <2>6, Undisturbed DEF AskChannel
<1>6. ASSUME NEW p \in PayCalls, AskPeer(p) PROVE IInv'
  <2>1. Head(todo[p]) \in DOMAIN Neighbours /\ Neighbours[Head(todo[p])] \in Nodes
    BY <1>6 DEF AskPeer, IInv, TypeOK, Listed
  <2>2. Tail(todo[p]) \in Seq(Nat) /\ Tail(todo[p]) \in Seq(DOMAIN Listed(p))
    BY <1>6 DEF AskPeer, IInv, TypeOK
  <2>3. intro' = intro \/ intro' = [intro EXCEPT ![p] = {Neighbours[Head(todo[p])]}]
    BY <1>6 DEF AskPeer
  <2>4. TypeOK'
    <3>1. TodoOK'
      BY <1>6, <2>2, TodoTyped DEF AskPeer, IInv
    <3>2. intro' \in [Calls -> SUBSET Nodes]
      <4>1. intro \in [Calls -> SUBSET Nodes]
        BY DEF IInv, TypeOK
      <4>2. {Neighbours[Head(todo[p])]} \in SUBSET Nodes
        BY <2>1
      <4> QED
        BY <4>1, <4>2, <2>3
    <3> QED
      BY <1>6, <3>1, <3>2 DEF AskPeer, IInv, TypeOK, TodoOK
  <2>5. IntroFinite'
    <3>1. IsFiniteSet({Neighbours[Head(todo[p])]})
      BY FS_Singleton
    <3> QED
      BY <2>3, <3>1 DEF IInv, IntroFinite, TypeOK
  <2>6. RequestsCover'
    BY <1>6 DEF AskPeer, IInv, RequestsCover, Expected
  <2> QED
    BY <1>6, <2>4, <2>5, <2>6, Undisturbed DEF AskPeer
<1>7. ASSUME NEW c \in Calls, EndSearch(c) PROVE IInv'
  <2>1. \A S \in Chosen(BlindedPaths(intro[c])) : S \in SUBSET (Nodes \cup {Self})
    BY DEF Chosen, BlindedPaths, IInv, TypeOK
  <2>2. paths' \in [Calls -> SUBSET (Nodes \cup {Self})]
    BY <1>7, <2>1 DEF EndSearch, IInv, TypeOK
  <2>3. TypeOK'
    <3>1. TodoOK'
      <4>1. <<>> \in Seq(Nat) /\ <<>> \in Seq(DOMAIN Listed(c))
        OBVIOUS
      <4>2. todo' = [todo EXCEPT ![c] = <<>>]
        BY <1>7 DEF EndSearch
      <4> QED
        BY <4>1, <4>2, TodoTyped DEF IInv
    <3>2. intro' \in [Calls -> SUBSET Nodes]
      BY <1>7 DEF EndSearch, IInv, TypeOK
    <3> QED
      BY <1>7, <2>2, <3>1, <3>2 DEF EndSearch, IInv, TypeOK, TodoOK
  <2>4. IntroFinite'
    BY <1>7, FS_EmptySet DEF EndSearch, IInv, IntroFinite, TypeOK
  <2>5. RequestsCover'
    BY <1>7 DEF EndSearch, SearchOver, IInv, TypeOK, RequestsCover, Expected
  <2> QED
    BY <1>7, <2>3, <2>4, <2>5, Undisturbed DEF EndSearch, SearchOver, IInv, TypeOK
<1>8. ASSUME NEW c \in Calls, CallFails(c) PROVE IInv'
  <2>1. pc[c] # "done"
    BY <1>8 DEF CallFails, SearchOver
  <2>2. TypeOK'
    <3>1. TodoOK'
      <4>1. <<>> \in Seq(Nat) /\ <<>> \in Seq(DOMAIN Listed(c))
        OBVIOUS
      <4>2. todo' = [todo EXCEPT ![c] = <<>>]
        BY <1>8 DEF CallFails
      <4> QED
        BY <4>1, <4>2, TodoTyped DEF IInv
    <3>2. intro' \in [Calls -> SUBSET Nodes]
      BY <1>8 DEF CallFails, IInv, TypeOK
    <3> QED
      BY <1>8, <3>1, <3>2 DEF CallFails, IInv, TypeOK, TodoOK
  <2>3. IntroFinite'
    BY <1>8, FS_EmptySet DEF CallFails, IInv, IntroFinite, TypeOK
  <2>4. RequestsCover'
    BY <1>8, <2>1 DEF CallFails, IInv, TypeOK, RequestsCover, Expected
  <2> QED
    BY <1>8, <2>1, <2>2, <2>3, <2>4, Undisturbed DEF CallFails, IInv, TypeOK
<1>9. ASSUME NEW p \in PayCalls, Deliver(p) PROVE IInv'
  <2>1. TypeOK'
    BY <1>9 DEF Deliver, IInv, TypeOK
  <2>2. RequestsCover' /\ IntroFinite' /\ PayableAsAsked' /\ OwnHash'
    BY <1>9 DEF Deliver, IInv, RequestsCover, Expected, IntroFinite, PayableAsAsked,
                OwnHash, Replies, Unreleased
  <2>3. HandlesRequest' /\ HandlesInvoice'
    BY <1>9 DEF Deliver, IInv, TypeOK, HandlesRequest, HandlesInvoice
  <2>4. CausesKnown' /\ NoStrayInvoice'
    <3>1. Replies' = Replies
      BY <1>9 DEF Deliver, Replies, Unreleased
    <3> QED
      BY <1>9, <3>1 DEF Deliver, IInv, CausesKnown, NoStrayInvoice
  <2> QED
    BY <2>1, <2>2, <2>3, <2>4 DEF IInv
<1>10. CASE Ignore
  <2>1. TypeOK'
    BY <1>10 DEF Ignore, IInv, TypeOK
  <2>2. RequestsCover' /\ IntroFinite' /\ PayableAsAsked' /\ OwnHash'
    BY <1>10 DEF Ignore, IInv, RequestsCover, Expected, IntroFinite, PayableAsAsked,
                 OwnHash, Replies, Unreleased
  <2>3. HandlesRequest' /\ HandlesInvoice'
    BY <1>10 DEF Ignore, IInv, TypeOK, HandlesRequest, HandlesInvoice
  <2>4. CausesKnown' /\ NoStrayInvoice'
    <3>1. Replies' = Replies
      BY <1>10 DEF Ignore, Replies, Unreleased
    <3> QED
      BY <1>10, <3>1 DEF Ignore, IInv, CausesKnown, NoStrayInvoice
  <2> QED
    BY <2>1, <2>2, <2>3, <2>4 DEF IInv
<1>11. CASE add_invoice
  <2>1. request \in PayCalls /\ wants[request] \in OfferCalls /\ Expected(wants[request]) \in Nat
    BY <1>11 DEF add_invoice, IInv, TypeOK, HandlesRequest, RequestsCover, Expected
  <2>t. taken \in 1..MaxDeliveries
    BY <1>11 DEF add_invoice, IInv, TypeOK, HandlesRequest
  <2>2. TypeOK'
    BY <1>11, <2>1, <2>t DEF add_invoice, IInv, TypeOK
  <2>3. RequestsCover' /\ IntroFinite' /\ HandlesRequest'
    BY <1>11 DEF add_invoice, IInv, RequestsCover, Expected, IntroFinite, HandlesRequest
  <2>4. Unreleased' = Unreleased /\ Replies' = Replies
    BY <1>11 DEF add_invoice, Unreleased, Replies
  <2>5. /\ Len(invoices') = Len(invoices) + 1
        /\ invoices'[Len(invoices) + 1] = Expected(wants[request])
        /\ \A i \in DOMAIN invoices : i \in DOMAIN invoices' /\ invoices'[i] = invoices[i]
    BY <1>11, <2>1 DEF add_invoice, IInv, TypeOK
  <2>6. PayableAsAsked' /\ OwnHash'
    BY <2>4, <2>5 DEF IInv, PayableAsAsked, OwnHash
  <2>7. \A r \in Replies : r.hash \in 1..Len(invoices)
    BY DEF IInv, TypeOK, PayableAsAsked
  <2>8. /\ Len(cause') = Len(cause) + 1 /\ Len(cause) = Len(invoices)
        /\ cause'[Len(invoices) + 1] = taken
        /\ \A i \in DOMAIN invoices : cause'[i] = cause[i]
    <3>1. cause \in Seq(1..MaxDeliveries) /\ invoices \in Seq(Nat)
          /\ Len(cause) = Len(invoices)
      BY DEF IInv, TypeOK, CausesKnown
    <3>2. cause' = Append(cause, taken)
      BY <1>11 DEF add_invoice
    <3> QED
      BY <3>1, <3>2, <2>t
  <2>9. HandlesInvoice'
    BY <1>11, <2>4, <2>5, <2>7, <2>8
       DEF add_invoice, IInv, TypeOK, HandlesInvoice, Expected
  <2>10. CausesKnown'
    <3>1. \A r \in Replies : cause[r.hash] = r.delivery /\ cause'[r.hash] = cause[r.hash]
      BY <2>8 DEF IInv, CausesKnown, PayableAsAsked
    <3> QED
      BY <2>4, <2>5, <2>8, <3>1 DEF CausesKnown
  <2>11. NoStrayInvoice'
    <3>1. DOMAIN invoices = 1..Len(invoices) /\ Len(invoices) \in Nat
          /\ DOMAIN invoices' = 1..Len(invoices) + 1
      BY <1>11, <2>1 DEF add_invoice, IInv, TypeOK
    <3>2. ASSUME NEW h \in DOMAIN invoices
          PROVE  (\E r \in Replies : r.hash = h) \/ cause[h] \in errors \cup troubled
      <4>1. h # hash
        BY <1>11, <3>1 DEF add_invoice, IInv, HandlesRequest
      <4> QED
        BY <4>1 DEF IInv, NoStrayInvoice
    <3> QED
      BY <1>11, <2>4, <2>8, <3>1, <3>2 DEF add_invoice, NoStrayInvoice
  <2> QED
    BY <2>2, <2>3, <2>6, <2>9, <2>10, <2>11 DEF IInv
<1>12. CASE decode_payment_request
  <2>1. TypeOK'
    BY <1>12 DEF decode_payment_request, IInv, TypeOK
  <2>2. /\ RequestsCover' /\ IntroFinite' /\ HandlesRequest' /\ HandlesInvoice'
        /\ PayableAsAsked' /\ OwnHash'
    BY <1>12 DEF decode_payment_request, IInv, RequestsCover, Expected, IntroFinite,
                 HandlesRequest, HandlesInvoice, PayableAsAsked, OwnHash, Replies,
                 Unreleased
  <2>3. CausesKnown' /\ NoStrayInvoice'
    <3>1. Replies' = Replies
      BY <1>12 DEF decode_payment_request, Replies, Unreleased
    <3> QED
      BY <1>12, <3>1 DEF decode_payment_request, IInv, CausesKnown, NoStrayInvoice
  <2> QED
    BY <2>1, <2>2, <2>3 DEF IInv
<1>13. CASE InvoiceFails
  <2>1. taken \in 1..MaxDeliveries
    BY <1>13 DEF InvoiceFails, IInv, TypeOK, HandlesRequest
  <2>2. TypeOK'
    BY <1>13, <2>1 DEF InvoiceFails, Idle, IInv, TypeOK
  <2>3. /\ RequestsCover' /\ IntroFinite' /\ HandlesRequest' /\ HandlesInvoice'
        /\ PayableAsAsked' /\ OwnHash'
    BY <1>13 DEF InvoiceFails, Idle, IInv, RequestsCover, Expected, IntroFinite,
                 HandlesRequest, HandlesInvoice, PayableAsAsked, OwnHash, Replies,
                 Unreleased
  <2>4. Replies' = Replies
    BY <1>13 DEF InvoiceFails, Replies, Unreleased
  <2>5. CausesKnown'
    BY <1>13, <2>4 DEF InvoiceFails, IInv, CausesKnown
  <2>6. NoStrayInvoice'
    <3> SUFFICES ASSUME NEW h \in DOMAIN invoices
                 PROVE  (\E r \in Replies : r.hash = h) \/ cause[h] \in errors \cup troubled'
      BY <1>13, <2>4 DEF InvoiceFails, NoStrayInvoice
    <3>1. CASE h = hash
      <4>1. cause[h] = taken
        BY <1>13, <3>1 DEF InvoiceFails, IInv, TypeOK, HandlesInvoice, HandlesRequest
      <4> QED
        BY <1>13, <4>1 DEF InvoiceFails
    <3>2. CASE h # hash
      BY <1>13, <3>2 DEF InvoiceFails, IInv, NoStrayInvoice
    <3> QED
      BY <3>1, <3>2
  <2> QED
    BY <2>2, <2>3, <2>5, <2>6 DEF IInv
<1>14. CASE Respond
  <2>1. /\ taken \in 1..MaxDeliveries
        /\ request \in PayCalls /\ wants[request] \in OfferCalls
        /\ amount[request] \in Nat /\ Expected(wants[request]) <= amount[request]
    BY <1>14 DEF Respond, IInv, TypeOK, HandlesRequest, RequestsCover
  <2>2. Invoice \in Reply
    BY <2>1 DEF Invoice, Reply, IInv, TypeOK
  <2>3. TypeOK'
    <3>1. pending' \in Seq(Reply)
      <4>1. pending \in Seq(Reply)
        BY DEF IInv, TypeOK
      <4>2. Append(pending, Invoice) \in Seq(Reply)
        BY <4>1, <2>2
      <4> QED
        BY <1>14, <4>1, <4>2 DEF Respond
    <3>2. errors' \subseteq 1..MaxDeliveries
      BY <1>14, <2>1 DEF Respond, IInv, TypeOK
    <3> QED
      BY <1>14, <3>1, <3>2 DEF Respond, Idle, IInv, TypeOK
  <2>4. RequestsCover' /\ IntroFinite' /\ HandlesRequest' /\ HandlesInvoice'
    BY <1>14 DEF Respond, Idle, IInv, RequestsCover, Expected, IntroFinite,
                 HandlesRequest, HandlesInvoice
  <2>5. Replies' = Replies \/ Replies' = Replies \cup {Invoice}
    <3>1. CASE pending' = pending
      BY <1>14, <3>1 DEF Respond, Replies, Unreleased
    <3>2. CASE pending' = Append(pending, Invoice)
      <4>1. Unreleased' = Unreleased \cup {Invoice}
        <5>1. pending \in Seq(Reply)
          BY DEF IInv, TypeOK
        <5>2. Elements(Append(pending, Invoice)) = Elements(pending) \cup {Invoice}
          BY <5>1, <2>2, RangeAppend
        <5>3. Unreleased = Elements(pending) /\ Unreleased' = Elements(pending')
          BY DEF Unreleased, Elements
        <5> QED
          BY <3>2, <5>2, <5>3
      <4> QED
        BY <1>14, <4>1 DEF Respond, Replies
    <3> QED
      BY <1>14, <3>1, <3>2 DEF Respond
  <2>6. /\ Invoice.hash = hash /\ Invoice.amount = amount[request]
        /\ hash \in DOMAIN invoices /\ invoices[hash] <= amount[request]
        /\ \A r \in Replies : r.hash # hash
    BY <1>14, <2>1 DEF Respond, Invoice, IInv, TypeOK, HandlesInvoice
  <2>7. PayableAsAsked' /\ OwnHash'
    BY <1>14, <2>5, <2>6 DEF Respond, IInv, PayableAsAsked, OwnHash
  <2>8. Invoice.delivery = taken /\ cause[hash] = taken
    BY <1>14 DEF Respond, Invoice, IInv, HandlesInvoice
  <2>9. CausesKnown'
    BY <1>14, <2>5, <2>6, <2>8 DEF Respond, IInv, CausesKnown
  <2>10. NoStrayInvoice'
    <3> SUFFICES ASSUME NEW h \in DOMAIN invoices
                 PROVE  (\E r \in Replies' : r.hash = h) \/ cause[h] \in errors' \cup troubled
      BY <1>14 DEF Respond, NoStrayInvoice
    <3>1. Invoice \in Replies' \/ taken \in errors'
      <4>1. CASE wants[request] \in expired
        BY <1>14, <4>1 DEF Respond
      <4>2. CASE wants[request] \notin expired
        <5>1. pending' = Append(pending, Invoice)
          BY <1>14, <4>2 DEF Respond
        <5>2. pending \in Seq(Reply)
          BY DEF IInv, TypeOK
        <5>3. Len(pending) + 1 \in DOMAIN pending' /\ pending'[Len(pending) + 1] = Invoice
          BY <5>1, <5>2, <2>2
        <5> QED
          BY <5>3 DEF Replies, Unreleased
      <4> QED
        BY <4>1, <4>2
    <3>2. CASE h = hash
      BY <3>1, <3>2, <2>6, <2>8
    <3>3. CASE h # hash
      <4>1. (\E r \in Replies : r.hash = h) \/ cause[h] \in errors \cup troubled
        BY <3>3 DEF IInv, NoStrayInvoice
      <4>2. errors \subseteq errors'
        BY <1>14 DEF Respond
      <4> QED
        BY <4>1, <4>2, <2>5
    <3> QED
      BY <3>2, <3>3
  <2> QED
    BY <2>3, <2>4, <2>7, <2>9, <2>10 DEF IInv
<1>15. CASE ReleasePendingMessages
  <2>1. Unreleased \subseteq Reply /\ Unreleased' = {}
    BY <1>15 DEF ReleasePendingMessages, Unreleased, IInv, TypeOK
  <2>2. TypeOK'
    BY <1>15, <2>1 DEF ReleasePendingMessages, IInv, TypeOK
  <2>3. Replies' = Replies
    BY <1>15, <2>1 DEF ReleasePendingMessages, Replies
  <2>4. RequestsCover' /\ IntroFinite' /\ HandlesRequest' /\ HandlesInvoice'
    BY <1>15 DEF ReleasePendingMessages, IInv, RequestsCover, Expected, IntroFinite,
                 HandlesRequest, HandlesInvoice
  <2>5. PayableAsAsked' /\ OwnHash'
    BY <1>15, <2>3 DEF ReleasePendingMessages, IInv, PayableAsAsked, OwnHash
  <2>6. CausesKnown' /\ NoStrayInvoice'
    BY <1>15, <2>3 DEF ReleasePendingMessages, IInv, CausesKnown, NoStrayInvoice
  <2> QED
    BY <2>2, <2>4, <2>5, <2>6 DEF IInv
<1>16. CASE Restart
  <2>1. Unreleased \subseteq Reply /\ Unreleased' = {}
    BY <1>16 DEF Restart, Unreleased, IInv, TypeOK
  <2>2. troubled' \subseteq 1..MaxDeliveries
    <3>1. {r.delivery : r \in Unreleased} \subseteq 1..MaxDeliveries
      BY <2>1 DEF Reply
    <3>2. step # "idle" => taken \in 1..MaxDeliveries
      BY DEF IInv, TypeOK, HandlesRequest
    <3> QED
      BY <1>16, <3>1, <3>2 DEF Restart, IInv, TypeOK
  <2>3. TypeOK'
    BY <1>16, <2>2 DEF Restart, Idle, IInv, TypeOK
  <2>4. Replies' \subseteq Replies
    BY <1>16, <2>1 DEF Restart, Replies
  <2>5. RequestsCover'
    BY <1>16 DEF Restart, IInv, TypeOK, RequestsCover, Expected
  <2>6. IntroFinite' /\ HandlesRequest' /\ HandlesInvoice'
    BY <1>16 DEF Restart, Idle, IInv, IntroFinite, HandlesRequest, HandlesInvoice
  <2>7. PayableAsAsked' /\ OwnHash'
    BY <1>16, <2>4 DEF Restart, IInv, PayableAsAsked, OwnHash
  <2>8. CausesKnown'
    BY <1>16, <2>4 DEF Restart, IInv, CausesKnown
  <2>9. NoStrayInvoice'
    <3> SUFFICES ASSUME NEW h \in DOMAIN invoices
                 PROVE  (\E r \in sent : r.hash = h) \/ cause[h] \in errors \cup troubled'
      BY <1>16, <2>1 DEF Restart, NoStrayInvoice, Replies
    <3>1. CASE h = hash
      <4>1. step # "idle" /\ cause[h] = taken
        BY <3>1 DEF IInv, TypeOK, HandlesInvoice, HandlesRequest
      <4> QED
        BY <1>16, <4>1 DEF Restart
    <3>2. ASSUME NEW r \in Unreleased, r.hash = h PROVE cause[h] \in troubled'
      <4>1. cause[h] = r.delivery
        BY <3>2 DEF IInv, CausesKnown, Replies
      <4> QED
        BY <1>16, <4>1 DEF Restart
    <3>3. CASE cause[h] \in errors \cup troubled
      BY <1>16, <3>3 DEF Restart
    <3> QED
      BY <3>1, <3>2, <3>3 DEF IInv, NoStrayInvoice, Replies
  <2> QED
    BY <2>3, <2>5, <2>6, <2>7, <2>8, <2>9 DEF IInv
<1>17. CASE UNCHANGED vars
  <2>1. TypeOK' /\ RequestsCover' /\ IntroFinite'
    BY <1>17 DEF vars, IInv, TypeOK, RequestsCover, IntroFinite, Expected, Listed
  <2> QED
    BY <1>17, <2>1, Undisturbed DEF vars
<1>18. CASE PeersChange
  <2>1. TypeOK' /\ RequestsCover' /\ IntroFinite'
    BY <1>18 DEF PeersChange, IInv, TypeOK, RequestsCover, IntroFinite, Expected, Listed
  <2> QED
    BY <1>18, <2>1, Undisturbed DEF PeersChange
<1> QED
  BY <1>1, <1>2, <1>3, <1>4, <1>5, <1>6, <1>7, <1>8, <1>9, <1>10, <1>11, <1>12,
     <1>13, <1>14, <1>15, <1>16, <1>17, <1>18 DEF Next, Search, Handle

\* It holds before the first call.
LEMMA Initial == Init => IInv
<1> SUFFICES ASSUME Init PROVE IInv
  OBVIOUS
<1> USE ExchangeAssumption
<1>1. TypeOK
  <2>1. \A c \in Calls : todo[c] \in Seq(Nat) /\ todo[c] \in Seq(DOMAIN Listed(c))
    BY DEF Init
  <2>2. pending \in Seq(Reply) /\ invoices \in Seq(Nat) /\ cause \in Seq(1..MaxDeliveries)
    BY DEF Init
  <2> QED
    BY <2>1, <2>2 DEF Init, TypeOK, Calls
<1>2. Replies = {}
  BY DEF Init, Replies, Unreleased
<1>3. IntroFinite
  BY FS_EmptySet DEF Init, IntroFinite, Calls
<1>4. RequestsCover /\ HandlesRequest /\ HandlesInvoice
  BY DEF Init, RequestsCover, HandlesRequest, HandlesInvoice, Calls
<1>5. CausesKnown /\ NoStrayInvoice
  BY <1>2 DEF Init, CausesKnown, NoStrayInvoice
<1> QED
  BY <1>1, <1>2, <1>3, <1>4, <1>5 DEF IInv, PayableAsAsked, OwnHash

\* So it always holds.
LEMMA Invariance == Spec => []IInv
  BY Initial, Inductive, PTL DEF Spec

-----------------------------------------------------------------------------
\* Type correctness of the offer exchange: the amounts, invoices and replies of
\* create_offer and handle_message keep their types.
THEOREM TypeTheorem == Spec => []TypeOK
<1>1. IInv => TypeOK
  BY DEF IInv
<1> QED
  BY <1>1, Invariance, PTL

\* What handle_message asks a payer for is enough for the invoice that
\* add_invoice had LND make, whatever the amounts of the offer and of the user.
THEOREM PayableTheorem == Spec => []PayableAsAsked
<1>1. IInv => PayableAsAsked
  BY DEF IInv
<1> QED
  BY <1>1, Invariance, PTL

\* However often requests are delivered, every reply of handle_message has a
\* payment hash of its own.
THEOREM OwnHashTheorem == Spec => []OwnHash
<1>1. IInv => OwnHash
  BY DEF IInv
<1> QED
  BY <1>1, Invariance, PTL

\* However often requests are delivered and whatever fails, an invoice that
\* add_invoice had LND make is sent to a payer, or a failure accounts for it.
THEOREM StrayTheorem == Spec => []NoStrayInvoice
<1>1. IInv => NoStrayInvoice
  BY DEF IInv
<1> QED
  BY <1>1, Invariance, PTL

-----------------------------------------------------------------------------
\* Only the end of its search makes an offer.
LEMMA OnlyEndSearch ==
  ASSUME IInv, Next, NEW o \in OfferCalls, pc[o] = "asking", pc'[o] = "done"
  PROVE  EndSearch(o)
<1> USE DEF Goto, callVars, search, IInv, TypeOK, Calls
<1> USE ExchangeAssumption
<1>1. CASE \E x \in OfferCalls : Expire(x)
  BY <1>1 DEF Expire
<1>2. CASE \E x \in OfferCalls, a \in Amounts \cup {NoAmount} : CreateOffer(x, a)
  BY <1>2 DEF CreateOffer
<1>3. CASE \E x \in OfferCalls, a \in Amounts \cup {NoAmount}, p \in PayCalls :
              RequestInvoice(p, x, a)
  BY <1>3 DEF RequestInvoice
<1>4. CASE \E c \in Calls : \E n \in 0..Len(Listed(c)) : List(c, n)
  BY <1>4 DEF List
<1>5. CASE \E c \in OfferCalls : AskChannel(c)
  BY <1>5 DEF AskChannel
<1>6. CASE \E c \in PayCalls : AskPeer(c)
  BY <1>6 DEF AskPeer
<1>7. CASE \E c \in Calls : EndSearch(c)
  <2> PICK c \in Calls : EndSearch(c)
    BY <1>7
  <2>1. c = o
    BY DEF EndSearch
  <2> QED
    BY <2>1
<1>8. CASE \E c \in Calls : CallFails(c)
  BY <1>8 DEF CallFails
<1>9. CASE \E p \in PayCalls : Deliver(p)
  BY <1>9 DEF Deliver
<1>10. CASE Ignore \/ PeersChange \/ Handle \/ ReleasePendingMessages
  BY <1>10 DEF Ignore, PeersChange, Handle, add_invoice, decode_payment_request,
               InvoiceFails, Respond, ReleasePendingMessages
<1>11. CASE Restart
  BY <1>11 DEF Restart
<1> QED
  BY <1>1, <1>2, <1>3, <1>4, <1>5, <1>6, <1>7, <1>8, <1>9, <1>10, <1>11
     DEF Next, Search

\* What create_offer leaves of the paths through the nodes that were found.
LEMMA ChosenCardinality ==
  ASSUME NEW found, IsFiniteSet(found), NEW S \in Chosen(BlindedPaths(found))
  PROVE  /\ Cardinality(S) \in 1..3
         /\ Cardinality(S) < 3 => Cardinality(found) \leq 3
         /\ found = {} => S = {Self}
         /\ found # {} => S \subseteq found
<1>1. CASE found = {}
  <2>1. BlindedPaths(found) = {Self} /\ Cardinality({Self}) = 1 /\ Cardinality(found) = 0
    BY <1>1, FS_Singleton, FS_EmptySet DEF BlindedPaths
  <2>2. S \subseteq {Self} /\ Cardinality(S) = 1
    BY <2>1 DEF Chosen
  <2>3. S # {}
    BY <2>2, FS_EmptySet
  <2> QED
    BY <1>1, <2>1, <2>2, <2>3
<1>2. CASE found # {}
  <2>1. Cardinality(found) \in Nat /\ Cardinality(found) # 0
    BY <1>2, FS_CardinalityType, FS_EmptySet
  <2>2. /\ S \subseteq found
        /\ Cardinality(S) = IF Cardinality(found) > 3 THEN 3 ELSE Cardinality(found)
    BY <1>2 DEF Chosen, BlindedPaths
  <2> QED
    BY <1>2, <2>1, <2>2
<1> QED
  BY <1>1, <1>2

\* Every offer of create_offer has one to three paths, through nodes that the
\* search has found or to the node itself if it has found none, and less than
\* three only after every channel was looked at: for any number of channels.
THEOREM PathsTheorem == Spec => PathsChosenWell
<1> DEFINE Well(o) ==
      /\ Cardinality(paths'[o]) \in 1..3
      /\ Cardinality(paths'[o]) < 3 => todo[o] = <<>>
      /\ paths'[o] = {Self} \/ paths'[o] \subseteq intro[o]
      /\ Self \in paths'[o] => intro[o] = {}
    MadeWell == \A o \in OfferCalls : pc[o] = "asking" /\ pc'[o] = "done" => Well(o)
<1>1. IInv /\ [Next]_vars => [MadeWell]_vars
  <2> SUFFICES ASSUME IInv, Next, NEW o \in OfferCalls,
                      pc[o] = "asking", pc'[o] = "done"
               PROVE  Well(o)
    BY DEF MadeWell
  <2>1. EndSearch(o)
    BY OnlyEndSearch
  <2>2. PICK S \in Chosen(BlindedPaths(intro[o])) : paths' = [paths EXCEPT ![o] = S]
    BY <2>1 DEF EndSearch
  <2>3. paths'[o] = S
    BY <2>2 DEF IInv, TypeOK, Calls
  <2>4. IsFiniteSet(intro[o]) /\ Self \notin intro[o]
    BY ExchangeAssumption DEF IInv, IntroFinite, TypeOK, Calls
  <2>5. Cardinality(intro[o]) \leq 3 => todo[o] = <<>>
    <3>1. Cardinality(intro[o]) \in Nat
      BY <2>4, FS_CardinalityType
    <3> QED
      BY <2>1, <3>1, ExchangeAssumption DEF EndSearch, SearchOver, Enough
  <2> QED
    BY <2>3, <2>4, <2>5, ChosenCardinality
<1>2. [][MadeWell]_vars => PathsChosenWell
  BY DEF PathsChosenWell
<1> QED
  BY <1>1, <1>2, Invariance, PTL DEF Spec
=============================================================================

---------------------------- MODULE OfferExchange ----------------------------
(***************************************************************************)
(* An offer from its creation to the invoice: create_offer with the choice *)
(* of its blinded paths, the amount and the reply path of an LNDK that     *)
(* asks for an invoice, and the InvoiceRequest branch of handle_message,   *)
(* which has LND add the invoice that is sent back.                        *)
(*                                                                         *)
(* Both sides are in one module because the amounts meet: what LND is told *)
(* to expect comes from the offer, what is paid from the request.  LND's   *)
(* answers are arbitrary.  Onion messages may be lost and delivered more   *)
(* than once, and the recipient's LNDK may restart, which keeps its key    *)
(* (see Daemon) and LND's invoices.  How the payer gets to the offer's     *)
(* node and waits for the answer is left to PeerConnect and OfferHandler.  *)
(***************************************************************************)
EXTENDS Integers, Sequences, FiniteSets

CONSTANTS
    OfferCalls,     \* calls of create_offer: each makes at most one offer
    PayCalls,       \* calls of a payer's LNDK, each with one invoice request
    Nodes,          \* the peers of either side
    Channels,       \* the peer at the other end of each public channel
    Neighbours,     \* the payer's peers, in the order in which LND lists them
    OnionNodes,     \* the nodes that LND lists with onion message support
    Self,           \* the introduction node of a path without other nodes
    Amounts,        \* the amounts in msat that users give
    NoAmount,       \* an amount that is absent
    NoCall,         \* not a call
    MaxDeliveries,  \* bound: how many invoice requests reach the recipient
    MaxRestarts     \* bound: how often the recipient's LNDK restarts

Calls == OfferCalls \cup PayCalls

ASSUME ExchangeAssumption ==
    /\ OfferCalls \cap PayCalls = {}
    /\ NoCall \notin Calls
    /\ Channels \in Seq(Nodes) /\ Neighbours \in Seq(Nodes)
    /\ Self \notin Nodes
    /\ Amounts \subseteq Nat
    /\ NoAmount \notin Nat
    /\ MaxDeliveries \in Nat /\ MaxRestarts \in Nat

VARIABLES
    pc,         \* where each call is
    amount,     \* the amount of its offer or request
    todo,       \* the part of LND's list that it has yet to look at
    intro,      \* the introduction nodes that it has found
    paths,      \* the introduction nodes of the offer's paths or the reply path
    wants,      \* the offer that a payer's request is for
    expired,    \* the offers that have expired
    peered,     \* does the recipient have a peer that is online?
    \* The recipient's consumer task, in handle_message.
    step,       \* where it is
    request,    \* the payer's call whose request it handles
    hash,       \* the invoice of LND's that it handles it with
    pending,    \* pending_messages: the replies not yet released
    sent,       \* the replies released to LDK
    errors,     \* the deliveries answered with an InvoiceError
    invoices,   \* the amount LND expects for each of its invoices, by hash
    \* History.
    taken,      \* how many requests were delivered
    troubled,   \* the deliveries that LND or a restart has kept from an answer
    restarts,
    cause       \* the delivery for which each invoice of LND's was added

search   == <<pc, todo, intro, paths>>
callVars == <<search, amount, wants>>
handling == <<step, request, hash>>
outVars  == <<pending, sent, errors>>
history  == <<taken, troubled, restarts>>
ledger   == <<invoices, cause>>
world    == <<expired, peered>>
vars == <<callVars, world, handling, outVars, ledger, history>>

\* What LND lists for a call: the node's channels or its peers.
Listed(c) == IF c \in OfferCalls THEN Channels ELSE Neighbours

Goto(c, where) == pc' = [pc EXCEPT ![c] = where]

Reply == [delivery : 1..MaxDeliveries, hash : Nat, amount : Nat,
          to : SUBSET (Nodes \cup {Self})]

TypeOK ==
    /\ pc \in [Calls -> {"new", "listing", "asking", "done", "failed"}]
    /\ amount \in [Calls -> Nat \cup {NoAmount}]
    /\ todo \in [Calls -> Seq(Nat)]
    /\ \A c \in Calls : todo[c] \in Seq(DOMAIN Listed(c))
    /\ intro \in [Calls -> SUBSET Nodes]
    /\ paths \in [Calls -> SUBSET (Nodes \cup {Self})]
    /\ wants \in [PayCalls -> OfferCalls \cup {NoCall}]
    /\ expired \subseteq OfferCalls
    /\ peered \in BOOLEAN
    /\ step \in {"idle", "adding", "decoding", "building"}
    /\ request \in PayCalls \cup {NoCall}
    /\ hash \in Nat
    /\ pending \in Seq(Reply)
    /\ sent \subseteq Reply
    /\ errors \subseteq 1..MaxDeliveries
    /\ invoices \in Seq(Nat)
    /\ taken \in 0..MaxDeliveries
    /\ troubled \subseteq 1..MaxDeliveries
    /\ restarts \in 0..MaxRestarts
    /\ cause \in Seq(1..MaxDeliveries)

Init ==
    /\ pc = [c \in Calls |-> "new"]
    /\ amount = [c \in Calls |-> NoAmount]
    /\ todo = [c \in Calls |-> <<>>]
    /\ intro = [c \in Calls |-> {}]
    /\ paths = [c \in Calls |-> {}]
    /\ wants = [p \in PayCalls |-> NoCall]
    /\ expired = {} /\ peered \in BOOLEAN
    /\ step = "idle" /\ request = NoCall /\ hash = 0
    /\ pending = <<>> /\ sent = {} /\ errors = {}
    /\ invoices = <<>> /\ cause = <<>>
    /\ taken = 0 /\ troubled = {} /\ restarts = 0

-----------------------------------------------------------------------------
(* The calls: create_offer, and a payer's request for an invoice.          *)

\* LND knows the network and the node's key.
CreateOffer(o, a) ==
    /\ pc[o] = "new"
    /\ amount' = [amount EXCEPT ![o] = a]
    /\ Goto(o, "listing")
    /\ UNCHANGED <<todo, intro, paths, wants, world, handling, outVars, ledger,
                   history>>

\* Mutant: a user may pay less than the offer asks for.
validate_amount_NoMinimum(a, u) ==
    IF a = NoAmount THEN u
    ELSE IF a = 0 THEN NoAmount
    ELSE IF u = NoAmount THEN a ELSE u

\* The amount to pay for an offer of amount a when the user says u, NoAmount if
\* the offer is rejected.
validate_amount(a, u) ==
    IF a = NoAmount THEN u
    ELSE IF a = 0 THEN NoAmount
    ELSE IF u = NoAmount THEN a
    ELSE IF u < a THEN NoAmount ELSE u

RequestInvoice(p, o, u) ==
    LET v == validate_amount(amount[o], u) IN
    /\ pc[p] = "new"
    /\ pc[o] = "done"
    /\ IF v = NoAmount
       THEN Goto(p, "failed") /\ UNCHANGED <<amount, wants>>
       ELSE /\ Goto(p, "listing")
            /\ amount' = [amount EXCEPT ![p] = v]
            /\ wants' = [wants EXCEPT ![p] = o]
    /\ UNCHANGED <<todo, intro, paths, world, handling, outVars, ledger, history>>

\* LND lists its active public channels, or its peers.
List(c, n) ==
    /\ pc[c] = "listing"
    /\ Goto(c, "asking")
    /\ todo' = [todo EXCEPT ![c] = [i \in 1..n |-> i]]
    /\ UNCHANGED <<amount, intro, paths, wants, world, handling, outVars, ledger,
                   history>>

\* What LND may say about a node: is it in the graph, with which public channels
\* (0 stands for channels with others) and does it support onion messages?
NodeInfo(node) ==
    [found : BOOLEAN, onion : BOOLEAN,
     channels : SUBSET ({i \in DOMAIN Channels : Channels[i] = node} \cup {0})]

\* A path leads through a node with onion messages and a public channel other
\* than the one by which it was listed.
Introduces(info, channel) == info.found /\ info.onion /\ info.channels \ {channel} # {}

Enough(o) == Cardinality(intro[o]) > 3

\* One round of the loop over the channels.
AskChannel(o) ==
    /\ pc[o] = "asking"
    /\ todo[o] # <<>>
    /\ ~Enough(o)
    /\ LET channel == Head(todo[o])
           node == Channels[channel] IN
       \E info \in NodeInfo(node) :
          intro' = [intro EXCEPT ![o] =
                       IF Introduces(info, channel) THEN @ \cup {node} ELSE @]
    /\ todo' = [todo EXCEPT ![o] = Tail(@)]
    /\ UNCHANGED <<pc, amount, paths, wants, world, handling, outVars, ledger,
                   history>>

\* One round of the loop over the peers, which ends with the first that will do.
AskPeer(p) ==
    /\ pc[p] = "asking"
    /\ todo[p] # <<>>
    /\ intro[p] = {}
    /\ LET node == Neighbours[Head(todo[p])] IN
       \/ intro' = intro
       \/ /\ node \in OnionNodes
          /\ intro' = [intro EXCEPT ![p] = {node}]
    /\ todo' = [todo EXCEPT ![p] = Tail(@)]
    /\ UNCHANGED <<pc, amount, paths, wants, world, handling, outVars, ledger,
                   history>>

SearchOver(c) ==
    /\ pc[c] = "asking"
    /\ \/ todo[c] = <<>>
       \/ c \in OfferCalls /\ Enough(c)
       \/ c \in PayCalls /\ intro[c] # {}

\* The paths that are built: one through each node found, or one to the node itself.
BlindedPaths(found) == IF found = {} THEN {Self} ELSE found

\* Mutant: all the paths that were built.
Chosen_All(built) == {built}

\* The first three paths, in whichever order the set of nodes is iterated.
Chosen(built) ==
    {S \in SUBSET built :
        Cardinality(S) = IF Cardinality(built) > 3 THEN 3 ELSE Cardinality(built)}

\* The offer is built and returned, or the request with its reply path is sent.
EndSearch(c) ==
    /\ SearchOver(c)
    /\ \E S \in Chosen(BlindedPaths(intro[c])) : paths' = [paths EXCEPT ![c] = S]
    /\ Goto(c, "done")
    /\ todo' = [todo EXCEPT ![c] = <<>>]
    /\ intro' = [intro EXCEPT ![c] = {}]
    /\ UNCHANGED <<amount, wants, world, handling, outVars, ledger, history>>

\* LND refuses, or the path or the offer cannot be built.
CallFails(c) ==
    /\ pc[c] \in {"new", "listing"} \/ SearchOver(c)
    /\ Goto(c, "failed")
    /\ todo' = [todo EXCEPT ![c] = <<>>]
    /\ intro' = [intro EXCEPT ![c] = {}]
    /\ UNCHANGED <<amount, paths, wants, world, handling, outVars, ledger, history>>

Expire(o) ==
    /\ pc[o] = "done"
    /\ o \notin expired
    /\ expired' = expired \cup {o}
    /\ UNCHANGED <<callVars, peered, handling, outVars, ledger, history>>

-----------------------------------------------------------------------------
(* The recipient's consumer task: handle_message, and LDK's release of the *)
(* pending messages when the task looks for something to send.             *)

\* The last peer goes offline, or the first one comes online.
PeersChange ==
    /\ step = "idle"
    /\ peered' = ~peered
    /\ UNCHANGED <<callVars, expired, handling, outVars, ledger, history>>

Idle == step' = "idle" /\ request' = NoCall /\ hash' = 0

\* A request that can be answered, has the offer's context and is verified.
Deliver(p) ==
    /\ step = "idle"
    /\ pc[p] = "done"
    /\ taken < MaxDeliveries
    /\ taken' = taken + 1
    /\ step' = "adding"
    /\ request' = p
    /\ UNCHANGED <<callVars, world, hash, outVars, ledger, troubled, restarts>>

\* A request without a responder, with another context or none, for an offer that
\* was not made with this node's key, or to a handler without a client.
Ignore ==
    /\ step = "idle"
    /\ taken < MaxDeliveries
    /\ taken' = taken + 1
    /\ UNCHANGED <<callVars, world, handling, outVars, ledger, troubled, restarts>>

\* Mutant: an absent amount is passed on.
Expected_Raw(o) == amount[o]

\* What LND is asked to expect: the amount of the offer, or any.
Expected(o) == IF amount[o] = NoAmount THEN 0 ELSE amount[o]

\* Mutant: the first invoice is used again.
add_invoice_Cached ==
    /\ step = "adding"
    /\ invoices' = IF invoices = <<>> THEN <<Expected(wants[request])>> ELSE invoices
    /\ cause' = IF invoices = <<>> THEN <<taken>> ELSE cause
    /\ hash' = 1
    /\ step' = "decoding"
    /\ UNCHANGED <<callVars, world, request, outVars, history>>

add_invoice ==
    /\ step = "adding"
    /\ invoices' = Append(invoices, Expected(wants[request]))
    /\ cause' = Append(cause, taken)
    /\ hash' = Len(invoices) + 1
    /\ step' = "decoding"
    /\ UNCHANGED <<callVars, world, request, outVars, history>>

\* Mutant: when LND does not decode the invoice, it is asked for another.
decode_payment_request_Again ==
    /\ step = "decoding"
    /\ step' \in {"adding", "building"}
    /\ UNCHANGED <<callVars, world, request, hash, outVars, ledger, history>>

decode_payment_request ==
    /\ step = "decoding"
    /\ step' = "building"
    /\ UNCHANGED <<callVars, world, request, hash, outVars, ledger, history>>

\* LND does not add or decode the invoice, or it has no blinded paths.
InvoiceFails ==
    /\ step # "idle"
    /\ troubled' = troubled \cup {taken}
    /\ Idle
    /\ UNCHANGED <<callVars, world, outVars, ledger, taken, restarts>>

Invoice == [delivery |-> taken, hash |-> hash, amount |-> amount[request],
            to |-> paths[request]]

\* Mutant: the reply takes the place of the one before.
Respond_Replaces ==
    /\ step = "building"
    /\ IF wants[request] \in expired
       THEN errors' = errors \cup {taken} /\ UNCHANGED pending
       ELSE pending' = <<Invoice>> /\ UNCHANGED errors
    /\ Idle
    /\ UNCHANGED <<callVars, world, sent, ledger, history>>

Respond ==
    /\ step = "building"
    /\ IF wants[request] \in expired
       THEN errors' = errors \cup {taken} /\ UNCHANGED pending
       ELSE pending' = Append(pending, Invoice) /\ UNCHANGED errors
    /\ Idle
    /\ UNCHANGED <<callVars, world, sent, ledger, history>>

Unreleased == {pending[i] : i \in DOMAIN pending}

\* LDK takes them when it is asked for the message to send to a peer that is online.
ReleasePendingMessages ==
    /\ step = "idle"
    /\ peered
    /\ pending # <<>>
    /\ sent' = sent \cup Unreleased
    /\ pending' = <<>>
    /\ UNCHANGED <<callVars, world, handling, errors, ledger, history>>

Restart ==
    /\ restarts < MaxRestarts
    /\ restarts' = restarts + 1
    /\ troubled' = troubled \cup {r.delivery : r \in Unreleased}
                            \cup (IF step = "idle" THEN {} ELSE {taken})
    /\ pending' = <<>>
    /\ Idle
    /\ pc' = [c \in Calls |-> IF c \in OfferCalls /\ pc[c] \in {"listing", "asking"}
                              THEN "failed" ELSE pc[c]]
    /\ UNCHANGED <<amount, todo, intro, paths, wants, world, sent, errors, ledger,
                   taken>>

-----------------------------------------------------------------------------
Search(c) ==
    \/ \E n \in 0..Len(Listed(c)) : List(c, n)
    \/ c \in OfferCalls /\ AskChannel(c)
    \/ c \in PayCalls /\ AskPeer(c)
    \/ EndSearch(c)

Handle == add_invoice \/ decode_payment_request \/ InvoiceFails \/ Respond

Next ==
    \/ \E o \in OfferCalls : Expire(o) \/ \E a \in Amounts \cup {NoAmount} :
          CreateOffer(o, a) \/ \E p \in PayCalls : RequestInvoice(p, o, a)
    \/ \E c \in Calls : Search(c) \/ CallFails(c)
    \/ \E p \in PayCalls : Deliver(p)
    \/ Ignore
    \/ PeersChange
    \/ Handle
    \/ ReleasePendingMessages
    \/ Restart

Spec == Init /\ [][Next]_vars

\* Tokio runs every task and LND answers every call; neither says how.
FairSpec ==
    /\ Spec
    /\ \A c \in Calls : WF_vars(Search(c))
    /\ WF_vars(Handle)
    /\ WF_vars(ReleasePendingMessages)

-----------------------------------------------------------------------------
Replies == Unreleased \cup sent

\* What a payer is asked for in a reply is enough for LND: the invoice with the
\* reply's payment hash exists and expects no more, whatever the offer and the
\* user said, and after any restart.
PayableAsAsked ==
    \A r \in Replies : r.hash \in DOMAIN invoices /\ invoices[r.hash] <= r.amount

\* No two replies share a payment hash, not even two to the same request.
OwnHash == \A r, s \in Replies : r.hash = s.hash => r = s

\* create_reply_path_for_offer_creation and create_offer: an offer has one to
\* three paths, which are those to nodes found, or the only one is to the node
\* itself because none was found; it has less than three only when every channel
\* that LND listed was looked at.
PathsChosenWell ==
    [][\A o \in OfferCalls : pc[o] = "asking" /\ pc'[o] = "done" =>
          /\ Cardinality(paths'[o]) \in 1..3
          /\ Cardinality(paths'[o]) < 3 => todo[o] = <<>>
          /\ paths'[o] = {Self} \/ paths'[o] \subseteq intro[o]
          /\ Self \in paths'[o] => intro[o] = {}]_vars

\* LND holds no invoice that nobody was sent, except for a reason: each invoice
\* has its reply, or is being handled, or LND, an expired offer or a restart came
\* between add_invoice and the reply.  A request is never the cause of two invoices
\* of which one is left over.
NoStrayInvoice ==
    \A h \in DOMAIN invoices :
       \/ \E r \in Replies : r.hash = h
       \/ step # "idle" /\ h = hash
       \/ cause[h] \in errors \cup troubled

\* A verified request is answered, with an invoice or an error, unless LND or a
\* restart gets in the way, if from some time on the recipient always has a peer
\* online: without one nothing takes the reply from pending_messages.
Answered ==
    <>[]peered =>
       \A n \in 1..MaxDeliveries :
          (step = "adding" /\ taken = n) ~>
             (n \in errors \cup troubled \/ \E r \in sent : r.delivery = n)
=============================================================================

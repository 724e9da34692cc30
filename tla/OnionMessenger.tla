--------------------------- MODULE OnionMessenger ---------------------------
(***************************************************************************)
(* run_onion_messenger of onion_messenger.rs: four producer tasks feed one *)
(* bounded channel, a single consumer drives LDK's messenger and the rate  *)
(* limiter from it, and a sticky shutdown signal is shared by all.  Around *)
(* them is LND, which peers come and go from, which can be down for a      *)
(* while (Retryable of grpc.rs waits for it) and which may refuse a call.  *)
(*                                                                         *)
(* The rate limiter is reduced to the peers it tracks (known) and those it *)
(* holds online: whether a known peer has calls left is left open here and *)
(* is the subject of TokenLimiter.  LDK is reduced to the peers it can     *)
(* queue messages for and the peers it holds a queued message for, the     *)
(* offer handler to the messages in its pending_messages, each named by    *)
(* the peer it must be sent to first.                                      *)
(***************************************************************************)
EXTENDS Integers, Sequences, FiniteSets, FiniteSetsExt

CONSTANTS
    Peers,       \* the peers of the LND node
    OnionPeers,  \* the ones that support onion messages
    NoPeer,      \* not a peer
    MayRefuse,   \* may LND, or LDK, answer with an error although it can be reached?
    FirstHops,   \* the peers that the offer handler's messages go to first
    MaxAttempts, \* how often LND is asked to send one message
    MaxChanges,  \* bound: how often a peer connects or disconnects
    MaxDrops,    \* bound: how often the connection to LND breaks
    MaxEvents    \* bound: how many changes and breaks there are together

ASSUME MessengerAssumption ==
    /\ IsFiniteSet(Peers)
    /\ OnionPeers \subseteq Peers
    /\ NoPeer \notin Peers
    /\ MayRefuse \in BOOLEAN
    /\ FirstHops \subseteq Peers
    /\ MaxAttempts \in Nat \ {0}
    /\ MaxChanges \in Nat
    /\ MaxDrops \in Nat
    /\ MaxEvents \in Nat

VARIABLES
    \* LND.
    up,         \* can LND be reached?
    peers,      \* the peers that are connected to it
    stream,     \* the peer events not yet received, while subscribed
    peerSub,    \* the subscription to peer events: none, open or broken
    msgSub,     \* the subscription to custom messages
    changes, drops,
    \* The main task.
    run,        \* where run_onion_messenger is
    toFill,     \* startup peers not yet put into the channel
    cap,        \* the channel's capacity
    chan,       \* the channel
    shutdown,   \* has the shutdown signal been triggered?
    \* The producers: the program counter and what they hold of each.
    peersPc, peersEvent,
    recPc, recTodo,
    msgPc, msgEvent,
    outPc,
    \* The consumer.
    cons,       \* off, running, relaying, ended ok or ended with an error
    toVisit,    \* the peers the SendOutgoing loop has not come to
    relayTo,    \* the peer a message is being relayed to
    attempts,   \* how often LND could not be reached for it
    ldk,        \* the peers LDK queues messages for
    outq,       \* the peers it holds a queued message for
    online,     \* the limiter's peers()
    known,      \* the peers the limiter tracks
    pending,    \* pending_messages: the peers the handler has a message for
    \* History.
    gap         \* did LND's peers change where no event would tell?

lndVars   == <<up, peers, stream, peerSub, msgSub, changes, drops>>
mainVars  == <<run, toFill, cap>>
peersVars == <<peersPc, peersEvent>>
recVars   == <<recPc, recTodo>>
msgVars   == <<msgPc, msgEvent>>
relayVars == <<toVisit, relayTo, attempts>>
viewVars  == <<ldk, outq, online, known>>
consVars  == <<cons, relayVars, viewVars>>
vars == <<lndVars, mainVars, chan, shutdown, peersVars, recVars, msgVars, outPc,
          consVars, pending, gap>>

Event ==
    [type : {"PeerConnected", "PeerDisconnected", "IncomingMessage",
             "SendOutgoing", "PeerProducerExit", "IncomingMessageProducerExit"},
     peer : Peers \cup {NoPeer},
     onion : BOOLEAN]

Connected(p, onion) == [type |-> "PeerConnected", peer |-> p, onion |-> onion]
Of(t, p)            == [type |-> t, peer |-> p, onion |-> FALSE]

\* What a task holds that holds no event: the value is never sent.
NoEvent == Of("SendOutgoing", NoPeer)

TypeOK ==
    /\ up \in BOOLEAN
    /\ peers \subseteq Peers
    /\ stream \in Seq([online : BOOLEAN, peer : Peers])
    /\ peerSub \in {"none", "open", "broken"}
    /\ msgSub \in {"none", "open", "broken"}
    /\ changes \in 0..MaxChanges
    /\ drops \in 0..MaxDrops
    /\ run \in {"listing", "filling", "running", "returned", "failed"}
    /\ toFill \subseteq Peers
    /\ cap \in Nat
    /\ chan \in Seq(Event) /\ Len(chan) <= cap
    /\ shutdown \in BOOLEAN
    /\ peersPc \in {"off", "subscribing", "opened", "receiving", "lookup",
                    "sending", "exiting", "done"}
    /\ peersEvent \in Event
    /\ recPc \in {"off", "listening", "listing", "sending", "done"}
    /\ recTodo \subseteq Peers
    /\ msgPc \in {"off", "top", "subscribing", "receiving", "sending",
                  "exiting", "done"}
    /\ msgEvent \in Event
    /\ outPc \in {"off", "ticking", "sending", "done"}
    /\ cons \in {"off", "running", "relaying", "ok", "err"}
    /\ toVisit \subseteq Peers
    /\ relayTo \in Peers \cup {NoPeer}
    /\ attempts \in 0..MaxAttempts - 1
    /\ ldk \subseteq Peers /\ outq \subseteq Peers
    /\ online \subseteq Peers /\ known \subseteq Peers
    /\ pending \subseteq FirstHops
    /\ gap \in BOOLEAN

Init ==
    /\ up = TRUE
    /\ peers \in SUBSET Peers
    /\ stream = <<>>
    /\ peerSub = "none" /\ msgSub = "none"
    /\ changes = 0 /\ drops = 0
    /\ run = "listing"
    /\ toFill = {} /\ cap = 0 /\ chan = <<>>
    /\ shutdown = FALSE
    /\ peersPc = "off" /\ peersEvent = NoEvent
    /\ recPc = "off" /\ recTodo = {}
    /\ msgPc = "off" /\ msgEvent = NoEvent
    /\ outPc = "off"
    /\ cons = "off"
    /\ toVisit = {} /\ relayTo = NoPeer /\ attempts = 0
    /\ ldk = {} /\ outq = {} /\ online = {} /\ known = {}
    /\ pending = {}
    /\ gap = FALSE

\* The onion support LND may list for p: its features are empty for a while
\* after it has connected.
Listed(p) == {FALSE, (p \in OnionPeers)}

Room == Len(chan) < cap
HungUp == cons \in {"ok", "err"}   \* the receiver is gone and sending fails

\* events.send(e).await, when it succeeds.
Send(e) ==
    /\ ~HungUp
    /\ Room
    /\ chan' = Append(chan, e)

Trigger == shutdown' = TRUE

-----------------------------------------------------------------------------
(* LND and the operator.                                                   *)

\* A change of LND's peers goes unnoticed when they have been listed but are not
\* subscribed to; the news that p is gone can be overtaken by an older listing of
\* p that has not been passed on.
Unnoticed(p) == (run # "listing" /\ peerSub # "open") \/ p \in recTodo

PeerChange(p) ==
    LET on == p \notin peers IN
    /\ changes < MaxChanges /\ changes + drops < MaxEvents
    /\ changes' = changes + 1
    /\ peers' = IF on THEN peers \cup {p} ELSE peers \ {p}
    /\ stream' = IF peerSub = "open" THEN Append(stream, [online |-> on, peer |-> p])
                 ELSE stream
    /\ gap' = (gap \/ Unnoticed(p))
    /\ UNCHANGED <<up, peerSub, msgSub, drops, mainVars, chan, shutdown,
                   peersVars, recVars, msgVars, outPc, consVars, pending>>

Broken(sub) == IF sub = "open" THEN "broken" ELSE sub

LndDown ==
    /\ up
    /\ drops < MaxDrops /\ changes + drops < MaxEvents
    /\ up' = FALSE
    /\ drops' = drops + 1
    /\ peerSub' = Broken(peerSub)
    /\ msgSub' = Broken(msgSub)
    /\ UNCHANGED <<peers, stream, changes, mainVars, chan, shutdown,
                   peersVars, recVars, msgVars, outPc, consVars, pending, gap>>

LndUp ==
    /\ ~up
    /\ up' = TRUE
    /\ UNCHANGED <<peers, stream, peerSub, msgSub, changes, drops, mainVars, chan,
                   shutdown, peersVars, recVars, msgVars, outPc, consVars, pending, gap>>

UserShutdown ==
    /\ ~shutdown
    /\ Trigger
    /\ UNCHANGED <<lndVars, mainVars, chan, peersVars, recVars, msgVars, outPc,
                   consVars, pending, gap>>

-----------------------------------------------------------------------------
(* The main task up to the start of the others.                            *)

\* Mutant: the channel is one event too short.
Capacity_Short(S) == Cardinality(S) - 1

Capacity(S) == Cardinality(S) + 1

\* get_current_peers; the channel; the limiter is created from the same list.
ListPeers ==
    /\ run = "listing"
    /\ \/ /\ up
          /\ run' = "filling"
          /\ toFill' = peers
          /\ cap' = Capacity(peers)
          /\ online' = peers
          /\ known' = peers
       \/ /\ ~up \/ MayRefuse
          /\ run' = "failed"
          /\ UNCHANGED <<toFill, cap, online, known>>
    /\ UNCHANGED <<lndVars, chan, shutdown, peersVars, recVars, msgVars, outPc,
                   cons, relayVars, ldk, outq, pending, gap>>

\* The startup events are sent before there is a consumer.
Fill(p) ==
    /\ run = "filling"
    /\ p \in toFill
    /\ \E onion \in Listed(p) : Send(Connected(p, onion))
    /\ toFill' = toFill \ {p}
    /\ UNCHANGED <<lndVars, run, cap, shutdown, peersVars, recVars, msgVars,
                   outPc, consVars, pending, gap>>

SpawnTasks ==
    /\ run = "filling"
    /\ toFill = {}
    /\ run' = "running"
    /\ recPc' = "listening"
    /\ peersPc' = "subscribing"
    /\ msgPc' = "top"
    /\ outPc' = "ticking"
    /\ cons' = "running"
    /\ UNCHANGED <<lndVars, toFill, cap, chan, shutdown, peersEvent, recTodo,
                   msgEvent, relayVars, viewVars, pending, gap>>

AllDone == peersPc = "done" /\ recPc = "done" /\ msgPc = "done" /\ outPc = "done"

\* The consumer has ended and every task is joined.  No task of the model panics.
Return ==
    /\ run = "running"
    /\ HungUp
    /\ AllDone
    /\ run' = IF cons = "err" THEN "failed" ELSE "returned"
    /\ UNCHANGED <<lndVars, toFill, cap, chan, shutdown, peersVars, recVars,
                   msgVars, outPc, consVars, pending, gap>>

-----------------------------------------------------------------------------
(* The peer events task.  Subscribing does not return before the first     *)
(* event and is not interrupted by the shutdown signal.                    *)

SubscribePeers ==
    /\ peersPc = "subscribing"
    /\ up
    /\ peerSub' = "open"
    /\ stream' = <<>>
    /\ peersPc' = "opened"
    /\ UNCHANGED <<up, peers, msgSub, changes, drops, mainVars, chan, shutdown,
                   peersEvent, recVars, msgVars, outPc, consVars, pending, gap>>

FirstPeerEvent ==
    /\ peersPc = "opened"
    /\ stream # <<>>
    /\ peersPc' = "receiving"
    /\ UNCHANGED <<lndVars, mainVars, chan, shutdown, peersEvent, recVars,
                   msgVars, outPc, consVars, pending, gap>>

\* with_infinite_retries: notify_waiters wakes the reconnection task if it is
\* waiting at this moment, then the request is made again.  The task prefers the
\* signal to waking up.  (An error that is retried although LND can be reached is
\* the same to this task as an LND that is down for a moment.)
RetryPeers ==
    /\ \/ peersPc = "subscribing" /\ ~up
       \/ peersPc = "opened" /\ peerSub = "broken" /\ stream = <<>>
    /\ peersPc' = "subscribing"
    /\ recPc' = IF recPc = "listening" /\ ~shutdown THEN "listing" ELSE recPc
    /\ UNCHANGED <<lndVars, mainVars, chan, shutdown, peersEvent, recTodo,
                   msgVars, outPc, consVars, pending, gap>>

RefusePeers ==
    /\ MayRefuse
    /\ peersPc = "subscribing"
    /\ Trigger
    /\ peersPc' = "done"
    /\ UNCHANGED <<lndVars, mainVars, chan, peersEvent, recVars, msgVars, outPc,
                   consVars, pending, gap>>

StopPeers ==
    /\ peersPc = "receiving"
    /\ shutdown
    /\ peersPc' = "done"
    /\ UNCHANGED <<lndVars, mainVars, chan, shutdown, peersEvent, recVars,
                   msgVars, outPc, consVars, pending, gap>>

\* Mutant: only online events are passed on.
ReceivePeerEvent_OnlineOnly ==
    /\ peersPc = "receiving"
    /\ ~shutdown
    /\ stream # <<>>
    /\ stream' = Tail(stream)
    /\ IF Head(stream).online
       THEN /\ peersPc' = "lookup"
            /\ peersEvent' = Connected(Head(stream).peer, FALSE)
       ELSE UNCHANGED peersVars
    /\ UNCHANGED <<up, peers, peerSub, msgSub, changes, drops, mainVars, chan,
                   shutdown, recVars, msgVars, outPc, consVars, pending, gap>>

ReceivePeerEvent ==
    /\ peersPc = "receiving"
    /\ ~shutdown
    /\ stream # <<>>
    /\ stream' = Tail(stream)
    /\ IF Head(stream).online
       THEN /\ peersPc' = "lookup"
            /\ peersEvent' = Connected(Head(stream).peer, FALSE)
       ELSE /\ peersPc' = "sending"
            /\ peersEvent' = Of("PeerDisconnected", Head(stream).peer)
    /\ UNCHANGED <<up, peers, peerSub, msgSub, changes, drops, mainVars, chan,
                   shutdown, recVars, msgVars, outPc, consVars, pending, gap>>

\* lookup_onion_support asks LND for the peer's features and assumes the worst
\* when it is no longer listed, LND does not answer or the features stay empty.
LookupOnionSupport ==
    /\ peersPc = "lookup"
    /\ \E onion \in Listed(peersEvent.peer) :
          peersEvent' = [peersEvent EXCEPT !.onion =
                            up /\ peersEvent.peer \in peers /\ onion]
    /\ peersPc' = "sending"
    /\ UNCHANGED <<lndVars, mainVars, chan, shutdown, recVars, msgVars, outPc,
                   consVars, pending, gap>>

SendPeerEvent ==
    /\ peersPc = "sending"
    /\ peersEvent' = NoEvent
    /\ \/ Send(peersEvent) /\ peersPc' = "receiving" /\ UNCHANGED shutdown
       \/ HungUp /\ Trigger /\ peersPc' = "done" /\ UNCHANGED chan
    /\ UNCHANGED <<lndVars, mainVars, recVars, msgVars, outPc, consVars, pending, gap>>

PeerStreamBreaks ==
    /\ peersPc = "receiving"
    /\ ~shutdown
    /\ stream = <<>>
    /\ peerSub = "broken"
    /\ peersPc' = "exiting"
    /\ UNCHANGED <<lndVars, mainVars, chan, shutdown, peersEvent, recVars,
                   msgVars, outPc, consVars, pending, gap>>

ExitPeers ==
    /\ peersPc = "exiting"
    /\ \/ Send(Of("PeerProducerExit", NoPeer))
       \/ HungUp /\ UNCHANGED chan
    /\ Trigger
    /\ peersPc' = "done"
    /\ UNCHANGED <<lndVars, mainVars, peersEvent, recVars, msgVars, outPc, consVars, pending, gap>>

PeersTask ==
    \/ SubscribePeers \/ FirstPeerEvent \/ RetryPeers \/ StopPeers
    \/ ReceivePeerEvent \/ LookupOnionSupport \/ SendPeerEvent
    \/ PeerStreamBreaks \/ ExitPeers

-----------------------------------------------------------------------------
(* The reconnection task.                                                  *)

StopReconnection ==
    /\ recPc = "listening"
    /\ shutdown
    /\ recPc' = "done"
    /\ UNCHANGED <<lndVars, mainVars, chan, shutdown, peersVars, recTodo,
                   msgVars, outPc, consVars, pending, gap>>

\* list_peers_with_retries, once LND answers.
ListReconnected ==
    /\ recPc = "listing"
    /\ up
    /\ recTodo' = peers
    /\ recPc' = "sending"
    /\ UNCHANGED <<lndVars, mainVars, chan, shutdown, peersVars, msgVars, outPc,
                   consVars, pending, gap>>

RefuseReconnection ==
    /\ MayRefuse
    /\ recPc = "listing"
    /\ Trigger
    /\ recPc' = "done"
    /\ UNCHANGED <<lndVars, mainVars, chan, peersVars, recTodo, msgVars, outPc,
                   consVars, pending, gap>>

SendReconnected(p) ==
    /\ recPc = "sending"
    /\ p \in recTodo
    /\ \/ /\ \E onion \in Listed(p) : Send(Connected(p, onion))
          /\ recTodo' = recTodo \ {p}
          /\ UNCHANGED shutdown
          /\ UNCHANGED recPc
       \/ /\ HungUp
          /\ Trigger
          /\ recPc' = "done"
          /\ UNCHANGED <<chan, recTodo>>
    /\ UNCHANGED <<lndVars, mainVars, peersVars, msgVars, outPc, consVars, pending, gap>>

ReconnectionSent ==
    /\ recPc = "sending"
    /\ recTodo = {}
    /\ recPc' = "listening"
    /\ UNCHANGED <<lndVars, mainVars, chan, shutdown, peersVars, recTodo,
                   msgVars, outPc, consVars, pending, gap>>

ReconnectionTask ==
    \/ StopReconnection \/ ListReconnected \/ ReconnectionSent
    \/ \E p \in Peers : SendReconnected(p)

-----------------------------------------------------------------------------
(* The incoming messages task.  The signal is looked at before subscribing *)
(* and while receiving, not while the subscription is being retried.       *)

MessagesTop ==
    /\ msgPc = "top"
    /\ msgPc' = IF shutdown THEN "done" ELSE "subscribing"
    /\ UNCHANGED <<lndVars, mainVars, chan, shutdown, peersVars, recVars,
                   msgEvent, outPc, consVars, pending, gap>>

SubscribeMessages ==
    /\ msgPc = "subscribing"
    /\ up
    /\ msgSub' = "open"
    /\ msgPc' = "receiving"
    /\ UNCHANGED <<up, peers, stream, peerSub, changes, drops, mainVars, chan, shutdown, peersVars, recVars, msgEvent, outPc, consVars, pending, gap>>

\* An error that is not retried: the task returns Ok, and triggers nothing.
RefuseMessages ==
    /\ MayRefuse
    /\ msgPc = "subscribing"
    /\ msgPc' = "done"
    /\ UNCHANGED <<lndVars, mainVars, chan, shutdown, peersVars, recVars,
                   msgEvent, outPc, consVars, pending, gap>>

StopMessages ==
    /\ msgPc = "receiving"
    /\ shutdown
    /\ msgPc' = "done"
    /\ UNCHANGED <<lndVars, mainVars, chan, shutdown, peersVars, recVars,
                   msgEvent, outPc, consVars, pending, gap>>

\* A custom message of the onion type that decodes; the others are skipped.
ReceiveMessage(p) ==
    /\ msgPc = "receiving"
    /\ ~shutdown
    /\ msgSub = "open"
    /\ p \in peers
    /\ msgEvent' = Of("IncomingMessage", p)
    /\ msgPc' = "sending"
    /\ UNCHANGED <<lndVars, mainVars, chan, shutdown, peersVars, recVars, outPc,
                   consVars, pending, gap>>

\* A failure to send is an error like any other: the task subscribes again.
SendMessage ==
    /\ msgPc = "sending"
    /\ msgEvent' = NoEvent
    /\ \/ Send(msgEvent) /\ msgPc' = "receiving"
       \/ HungUp /\ msgPc' = "top" /\ UNCHANGED chan
    /\ UNCHANGED <<lndVars, mainVars, shutdown, peersVars, recVars, outPc,
                   consVars, pending, gap>>

MessageStreamBreaks ==
    /\ msgPc = "receiving"
    /\ ~shutdown
    /\ msgSub = "broken"
    /\ msgPc' = "exiting"
    /\ UNCHANGED <<lndVars, mainVars, chan, shutdown, peersVars, recVars,
                   msgEvent, outPc, consVars, pending, gap>>

ExitMessages ==
    /\ msgPc = "exiting"
    /\ \/ Send(Of("IncomingMessageProducerExit", NoPeer))
       \/ HungUp /\ UNCHANGED chan
    /\ msgPc' = "top"
    /\ UNCHANGED <<lndVars, mainVars, shutdown, peersVars, recVars, msgEvent,
                   outPc, consVars, pending, gap>>

MessagesTask ==
    \/ MessagesTop \/ SubscribeMessages \/ StopMessages \/ SendMessage
    \/ MessageStreamBreaks \/ ExitMessages

-----------------------------------------------------------------------------
(* The ticker for outgoing messages.                                       *)

TickOutgoing ==
    /\ outPc = "ticking"
    /\ outPc' = IF shutdown THEN "done" ELSE "sending"
    /\ UNCHANGED <<lndVars, mainVars, chan, shutdown, peersVars, recVars,
                   msgVars, consVars, pending, gap>>

SendTick ==
    /\ outPc = "sending"
    /\ \/ Send(Of("SendOutgoing", NoPeer)) /\ outPc' = "ticking" /\ UNCHANGED shutdown
       \/ HungUp /\ Trigger /\ outPc' = "done" /\ UNCHANGED chan
    /\ UNCHANGED <<lndVars, mainVars, peersVars, recVars, msgVars, consVars, pending, gap>>

OutgoingTask == TickOutgoing \/ SendTick

-----------------------------------------------------------------------------
(* The consumer.                                                           *)

Receive(type) ==
    /\ cons = "running"
    /\ chan # <<>>
    /\ Head(chan).type = type
    /\ chan' = Tail(chan)
    /\ UNCHANGED <<lndVars, mainVars, shutdown, peersVars, recVars, msgVars,
                   outPc, gap>>

\* LDK's peer_connected: it forgets a peer that does not support onion messages,
\* and may hold a message that has waited for this one (see PeerConnect).
LdkConnects(p, onion) ==
    IF onion THEN ldk' = ldk \cup {p} /\ outq' \in {outq, outq \cup {p}}
             ELSE ldk' = ldk \ {p} /\ outq' = outq \ {p}

\* Mutant: the limiter is not told of the new peer.
ConsumeConnected_NotTracked ==
    /\ Receive("PeerConnected")
    /\ LdkConnects(Head(chan).peer, Head(chan).onion)
    /\ UNCHANGED <<cons, relayVars, online, known, pending>>

ConsumeConnected ==
    LET p == Head(chan).peer
    IN  /\ Receive("PeerConnected")
        /\ LdkConnects(p, Head(chan).onion)
        /\ online' = online \cup {p}
        /\ known' = known \cup {p}
        /\ UNCHANGED <<cons, relayVars, pending>>

\* LDK refuses the peer: the consumer ends, before it tells the limiter.
ConsumeRefused ==
    /\ MayRefuse
    /\ Receive("PeerConnected")
    /\ cons' = "err"
    /\ UNCHANGED <<relayVars, viewVars, pending>>

ConsumeDisconnected ==
    LET p == Head(chan).peer
    IN  /\ Receive("PeerDisconnected")
        /\ ldk' = ldk \ {p}
        /\ outq' = outq \ {p}
        /\ online' = online \ {p}
        /\ UNCHANGED <<cons, relayVars, known, pending>>

\* LDK decrypts a message with a key that only LND can derive, without a retry.
ecdh == up

\* LDK handles a message: it is none of its concern or fails, it is forwarded or
\* answered at once, or the handler leaves an invoice in pending_messages.
HandleOnionMessage ==
    \/ UNCHANGED <<outq, pending>>
    \/ /\ ecdh
       /\ \E q \in ldk : outq' = outq \cup {q}
       /\ UNCHANGED pending
    \/ /\ ecdh
       /\ \E q \in FirstHops : pending' = pending \cup {q}
       /\ UNCHANGED outq

\* query_peer: if a period has elapsed the limiter forgets who is not online, and
\* a message of a peer it does not know, or that has no calls left, is dropped.
ConsumeIncoming ==
    /\ Receive("IncomingMessage")
    /\ known' \in {known, online}
    /\ IF Head(chan).peer \in known' THEN HandleOnionMessage
                                     ELSE UNCHANGED <<outq, pending>>
    /\ UNCHANGED <<cons, relayVars, ldk, online>>

\* Mutant: the loop visits the peers that are tracked but not online.
ConsumeOutgoing_Offline ==
    /\ Receive("SendOutgoing")
    /\ cons' = IF known = online THEN "running" ELSE "relaying"
    /\ toVisit' = known \ online
    /\ UNCHANGED <<relayTo, attempts, viewVars, pending>>

\* The loop over rate_limiter.peers() begins.  Until it ends the consumer receives
\* nothing, and so nothing changes who is online.
ConsumeOutgoing ==
    /\ Receive("SendOutgoing")
    /\ cons' = IF online = {} THEN "running" ELSE "relaying"
    /\ toVisit' = online
    /\ UNCHANGED <<relayTo, attempts, viewVars, pending>>

\* The loop goes on: what it leaves alone.
Relaying ==
    /\ cons = "relaying"
    /\ UNCHANGED <<lndVars, mainVars, chan, shutdown, peersVars, recVars, msgVars,
                   outPc, ldk, online, known, gap>>

\* After the last peer the consumer receives again.
Onward(todo) == cons' = IF todo = {} THEN "running" ELSE "relaying"

\* next_onion_message_for_peer: LDK collects the handler's messages and queues those
\* for its peers (for the others it asks for a connection, see PeerConnect); then it
\* has nothing for p, or a message that is taken from it.
VisitPeer(p) ==
    LET queued == outq \cup (pending \cap ldk) IN
    /\ Relaying
    /\ relayTo = NoPeer
    /\ p \in toVisit
    /\ toVisit' = toVisit \ {p}
    /\ pending' = {}
    /\ outq' = queued \ {p}
    /\ IF p \in queued THEN relayTo' = p /\ UNCHANGED cons
                       ELSE Onward(toVisit \ {p}) /\ UNCHANGED relayTo
    /\ UNCHANGED attempts

\* attempt >= max_retry_attempts, after attempt += 1.
MayRetry == attempts + 1 < MaxAttempts

\* Mutant: with_infinite_retries is used instead.
RelayAttempt_Infinite ==
    /\ Relaying
    /\ relayTo # NoPeer
    /\ up
    /\ relayTo' = NoPeer
    /\ Onward(toVisit)
    /\ UNCHANGED <<attempts, toVisit, outq, pending>>

\* with_max_attempts: LND takes the message or refuses it; while it cannot be
\* reached, or answers with an error that is retried (Code::Unknown is), it is asked
\* again, until the message is dropped.
RelayAttempt ==
    /\ Relaying
    /\ relayTo # NoPeer
    /\ \/ /\ (~up \/ MayRefuse) /\ MayRetry
          /\ attempts' = attempts + 1
          /\ UNCHANGED <<cons, relayTo>>
       \/ /\ up \/ ~MayRetry
          /\ attempts' = 0 /\ relayTo' = NoPeer
          /\ Onward(toVisit)
    /\ UNCHANGED <<toVisit, outq, pending>>

\* ProducerExit is only logged.
ConsumeExit ==
    /\ Receive("PeerProducerExit") \/ Receive("IncomingMessageProducerExit")
    /\ UNCHANGED <<consVars, pending>>

\* recv returns None: the channel is drained and every sender is dropped.
ConsumerEnds ==
    /\ cons = "running"
    /\ chan = <<>>
    /\ AllDone
    /\ cons' = "ok"
    /\ UNCHANGED <<lndVars, mainVars, chan, shutdown, peersVars, recVars,
                   msgVars, outPc, relayVars, viewVars, pending, gap>>

\* A call of the server pushes an invoice request to pending_messages.
PushRequest(p) ==
    /\ run = "running"
    /\ p \notin pending
    /\ pending' = pending \cup {p}
    /\ UNCHANGED <<lndVars, mainVars, chan, shutdown, peersVars, recVars, msgVars,
                   outPc, consVars, gap>>

Consumer ==
    \/ ConsumeConnected \/ ConsumeDisconnected \/ ConsumeIncoming
    \/ ConsumeOutgoing \/ ConsumeExit \/ ConsumerEnds
    \/ RelayAttempt \/ \E p \in Peers : VisitPeer(p)

-----------------------------------------------------------------------------

MainTask == ListPeers \/ SpawnTasks \/ Return \/ \E p \in Peers : Fill(p)

Next ==
    \/ MainTask \/ PeersTask \/ ReconnectionTask \/ MessagesTask \/ OutgoingTask
    \/ Consumer
    \/ RefusePeers \/ RefuseReconnection \/ RefuseMessages \/ ConsumeRefused
    \/ \E p \in Peers : PeerChange(p) \/ ReceiveMessage(p)
    \/ \E p \in FirstHops : PushRequest(p)
    \/ LndDown \/ LndUp \/ UserShutdown

\* The runtime schedules every task that can go on, and a send waits its turn
\* in the channel's first-come first-served queue of senders: strong fairness, which
\* only the ticks need.  Nothing makes LND come back, peers come or go, or messages
\* arrive.
Fairness ==
    /\ WF_vars(MainTask)
    /\ WF_vars(PeersTask)
    /\ WF_vars(ReconnectionTask)
    /\ WF_vars(MessagesTask)
    /\ SF_vars(OutgoingTask)
    /\ WF_vars(Consumer)

Spec == Init /\ [][Next]_vars

FairSpec == Spec /\ Fairness

-----------------------------------------------------------------------------
Over == run \in {"returned", "failed"}

\* The startup events all fit: nobody receives while they are sent, so a send
\* that had to wait would wait forever (channel(current_peers.len() + 1)).
StartupFits == toFill # {} => Cardinality(toFill) <= cap - Len(chan)

\* LDK and the limiter agree: every peer LDK queues messages for is one that the
\* SendOutgoing loop visits and whose messages are let in.
ViewsAgree == outq \subseteq ldk /\ ldk \subseteq online /\ online \subseteq known

\* What the messenger will take p for once everything on its way has reached it:
\* the last event about p decides, in LND's stream, held by the peer events task
\* or in the channel, and without one the limiter's entry.
Foretold(p) ==
    LET told   == {i \in DOMAIN stream : stream[i].peer = p}
        queued == {i \in DOMAIN chan :
                      /\ chan[i].peer = p
                      /\ chan[i].type \in {"PeerConnected", "PeerDisconnected"}}
    IN  IF told # {} THEN stream[Max(told)].online
        ELSE IF peersPc \in {"lookup", "sending"} /\ peersEvent.peer = p
             THEN peersEvent.type = "PeerConnected"
        ELSE IF queued # {} THEN chan[Max(queued)].type = "PeerConnected"
        ELSE p \in online

\* The messenger's view of the peers never falls behind LND by more than what is on
\* its way, as long as the events are received and no change of LND's peers fell
\* into a gap: the producers lose, swap and invent no event, and a listing after a
\* reconnection contradicts none.  So a message of a peer of LND's is dropped as
\* unknown only while the event that makes its peer known is on its way.
ViewFollows ==
    run \in {"filling", "running"} /\ ~HungUp /\ peersPc # "done" /\ ~gap =>
        \A p \in Peers : /\ Foretold(p) <=> p \in peers
                         /\ p \in recTodo => p \in peers

\* A message for a peer of LDK's, be it queued in LDK or left in pending_messages by
\* the handler, is handed to LND while the messenger runs and the peer stays: ticks
\* reach the consumer through a full channel, and the consumer does not hang in LND.
\* LND is asked to send it; after MaxAttempts errors it is dropped all the same.
MessageIsRelayed ==
    \A p \in Peers : p \in ldk /\ p \in outq \cup pending ~>
        (relayTo = p \/ p \notin ldk \/ shutdown \/ HungUp)

\* Where a task waits for LND and does not look at the signal: the subscriptions
\* and the listing of the peers.
StuckOnLnd ==
    \/ peersPc \in {"subscribing", "opened"}
    \/ msgPc = "subscribing"
    \/ recPc = "listing"

\* After the signal, or after the consumer has failed (which the others learn of
\* when a send of theirs fails), every task ends and run_onion_messenger returns,
\* unless a task waits for LND.
ShutdownEnds ==
    (shutdown \/ cons = "err") /\ run = "running" ~> (Over \/ StuckOnLnd)

-----------------------------------------------------------------------------
(* What comments of the code say that it does not do.                      *)

\* Nothing is under way between LND and the consumer.
Quiet ==
    /\ cons = "running"
    /\ chan = <<>>
    /\ peersPc \in {"opened", "receiving"} /\ peerSub = "open" /\ stream = <<>>
    /\ recPc = "listening"

\* "Subscribe to peer events from LND first thing so that we don't miss any
\* online/offline events while we are starting up": the peers are listed first.
NoEventMissed == Quiet => online = peers

\* "This function is expected to finish if any producing thread exits": not when
\* the subscription to messages is refused.
ProducerExitFinishes == msgPc = "done" ~> shutdown
=============================================================================

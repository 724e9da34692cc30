------------------------ MODULE OnionMessengerProofs ------------------------
(***************************************************************************)
(* Theorems about OnionMessenger, for any peers, any capacity of the       *)
(* channel that they lead to and any number of changes and outages.        *)
(***************************************************************************)
EXTENDS OnionMessenger, FiniteSetTheorems, WellFoundedInduction, TLAPS

-----------------------------------------------------------------------------
(* The last event of a kind in a queue.                                    *)

\* Where the elements of A are in s, and the last of them.
Where(s, A)  == {i \in DOMAIN s : s[i] \in A}
LastOf(s, A) == s[Max(Where(s, A))]

\* A nonempty set of indices has a greatest element, which is its Max.
LEMMA MaxIsLast ==
  ASSUME NEW n \in Nat, NEW S \in SUBSET (1..n), S # {}
  PROVE  Max(S) \in S /\ \A i \in S : i <= Max(S)
  <1> DEFINE R == OpToRel(<, Nat)
             T == {n - i : i \in S}
  <1>0. \A i \in S : i \in Nat /\ n - i \in Nat
    OBVIOUS
  <1>2. IsWellFoundedOn(R, Nat)
    BY NatLessThanWellFounded
  <1> HIDE DEF R
  <1>1. T \subseteq Nat /\ T # {}
    BY <1>0
  <1>3. PICK t \in T : \A u \in T : ~ (<<u, t>> \in R)
    BY <1>1, <1>2, WFMin
  <1>4. \A u \in T : ~ (u < t)
    BY <1>1, <1>3 DEF R, OpToRel
  <1>5. PICK m \in S : t = n - m
    BY <1>3
  <1>6. \A i \in S : m >= i
    <2> TAKE i \in S
    <2>1. ~ (n - i < n - m)
      BY <1>4, <1>5
    <2> QED
      BY <2>1, <1>0
  <1> QED
    BY <1>6 DEF Max

\* It is the only one.
LEMMA LastIsMax ==
  ASSUME NEW n \in Nat, NEW S \in SUBSET (1..n), NEW m \in S, \A i \in S : i <= m
  PROVE  Max(S) = m
  <1>1. Max(S) \in S /\ \A i \in S : i <= Max(S)
    BY MaxIsLast
  <1>2. S \subseteq Nat
    OBVIOUS
  <1>3. Max(S) <= m /\ m <= Max(S)
    BY <1>1
  <1>4. Max(S) \in Nat /\ m \in Nat
    BY <1>1, <1>2
  <1> QED
    BY <1>3, <1>4

\* What is appended is the last, if it is of the kind.
LEMMA LastOfAppend ==
  ASSUME NEW T, NEW s \in Seq(T), NEW e \in T, NEW A
  PROVE  /\ e \in A => Where(Append(s, e), A) # {} /\ LastOf(Append(s, e), A) = e
         /\ e \notin A =>
               /\ Where(Append(s, e), A) = {} <=> Where(s, A) = {}
               /\ Where(s, A) # {} => LastOf(Append(s, e), A) = LastOf(s, A)
  <1> DEFINE a == Append(s, e)
  <1>1. /\ a \in Seq(T) /\ Len(a) = Len(s) + 1 /\ Len(s) \in Nat
        /\ DOMAIN a = 1..Len(s) + 1 /\ DOMAIN s = 1..Len(s)
        /\ a[Len(s) + 1] = e /\ \A i \in 1..Len(s) : a[i] = s[i]
    OBVIOUS
  <1> HIDE DEF a
  <1>2. CASE e \in A
    <2>1. Len(s) + 1 \in Where(a, A) /\ Where(a, A) \subseteq 1..Len(s) + 1
      BY <1>1, <1>2 DEF Where
    <2>2. Max(Where(a, A)) = Len(s) + 1
      <3>1. Len(s) + 1 \in Nat /\ \A i \in Where(a, A) : i <= Len(s) + 1
        BY <1>1, <2>1
      <3> QED
        BY <2>1, <3>1, LastIsMax
    <2> QED
      BY <1>1, <1>2, <2>1, <2>2 DEF LastOf, a
  <1>3. CASE e \notin A
    <2>1. Where(a, A) = Where(s, A)
      BY <1>1, <1>3 DEF Where
    <2>2. ASSUME Where(s, A) # {} PROVE LastOf(a, A) = LastOf(s, A)
      <3>1. Max(Where(s, A)) \in 1..Len(s)
        BY <1>1, <2>2, MaxIsLast DEF Where
      <3> QED
        BY <1>1, <2>1, <3>1 DEF LastOf
    <2> QED
      BY <1>3, <2>1, <2>2 DEF a
  <1> QED
    BY <1>2, <1>3

\* What is taken away in front is the last only if it was the only one.
LEMMA LastOfTail ==
  ASSUME NEW T, NEW s \in Seq(T), s # <<>>, NEW A
  PROVE  /\ Where(Tail(s), A) # {} =>
               Where(s, A) # {} /\ LastOf(s, A) = LastOf(Tail(s), A)
         /\ Where(Tail(s), A) = {} /\ Head(s) \in A =>
               Where(s, A) # {} /\ LastOf(s, A) = Head(s)
         /\ Where(Tail(s), A) = {} /\ Head(s) \notin A => Where(s, A) = {}
  <1> DEFINE t == Tail(s)
  <1>1. /\ t \in Seq(T) /\ Len(t) = Len(s) - 1 /\ Len(s) \in Nat \ {0} /\ Len(t) \in Nat
        /\ DOMAIN t = 1..Len(s) - 1 /\ DOMAIN s = 1..Len(s)
        /\ Head(s) = s[1] /\ \A i \in 1..Len(s) - 1 : t[i] = s[i + 1]
    OBVIOUS
  <1> HIDE DEF t
  <1>2. \A i \in 1..Len(s) - 1 : i \in Where(t, A) <=> i + 1 \in Where(s, A)
    BY <1>1 DEF Where
  <1>3. Where(s, A) \subseteq 1..Len(s) /\ Where(t, A) \subseteq 1..Len(t)
    BY <1>1 DEF Where
  <1>4. \A i \in Where(s, A) : i # 1 => i - 1 \in Where(t, A)
    <2> TAKE i \in Where(s, A)
    <2> HAVE i # 1
    <2>1. i - 1 \in 1..Len(s) - 1 /\ (i - 1) + 1 = i
      BY <1>1, <1>3
    <2> QED
      BY <2>1, <1>2
  <1>5. ASSUME Where(t, A) # {}
        PROVE  Where(s, A) # {} /\ LastOf(s, A) = LastOf(t, A)
    <2>1. PICK m \in Where(t, A) : m = Max(Where(t, A)) /\ \A i \in Where(t, A) : i <= m
      BY <1>1, <1>3, <1>5, MaxIsLast
    <2>2. m \in 1..Len(s) - 1 /\ m + 1 \in Where(s, A)
      BY <1>1, <1>2, <1>3, <2>1
    <2>3. \A i \in Where(s, A) : i <= m + 1
      BY <1>1, <1>3, <1>4, <2>1, <2>2
    <2>4. Max(Where(s, A)) = m + 1
      BY <1>1, <1>3, <2>2, <2>3, LastIsMax
    <2> QED
      BY <1>1, <2>1, <2>2, <2>4 DEF LastOf
  <1>6. ASSUME Where(t, A) = {}, Head(s) \in A
        PROVE  Where(s, A) # {} /\ LastOf(s, A) = Head(s)
    <2>1. Where(s, A) = {1}
      BY <1>1, <1>4, <1>6 DEF Where
    <2>2. Max(Where(s, A)) = 1
      <3>1. 1 \in Where(s, A) /\ \A i \in Where(s, A) : i <= 1
        BY <2>1
      <3> QED
        BY <1>1, <1>3, <3>1, LastIsMax
    <2> QED
      BY <1>1, <2>1, <2>2 DEF LastOf
  <1>7. ASSUME Where(t, A) = {}, Head(s) \notin A PROVE Where(s, A) = {}
    <2>1. 1 \notin Where(s, A)
      BY <1>1, <1>7 DEF Where
    <2> QED
      BY <1>4, <1>7, <2>1
  <1> QED
    BY <1>5, <1>6, <1>7 DEF t

-----------------------------------------------------------------------------
(* The type invariant.  It needs three more facts: nothing runs before the *)
(* tasks are spawned, the startup events fit, and an event that names a    *)
(* peer is about one.                                                      *)

NotStarted ==
    run \in {"listing", "filling"} =>
        /\ peersPc = "off" /\ recPc = "off" /\ msgPc = "off" /\ outPc = "off"
        /\ cons = "off"
        /\ peerSub = "none" /\ stream = <<>> /\ recTodo = {}
        /\ ldk = {} /\ outq = {}

\* One place stays free for whoever sends first.
Filling ==
    /\ run = "listing" => chan = <<>>
    /\ run # "filling" => toFill = {}
    /\ run = "filling" => Cardinality(toFill) + Len(chan) < cap

PeerNews == [online : BOOLEAN, peer : Peers]
Notices  == {"PeerConnected", "PeerDisconnected"}
Proper   == {e \in Event : e.type \in Notices => e.peer \in Peers}

\* Only the peer events task and the listings tell of peers.
Named ==
    /\ chan \in Seq(Proper)
    /\ peersPc \in {"lookup", "sending"} =>
          peersEvent.type \in Notices /\ peersEvent \in Proper
    /\ msgPc = "sending" => msgEvent.type = "IncomingMessage"

StartInv == TypeOK /\ NotStarted /\ Filling /\ Named

\* The events that the tasks make.
LEMMA EventTypes ==
  /\ \A p \in Peers, b \in BOOLEAN : Connected(p, b) \in Proper
  /\ \A p \in Peers : Of("PeerDisconnected", p) \in Proper /\ Of("IncomingMessage", p) \in Proper
  /\ \A t \in {"SendOutgoing", "PeerProducerExit", "IncomingMessageProducerExit"} :
        Of(t, NoPeer) \in Proper
  /\ NoEvent \in Event
  /\ \A p : Listed(p) \subseteq BOOLEAN
  /\ Proper \subseteq Event
  BY DEF Event, Proper, Notices, Connected, Of, NoEvent, Listed

\* A send keeps within the capacity.
LEMMA SendTypes ==
  ASSUME StartInv, NEW e \in Proper, Send(e)
  PROVE  /\ chan' = Append(chan, e)
         /\ chan' \in Seq(Event) /\ chan' \in Seq(Proper)
         /\ Len(chan') = Len(chan) + 1 /\ Len(chan') <= cap
  <1>1. chan \in Seq(Proper) /\ chan \in Seq(Event) /\ cap \in Nat /\ e \in Event
    BY EventTypes DEF StartInv, Named, TypeOK
  <1> QED
    BY <1>1 DEF Send, Room

\* What the consumer takes from the channel, and what it leaves there.
LEMMA ReceiveTypes ==
  ASSUME StartInv, NEW t, Receive(t)
  PROVE  /\ chan # <<>> /\ chan' = Tail(chan)
         /\ chan' \in Seq(Event) /\ chan' \in Seq(Proper) /\ Len(chan') <= cap
         /\ Head(chan) \in Proper /\ Head(chan).type = t
  <1>1. chan # <<>> /\ chan' = Tail(chan) /\ Head(chan).type = t
    BY DEF Receive
  <1>2. chan \in Seq(Event) /\ chan \in Seq(Proper) /\ Len(chan) <= cap /\ cap \in Nat
    BY DEF StartInv, Named, TypeOK
  <1> QED
    BY <1>1, <1>2

LEMMA TypeStep == StartInv /\ [Next]_vars => TypeOK'
  <1> SUFFICES ASSUME StartInv, [Next]_vars PROVE TypeOK'
    OBVIOUS
  <1> USE MessengerAssumption
      DEF lndVars, mainVars, peersVars, recVars, msgVars, relayVars, viewVars, consVars
  <1>1. ASSUME ListPeers PROVE TypeOK'
    <2>1. IsFiniteSet(peers) /\ Cardinality(peers) \in Nat
      BY FS_Subset, FS_CardinalityType DEF StartInv, TypeOK
    <2>2. chan = <<>> /\ Capacity(peers) \in Nat
      BY <1>1, <2>1 DEF ListPeers, StartInv, Filling, Capacity
    <2> QED
      BY <1>1, <2>2 DEF ListPeers, StartInv, TypeOK
  <1>2. ASSUME NEW p \in Peers, Fill(p) PROVE TypeOK'
    <2>1. chan' \in Seq(Event) /\ Len(chan') <= cap
      BY <1>2, SendTypes, EventTypes DEF Fill, StartInv, Named, TypeOK
    <2> QED
      BY <1>2, <2>1, EventTypes DEF Fill, Trigger, StartInv, TypeOK
  <1>3. ASSUME SpawnTasks PROVE TypeOK'
    BY <1>3 DEF SpawnTasks, StartInv, TypeOK
  <1>4. ASSUME Return PROVE TypeOK'
    BY <1>4 DEF Return, StartInv, TypeOK
  <1>5. ASSUME SubscribePeers PROVE TypeOK'
    BY <1>5 DEF SubscribePeers, StartInv, TypeOK
  <1>6. ASSUME FirstPeerEvent PROVE TypeOK'
    BY <1>6 DEF FirstPeerEvent, StartInv, TypeOK
  <1>7. ASSUME RetryPeers PROVE TypeOK'
    BY <1>7 DEF RetryPeers, StartInv, TypeOK
  <1>8. ASSUME RefusePeers PROVE TypeOK'
    BY <1>8 DEF RefusePeers, Trigger, StartInv, TypeOK
  <1>9. ASSUME StopPeers PROVE TypeOK'
    BY <1>9 DEF StopPeers, StartInv, TypeOK
  <1>10. ASSUME ReceivePeerEvent PROVE TypeOK'
    <2>1. stream \in Seq(PeerNews) /\ stream # <<>> /\ stream' = Tail(stream)
      BY <1>10 DEF ReceivePeerEvent, StartInv, TypeOK, PeerNews
    <2>2. Head(stream) \in PeerNews /\ stream' \in Seq(PeerNews)
      BY <2>1
    <2>3. peersEvent' \in Event
      BY <1>10, <2>2, EventTypes DEF ReceivePeerEvent, PeerNews
    <2>4. peersPc' \in {"lookup", "sending"}
      BY <1>10 DEF ReceivePeerEvent
    <2>5. UNCHANGED <<up, peers, peerSub, msgSub, changes, drops, mainVars, chan, shutdown,
                      recVars, msgVars, outPc, consVars, pending, gap>>
      BY <1>10 DEF ReceivePeerEvent
    <2> QED
      BY <2>2, <2>3, <2>4, <2>5 DEF StartInv, TypeOK, PeerNews
  <1>11. ASSUME LookupOnionSupport PROVE TypeOK'
    <2>1. peersEvent' \in Event
      <3>1. PICK onion \in Listed(peersEvent.peer) :
              peersEvent' = [peersEvent EXCEPT !.onion =
                               up /\ peersEvent.peer \in peers /\ onion]
        BY <1>11 DEF LookupOnionSupport
      <3>2. peersEvent \in Event /\ (up /\ peersEvent.peer \in peers /\ onion) \in BOOLEAN
        BY DEF StartInv, TypeOK
      <3> QED
        BY <3>1, <3>2 DEF Event
    <2> QED
      BY <1>11, <2>1 DEF LookupOnionSupport, StartInv, TypeOK
  <1>12. ASSUME SendPeerEvent PROVE TypeOK'
    <2>1. chan' \in Seq(Event) /\ Len(chan') <= cap
      BY <1>12, SendTypes DEF SendPeerEvent, StartInv, Named, TypeOK
    <2>2. peersPc' \in {"receiving", "done"} /\ shutdown' \in BOOLEAN /\ peersEvent' \in Event
      BY <1>12, EventTypes DEF SendPeerEvent, Trigger, StartInv, TypeOK
    <2>3. UNCHANGED <<lndVars, mainVars, recVars, msgVars, outPc, consVars, pending, gap>>
      BY <1>12 DEF SendPeerEvent
    <2> QED
      BY <2>1, <2>2, <2>3 DEF StartInv, TypeOK
  <1>13. ASSUME PeerStreamBreaks PROVE TypeOK'
    BY <1>13 DEF PeerStreamBreaks, StartInv, TypeOK
  <1>14. ASSUME ExitPeers PROVE TypeOK'
    <2>1. chan' \in Seq(Event) /\ Len(chan') <= cap
      BY <1>14, SendTypes, EventTypes DEF ExitPeers, StartInv, Named, TypeOK
    <2> QED
      BY <1>14, <2>1, EventTypes DEF ExitPeers, Trigger, StartInv, TypeOK
  <1>15. ASSUME StopReconnection PROVE TypeOK'
    BY <1>15 DEF StopReconnection, StartInv, TypeOK
  <1>16. ASSUME ListReconnected PROVE TypeOK'
    BY <1>16 DEF ListReconnected, StartInv, TypeOK
  <1>17. ASSUME RefuseReconnection PROVE TypeOK'
    BY <1>17 DEF RefuseReconnection, Trigger, StartInv, TypeOK
  <1>18. ASSUME NEW p \in Peers, SendReconnected(p) PROVE TypeOK'
    <2>1. chan' \in Seq(Event) /\ Len(chan') <= cap
      BY <1>18, SendTypes, EventTypes DEF SendReconnected, StartInv, TypeOK
    <2>2. recPc' \in {"sending", "done"} /\ shutdown' \in BOOLEAN /\ recTodo' \subseteq Peers
      BY <1>18 DEF SendReconnected, Trigger, StartInv, TypeOK
    <2>3. UNCHANGED <<lndVars, mainVars, peersVars, msgVars, outPc, consVars, pending, gap>>
      BY <1>18 DEF SendReconnected
    <2> QED
      BY <2>1, <2>2, <2>3 DEF StartInv, TypeOK
  <1>19. ASSUME ReconnectionSent PROVE TypeOK'
    BY <1>19 DEF ReconnectionSent, StartInv, TypeOK
  <1>20. ASSUME MessagesTop PROVE TypeOK'
    BY <1>20 DEF MessagesTop, StartInv, TypeOK
  <1>21. ASSUME SubscribeMessages PROVE TypeOK'
    BY <1>21 DEF SubscribeMessages, StartInv, TypeOK
  <1>22. ASSUME RefuseMessages PROVE TypeOK'
    BY <1>22 DEF RefuseMessages, StartInv, TypeOK
  <1>23. ASSUME StopMessages PROVE TypeOK'
    BY <1>23 DEF StopMessages, StartInv, TypeOK
  <1>24. ASSUME NEW p \in Peers, ReceiveMessage(p) PROVE TypeOK'
    BY <1>24, EventTypes DEF ReceiveMessage, StartInv, TypeOK
  <1>25. ASSUME SendMessage PROVE TypeOK'
    <2>1. msgEvent \in Proper
      BY <1>25 DEF SendMessage, StartInv, TypeOK, Named, Proper, Notices
    <2>2. chan' \in Seq(Event) /\ Len(chan') <= cap
      BY <1>25, <2>1, SendTypes DEF SendMessage, StartInv, TypeOK
    <2> QED
      BY <1>25, <2>2, EventTypes DEF SendMessage, StartInv, TypeOK
  <1>26. ASSUME MessageStreamBreaks PROVE TypeOK'
    BY <1>26 DEF MessageStreamBreaks, StartInv, TypeOK
  <1>27. ASSUME ExitMessages PROVE TypeOK'
    <2>1. chan' \in Seq(Event) /\ Len(chan') <= cap
      BY <1>27, SendTypes, EventTypes DEF ExitMessages, StartInv, Named, TypeOK
    <2> QED
      BY <1>27, <2>1, EventTypes DEF ExitMessages, Trigger, StartInv, TypeOK
  <1>28. ASSUME TickOutgoing PROVE TypeOK'
    BY <1>28 DEF TickOutgoing, StartInv, TypeOK
  <1>29. ASSUME SendTick PROVE TypeOK'
    <2>1. chan' \in Seq(Event) /\ Len(chan') <= cap
      BY <1>29, SendTypes, EventTypes DEF SendTick, StartInv, TypeOK
    <2>2. outPc' \in {"ticking", "done"} /\ shutdown' \in BOOLEAN
      BY <1>29 DEF SendTick, Trigger, StartInv, TypeOK
    <2>3. UNCHANGED <<lndVars, mainVars, peersVars, recVars, msgVars, consVars, pending, gap>>
      BY <1>29 DEF SendTick
    <2> QED
      BY <2>1, <2>2, <2>3 DEF StartInv, TypeOK
  <1>30. ASSUME ConsumeConnected PROVE TypeOK'
    <2>1. Head(chan).peer \in Peers
      BY <1>30, ReceiveTypes DEF ConsumeConnected, Proper, Notices
    <2>2. ldk' \subseteq Peers /\ outq' \subseteq Peers
      BY <1>30, <2>1 DEF ConsumeConnected, LdkConnects, StartInv, TypeOK
    <2> QED
      BY <1>30, <2>1, <2>2, ReceiveTypes DEF ConsumeConnected, Receive, StartInv, TypeOK
  <1>31. ASSUME ConsumeRefused PROVE TypeOK'
    BY <1>31, ReceiveTypes DEF ConsumeRefused, Receive, StartInv, TypeOK
  <1>32. ASSUME ConsumeDisconnected PROVE TypeOK'
    BY <1>32, ReceiveTypes DEF ConsumeDisconnected, Receive, StartInv, TypeOK
  <1>33. ASSUME ConsumeIncoming PROVE TypeOK'
    <2>1. outq' \subseteq Peers /\ pending' \subseteq FirstHops /\ known' \subseteq Peers
      BY <1>33 DEF ConsumeIncoming, HandleOnionMessage, StartInv, TypeOK
    <2> QED
      BY <1>33, <2>1, ReceiveTypes DEF ConsumeIncoming, Receive, StartInv, TypeOK
  <1>34. ASSUME ConsumeOutgoing PROVE TypeOK'
    BY <1>34, ReceiveTypes DEF ConsumeOutgoing, Receive, StartInv, TypeOK
  <1>35. ASSUME NEW p \in Peers, VisitPeer(p) PROVE TypeOK'
    BY <1>35 DEF VisitPeer, Relaying, Onward, StartInv, TypeOK
  <1>36. ASSUME RelayAttempt PROVE TypeOK'
    BY <1>36 DEF RelayAttempt, Relaying, Onward, MayRetry, StartInv, TypeOK
  <1>37. ASSUME ConsumeExit PROVE TypeOK'
    BY <1>37, ReceiveTypes DEF ConsumeExit, Receive, StartInv, TypeOK
  <1>38. ASSUME ConsumerEnds PROVE TypeOK'
    BY <1>38 DEF ConsumerEnds, StartInv, TypeOK
  <1>39. ASSUME NEW p \in FirstHops, PushRequest(p) PROVE TypeOK'
    BY <1>39 DEF PushRequest, StartInv, TypeOK
  <1>40. ASSUME NEW p \in Peers, PeerChange(p) PROVE TypeOK'
    <2>1. stream' \in Seq(PeerNews)
      <3>1. stream \in Seq(PeerNews) /\ [online |-> p \notin peers, peer |-> p] \in PeerNews
        BY <1>40 DEF StartInv, TypeOK, PeerNews
      <3> QED
        BY <1>40, <3>1 DEF PeerChange
    <2>2. changes' \in 0..MaxChanges
      BY <1>40 DEF PeerChange, StartInv, TypeOK
    <2>3. gap' \in BOOLEAN /\ peers' \subseteq Peers
      BY <1>40 DEF PeerChange, StartInv, TypeOK
    <2> QED
      BY <1>40, <2>1, <2>2, <2>3 DEF PeerChange, StartInv, TypeOK, PeerNews
  <1>41. ASSUME LndDown PROVE TypeOK'
    <2>1. drops' \in 0..MaxDrops
      BY <1>41 DEF LndDown, StartInv, TypeOK
    <2>2. peerSub' \in {"none", "open", "broken"} /\ msgSub' \in {"none", "open", "broken"}
      BY <1>41 DEF LndDown, Broken, StartInv, TypeOK
    <2>3. /\ up' \in BOOLEAN
          /\ UNCHANGED <<peers, stream, changes, mainVars, chan, shutdown, peersVars,
                         recVars, msgVars, outPc, consVars, pending, gap>>
      BY <1>41 DEF LndDown
    <2> QED
      BY <2>1, <2>2, <2>3 DEF StartInv, TypeOK
  <1>42. ASSUME LndUp PROVE TypeOK'
    BY <1>42 DEF LndUp, StartInv, TypeOK
  <1>43. ASSUME UserShutdown PROVE TypeOK'
    BY <1>43 DEF UserShutdown, Trigger, StartInv, TypeOK
  <1>44. CASE UNCHANGED vars
    BY <1>44 DEF vars, StartInv, TypeOK
  <1> QED
    BY <1>1, <1>2, <1>3, <1>4, <1>5, <1>6, <1>7, <1>8, <1>9, <1>10, <1>11, <1>12,
       <1>13, <1>14, <1>15, <1>16, <1>17, <1>18, <1>19, <1>20, <1>21, <1>22, <1>23,
       <1>24, <1>25, <1>26, <1>27, <1>28, <1>29, <1>30, <1>31, <1>32, <1>33, <1>34,
       <1>35, <1>36, <1>37, <1>38, <1>39, <1>40, <1>41, <1>42, <1>43, <1>44
       DEF Next, MainTask, PeersTask, ReconnectionTask, MessagesTask, OutgoingTask, Consumer

\* The tasks and the consumer act only once they have been spawned, when the startup
\* is over.
Tasks ==
    \/ PeersTask \/ RefusePeers \/ ReconnectionTask \/ RefuseReconnection
    \/ MessagesTask \/ RefuseMessages \/ \E p \in Peers : ReceiveMessage(p)
    \/ OutgoingTask \/ Consumer \/ ConsumeRefused
    \/ \E p \in FirstHops : PushRequest(p)

LEMMA TasksRun ==
  ASSUME StartInv, Tasks
  PROVE  run \notin {"listing", "filling"} /\ UNCHANGED mainVars
  <1> USE DEF StartInv, NotStarted
  <1>1. CASE PeersTask \/ RefusePeers
    BY <1>1 DEF PeersTask, RefusePeers, SubscribePeers, FirstPeerEvent, RetryPeers, StopPeers,
       ReceivePeerEvent, LookupOnionSupport, SendPeerEvent, PeerStreamBreaks, ExitPeers
  <1>2. CASE ReconnectionTask \/ RefuseReconnection
    BY <1>2 DEF ReconnectionTask, RefuseReconnection, StopReconnection, ListReconnected,
       SendReconnected, ReconnectionSent
  <1>3. CASE MessagesTask \/ RefuseMessages \/ \E p \in Peers : ReceiveMessage(p)
    BY <1>3 DEF MessagesTask, RefuseMessages, ReceiveMessage, MessagesTop, SubscribeMessages,
       StopMessages, SendMessage, MessageStreamBreaks, ExitMessages
  <1>4. CASE OutgoingTask
    BY <1>4 DEF OutgoingTask, TickOutgoing, SendTick
  <1>5. CASE Consumer \/ ConsumeRefused
    BY <1>5 DEF Consumer, ConsumeRefused, ConsumeConnected, ConsumeDisconnected,
       ConsumeIncoming, ConsumeOutgoing, ConsumeExit, ConsumerEnds, RelayAttempt, VisitPeer,
       Relaying, Receive
  <1>6. CASE \E p \in FirstHops : PushRequest(p)
    BY <1>6 DEF PushRequest
  <1> QED
    BY <1>1, <1>2, <1>3, <1>4, <1>5, <1>6 DEF Tasks

\* The steps that are not the tasks'.
LEMMA NextSteps ==
  ASSUME Next
  PROVE  \/ Tasks \/ ListPeers \/ SpawnTasks \/ Return \/ \E p \in Peers : Fill(p)
         \/ \E p \in Peers : PeerChange(p)
         \/ LndDown \/ LndUp \/ UserShutdown
  BY DEF Next, Tasks, MainTask

LEMMA StartupStep == StartInv /\ [Next]_vars => NotStarted' /\ Filling'
  <1> SUFFICES ASSUME StartInv, [Next]_vars PROVE NotStarted' /\ Filling'
    OBVIOUS
  <1> USE DEF lndVars, mainVars, peersVars, recVars, msgVars, relayVars, viewVars, consVars
  <1>1. CASE Tasks
    BY <1>1, TasksRun DEF StartInv, NotStarted, Filling
  <1>2. CASE ListPeers
    <2>1. IsFiniteSet(peers) /\ Cardinality(peers) \in Nat
      BY MessengerAssumption, FS_Subset, FS_CardinalityType DEF StartInv, TypeOK
    <2>2. chan = <<>> /\ Cardinality(peers) + Len(chan) < Capacity(peers)
      BY <1>2, <2>1 DEF ListPeers, StartInv, Filling, Capacity
    <2> QED
      BY <1>2, <2>2 DEF ListPeers, StartInv, NotStarted, Filling
  <1>3. ASSUME NEW p \in Peers, Fill(p) PROVE NotStarted' /\ Filling'
    <2>1. PICK onion \in Listed(p) : Send(Connected(p, onion))
      BY <1>3 DEF Fill
    <2>2. Len(chan') = Len(chan) + 1
      BY <2>1, EventTypes, SendTypes
    <2>3. Cardinality(toFill') = Cardinality(toFill) - 1 /\ Cardinality(toFill) \in Nat
      BY <1>3, MessengerAssumption, FS_Subset, FS_CardinalityType, FS_RemoveElement
         DEF Fill, StartInv, TypeOK
    <2>4. Len(chan) \in Nat /\ cap \in Nat
      BY DEF StartInv, TypeOK
    <2>5. Filling'
      BY <1>3, <2>2, <2>3, <2>4 DEF Fill, StartInv, Filling
    <2>6. NotStarted'
      BY <1>3 DEF Fill, StartInv, NotStarted
    <2> QED
      BY <2>5, <2>6
  <1>4. CASE SpawnTasks \/ Return
    BY <1>4 DEF SpawnTasks, Return, StartInv, NotStarted, Filling
  <1>5. ASSUME NEW p \in Peers, PeerChange(p) PROVE NotStarted' /\ Filling'
    BY <1>5 DEF PeerChange, StartInv, NotStarted, Filling
  <1>6. CASE LndDown
    BY <1>6 DEF LndDown, Broken, StartInv, NotStarted, Filling
  <1>7. CASE LndUp \/ UserShutdown
    BY <1>7 DEF LndUp, UserShutdown, StartInv, NotStarted, Filling
  <1>8. CASE UNCHANGED vars
    BY <1>8 DEF vars, StartInv, NotStarted, Filling
  <1> QED
    BY <1>1, <1>2, <1>3, <1>4, <1>5, <1>6, <1>7, <1>8, NextSteps

LEMMA NamedStep == StartInv /\ [Next]_vars => Named'
  <1> SUFFICES ASSUME StartInv, [Next]_vars PROVE Named'
    OBVIOUS
  <1> USE DEF lndVars, mainVars, peersVars, recVars, msgVars, relayVars, viewVars, consVars
  <1>q. chan \in Seq(Proper)
    BY DEF StartInv, Named
  <1>1. CASE ListPeers \/ Return \/ RetryPeers \/ FirstPeerEvent \/ SubscribePeers
             \/ RefusePeers \/ StopPeers \/ PeerStreamBreaks
    BY <1>1 DEF ListPeers, Return, RetryPeers, FirstPeerEvent, SubscribePeers, RefusePeers,
       StopPeers, PeerStreamBreaks, StartInv, Named
  <1>2. ASSUME NEW p \in Peers, Fill(p) \/ SendReconnected(p) PROVE Named'
    <2>1. chan' \in Seq(Proper)
      BY <1>q, <1>2, SendTypes, EventTypes DEF Fill, SendReconnected
    <2> QED
      BY <1>2, <2>1 DEF Fill, SendReconnected, StartInv, Named
  <1>3. CASE SpawnTasks
    BY <1>3 DEF SpawnTasks, StartInv, Named
  <1>4. CASE ReceivePeerEvent
    <2>0. stream \in Seq(PeerNews) /\ stream # <<>>
      BY <1>4 DEF ReceivePeerEvent, StartInv, TypeOK, PeerNews
    <2>1. Head(stream) \in PeerNews
      BY <2>0
    <2>2. peersEvent'.type \in Notices /\ peersEvent' \in Proper
      <3>1. Head(stream).peer \in Peers /\ FALSE \in BOOLEAN
        BY <2>1 DEF PeerNews
      <3>2. \/ peersEvent' = Connected(Head(stream).peer, FALSE)
            \/ peersEvent' = Of("PeerDisconnected", Head(stream).peer)
        BY <1>4 DEF ReceivePeerEvent
      <3>3. peersEvent' \in Proper
        BY <3>1, <3>2, EventTypes
      <3> QED
        BY <3>2, <3>3 DEF Connected, Of, Notices
    <2> QED
      BY <1>4, <2>2 DEF ReceivePeerEvent, StartInv, Named
  <1>5. CASE LookupOnionSupport
    <2>1. PICK onion \in Listed(peersEvent.peer) :
            peersEvent' = [peersEvent EXCEPT !.onion =
                             up /\ peersEvent.peer \in peers /\ onion]
      BY <1>5 DEF LookupOnionSupport
    <2>2. peersEvent \in Event /\ peersEvent.type \in Notices /\ peersEvent.peer \in Peers
      BY <1>5 DEF LookupOnionSupport, StartInv, Named, Proper
    <2>3. peersEvent'.type \in Notices /\ peersEvent' \in Proper
      BY <2>1, <2>2 DEF Event, Proper
    <2> QED
      BY <1>5, <2>3 DEF LookupOnionSupport, StartInv, Named
  <1>6. CASE SendPeerEvent
    <2>1. chan' \in Seq(Proper)
      BY <1>6, SendTypes DEF SendPeerEvent, StartInv, Named
    <2> QED
      BY <1>6, <2>1 DEF SendPeerEvent, StartInv, Named
  <1>7. CASE ExitPeers
    <2>1. chan' \in Seq(Proper)
      BY <1>q, <1>7, SendTypes, EventTypes DEF ExitPeers
    <2> QED
      BY <1>7, <2>1 DEF ExitPeers, StartInv, Named
  <1>8. CASE StopReconnection \/ ListReconnected \/ RefuseReconnection \/ ReconnectionSent
    BY <1>8 DEF StopReconnection, ListReconnected, RefuseReconnection, ReconnectionSent,
       StartInv, Named
  <1>9. CASE MessagesTop \/ SubscribeMessages \/ RefuseMessages \/ StopMessages
             \/ MessageStreamBreaks
    BY <1>9 DEF MessagesTop, SubscribeMessages, RefuseMessages, StopMessages,
       MessageStreamBreaks, StartInv, Named
  <1>10. ASSUME NEW p \in Peers, ReceiveMessage(p) PROVE Named'
    BY <1>10 DEF ReceiveMessage, Of, StartInv, Named
  <1>11. CASE SendMessage
    <2>1. msgEvent \in Proper
      BY <1>11 DEF SendMessage, StartInv, TypeOK, Named, Proper, Notices
    <2>2. chan' \in Seq(Proper)
      BY <1>q, <1>11, <2>1, SendTypes DEF SendMessage
    <2> QED
      BY <1>11, <2>2 DEF SendMessage, StartInv, Named
  <1>12. CASE ExitMessages
    <2>1. chan' \in Seq(Proper)
      BY <1>q, <1>12, SendTypes, EventTypes DEF ExitMessages
    <2> QED
      BY <1>12, <2>1 DEF ExitMessages, StartInv, Named
  <1>13. CASE OutgoingTask
    <2>1. chan' \in Seq(Proper)
      BY <1>q, <1>13, SendTypes, EventTypes DEF OutgoingTask, TickOutgoing, SendTick
    <2> QED
      BY <1>13, <2>1 DEF OutgoingTask, TickOutgoing, SendTick, StartInv, Named
  <1>14. CASE ConsumeConnected \/ ConsumeRefused \/ ConsumeDisconnected \/ ConsumeIncoming
              \/ ConsumeOutgoing \/ ConsumeExit
    <2>1. PICK t : Receive(t)
      BY <1>14 DEF ConsumeConnected, ConsumeRefused, ConsumeDisconnected, ConsumeIncoming,
         ConsumeOutgoing, ConsumeExit
    <2>2. chan' \in Seq(Proper)
      BY <2>1, ReceiveTypes
    <2> QED
      BY <2>1, <2>2 DEF Receive, StartInv, Named
  <1>15. CASE RelayAttempt \/ ConsumerEnds \/ \E p \in Peers : VisitPeer(p)
    BY <1>15 DEF RelayAttempt, ConsumerEnds, VisitPeer, Relaying, StartInv, Named
  <1>16. CASE \E p \in FirstHops : PushRequest(p)
    BY <1>16 DEF PushRequest, StartInv, Named
  <1>17. CASE LndDown \/ LndUp \/ UserShutdown \/ \E p \in Peers : PeerChange(p)
    BY <1>17 DEF LndDown, LndUp, UserShutdown, PeerChange, StartInv, Named
  <1>18. CASE UNCHANGED vars
    BY <1>18 DEF vars, StartInv, Named
  <1> QED
    BY <1>1, <1>2, <1>3, <1>4, <1>5, <1>6, <1>7, <1>8, <1>9, <1>10, <1>11, <1>12, <1>13,
       <1>14, <1>15, <1>16, <1>17, <1>18
       DEF Next, MainTask, PeersTask, ReconnectionTask, MessagesTask, Consumer

LEMMA StartInit == Init => StartInv
  <1> SUFFICES ASSUME Init PROVE StartInv
    OBVIOUS
  <1>0. /\ stream \in Seq([online : BOOLEAN, peer : Peers])
        /\ chan \in Seq(Event) /\ Len(chan) = 0 /\ cap = 0
        /\ changes \in 0..MaxChanges /\ drops \in 0..MaxDrops
        /\ attempts \in 0..MaxAttempts - 1
    BY MessengerAssumption DEF Init
  <1>a. /\ peersEvent \in Event /\ msgEvent \in Event
        /\ up \in BOOLEAN /\ shutdown \in BOOLEAN /\ gap \in BOOLEAN
    BY EventTypes DEF Init
  <1>b. peers \subseteq Peers /\ Len(chan) <= cap /\ cap \in Nat
    BY <1>0 DEF Init
  <1>1. TypeOK
    BY <1>0, <1>a, <1>b DEF Init, TypeOK
  <1>2. NotStarted /\ Filling /\ Named
    BY DEF Init, NotStarted, Filling, Named
  <1> QED
    BY <1>1, <1>2 DEF StartInv

LEMMA StartStep == StartInv /\ [Next]_vars => StartInv'
  BY TypeStep, StartupStep, NamedStep DEF StartInv

LEMMA StartInvariance == Spec => []StartInv
  BY StartInit, StartStep, PTL DEF Spec

\* The state of LND, the tasks, the channel and the consumer stays well formed; among
\* other things the channel never holds more than it has room for, and a message is
\* tried less than max_retry_attempts times more.
THEOREM TypeTheorem == Spec => []TypeOK
  <1>1. StartInv => TypeOK
    BY DEF StartInv
  <1> QED
    BY <1>1, StartInvariance, PTL

\* For any number of peers at the start, the channel has room for all their events
\* before anybody receives one: run_onion_messenger does not block on its own channel.
THEOREM StartupTheorem == Spec => []StartupFits
  <1>1. StartInv => StartupFits
    <2> SUFFICES ASSUME StartInv, toFill # {} PROVE Cardinality(toFill) <= cap - Len(chan)
      BY DEF StartupFits
    <2>1. Cardinality(toFill) \in Nat /\ Len(chan) \in Nat /\ cap \in Nat
      BY MessengerAssumption, FS_Subset, FS_CardinalityType DEF StartInv, TypeOK
    <2> QED
      BY <2>1 DEF StartInv, Filling
  <1> QED
    BY <1>1, StartInvariance, PTL

-----------------------------------------------------------------------------
(* What LDK and the limiter hold of the peers.                             *)

LEMMA ViewsStep == StartInv /\ ViewsAgree /\ [Next]_vars => ViewsAgree'
  <1> SUFFICES ASSUME StartInv, ViewsAgree, [Next]_vars PROVE ViewsAgree'
    OBVIOUS
  <1> USE DEF ViewsAgree, viewVars, consVars
  <1>1. CASE ListPeers
    BY <1>1 DEF ListPeers, StartInv, NotStarted
  <1>2. CASE ConsumeConnected
    BY <1>2 DEF ConsumeConnected, LdkConnects
  <1>3. CASE ConsumeDisconnected
    BY <1>3 DEF ConsumeDisconnected
  <1>4. CASE ConsumeIncoming
    BY <1>4 DEF ConsumeIncoming, HandleOnionMessage
  <1>5. CASE ConsumeRefused \/ ConsumeOutgoing \/ ConsumeExit \/ ConsumerEnds
    BY <1>5 DEF ConsumeRefused, ConsumeOutgoing, ConsumeExit, ConsumerEnds
  <1>6. CASE RelayAttempt \/ \E p \in Peers : VisitPeer(p)
    BY <1>6 DEF RelayAttempt, VisitPeer, Relaying
  <1>7. CASE SpawnTasks \/ Return \/ \E p \in Peers : Fill(p)
    BY <1>7 DEF SpawnTasks, Return, Fill
  <1>8. CASE PeersTask \/ RefusePeers
    BY <1>8 DEF PeersTask, RefusePeers, SubscribePeers, FirstPeerEvent, RetryPeers, StopPeers,
       ReceivePeerEvent, LookupOnionSupport, SendPeerEvent, PeerStreamBreaks, ExitPeers
  <1>9. CASE ReconnectionTask \/ RefuseReconnection
    BY <1>9 DEF ReconnectionTask, RefuseReconnection, StopReconnection, ListReconnected,
       SendReconnected, ReconnectionSent
  <1>10. CASE MessagesTask \/ RefuseMessages \/ \E p \in Peers : ReceiveMessage(p)
    BY <1>10 DEF MessagesTask, RefuseMessages, ReceiveMessage, MessagesTop, SubscribeMessages,
       StopMessages, SendMessage, MessageStreamBreaks, ExitMessages
  <1>11. CASE OutgoingTask \/ \E p \in FirstHops : PushRequest(p)
    BY <1>11 DEF OutgoingTask, TickOutgoing, SendTick, PushRequest
  <1>12. CASE LndDown \/ LndUp \/ UserShutdown \/ \E p \in Peers : PeerChange(p)
    BY <1>12 DEF LndDown, LndUp, UserShutdown, PeerChange
  <1>13. CASE UNCHANGED vars
    BY <1>13 DEF vars
  <1> QED
    BY <1>1, <1>2, <1>3, <1>4, <1>5, <1>6, <1>7, <1>8, <1>9, <1>10, <1>11, <1>12, <1>13
       DEF Next, MainTask, Consumer

\* However events, messages, periods of the limiter and outages interleave, LDK queues
\* messages only for peers that the SendOutgoing loop visits and the limiter lets in.
THEOREM ViewsTheorem == Spec => []ViewsAgree
  <1>1. Init => ViewsAgree
    BY DEF Init, ViewsAgree
  <1> QED
    BY <1>1, ViewsStep, StartInvariance, PTL DEF Spec

-----------------------------------------------------------------------------
(* What the messenger will take its peers for.                             *)

News(p)    == {e \in PeerNews : e.peer = p}
Tidings(p) == {e \in Proper : e.type \in Notices /\ e.peer = p}
Held       == IF peersPc \in {"lookup", "sending"} THEN {peersEvent} ELSE {}

\* The last word on p: in the stream s, held in H, in the channel c, or in o.
Latest(s, H, c, o, p) ==
    IF Where(s, News(p)) # {} THEN LastOf(s, News(p)).online
    ELSE IF \E e \in H : e.peer = p THEN \E e \in H : e.type = "PeerConnected"
    ELSE IF Where(c, Tidings(p)) # {} THEN LastOf(c, Tidings(p)).type = "PeerConnected"
    ELSE p \in o

LEMMA ForetoldIs ==
  StartInv => \A p \in Peers : Foretold(p) = Latest(stream, Held, chan, online, p)
  <1> SUFFICES ASSUME StartInv, NEW p \in Peers
               PROVE  Foretold(p) = Latest(stream, Held, chan, online, p)
    OBVIOUS
  <1>1. stream \in Seq(PeerNews) /\ chan \in Seq(Proper)
    BY DEF StartInv, TypeOK, Named, PeerNews
  <1>2. \A i \in DOMAIN stream : stream[i] \in PeerNews
    BY <1>1
  <1>3. \A i \in DOMAIN chan : chan[i] \in Proper
    BY <1>1
  <1>4. {i \in DOMAIN stream : stream[i].peer = p} = Where(stream, News(p))
    BY <1>2 DEF Where, News
  <1>5. {i \in DOMAIN chan : /\ chan[i].peer = p
                             /\ chan[i].type \in {"PeerConnected", "PeerDisconnected"}}
          = Where(chan, Tidings(p))
    BY <1>3 DEF Where, Tidings, Notices
  <1> QED
    BY <1>4, <1>5 DEF Foretold, Latest, LastOf, Held

\* A new event of LND's is the last word on its peer.
LEMMA LatestOfNews ==
  ASSUME NEW s \in Seq(PeerNews), NEW n \in PeerNews, NEW H, NEW c, NEW o, NEW p
  PROVE  Latest(Append(s, n), H, c, o, p) =
            IF n.peer = p THEN n.online ELSE Latest(s, H, c, o, p)
  <1>1. n \in News(p) <=> n.peer = p
    BY DEF News
  <1> DEFINE t == Append(s, n)
  <1>2. /\ n.peer = p => Where(t, News(p)) # {} /\ LastOf(t, News(p)) = n
        /\ n.peer # p =>
              /\ Where(t, News(p)) = {} <=> Where(s, News(p)) = {}
              /\ Where(s, News(p)) # {} => LastOf(t, News(p)) = LastOf(s, News(p))
    BY <1>1, LastOfAppend
  <1> HIDE DEF t
  <1>3. Latest(t, H, c, o, p) = IF n.peer = p THEN n.online ELSE Latest(s, H, c, o, p)
    BY <1>2 DEF Latest
  <1> QED
    BY <1>3 DEF t

\* The task takes an event from the stream.
LEMMA LatestOfTaken ==
  ASSUME NEW s \in Seq(PeerNews), s # <<>>, NEW e, NEW c, NEW o, NEW p,
         e.peer = Head(s).peer, (e.type = "PeerConnected") = Head(s).online
  PROVE  Latest(Tail(s), {e}, c, o, p) = Latest(s, {}, c, o, p)
  <1>1. Head(s) \in PeerNews
    OBVIOUS
  <1>2. Head(s) \in News(p) <=> e.peer = p
    BY <1>1 DEF News
  <1>3. CASE Where(Tail(s), News(p)) # {}
    BY <1>3, LastOfTail DEF Latest
  <1>4. CASE Where(Tail(s), News(p)) = {} /\ e.peer = p
    <2>1. Where(s, News(p)) # {} /\ LastOf(s, News(p)) = Head(s)
      BY <1>2, <1>4, LastOfTail
    <2>2. (\E d \in {e} : d.peer = p) /\
             (\E d \in {e} : d.type = "PeerConnected") = Head(s).online
      BY <1>4
    <2> QED
      BY <1>4, <2>1, <2>2 DEF Latest
  <1>5. CASE Where(Tail(s), News(p)) = {} /\ e.peer # p
    BY <1>2, <1>5, LastOfTail DEF Latest
  <1> QED
    BY <1>3, <1>4, <1>5

\* The task passes the event on.
LEMMA LatestOfPassed ==
  ASSUME NEW s, NEW e \in Proper, e.type \in Notices, NEW c \in Seq(Proper),
         NEW o, NEW p
  PROVE  Latest(s, {}, Append(c, e), o, p) = Latest(s, {e}, c, o, p)
  <1>1. e \in Tidings(p) <=> e.peer = p
    BY DEF Tidings
  <1> DEFINE t == Append(c, e)
  <1>2. /\ e.peer = p => Where(t, Tidings(p)) # {} /\ LastOf(t, Tidings(p)) = e
        /\ e.peer # p =>
              /\ Where(t, Tidings(p)) = {} <=> Where(c, Tidings(p)) = {}
              /\ Where(c, Tidings(p)) # {} => LastOf(t, Tidings(p)) = LastOf(c, Tidings(p))
    BY <1>1, LastOfAppend
  <1> HIDE DEF t
  <1>3. Latest(s, {}, t, o, p) = Latest(s, {e}, c, o, p)
    BY <1>2 DEF Latest
  <1> QED
    BY <1>3 DEF t

\* Any other event is put into the channel.
LEMMA LatestOfSent ==
  ASSUME NEW s, NEW H, NEW c \in Seq(Proper), NEW o, NEW p, NEW n \in Proper
  PROVE  /\ n.type \notin Notices \/ n.peer # p =>
               Latest(s, H, Append(c, n), o, p) = Latest(s, H, c, o, p)
         /\ n.type = "PeerConnected" =>
               (Latest(s, H, c, o, p) => Latest(s, H, Append(c, n), o, p))
  <1>1. n \in Tidings(p) <=> n.type \in Notices /\ n.peer = p
    BY DEF Tidings
  <1> DEFINE t == Append(c, n)
  <1>2. /\ n \in Tidings(p) => Where(t, Tidings(p)) # {} /\ LastOf(t, Tidings(p)) = n
        /\ n \notin Tidings(p) =>
              /\ Where(t, Tidings(p)) = {} <=> Where(c, Tidings(p)) = {}
              /\ Where(c, Tidings(p)) # {} => LastOf(t, Tidings(p)) = LastOf(c, Tidings(p))
    BY LastOfAppend
  <1> HIDE DEF t
  <1>3. n \notin Tidings(p) => Latest(s, H, t, o, p) = Latest(s, H, c, o, p)
    BY <1>2 DEF Latest
  <1>4. n \in Tidings(p) /\ n.type = "PeerConnected" =>
           (Latest(s, H, c, o, p) => Latest(s, H, t, o, p))
    BY <1>2 DEF Latest
  <1> QED
    BY <1>1, <1>3, <1>4 DEF t

\* The consumer does what the event says.
LEMMA LatestOfReceived ==
  ASSUME NEW s, NEW H, NEW c \in Seq(Proper), c # <<>>, NEW o, NEW q, NEW p,
         /\ Head(c).type = "PeerConnected" => q = o \cup {Head(c).peer}
         /\ Head(c).type = "PeerDisconnected" => q = o \ {Head(c).peer}
         /\ Head(c).type \notin Notices => q = o
  PROVE  Latest(s, H, Tail(c), q, p) = Latest(s, H, c, o, p)
  <1>1. Head(c) \in Proper
    OBVIOUS
  <1>2. Head(c) \in Tidings(p) <=> Head(c).type \in Notices /\ Head(c).peer = p
    BY <1>1 DEF Tidings
  <1>3. CASE Where(Tail(c), Tidings(p)) # {}
    <2>1. Where(c, Tidings(p)) # {} /\ LastOf(c, Tidings(p)) = LastOf(Tail(c), Tidings(p))
      BY <1>3, LastOfTail
    <2> QED
      BY <1>3, <2>1 DEF Latest
  <1>4. CASE Where(Tail(c), Tidings(p)) = {} /\ Head(c) \in Tidings(p)
    <2>1. Where(c, Tidings(p)) # {} /\ LastOf(c, Tidings(p)) = Head(c)
      BY <1>4, LastOfTail
    <2>2. (p \in q) = (Head(c).type = "PeerConnected")
      BY <1>2, <1>4 DEF Notices
    <2> QED
      BY <1>4, <2>1, <2>2 DEF Latest
  <1>5. CASE Where(Tail(c), Tidings(p)) = {} /\ Head(c) \notin Tidings(p)
    <2>1. Where(c, Tidings(p)) = {}
      BY <1>5, LastOfTail
    <2>2. (p \in q) = (p \in o)
      BY <1>2, <1>5 DEF Notices
    <2> QED
      BY <1>5, <2>1, <2>2 DEF Latest
  <1> QED
    BY <1>3, <1>4, <1>5

\* Events come from an open subscription only, and as long as nothing went unnoticed
\* the startup events are about peers of LND's.
Sourced ==
    /\ peersPc \in {"off", "subscribing"} => stream = <<>> /\ peerSub # "open"
    /\ ~gap => toFill \subseteq peers

\* The messenger's view of p follows LND.
Follows(p) == (Foretold(p) <=> p \in peers) /\ (p \in recTodo => p \in peers)

Live      == run \in {"filling", "running"} /\ ~HungUp /\ peersPc # "done" /\ ~gap
FollowInv == StartInv /\ Sourced /\ ViewFollows

LEMMA SourcedStep == StartInv /\ Sourced /\ [Next]_vars => Sourced'
  <1> SUFFICES ASSUME StartInv, Sourced, [Next]_vars PROVE Sourced'
    OBVIOUS
  <1> USE DEF Sourced, lndVars, mainVars, peersVars, recVars, consVars
  <1>1. CASE ListPeers \/ SpawnTasks \/ Return \/ \E p \in Peers : Fill(p)
    BY <1>1 DEF ListPeers, SpawnTasks, Return, Fill, StartInv, NotStarted
  <1>2. CASE PeersTask \/ RefusePeers
    BY <1>2 DEF PeersTask, RefusePeers, SubscribePeers, FirstPeerEvent, RetryPeers, StopPeers,
       ReceivePeerEvent, LookupOnionSupport, SendPeerEvent, PeerStreamBreaks, ExitPeers
  <1>3. CASE ReconnectionTask \/ RefuseReconnection
    BY <1>3 DEF ReconnectionTask, RefuseReconnection, StopReconnection, ListReconnected,
       SendReconnected, ReconnectionSent
  <1>4. CASE MessagesTask \/ RefuseMessages \/ \E p \in Peers : ReceiveMessage(p)
    BY <1>4 DEF MessagesTask, RefuseMessages, ReceiveMessage, MessagesTop, SubscribeMessages,
       StopMessages, SendMessage, MessageStreamBreaks, ExitMessages
  <1>5. CASE OutgoingTask \/ \E p \in FirstHops : PushRequest(p)
    BY <1>5 DEF OutgoingTask, TickOutgoing, SendTick, PushRequest
  <1>6. CASE Consumer \/ ConsumeRefused
    BY <1>6 DEF Consumer, ConsumeRefused, ConsumeConnected, ConsumeDisconnected,
       ConsumeIncoming, ConsumeOutgoing, ConsumeExit, ConsumerEnds, RelayAttempt, VisitPeer,
       Relaying, Receive
  <1>7. ASSUME NEW p \in Peers, PeerChange(p) PROVE Sourced'
    BY <1>7 DEF PeerChange, Unnoticed, StartInv, NotStarted, Filling
  <1>8. CASE LndDown \/ LndUp \/ UserShutdown
    BY <1>8 DEF LndDown, LndUp, UserShutdown, Broken
  <1>9. CASE UNCHANGED vars
    BY <1>9 DEF vars
  <1> QED
    BY <1>1, <1>2, <1>3, <1>4, <1>5, <1>6, <1>7, <1>8, <1>9 DEF Next, MainTask

LEMMA FollowStep == FollowInv /\ StartInv' /\ [Next]_vars => ViewFollows'
  <1> SUFFICES ASSUME FollowInv, StartInv', [Next]_vars, Live', NEW q \in Peers
               PROVE  Follows(q)'
    BY DEF ViewFollows, Live, Follows
  <1> USE DEF lndVars, mainVars, peersVars, recVars, msgVars, relayVars, viewVars, consVars
  <1>a. Foretold(q) = Latest(stream, Held, chan, online, q)
    BY ForetoldIs DEF FollowInv
  <1>b. Foretold(q)' = Latest(stream', Held', chan', online', q)
    <2>1. (\A p \in Peers :
             Foretold(p) = Latest(stream, Held, chan, online, p))'
      BY ForetoldIs, PTL
    <2> QED
      BY <2>1
  <1>c. Live => (Foretold(q) <=> q \in peers) /\ (q \in recTodo => q \in peers)
    BY DEF FollowInv, ViewFollows, Live
  <1>t. /\ stream \in Seq(PeerNews) /\ chan \in Seq(Proper)
        /\ \A e \in Held : e.type \in Notices /\ e \in Proper
    BY DEF FollowInv, StartInv, TypeOK, Named, PeerNews, Held
  \* A step that moves none of these.
  <1>q. ASSUME UNCHANGED <<stream, chan, online, peers, Held>>,
               recTodo' \subseteq recTodo, Live
        PROVE  Follows(q)'
    BY <1>q, <1>a, <1>b, <1>c DEF Follows
  \* Something else is sent.
  <1>s. ASSUME UNCHANGED <<stream, online, peers, Held>>,
               recTodo' \subseteq recTodo, Live, NEW e \in Proper, Send(e),
               \/ e.type \notin Notices
               \/ e.type = "PeerConnected" /\ e.peer \in peers
        PROVE  Follows(q)'
    <2>1. chan' = Append(chan, e)
      BY <1>s DEF Send
    <2>2. e \in Proper /\ chan \in Seq(Proper)
      BY <1>s, <1>t
    <2>3. ASSUME e.type \notin Notices \/ e.peer # q PROVE Foretold(q)' = Foretold(q)
      <3>1. Latest(stream, Held, Append(chan, e), online, q) =
              Latest(stream, Held, chan, online, q)
        BY <2>2, <2>3, LatestOfSent
      <3> QED
        BY <1>s, <1>a, <1>b, <2>1, <3>1
    <2>4. ASSUME e.type = "PeerConnected" PROVE Foretold(q) => Foretold(q)'
      <3>1. Latest(stream, Held, chan, online, q) =>
              Latest(stream, Held, Append(chan, e), online, q)
        BY <2>2, <2>4, LatestOfSent
      <3> QED
        BY <1>s, <1>a, <1>b, <2>1, <3>1
    <2> QED
      BY <1>s, <1>c, <2>3, <2>4 DEF Follows
  <1>1. CASE ListPeers
    <2>1. /\ stream' = <<>> /\ chan' = <<>> /\ Held' = {} /\ online' = peers /\ peers' = peers
          /\ recTodo' = {}
      BY <1>1 DEF ListPeers, Live, FollowInv, StartInv, NotStarted, Filling, Held
    <2>2. Where(<<>>, News(q)) = {} /\ Where(<<>>, Tidings(q)) = {}
      BY DEF Where
    <2> QED
      BY <1>b, <2>1, <2>2 DEF Follows, Latest
  <1>2. ASSUME NEW p \in Peers, Fill(p) PROVE Follows(q)'
    <2>1. PICK onion \in Listed(p) : Send(Connected(p, onion))
      BY <1>2 DEF Fill
    <2>2. /\ UNCHANGED <<stream, online, peers, Held>>
          /\ recTodo' \subseteq recTodo /\ Live /\ p \in peers
      BY <1>2 DEF Fill, Held, Live, HungUp, FollowInv, Sourced
    <2>3. /\ Connected(p, onion) \in Proper /\ Connected(p, onion).type = "PeerConnected"
          /\ Connected(p, onion).peer = p
      BY EventTypes DEF Connected
    <2> QED
      BY <1>s, <2>1, <2>2, <2>3
  <1>3. CASE SpawnTasks
    <2>1. Held' = Held /\ Live
      BY <1>3 DEF SpawnTasks, Held, Live, HungUp, FollowInv, StartInv, NotStarted
    <2> QED
      BY <1>3, <1>q, <2>1 DEF SpawnTasks
  <1>4. CASE Return
    BY <1>4, <1>q DEF Return, Live
  <1>5. CASE SubscribePeers
    <2>1. stream = <<>> /\ Held' = Held /\ Live
      BY <1>5 DEF SubscribePeers, Held, Live, HungUp, FollowInv, Sourced
    <2> QED
      BY <1>5, <1>q, <2>1 DEF SubscribePeers
  <1>6. CASE FirstPeerEvent \/ RetryPeers
    <2>1. Held' = Held /\ Live
      BY <1>6 DEF FirstPeerEvent, RetryPeers, Held, Live, HungUp
    <2> QED
      BY <1>6, <1>q, <2>1 DEF FirstPeerEvent, RetryPeers
  <1>7. CASE ReceivePeerEvent
    <2>1. /\ stream # <<>> /\ stream' = Tail(stream)
          /\ Held = {} /\ Held' = {peersEvent'} /\ Live
          /\ UNCHANGED <<chan, online, peers, recTodo>>
      BY <1>7 DEF ReceivePeerEvent, Held, Live, HungUp
    <2>a. Head(stream) \in PeerNews
      BY <1>t, <2>1
    <2>2. Head(stream).online \in BOOLEAN
      BY <2>a DEF PeerNews
    <2>3. /\ peersEvent'.peer = Head(stream).peer
          /\ (peersEvent'.type = "PeerConnected") = Head(stream).online
      BY <1>7, <2>2 DEF ReceivePeerEvent, Connected, Of
    <2>4. Foretold(q)' = Foretold(q)
      <3>1. Foretold(q) = Latest(stream, {}, chan, online, q)
        BY <1>a, <2>1 DEF Latest
      <3>2. Foretold(q)' = Latest(Tail(stream), {peersEvent'}, chan, online, q)
        BY <1>b, <2>1 DEF Latest
      <3>3. Latest(Tail(stream), {peersEvent'}, chan, online, q) =
              Latest(stream, {}, chan, online, q)
        BY <1>t, <2>1, <2>3, LatestOfTaken
      <3> QED
        BY <3>1, <3>2, <3>3
    <2> QED
      BY <1>c, <2>1, <2>4 DEF Follows
  <1>8. CASE LookupOnionSupport
    <2>1. PICK onion \in Listed(peersEvent.peer) :
            peersEvent' = [peersEvent EXCEPT !.onion =
                             up /\ peersEvent.peer \in peers /\ onion]
      BY <1>8 DEF LookupOnionSupport
    <2>2. /\ Held = {peersEvent} /\ Held' = {peersEvent'} /\ Live
          /\ UNCHANGED <<stream, chan, online, peers, recTodo>>
      BY <1>8 DEF LookupOnionSupport, Held, Live, HungUp
    <2>3. peersEvent'.peer = peersEvent.peer /\ peersEvent'.type = peersEvent.type
      BY <1>t, <2>1, <2>2 DEF Proper, Event
    <2>4. Latest(stream, {peersEvent'}, chan, online, q) =
            Latest(stream, {peersEvent}, chan, online, q)
      BY <2>3 DEF Latest
    <2>5. Foretold(q)' = Foretold(q)
      BY <1>a, <1>b, <2>2, <2>4
    <2> QED
      BY <1>c, <2>2, <2>5 DEF Follows
  <1>9. CASE SendPeerEvent
    <2>1. /\ Send(peersEvent) /\ Held = {peersEvent} /\ Held' = {} /\ Live
          /\ UNCHANGED <<stream, online, peers, recTodo>>
      BY <1>9 DEF SendPeerEvent, Held, Live, HungUp
    <2>2. chan' = Append(chan, peersEvent)
      BY <2>1 DEF Send
    <2>3. Foretold(q)' = Foretold(q)
      <3>1. Foretold(q) = Latest(stream, {peersEvent}, chan, online, q)
        BY <1>a, <2>1 DEF Latest
      <3>2. Foretold(q)' = Latest(stream, {}, Append(chan, peersEvent), online, q)
        BY <1>b, <2>1, <2>2 DEF Latest
      <3>3. Latest(stream, {}, Append(chan, peersEvent), online, q) =
              Latest(stream, {peersEvent}, chan, online, q)
        BY <1>t, <2>1, LatestOfPassed
      <3> QED
        BY <3>1, <3>2, <3>3
    <2> QED
      BY <1>c, <2>1, <2>3 DEF Follows
  <1>10. CASE RefusePeers \/ StopPeers \/ ExitPeers
    BY <1>10 DEF RefusePeers, StopPeers, ExitPeers, Live
  <1>11. CASE PeerStreamBreaks
    BY <1>11, <1>q DEF PeerStreamBreaks, Held, Live, HungUp
  <1>12. CASE StopReconnection \/ RefuseReconnection \/ ReconnectionSent
    BY <1>12, <1>q DEF StopReconnection, RefuseReconnection, ReconnectionSent, Held, Live,
       HungUp
  <1>13. CASE ListReconnected
    <2>1. /\ Held' = Held /\ Live /\ recTodo' = peers
          /\ UNCHANGED <<stream, chan, online, peers, peersEvent>>
      BY <1>13 DEF ListReconnected, Held, Live, HungUp
    <2> QED
      BY <1>a, <1>b, <1>c, <2>1 DEF Follows
  <1>14. ASSUME NEW p \in Peers, SendReconnected(p) PROVE Follows(q)'
    <2>1. /\ UNCHANGED <<stream, online, peers, Held>>
          /\ Live /\ recTodo' \subseteq recTodo
      BY <1>14 DEF SendReconnected, Held, Live, HungUp
    <2>2. PICK onion \in Listed(p) : Send(Connected(p, onion))
      BY <1>14 DEF SendReconnected, Live, HungUp
    <2>3. p \in peers
      BY <1>14, <2>1 DEF SendReconnected, FollowInv, ViewFollows, Live
    <2>4. /\ Connected(p, onion) \in Proper /\ Connected(p, onion).type = "PeerConnected"
          /\ Connected(p, onion).peer = p
      BY EventTypes DEF Connected
    <2> QED
      BY <1>s, <2>1, <2>2, <2>3, <2>4
  <1>15. CASE \/ MessagesTop \/ SubscribeMessages \/ RefuseMessages \/ StopMessages
              \/ MessageStreamBreaks \/ \E p \in Peers : ReceiveMessage(p)
    BY <1>15, <1>q DEF MessagesTop, SubscribeMessages, RefuseMessages, StopMessages,
       MessageStreamBreaks, ReceiveMessage, Held, Live, HungUp
  <1>16. CASE SendMessage
    <2>1. /\ UNCHANGED <<stream, online, peers, Held>>
          /\ Live /\ recTodo' \subseteq recTodo /\ Send(msgEvent)
      BY <1>16 DEF SendMessage, Held, Live, HungUp
    <2>2. msgEvent \in Proper /\ msgEvent.type \notin Notices
      BY <1>16 DEF SendMessage, FollowInv, StartInv, TypeOK, Named, Proper, Notices
    <2> QED
      BY <1>s, <2>1, <2>2
  <1>17. CASE ExitMessages \/ SendTick
    <2>1. /\ UNCHANGED <<stream, online, peers, Held>>
          /\ Live /\ recTodo' \subseteq recTodo
      BY <1>17 DEF ExitMessages, SendTick, Held, Live, HungUp
    <2>2. PICK t \in {"SendOutgoing", "IncomingMessageProducerExit"} : Send(Of(t, NoPeer))
      BY <1>17 DEF ExitMessages, SendTick, Live, HungUp
    <2>3. Of(t, NoPeer) \in Proper /\ Of(t, NoPeer).type \notin Notices
      BY EventTypes DEF Of, Notices
    <2> QED
      BY <1>s, <2>1, <2>2, <2>3
  <1>18. CASE TickOutgoing \/ \E p \in FirstHops : PushRequest(p)
    BY <1>18, <1>q DEF TickOutgoing, PushRequest, Held, Live, HungUp
  <1>19. CASE \/ ConsumeConnected \/ ConsumeDisconnected \/ ConsumeIncoming
              \/ ConsumeOutgoing \/ ConsumeExit
    <2>1. PICK t : Receive(t)
      BY <1>19 DEF ConsumeConnected, ConsumeDisconnected, ConsumeIncoming, ConsumeOutgoing,
         ConsumeExit
    <2>2. /\ chan # <<>> /\ chan' = Tail(chan)
          /\ UNCHANGED <<stream, peers, peersEvent, recTodo>> /\ Held' = Held /\ Live
      BY <2>1 DEF Receive, Held, Live, HungUp
    <2>3. /\ Head(chan).type = "PeerConnected" => online' = online \cup {Head(chan).peer}
          /\ Head(chan).type = "PeerDisconnected" => online' = online \ {Head(chan).peer}
          /\ Head(chan).type \notin Notices => online' = online
      BY <1>19 DEF ConsumeConnected, ConsumeDisconnected, ConsumeIncoming, ConsumeOutgoing,
         ConsumeExit, Receive, Notices
    <2>4. Foretold(q)' = Foretold(q)
      BY <1>a, <1>b, <1>t, <2>2, <2>3, LatestOfReceived
    <2> QED
      BY <1>c, <2>2, <2>4 DEF Follows
  <1>20. CASE ConsumeRefused \/ ConsumerEnds
    BY <1>20 DEF ConsumeRefused, ConsumerEnds, Live, HungUp
  <1>21. CASE RelayAttempt \/ \E p \in Peers : VisitPeer(p)
    <2>1. /\ UNCHANGED <<stream, chan, online, peers, peersEvent, peersPc, recTodo, run, gap>>
          /\ cons = "relaying"
      BY <1>21 DEF RelayAttempt, VisitPeer, Relaying
    <2>2. Held' = Held /\ Live
      BY <2>1 DEF Held, Live, HungUp
    <2> QED
      BY <1>q, <2>1, <2>2
  <1>22. ASSUME NEW p \in Peers, PeerChange(p) PROVE Follows(q)'
    <2> DEFINE n == [online |-> p \notin peers, peer |-> p]
    <2>1. /\ UNCHANGED <<chan, online, peersEvent, recTodo>> /\ Held' = Held /\ Live
          /\ p \notin recTodo /\ peerSub = "open"
      BY <1>22 DEF PeerChange, Unnoticed, Held, Live, HungUp
    <2>2. stream' = Append(stream, n) /\ n \in PeerNews
      BY <1>22, <2>1 DEF PeerChange, PeerNews
    <2>3. Foretold(q)' = IF p = q THEN p \notin peers ELSE Foretold(q)
      <3>1. n.peer = p /\ n.online = (p \notin peers)
        OBVIOUS
      <3> HIDE DEF n
      <3> QED
        BY <1>a, <1>b, <1>t, <2>1, <2>2, <3>1, LatestOfNews
    <2>4. peers' = IF p \notin peers THEN peers \cup {p} ELSE peers \ {p}
      BY <1>22 DEF PeerChange
    <2> QED
      BY <1>c, <2>1, <2>3, <2>4 DEF Follows
  <1>23. CASE LndDown \/ LndUp \/ UserShutdown
    BY <1>23, <1>q DEF LndDown, LndUp, UserShutdown, Held, Live, HungUp
  <1>24. CASE UNCHANGED vars
    BY <1>24, <1>q DEF vars, Held, Live, HungUp
  <1> QED
    BY <1>1, <1>2, <1>3, <1>4, <1>5, <1>6, <1>7, <1>8, <1>9, <1>10, <1>11, <1>12, <1>13,
       <1>14, <1>15, <1>16, <1>17, <1>18, <1>19, <1>20, <1>21, <1>22, <1>23, <1>24
       DEF Next, MainTask, PeersTask, ReconnectionTask, MessagesTask, OutgoingTask, Consumer

\* Whatever LND's peers do and however the tasks interleave, the messenger's view is
\* LND's but for the events that are on their way, while the events are received and
\* no change fell into a gap: the producers lose, swap and invent none, and the listing
\* after a reconnection contradicts none.
THEOREM FollowsTheorem == Spec => []ViewFollows
  <1>1. Init => Sourced /\ ViewFollows
    BY DEF Init, Sourced, ViewFollows
  <1>2. FollowInv /\ StartInv' /\ [Next]_vars => FollowInv'
    BY FollowStep, SourcedStep DEF FollowInv
  <1>3. FollowInv => ViewFollows
    BY DEF FollowInv
  <1>4. Init => FollowInv
    BY <1>1, StartInit DEF FollowInv
  <1> QED
    BY <1>2, <1>3, <1>4, StartInvariance, PTL DEF Spec
=============================================================================

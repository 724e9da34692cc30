-------------------------- MODULE PeerConnectProofs --------------------------
(***************************************************************************)
(* Proofs for PeerConnect, for any callers and any number of attempts.     *)
(***************************************************************************)
EXTENDS PeerConnect, TLAPS

-----------------------------------------------------------------------------
(* The attempts.                                                           *)

CountsTyped ==
    /\ connected \in BOOLEAN
    /\ pc \in [Callers -> Places]
    /\ attempts \in [Callers -> Nat]
    /\ faults \in [Callers -> Nat]
    /\ drops \in [Callers -> Nat]

\* What a retrying caller has behind it: each failed attempt is a fault or a race it
\* lost, and between two races the node has disconnected, for otherwise the listing
\* would have found it.
Accounted(c) ==
    /\ pc[c] = "idle" => attempts[c] = 0
    /\ pc[c] \in {"top", "sleeping", "list", "info", "dial"} => attempts[c] <= MAX_ATTEMPTS
    /\ pc[c] \in {"info", "dial"} => attempts[c] <= faults[c] + drops[c]
    /\ pc[c] \in {"top", "sleeping", "list"} =>
          \/ attempts[c] <= faults[c] + drops[c]
          \/ connected /\ attempts[c] <= faults[c] + drops[c] + 1
    /\ pc[c] = "err" => faults[c] + drops[c] >= MAX_ATTEMPTS

CountsInv == CountsTyped /\ \A c \in Retrying : Accounted(c)

\* Another caller's step leaves a caller's account alone, if it can only connect the
\* node.
LEMMA OthersAccount ==
    ASSUME CountsInv, NEW c \in Retrying,
           connected' = connected \/ connected' = TRUE,
           pc'[c] = pc[c], attempts'[c] = attempts[c],
           faults'[c] = faults[c], drops'[c] = drops[c]
    PROVE  Accounted(c)'
BY DEF CountsInv, CountsTyped, Accounted

\* A step of one caller to its next place.
LEMMA GotoCounts ==
    ASSUME CountsInv, NEW c \in Callers, NEW to \in Places, Goto(c, to),
           c \in Retrying => Accounted(c)'
    PROVE  CountsInv'
<1>1. CountsTyped'
  BY DEF CountsInv, CountsTyped, Goto, nodeVars, callRest
<1>2. ASSUME NEW d \in Retrying, d # c PROVE Accounted(d)'
  <2>1. pc'[d] = pc[d]
    BY <1>2 DEF Goto, CountsInv, CountsTyped, Callers
  <2>2. /\ connected' = connected /\ attempts'[d] = attempts[d]
        /\ faults'[d] = faults[d] /\ drops'[d] = drops[d]
    BY DEF Goto, nodeVars, callRest
  <2> QED BY <2>1, <2>2, <1>2, OthersAccount
<1> QED BY <1>1, <1>2 DEF CountsInv

\* An attempt that fails is on the account: as a fault, or as a race for a node that
\* is connected now.
LEMMA FailedCounts ==
    ASSUME CountsInv, NEW c \in Callers, Failed(c),
           pc[c] \in {"list", "info", "dial"},
           connected' = connected \/ connected' = TRUE,
           connected' \in BOOLEAN,
           \/ faults' = [faults EXCEPT ![c] = IF @ > MAX_ATTEMPTS THEN @ ELSE @ + 1]
           \/ faults' = faults /\ connected' = TRUE /\ pc[c] = "dial"
    PROVE  CountsInv'
<1> USE ConnectAssumption
<1>1. CountsTyped'
  <2>0. PICK to \in {"err", "top"} : pc' = [pc EXCEPT ![c] = to]
    BY Zenon DEF Failed
  <2>1. pc' \in [Callers -> Places]
    BY <2>0 DEF CountsInv, CountsTyped, Places
  <2>2. attempts' \in [Callers -> Nat]
    BY DEF CountsInv, CountsTyped, Failed
  <2>3. faults' \in [Callers -> Nat]
    BY DEF CountsInv, CountsTyped
  <2>4. drops' \in [Callers -> Nat]
    BY DEF CountsInv, CountsTyped, Failed, callRest
  <2> QED BY <2>1, <2>2, <2>3, <2>4 DEF CountsTyped
<1>2. ASSUME NEW d \in Retrying, d # c PROVE Accounted(d)'
  <2>1. /\ pc'[d] = pc[d] /\ attempts'[d] = attempts[d]
        /\ faults'[d] = faults[d] /\ drops'[d] = drops[d]
    BY <1>2 DEF Failed, CountsInv, CountsTyped, Callers, callRest
  <2> QED BY <2>1, <1>2, OthersAccount
<1>3. ASSUME c \in Retrying PROVE Accounted(c)'
  <2>1. /\ attempts[c] \in Nat /\ faults[c] \in Nat /\ drops[c] \in Nat
        /\ attempts'[c] = attempts[c] + 1
        /\ drops'[c] = drops[c]
        /\ pc'[c] = IF attempts[c] + 1 > MAX_ATTEMPTS THEN "err" ELSE "top"
    BY <1>3 DEF Failed, GivesUp, CountsInv, CountsTyped, callRest
  <2>2. attempts[c] <= MAX_ATTEMPTS
    BY <1>3 DEF CountsInv, Accounted
  <2>3. CASE faults' = [faults EXCEPT ![c] = IF @ > MAX_ATTEMPTS THEN @ ELSE @ + 1]
    <3>1. faults'[c] = IF faults[c] > MAX_ATTEMPTS THEN faults[c] ELSE faults[c] + 1
      BY <2>3 DEF CountsInv, CountsTyped
    <3>2. \/ attempts[c] <= faults[c] + drops[c]
          \/ connected /\ attempts[c] <= faults[c] + drops[c] + 1
      BY <1>3 DEF CountsInv, Accounted
    <3>3. connected => connected'
      OBVIOUS
    <3>4. \/ attempts'[c] <= faults'[c] + drops'[c]
          \/ connected' /\ attempts'[c] <= faults'[c] + drops'[c] + 1
      BY <2>1, <2>2, <3>1, <3>2, <3>3
    <3>5. attempts'[c] > MAX_ATTEMPTS => faults'[c] + drops'[c] >= MAX_ATTEMPTS
      BY <2>1, <2>2, <3>1, <3>4
    <3> QED BY <2>1, <3>4, <3>5 DEF Accounted
  <2>4. CASE faults' = faults /\ connected' = TRUE /\ pc[c] = "dial"
    <3>1. attempts[c] <= faults[c] + drops[c]
      BY <1>3, <2>4 DEF CountsInv, Accounted
    <3>2. attempts'[c] <= faults'[c] + drops'[c] + 1
      BY <2>1, <2>4, <3>1
    <3>3. attempts'[c] > MAX_ATTEMPTS => faults'[c] + drops'[c] >= MAX_ATTEMPTS
      BY <2>1, <2>4, <3>2
    <3> QED BY <2>1, <2>4, <3>2, <3>3 DEF Accounted
  <2> QED BY <2>3, <2>4
<1> QED BY <1>1, <1>2, <1>3 DEF CountsInv

\* The node's own coming and going: a caller under way counts each disconnection.
LEMMA ChangeCounts == CountsInv /\ Change => CountsInv'
<1> SUFFICES ASSUME CountsInv, Change PROVE CountsInv'
  OBVIOUS
<1>1. CountsTyped'
  BY DEF Change, Flip, CountsInv, CountsTyped
<1>2. ASSUME NEW c \in Retrying PROVE Accounted(c)'
  <2>1. /\ pc'[c] = pc[c] /\ attempts'[c] = attempts[c] /\ faults'[c] = faults[c]
        /\ attempts[c] \in Nat /\ faults[c] \in Nat /\ drops[c] \in Nat
        /\ drops'[c] = IF connected /\ Active(c) THEN drops[c] + 1 ELSE drops[c]
        /\ connected' = ~connected
    BY DEF Change, Flip, CountsInv, CountsTyped, Callers
  <2>2. CASE ~connected
    <3>1. drops'[c] = drops[c] /\ connected' = TRUE
      BY <2>1, <2>2
    <3> QED BY <2>1, <3>1, OthersAccount
  <2>3. CASE connected /\ Active(c)
    <3>1. drops'[c] = drops[c] + 1
      BY <2>1, <2>3
    <3>2. Accounted(c)
      BY DEF CountsInv
    <3> QED BY ConnectAssumption, <2>1, <2>3, <3>1, <3>2 DEF Accounted, Active, Ended
  <2>4. CASE ~Active(c)
    <3>1. drops'[c] = drops[c]
      BY <2>1, <2>4
    <3>2. pc[c] \notin {"top", "sleeping", "list", "info", "dial"}
      BY <2>4 DEF Active, Ended
    <3>3. Accounted(c)
      BY DEF CountsInv
    <3> QED BY <2>1, <3>1, <3>2, <3>3 DEF Accounted
  <2> QED BY <2>2, <2>3, <2>4
<1> QED BY <1>1, <1>2 DEF CountsInv

\* Every failed attempt of a retrying caller is accounted for.
THEOREM CountsInvariance == Spec => []CountsInv
<1> USE ConnectAssumption
<1>1. Init => CountsInv
  <2> SUFFICES ASSUME Init PROVE CountsInv
    OBVIOUS
  <2>1. CountsTyped
    BY DEF Init, CountsTyped, Places
  <2>2. ASSUME NEW c \in Retrying PROVE Accounted(c)
    <3>1. pc[c] = "idle" /\ attempts[c] = 0
      BY DEF Init, Callers
    <3> QED BY <3>1 DEF Accounted
  <2> QED BY <2>1, <2>2 DEF CountsInv
<1>2. CountsInv /\ [Next]_vars => CountsInv'
  <2> SUFFICES ASSUME CountsInv, [Next]_vars PROVE CountsInv'
    OBVIOUS
  <2>1. CASE UNCHANGED <<connected, pc, attempts, faults, drops>>
    BY <2>1 DEF CountsInv, CountsTyped, Accounted
  <2>2. CASE Change
    BY <2>2, ChangeCounts
  <2>3. CASE PeerEvent \/ Shutdown \/ SendMessage \/ SendOutgoing \/ UNCHANGED vars
    <3>1. UNCHANGED <<connected, pc, attempts, faults, drops>>
      BY <2>3 DEF PeerEvent, Shutdown, SendMessage, SendOutgoing, vars
    <3> QED BY <3>1, <2>1
  <2>4. ASSUME NEW c \in Callers, HandleEvent(c) \/ Request(c) PROVE CountsInv'
    <3>1. /\ UNCHANGED <<connected, attempts, faults, drops>>
          /\ pc[c] = "idle"
          /\ \E to \in {"top", "list"} : pc' = [pc EXCEPT ![c] = to]
      BY <2>4 DEF HandleEvent, Request, nodeVars, callRest
    <3>2. CountsTyped'
      BY <3>1 DEF CountsInv, CountsTyped, Places
    <3>3. ASSUME NEW d \in Retrying, d # c PROVE Accounted(d)'
      <4>1. pc'[d] = pc[d]
        BY <3>1, <3>3 DEF CountsInv, CountsTyped, Callers
      <4> QED BY <3>1, <3>3, <4>1, OthersAccount
    <3>4. ASSUME c \in Retrying PROVE Accounted(c)'
      <4>1. pc'[c] \in {"top", "list"}
        BY <3>1 DEF CountsInv, CountsTyped
      <4>2. attempts'[c] = 0 /\ faults'[c] \in Nat /\ drops'[c] \in Nat
        BY <3>1, <3>4 DEF CountsInv, CountsTyped, Accounted
      <4> QED BY <4>1, <4>2 DEF Accounted
    <3> QED BY <3>2, <3>3, <3>4 DEF CountsInv
  <2>5. ASSUME NEW c \in Callers, NEW to \in Places, Goto(c, to),
               \/ pc[c] \in {"top", "sleeping"} /\ to \in {"stopped", "list", "sleeping"}
               \/ pc[c] = "list" /\ to = (IF connected THEN "ok" ELSE "info")
               \/ pc[c] = "info" /\ to = "dial"
        PROVE  CountsInv'
    <3>1. /\ UNCHANGED <<connected, attempts, faults, drops>>
          /\ pc'[c] = to
      BY <2>5 DEF Goto, nodeVars, callRest, CountsInv, CountsTyped
    <3>2. ASSUME c \in Retrying PROVE Accounted(c)'
      <4>1. Accounted(c)
        BY <3>2 DEF CountsInv
      <4> QED BY <2>5, <3>1, <4>1 DEF Accounted
    <3> QED BY <2>5, <3>2, GotoCounts
  <2>6. ASSUME NEW c \in Callers, Top(c) \/ Wake(c) PROVE CountsInv'
    <3>1. \E to \in {"stopped", "list", "sleeping"} :
             pc[c] \in {"top", "sleeping"} /\ Goto(c, to)
      BY <2>6 DEF Top, Wake
    <3> QED BY <3>1, <2>5 DEF Places
  <2>7. ASSUME NEW c \in Callers, pc[c] \in {"list", "info"}, Fault(c), UNCHANGED nodeVars
        PROVE  CountsInv'
    <3>1. connected' = connected /\ connected' \in BOOLEAN
      BY <2>7 DEF nodeVars, CountsInv, CountsTyped
    <3> QED BY <2>7, <3>1, FailedCounts DEF Fault
  <2>8. ASSUME NEW c \in Callers, List(c) PROVE CountsInv'
    <3>1. CASE Goto(c, IF connected THEN "ok" ELSE "info")
      BY <2>8, <3>1, <2>5 DEF List, Places
    <3> QED BY <2>8, <3>1, <2>7 DEF List
  <2>9. ASSUME NEW c \in Callers, NodeInfo(c) PROVE CountsInv'
    BY <2>9, <2>5, <2>7 DEF NodeInfo, Places
  <2>10. ASSUME NEW c \in Callers, Dial(c) PROVE CountsInv'
    <3>1. connected \in BOOLEAN /\ pc[c] = "dial"
      BY <2>10 DEF Dial, CountsInv, CountsTyped
    <3>2. CASE ~connected /\ Flip /\ Fault(c)
      <4>1. connected' = TRUE
        BY <3>2 DEF Flip
      <4> QED BY <3>1, <3>2, <4>1, FailedCounts DEF Fault
    <3>3. CASE ~connected /\ Fault(c) /\ UNCHANGED nodeVars
      <4>1. connected' = connected /\ connected' \in BOOLEAN
        BY <3>1, <3>3 DEF nodeVars
      <4> QED BY <3>1, <3>3, <4>1, FailedCounts DEF Fault
    <3>4. CASE connected /\ Failed(c) /\ UNCHANGED <<nodeVars, faults>>
      <4>1. connected' = TRUE /\ faults' = faults
        BY <3>1, <3>4 DEF nodeVars
      <4> QED BY <3>1, <3>4, <4>1, FailedCounts
    <3>5. CASE /\ ~connected /\ Flip
               /\ pc' = [pc EXCEPT ![c] = "ok"]
               /\ UNCHANGED <<callRest, needed, attempts, faults>>
      <4>1. connected' = TRUE /\ UNCHANGED <<attempts, faults, drops>>
        BY <3>5 DEF Flip, callRest
      <4>2. CountsTyped'
        BY <3>5, <4>1 DEF CountsInv, CountsTyped, Places
      <4>3. ASSUME NEW d \in Retrying, d # c PROVE Accounted(d)'
        <5>1. pc'[d] = pc[d]
          BY <3>5, <4>3 DEF CountsInv, CountsTyped, Callers
        <5> QED BY <4>1, <4>3, <5>1, OthersAccount
      <4>4. Accounted(c)'
        <5>1. pc'[c] = "ok"
          BY <3>5 DEF CountsInv, CountsTyped
        <5> QED BY <5>1 DEF Accounted
      <4> QED BY <4>2, <4>3, <4>4 DEF CountsInv
    <3> QED BY <2>10, <3>2, <3>3, <3>4, <3>5 DEF Dial
  <2> QED BY <2>2, <2>3, <2>4, <2>6, <2>8, <2>9, <2>10 DEF Next, Attempt
<1> QED BY <1>1, <1>2, PTL DEF Spec

\* connect_to_peer_with_retry gives up only after MAX_ATTEMPTS failures that are not
\* lost races, for any number of callers and of attempts.
THEOREM GivesUpTheorem == Spec => []GivesUpOnFaults
<1>1. CountsInv => GivesUpOnFaults
  BY DEF CountsInv, Accounted, GivesUpOnFaults
<1> QED BY <1>1, CountsInvariance, PTL
-----------------------------------------------------------------------------
(* The message that waits.                                                 *)

LEMMA AppendLast ==
    ASSUME NEW s \in Seq(BOOLEAN), NEW b \in BOOLEAN
    PROVE  /\ Append(s, b) \in Seq(BOOLEAN)
           /\ Append(s, b) # <<>>
           /\ Append(s, b)[Len(Append(s, b))] = b
OBVIOUS

LEMMA TailLast ==
    ASSUME NEW s \in Seq(BOOLEAN), s # <<>>
    PROVE  /\ Tail(s) \in Seq(BOOLEAN)
           /\ Head(s) \in BOOLEAN
           /\ Tail(s) # <<>> => Tail(s)[Len(Tail(s))] = s[Len(s)]
           /\ Tail(s) = <<>> => Head(s) = s[Len(s)]
OBVIOUS

\* As long as nothing was lost the messenger's view is LND's, or will be when the
\* last event on its way has come.
Follows ==
    /\ events = <<>> => view = connected
    /\ events # <<>> => events[Len(events)] = connected

\* LDK waits only for a node that is not its peer, and queues only for one that is.
BufferFits == (buffer = "waiting" => ~view) /\ (buffer = "queued" => view)

ViewTyped ==
    /\ connected \in BOOLEAN /\ view \in BOOLEAN /\ lost \in BOOLEAN
    /\ events \in Seq(BOOLEAN)
    /\ buffer \in {"none", "waiting", "queued"}
    /\ pc \in [Callers -> Places]

WaitInv == ViewTyped /\ (~lost => Follows) /\ BufferFits /\ WaitingIsCaredFor

\* A step that leaves the node and the message alone.
LEMMA StepWaits ==
    ASSUME WaitInv, NEW c \in Callers, NEW to \in Places,
           pc' = [pc EXCEPT ![c] = to],
           UNCHANGED <<nodeVars, view, buffer>>,
           buffer = "waiting" /\ ~lost =>
             \/ UNCHANGED needed /\ (c \in Retrying => to # "ok" /\ to # "idle")
             \/ c \in Retrying /\ to # "ok" /\ to # "idle"
             \/ events # <<>>
    PROVE  WaitInv'
<1>1. ViewTyped' /\ (~lost' => Follows') /\ BufferFits'
  BY DEF WaitInv, ViewTyped, Follows, BufferFits, nodeVars
<1>2. ASSUME buffer = "waiting", ~lost, events = <<>>
      PROVE  \/ needed'
             \/ \E d \in Retrying : (Active(d) \/ pc[d] \in {"err", "stopped"})'
  <2>1. CASE c \in Retrying
    <3>1. pc'[c] = to /\ to # "ok" /\ to # "idle"
      BY <1>2, <2>1 DEF WaitInv, ViewTyped
    <3>2. (Active(c) \/ pc[c] \in {"err", "stopped"})'
      BY <3>1 DEF Active, Ended
    <3> QED BY <2>1, <3>2
  <2>2. CASE c \notin Retrying
    <3>1. UNCHANGED needed
      BY <1>2, <2>2
    <3>2. ASSUME NEW d \in Retrying PROVE pc'[d] = pc[d]
      BY <2>2 DEF WaitInv, ViewTyped, Callers
    <3> QED BY <1>2, <3>1, <3>2 DEF WaitInv, WaitingIsCaredFor, Active, Ended
  <2> QED BY <2>1, <2>2
<1>3. WaitingIsCaredFor'
  BY <1>2 DEF WaitingIsCaredFor, nodeVars
<1> QED BY <1>1, <1>3 DEF WaitInv

\* The node connects or disconnects, whoever caused it.
LEMMA FlipWaits ==
    ASSUME WaitInv, Flip, UNCHANGED <<view, buffer>>, pc' \in [Callers -> Places]
    PROVE  WaitInv'
<1>1. CASE events' = Append(events, ~connected) /\ UNCHANGED lost
  <2>1. connected' = ~connected /\ connected' \in BOOLEAN
    BY DEF Flip, WaitInv, ViewTyped
  <2>2. events' \in Seq(BOOLEAN) /\ events' # <<>> /\ events'[Len(events')] = connected'
    BY <1>1, <2>1, AppendLast DEF WaitInv, ViewTyped
  <2> QED BY <1>1, <2>1, <2>2 DEF WaitInv, ViewTyped, Follows, BufferFits, WaitingIsCaredFor
<1>2. CASE lost' = TRUE /\ UNCHANGED events
  BY <1>2 DEF Flip, WaitInv, ViewTyped, BufferFits, WaitingIsCaredFor
<1> QED BY <1>1, <1>2 DEF Flip

\* A waiting message is cared for, for any number of callers and attempts.
THEOREM WaitingInvariance == Spec => []WaitInv
<1>1. Init => WaitInv
  <2> SUFFICES ASSUME Init PROVE WaitInv
    OBVIOUS
  <2>1. events \in Seq(BOOLEAN) /\ pc \in [Callers -> Places]
    BY DEF Init, Places
  <2>2. ViewTyped
    BY <2>1 DEF Init, ViewTyped
  <2>3. Follows
    BY DEF Init, Follows
  <2> QED BY <2>2, <2>3 DEF Init, WaitInv, BufferFits, WaitingIsCaredFor
<1>2. WaitInv /\ [Next]_vars => WaitInv'
  <2> SUFFICES ASSUME WaitInv, [Next]_vars PROVE WaitInv'
    OBVIOUS
  <2> USE DEF WaitInv, ViewTyped
  <2>1. CASE Shutdown \/ UNCHANGED vars
    BY <2>1 DEF Shutdown, vars, msgVars, Follows, BufferFits, WaitingIsCaredFor, Active, Ended
  <2>2. CASE Change
    BY <2>2, FlipWaits DEF Change, msgVars
  <2>3. CASE PeerEvent
    <3>1. /\ events' \in Seq(BOOLEAN)
          /\ Head(events) \in BOOLEAN
          /\ events' # <<>> => events'[Len(events')] = events[Len(events)]
          /\ events' = <<>> => Head(events) = events[Len(events)]
      BY <2>3, TailLast DEF PeerEvent
    <3>2. UNCHANGED <<connected, pc>>
      BY <2>3 DEF PeerEvent
    <3>3. \/ Head(events) /\ view' = TRUE /\ lost' = lost
          \/ view' = FALSE /\ lost' = (lost \/ Head(events))
      BY <2>3 DEF PeerEvent
    <3>4. ~lost => events[Len(events)] = connected
      BY <2>3 DEF PeerEvent, Follows
    <3>5. ~lost' => ~lost /\ view' = Head(events)
      BY <3>1, <3>3
    <3>6. ~lost' => Follows'
      BY <3>1, <3>2, <3>4, <3>5 DEF Follows
    <3>7. buffer' \in {"none", "queued"} /\ (buffer' = "queued" => view')
      BY <2>3 DEF PeerEvent, BufferFits
    <3>8. view' \in BOOLEAN /\ lost' \in BOOLEAN
      BY <3>1, <3>3
    <3> QED BY <3>1, <3>2, <3>6, <3>7, <3>8 DEF BufferFits, WaitingIsCaredFor
  <2>4. CASE SendMessage
    <3>1. PICK path \in {"direct", "connect"} :
             /\ path = "direct" <=> view
             /\ buffer' = IF path = "direct" THEN "queued" ELSE "waiting"
             /\ needed' = (needed \/ (path = "connect" /\ buffer = "none"))
      BY <2>4 DEF SendMessage, find_path
    <3>2. UNCHANGED <<connected, events, view, pc, lost>>
      BY <2>4 DEF SendMessage
    <3>3. BufferFits'
      BY <3>1, <3>2 DEF BufferFits
    <3>4. ASSUME buffer' = "waiting" PROVE needed' \/ buffer = "waiting"
      <4>1. path = "connect" /\ ~view
        BY <3>1, <3>4
      <4> QED BY <3>1, <4>1 DEF BufferFits
    <3> QED BY <3>1, <3>2, <3>3, <3>4 DEF Follows, WaitingIsCaredFor, Active, Ended
  <2>5. CASE SendOutgoing
    BY <2>5 DEF SendOutgoing, Follows, BufferFits, WaitingIsCaredFor
  <2>6. ASSUME NEW c \in Callers, HandleEvent(c) PROVE WaitInv'
    <3>1. "top" \in Places
      BY DEF Places
    <3> QED BY <2>6, <3>1, StepWaits DEF HandleEvent, callRest
  <2>7. ASSUME NEW c \in Callers, Request(c) PROVE WaitInv'
    <3>1. "list" \in Places /\ c \notin Retrying
      BY <2>7, ConnectAssumption DEF Places, Request
    <3> QED BY <2>7, <3>1, StepWaits DEF Request, callRest
  <2>8. ASSUME NEW c \in Callers, NEW to \in Places, Goto(c, to), to # "ok", to # "idle"
        PROVE  WaitInv'
    BY <2>8, StepWaits DEF Goto, callRest
  <2>9. ASSUME NEW c \in Callers, Top(c) \/ Wake(c) PROVE WaitInv'
    <3>1. \E to \in {"stopped", "list", "sleeping"} : Goto(c, to)
      BY <2>9 DEF Top, Wake
    <3> QED BY <3>1, <2>8 DEF Places
  <2>10. ASSUME NEW c \in Callers, Failed(c)
         PROVE  /\ UNCHANGED <<view, buffer, needed>>
                /\ \E to \in {"err", "top"} : pc' = [pc EXCEPT ![c] = to]
    BY <2>10, Zenon DEF Failed, callRest
  <2>11. ASSUME NEW c \in Callers, Failed(c), UNCHANGED nodeVars PROVE WaitInv'
    <3>1. PICK to \in {"err", "top"} : pc' = [pc EXCEPT ![c] = to]
      BY <2>10, <2>11
    <3>2. to \in Places /\ to # "ok" /\ to # "idle"
      BY DEF Places
    <3> QED BY <2>10, <2>11, <3>1, <3>2, StepWaits
  <2>12. ASSUME NEW c \in Callers, List(c) PROVE WaitInv'
    <3>1. CASE connected /\ Goto(c, "ok")
      <4>1. buffer = "waiting" /\ ~lost => events # <<>>
        BY <3>1 DEF Follows, BufferFits
      <4>2. "ok" \in Places
        BY DEF Places
      <4> QED BY <3>1, <4>1, <4>2, StepWaits DEF Goto, callRest
    <3>2. CASE ~connected /\ Goto(c, "info")
      BY <3>2, <2>8 DEF Places
    <3>3. CASE Fault(c) /\ UNCHANGED nodeVars
      BY <3>3, <2>11 DEF Fault
    <3> QED BY <2>12, <3>1, <3>2, <3>3 DEF List
  <2>13. ASSUME NEW c \in Callers, NodeInfo(c) PROVE WaitInv'
    BY <2>13, <2>8, <2>11 DEF NodeInfo, Fault, Places
  <2>14. ASSUME NEW c \in Callers, Dial(c) PROVE WaitInv'
    <3>1. CASE Failed(c) /\ UNCHANGED nodeVars
      BY <3>1, <2>11
    <3>2. CASE Flip /\ Fault(c)
      <4>1. PICK to \in {"err", "top"} : pc' = [pc EXCEPT ![c] = to]
        BY <2>10, <3>2 DEF Fault
      <4>2. pc' \in [Callers -> Places]
        BY <4>1 DEF Places
      <4> QED BY <2>10, <3>2, <4>2, FlipWaits DEF Fault
    <3>3. CASE /\ Flip /\ pc' = [pc EXCEPT ![c] = "ok"]
               /\ UNCHANGED <<callRest, needed, attempts, faults>>
      <4>1. pc' \in [Callers -> Places]
        BY <3>3 DEF Places
      <4> QED BY <3>3, <4>1, FlipWaits DEF callRest
    <3> QED BY <2>14, <3>1, <3>2, <3>3 DEF Dial, Fault
  <2> QED BY <2>1, <2>2, <2>3, <2>4, <2>5, <2>6, <2>7, <2>9, <2>12, <2>13, <2>14
          DEF Next, Attempt
<1> QED BY <1>1, <1>2, PTL DEF Spec

\* The buffered message of LDK is never forgotten while nothing was lost.
THEOREM WaitingTheorem == Spec => []WaitingIsCaredFor
<1>1. WaitInv => WaitingIsCaredFor
  BY DEF WaitInv
<1> QED BY <1>1, WaitingInvariance, PTL
-----------------------------------------------------------------------------
(* The types.                                                              *)

\* A caller that goes on has an attempt left, and has not seen the node leave more
\* often than it did: without this the counters would outgrow their bounds.
Left(c) == (pc[c] \notin {"ok", "err", "stopped"} => attempts[c] <= MAX_ATTEMPTS)
Seen(c) == drops[c] <= changes

TypeInv == TypeOK /\ \A c \in Callers : Left(c) /\ Seen(c)

\* The node's coming or going, and its event.
LEMMA FlipTyped ==
    ASSUME TypeOK, Flip
    PROVE  /\ connected' \in BOOLEAN /\ events' \in Seq(BOOLEAN) /\ lost' \in BOOLEAN
           /\ changes' \in 0..MaxChanges /\ changes' = changes + 1
<1>1. connected' \in BOOLEAN /\ changes' \in 0..MaxChanges /\ changes' = changes + 1
  BY ConnectAssumption DEF Flip, TypeOK
<1>2. CASE events' = Append(events, ~connected) /\ UNCHANGED lost
  <2>1. connected' = ~connected /\ events \in Seq(BOOLEAN) /\ lost \in BOOLEAN
    BY DEF Flip, TypeOK
  <2>2. events' = Append(events, connected')
    BY <1>2, <2>1
  <2>3. events' \in Seq(BOOLEAN)
    BY <1>1, <2>1, <2>2, AppendLast
  <2> QED BY <1>1, <1>2, <2>1, <2>3
<1>3. CASE lost' = TRUE /\ UNCHANGED events
  <2>1. lost' \in BOOLEAN
    BY <1>3
  <2> QED BY <1>1, <1>3, <2>1 DEF TypeOK
<1> QED BY <1>2, <1>3 DEF Flip

\* A step that one caller takes, with or without the node.
LEMMA CallerTyped ==
    ASSUME TypeInv, NEW c \in Callers, NEW to \in Places,
           pc' = [pc EXCEPT ![c] = to],
           UNCHANGED <<view, buffer, shutdown, drops>>, needed' \in BOOLEAN,
           UNCHANGED nodeVars \/ Flip,
           \/ UNCHANGED attempts /\ (pc[c] \in {"ok", "err", "stopped"} => to = pc[c])
           \/ /\ attempts' = [attempts EXCEPT ![c] = attempts[c] + 1]
              /\ attempts[c] <= MAX_ATTEMPTS
              /\ to # "err" => attempts[c] + 1 <= MAX_ATTEMPTS,
           \/ UNCHANGED faults
           \/ faults' = [faults EXCEPT ![c] = IF faults[c] > MAX_ATTEMPTS
                                              THEN faults[c] ELSE faults[c] + 1]
    PROVE  TypeInv'
<1> USE ConnectAssumption
<1>1. /\ connected' \in BOOLEAN /\ events' \in Seq(BOOLEAN) /\ lost' \in BOOLEAN
      /\ changes' \in 0..MaxChanges /\ changes' >= changes
  <2>1. CASE UNCHANGED nodeVars
    BY <2>1 DEF nodeVars, TypeInv, TypeOK
  <2>2. CASE Flip
    <3>1. changes \in Nat
      BY DEF TypeInv, TypeOK
    <3> QED BY <2>2, <3>1, FlipTyped DEF TypeInv
  <2> QED BY <2>1, <2>2
<1>2. pc' \in [Callers -> Places]
  BY DEF TypeInv, TypeOK
<1>3. attempts' \in [Callers -> 0..MAX_ATTEMPTS + 1]
  <2>1. attempts \in [Callers -> 0..MAX_ATTEMPTS + 1]
    BY DEF TypeInv, TypeOK
  <2> QED BY <2>1
<1>4. faults' \in [Callers -> 0..MAX_ATTEMPTS + 1]
  <2>1. faults \in [Callers -> 0..MAX_ATTEMPTS + 1]
    BY DEF TypeInv, TypeOK
  <2> QED BY <2>1
<1>5. /\ view' \in BOOLEAN /\ shutdown' \in BOOLEAN
      /\ buffer' \in {"none", "waiting", "queued"}
      /\ drops' \in [Callers -> 0..MaxChanges]
  BY DEF TypeInv, TypeOK
<1>6. TypeOK'
  BY <1>1, <1>2, <1>3, <1>4, <1>5 DEF TypeOK
<1>7. ASSUME NEW d \in Callers PROVE Left(d)' /\ Seen(d)'
  <2>1. Left(d) /\ Seen(d) /\ drops[d] \in Nat /\ changes \in Nat /\ attempts[d] \in Nat
    BY DEF TypeInv, TypeOK
  <2>2. Seen(d)'
    BY <1>1, <2>1 DEF Seen
  <2>3. pc'[d] = IF d = c THEN to ELSE pc[d]
    BY DEF TypeInv, TypeOK
  <2>4. \/ attempts'[d] = attempts[d] /\ (pc[c] \in {"ok", "err", "stopped"} => to = pc[c])
        \/ d # c /\ attempts'[d] = attempts[d]
        \/ d = c /\ attempts'[d] = attempts[d] + 1
           /\ (to # "err" => attempts[d] + 1 <= MAX_ATTEMPTS)
    BY DEF TypeInv, TypeOK
  <2>5. Left(d)'
    BY <2>1, <2>3, <2>4 DEF Left
  <2> QED BY <2>2, <2>5
<1> QED BY <1>6, <1>7 DEF TypeInv

\* The node connects by itself or leaves.
LEMMA ChangeTyped == TypeInv /\ Change => TypeInv'
<1> SUFFICES ASSUME TypeInv, Change PROVE TypeInv'
  OBVIOUS
<1> USE ConnectAssumption
<1>1. /\ changes \in 0..MaxChanges /\ changes' = changes + 1 /\ changes < MaxChanges
      /\ UNCHANGED <<view, buffer, needed, shutdown, pc, attempts, faults>>
  BY DEF Change, Flip, msgVars, TypeInv, TypeOK
<1>2. ASSUME NEW c \in Callers
      PROVE  drops'[c] \in {drops[c], drops[c] + 1} /\ drops[c] \in Nat /\ drops[c] <= changes
  BY DEF Change, TypeInv, TypeOK, Seen
<1>3. drops' \in [Callers -> 0..MaxChanges]
  <2>1. ASSUME NEW c \in Callers PROVE drops'[c] \in 0..MaxChanges
    BY <1>1, <1>2
  <2>2. DOMAIN drops' = Callers /\ drops' = [c \in Callers |-> drops'[c]]
    BY DEF Change
  <2> QED BY <2>1, <2>2
<1>4. connected' \in BOOLEAN /\ events' \in Seq(BOOLEAN) /\ lost' \in BOOLEAN
  BY FlipTyped DEF Change, TypeInv
<1>5. changes' \in 0..MaxChanges
  BY <1>1
<1>6. TypeOK'
  BY <1>1, <1>3, <1>4, <1>5 DEF TypeInv, TypeOK
<1>7. ASSUME NEW c \in Callers PROVE Left(c)' /\ Seen(c)'
  <2>1. Left(c)
    BY DEF TypeInv
  <2> QED BY <1>1, <1>2, <2>1 DEF Left, Seen
<1> QED BY <1>6, <1>7 DEF TypeInv

\* The types hold for any number of callers, attempts and connections.
THEOREM TypeInvariance == Spec => []TypeInv
<1> USE ConnectAssumption
<1>1. Init => TypeInv
  <2> SUFFICES ASSUME Init PROVE TypeInv
    OBVIOUS
  <2>1. /\ pc \in [Callers -> Places]
        /\ attempts \in [Callers -> 0..MAX_ATTEMPTS + 1]
        /\ faults \in [Callers -> 0..MAX_ATTEMPTS + 1]
        /\ drops \in [Callers -> 0..MaxChanges]
        /\ events \in Seq(BOOLEAN)
    BY DEF Init, Places
  <2>2. /\ needed \in BOOLEAN /\ shutdown \in BOOLEAN /\ lost \in BOOLEAN
        /\ connected \in BOOLEAN /\ view \in BOOLEAN
    BY DEF Init
  <2>3. buffer = "none" /\ changes \in 0..MaxChanges
    BY DEF Init
  <2>4. TypeOK
    BY <2>1, <2>2, <2>3 DEF TypeOK
  <2>5. \A c \in Callers : Left(c) /\ Seen(c)
    BY DEF Init, Left, Seen
  <2> QED BY <2>4, <2>5 DEF TypeInv
<1>2. TypeInv /\ [Next]_vars => TypeInv'
  <2> SUFFICES ASSUME TypeInv, [Next]_vars PROVE TypeInv'
    OBVIOUS
  <2>1. CASE Change
    BY <2>1, ChangeTyped
  <2>2. ASSUME UNCHANGED <<pc, attempts, drops, changes>>, TypeOK' PROVE TypeInv'
    BY <2>2 DEF TypeInv, Left, Seen
  <2>3. CASE PeerEvent
    <3>1. events \in Seq(BOOLEAN) /\ events # <<>> /\ lost \in BOOLEAN
      BY <2>3 DEF PeerEvent, TypeInv, TypeOK
    <3>2. Tail(events) \in Seq(BOOLEAN) /\ Head(events) \in BOOLEAN
      BY <3>1
    <3>3. events' \in Seq(BOOLEAN) /\ lost' \in BOOLEAN /\ view' \in BOOLEAN
      BY <2>3, <3>1, <3>2 DEF PeerEvent
    <3>4. buffer' \in {"none", "waiting", "queued"}
      BY <2>3 DEF PeerEvent, TypeInv, TypeOK
    <3> QED BY <2>2, <2>3, <3>3, <3>4 DEF PeerEvent, TypeInv, TypeOK
  <2>4. CASE Shutdown
    <3>1. shutdown' \in BOOLEAN
      BY <2>4 DEF Shutdown
    <3> QED BY <2>2, <2>4, <3>1 DEF Shutdown, msgVars, TypeInv, TypeOK
  <2>5. CASE SendMessage
    <3>1. buffer' \in {"none", "waiting", "queued"} /\ needed' \in BOOLEAN
      BY <2>5 DEF SendMessage, TypeInv, TypeOK
    <3>2. UNCHANGED <<connected, events, view, shutdown, pc, attempts, changes,
                      faults, drops, lost>>
      BY <2>5 DEF SendMessage
    <3> QED BY <2>2, <3>1, <3>2 DEF TypeInv, TypeOK
  <2>6. CASE SendOutgoing
    BY <2>2, <2>6 DEF SendOutgoing, TypeInv, TypeOK
  <2>7. CASE UNCHANGED vars
    BY <2>2, <2>7 DEF vars, msgVars, TypeInv, TypeOK
  <2>8. ASSUME NEW c \in Callers, HandleEvent(c) \/ Request(c) PROVE TypeInv'
    <3>1. /\ pc[c] = "idle" /\ needed' \in BOOLEAN
          /\ UNCHANGED <<nodeVars, callRest, attempts, faults>>
      BY <2>8 DEF HandleEvent, Request, TypeInv, TypeOK
    <3>2. PICK to \in {"top", "list"} : pc' = [pc EXCEPT ![c] = to]
      BY <2>8 DEF HandleEvent, Request
    <3> QED BY <3>1, <3>2, CallerTyped DEF callRest, Places
  <2>9. ASSUME NEW c \in Callers, NEW to \in Places, Goto(c, to),
               pc[c] \notin {"ok", "err", "stopped"}
        PROVE  TypeInv'
    <3>1. needed' \in BOOLEAN
      BY <2>9 DEF Goto, TypeInv, TypeOK
    <3> QED BY <2>9, <3>1, CallerTyped DEF Goto, callRest
  <2>10. ASSUME NEW c \in Callers, Failed(c), pc[c] \in {"list", "info", "dial"},
                UNCHANGED nodeVars \/ Flip,
                \/ UNCHANGED faults
                \/ faults' = [faults EXCEPT ![c] = IF faults[c] > MAX_ATTEMPTS
                                                   THEN faults[c] ELSE faults[c] + 1]
         PROVE  TypeInv'
    <3>1. attempts[c] <= MAX_ATTEMPTS
      BY <2>10 DEF TypeInv, Left
    <3> DEFINE to == IF c \in Once \/ GivesUp(attempts[c] + 1) THEN "err" ELSE "top"
    <3>2. /\ pc' = [pc EXCEPT ![c] = to]
          /\ attempts' = [attempts EXCEPT ![c] = attempts[c] + 1]
          /\ UNCHANGED <<callRest, needed>>
      BY <2>10, Zenon DEF Failed
    <3>3. to \in Places /\ (to # "err" => attempts[c] + 1 <= MAX_ATTEMPTS)
      BY <3>1 DEF GivesUp, Places, TypeInv, TypeOK
    <3>4. needed' \in BOOLEAN
      BY <3>2 DEF TypeInv, TypeOK
    <3> HIDE DEF to
    <3> QED BY <2>10, <3>1, <3>2, <3>3, <3>4, CallerTyped DEF callRest
  <2>11. ASSUME NEW c \in Callers, Fault(c), pc[c] \in {"list", "info", "dial"},
                UNCHANGED nodeVars \/ Flip
         PROVE  TypeInv'
    BY <2>10, <2>11 DEF Fault
  <2>12. ASSUME NEW c \in Callers, Top(c) \/ Wake(c) PROVE TypeInv'
    <3>1. \E to \in {"stopped", "list", "sleeping"} :
             pc[c] \in {"top", "sleeping"} /\ Goto(c, to)
      BY <2>12 DEF Top, Wake
    <3> QED BY <2>9, <3>1 DEF Places
  <2>13. ASSUME NEW c \in Callers, List(c) PROVE TypeInv'
    <3>1. CASE \E to \in {"ok", "info"} : Goto(c, to)
      BY <2>9, <2>13, <3>1 DEF List, Places
    <3> QED BY <2>11, <2>13, <3>1 DEF List
  <2>14. ASSUME NEW c \in Callers, NodeInfo(c) PROVE TypeInv'
    BY <2>9, <2>11, <2>14 DEF NodeInfo, Places
  <2>15. ASSUME NEW c \in Callers, Dial(c) PROVE TypeInv'
    <3>1. CASE Flip /\ pc' = [pc EXCEPT ![c] = "ok"]
               /\ UNCHANGED <<callRest, needed, attempts, faults>>
      <4>1. needed' \in BOOLEAN /\ pc[c] = "dial" /\ "ok" \in Places
        BY <2>15, <3>1 DEF Dial, TypeInv, TypeOK, Places
      <4> QED BY <3>1, <4>1, CallerTyped DEF callRest
    <3>2. CASE Fault(c) /\ (UNCHANGED nodeVars \/ Flip)
      BY <2>11, <2>15, <3>2 DEF Dial
    <3>3. CASE Failed(c) /\ UNCHANGED <<nodeVars, faults>>
      BY <2>10, <2>15, <3>3 DEF Dial
    <3> QED BY <2>15, <3>1, <3>2, <3>3 DEF Dial
  <2> QED BY <2>1, <2>3, <2>4, <2>5, <2>6, <2>7, <2>8, <2>12, <2>13, <2>14, <2>15
          DEF Next, Attempt
<1> QED BY <1>1, <1>2, PTL DEF Spec

\* The state has its types: the attempts of connect_to_peer_with_retry never exceed
\* MAX_ATTEMPTS by more than the one that makes it give up.
THEOREM TypeTheorem == Spec => []TypeOK
<1>1. TypeInv => TypeOK
  BY DEF TypeInv
<1> QED BY <1>1, TypeInvariance, PTL
=============================================================================

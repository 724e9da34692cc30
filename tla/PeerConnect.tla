----------------------------- MODULE PeerConnect -----------------------------
(***************************************************************************)
(* How a message gets to a node that need not be a peer yet: find_path of  *)
(* message_router.rs, the ConnectionNeeded handler of onion_messenger.rs,  *)
(* and connect_to_peer with and without retries of lnd_requests.rs.        *)
(*                                                                         *)
(* All is about one node.  LND knows whether it is connected; the events   *)
(* of its coming and going reach the messenger later and in order, and may *)
(* be lost where OnionMessenger says so.  LDK keeps messages for the node  *)
(* while it waits for the connection it has asked for.                     *)
(***************************************************************************)
EXTENDS Integers, Sequences

CONSTANTS
    Retrying,     \* calls of connect_to_peer_with_retry, for ConnectionNeeded
    Once,         \* calls of connect_to_peer, by send_invoice_request
    MAX_ATTEMPTS,
    MaxChanges    \* bound: how often the node connects or disconnects

Callers == Retrying \cup Once

ASSUME ConnectAssumption ==
    /\ Retrying \cap Once = {}
    /\ MAX_ATTEMPTS \in Nat
    /\ MaxChanges \in Nat

VARIABLES
    connected,   \* is the node a peer of LND?
    events,      \* its online and offline events on their way to the messenger
    view,        \* is it a peer that LDK sends onion messages to?
    buffer,      \* LDK's messages for it: none, waiting or queued
    needed,      \* is a ConnectionNeeded event pending in LDK?
    shutdown,
    pc,          \* where each caller is
    attempts,    \* the attempts of each caller that failed
    \* History.
    changes,
    faults,      \* the answers to each caller that were failures
    drops,       \* the disconnections of the node since each caller began
    lost         \* has the messenger missed that the node is its peer?

msgVars == <<buffer, needed>>
vars == <<connected, events, view, msgVars, shutdown, pc, attempts, changes,
          faults, drops, lost>>

Places == {"idle", "top", "sleeping", "list", "info", "dial", "ok", "err", "stopped"}

Ended(c)  == pc[c] \in {"ok", "err", "stopped"}
Active(c) == pc[c] # "idle" /\ ~Ended(c)

TypeOK ==
    /\ connected \in BOOLEAN
    /\ events \in Seq(BOOLEAN)
    /\ view \in BOOLEAN
    /\ buffer \in {"none", "waiting", "queued"}
    /\ needed \in BOOLEAN
    /\ shutdown \in BOOLEAN
    /\ pc \in [Callers -> Places]
    /\ attempts \in [Callers -> 0..MAX_ATTEMPTS + 1]
    /\ changes \in 0..MaxChanges
    /\ faults \in [Callers -> 0..MAX_ATTEMPTS + 1]
    /\ drops \in [Callers -> 0..MaxChanges]
    /\ lost \in BOOLEAN

Init ==
    /\ connected \in BOOLEAN
    /\ events = <<>>
    /\ view = connected
    /\ buffer = "none" /\ needed = FALSE
    /\ shutdown = FALSE
    /\ pc = [c \in Callers |-> "idle"]
    /\ attempts = [c \in Callers |-> 0]
    /\ changes = 0
    /\ faults = [c \in Callers |-> 0]
    /\ drops = [c \in Callers |-> 0]
    /\ lost = FALSE

-----------------------------------------------------------------------------
(* LND, the node and the operator.                                         *)

\* The event is on its way, or falls into a gap of the subscription (see
\* OnionMessenger).
Flip ==
    /\ changes < MaxChanges
    /\ changes' = changes + 1
    /\ connected' = ~connected
    /\ \/ events' = Append(events, ~connected) /\ UNCHANGED lost
       \/ lost' = TRUE /\ UNCHANGED events

\* The node connects by itself, or leaves.
Change ==
    /\ Flip
    /\ drops' = [c \in Callers |->
                    IF connected /\ Active(c) THEN drops[c] + 1 ELSE drops[c]]
    /\ UNCHANGED <<view, msgVars, shutdown, pc, attempts, faults>>

\* consume_messenger_events; onion support may have been looked up in vain.
PeerEvent ==
    /\ events # <<>>
    /\ events' = Tail(events)
    /\ \/ /\ Head(events)
          /\ view' = TRUE
          /\ buffer' = IF buffer = "waiting" THEN "queued" ELSE buffer
          /\ UNCHANGED lost
       \/ /\ view' = FALSE
          /\ buffer' = "none"
          /\ lost' = (lost \/ Head(events))
    /\ UNCHANGED <<connected, needed, shutdown, pc, attempts, changes, faults, drops>>

Shutdown ==
    /\ shutdown' = TRUE
    /\ UNCHANGED <<connected, events, view, msgVars, pc, attempts, changes,
                   faults, drops, lost>>

-----------------------------------------------------------------------------
(* The message.                                                            *)

\* find_path: straight to a peer; to another node if LND knows an address and onion
\* support of it, for LDK to connect; to a channel id never.
find_path(firstNode, lookup) ==
    IF firstNode = "scid" THEN "none"
    ELSE IF view THEN "direct"
    ELSE IF lookup = "ok" THEN "connect"
    ELSE "none"

\* LDK takes a message; it asks for a connection when it begins to wait for one.
SendMessage ==
    \E firstNode \in {"node", "scid"}, lookup \in {"ok", "error", "no address", "no support"} :
        LET path == find_path(firstNode, lookup) IN
        /\ path # "none"
        /\ buffer' = IF path = "direct" THEN "queued" ELSE "waiting"
        /\ needed' = (needed \/ (path = "connect" /\ buffer = "none"))
        /\ UNCHANGED <<connected, events, view, shutdown, pc, attempts, changes,
                       faults, drops, lost>>

\* SendOutgoing takes the message for a peer and relays it.
SendOutgoing ==
    /\ buffer = "queued"
    /\ view
    /\ buffer' = "none"
    /\ UNCHANGED <<connected, events, view, needed, shutdown, pc, attempts,
                   changes, faults, drops, lost>>

-----------------------------------------------------------------------------
(* The callers.                                                            *)

nodeVars == <<connected, events, changes, lost>>
callRest == <<view, buffer, shutdown, drops>>

\* handle_event, at the next SendOutgoing, spawns a task for ConnectionNeeded.
HandleEvent(c) ==
    /\ c \in Retrying /\ pc[c] = "idle"
    /\ needed
    /\ needed' = FALSE
    /\ pc' = [pc EXCEPT ![c] = "top"]
    /\ UNCHANGED <<nodeVars, callRest, attempts, faults>>

\* send_invoice_request connects to the introduction node.
Request(c) ==
    /\ c \in Once /\ pc[c] = "idle"
    /\ pc' = [pc EXCEPT ![c] = "list"]
    /\ UNCHANGED <<nodeVars, callRest, needed, attempts, faults>>

Goto(c, to) ==
    /\ pc' = [pc EXCEPT ![c] = to]
    /\ UNCHANGED <<nodeVars, callRest, needed, attempts, faults>>

\* The select is biased towards the shutdown signal.
Top(c) ==
    /\ pc[c] = "top"
    /\ Goto(c, IF shutdown THEN "stopped" ELSE IF attempts[c] = 0 THEN "list" ELSE "sleeping")

\* The delay is over, or the signal comes first.
Wake(c) ==
    /\ pc[c] = "sleeping"
    /\ Goto(c, IF shutdown THEN "stopped" ELSE "list")

\* Mutant: the last attempt is not made.
GivesUp_Early(n) == n >= MAX_ATTEMPTS

\* Mutant: the loop never ends by itself.
GivesUp_Never(n) == FALSE

GivesUp(n) == n > MAX_ATTEMPTS

\* Mutant: a failed attempt is not counted.
Failed_Uncounted(c) ==
    /\ pc' = [pc EXCEPT ![c] = IF c \in Once THEN "err" ELSE "top"]
    /\ UNCHANGED <<callRest, needed, attempts>>

\* connect_to_peer returns an error; the loop counts it and tries again.
Failed(c) ==
    /\ attempts' = [attempts EXCEPT ![c] = @ + 1]
    /\ pc' = [pc EXCEPT ![c] =
                 IF c \in Once \/ GivesUp(attempts[c] + 1) THEN "err" ELSE "top"]
    /\ UNCHANGED <<callRest, needed>>

\* The error is an answer of LND's, or that no address is known.
Fault(c) ==
    /\ Failed(c)
    /\ faults' = [faults EXCEPT ![c] = IF @ > MAX_ATTEMPTS THEN @ ELSE @ + 1]

\* Mutant: a listing that fails or lacks the peer is a success too.
List_Careless(c) ==
    /\ pc[c] = "list"
    /\ Goto(c, "ok")

\* list_peers: a peer that is there already is a success.
List(c) ==
    /\ pc[c] = "list"
    /\ \/ Goto(c, IF connected THEN "ok" ELSE "info")
       \/ Fault(c) /\ UNCHANGED nodeVars

\* get_node_info: it must have an address.
NodeInfo(c) ==
    /\ pc[c] = "info"
    /\ \/ Goto(c, "dial")
       \/ Fault(c) /\ UNCHANGED nodeVars

\* connect_peer: the node is connected, and the answer may get lost; or nothing
\* comes of it; or it is a peer by now, which LND answers with an error.
Dial(c) ==
    /\ pc[c] = "dial"
    /\ \/ /\ ~connected
          /\ Flip
          /\ \/ pc' = [pc EXCEPT ![c] = "ok"]
                /\ UNCHANGED <<callRest, needed, attempts, faults>>
             \/ Fault(c)
       \/ ~connected /\ Fault(c) /\ UNCHANGED nodeVars
       \/ connected /\ Failed(c) /\ UNCHANGED <<nodeVars, faults>>

Attempt(c) == List(c) \/ NodeInfo(c) \/ Dial(c)

-----------------------------------------------------------------------------

Next ==
    \/ Change \/ PeerEvent \/ Shutdown \/ SendMessage \/ SendOutgoing
    \/ \E c \in Callers :
          HandleEvent(c) \/ Request(c) \/ Top(c) \/ Wake(c) \/ Attempt(c)

\* Delays end and LND answers, if only with an error.
Fairness == \A c \in Callers : WF_vars(Top(c) \/ Wake(c) \/ Attempt(c))

Spec == Init /\ [][Next]_vars

FairSpec == Spec /\ Fairness

-----------------------------------------------------------------------------
\* connect_to_peer_with_retry gives up only after MAX_ATTEMPTS failures of LND's or
\* the node's: losing a race for the connection, whatever the other callers and the
\* node itself do, costs it no more than one of its attempts in addition.
GivesUpOnFaults ==
    \A c \in Retrying : pc[c] = "err" => faults[c] + drops[c] >= MAX_ATTEMPTS

\* A message that waits in LDK has somebody to care for it: the connection is yet to
\* be asked for or being made, or an event that will end the wait is on its way;
\* unless a task has given up or was stopped, or the messenger has missed its peer.
WaitingIsCaredFor ==
    buffer = "waiting" /\ ~lost
        => \/ needed
           \/ events # <<>>
           \/ \E c \in Retrying : Active(c) \/ pc[c] \in {"err", "stopped"}

\* Every task ends: it connects, gives up or sees the signal.
EveryCallerEnds == \A c \in Callers : Active(c) ~> Ended(c)
=============================================================================

--------------------------------- MODULE Cli ---------------------------------
(***************************************************************************)
(* The daemon with its clients: lndk-cli (cli.rs) and programs that call   *)
(* the gRPC server (server.rs) themselves.  A command reads the server's   *)
(* certificate, connects, reads a macaroon of an LND node and makes one    *)
(* call, while the daemon is started, killed and pointed at another node.  *)
(*                                                                         *)
(* decode_offer, decode_invoice and the server's decode_invoice read only  *)
(* their argument and are left out.  What the calls do is the subject of   *)
(* OfferHandler and OfferExchange: here a call is let in or turned away,   *)
(* passes its fee limit on to LND and is answered.                         *)
(***************************************************************************)
EXTENDS Daemon, FiniteSets

CONSTANTS
    Commands,   \* the commands and calls that clients make
    Methods,    \* the methods of the server they call
    NoMacaroon  \* not a node: the call brings no macaroon

ASSUME CliAssumption ==
    /\ IsFiniteSet(Commands)
    /\ Methods \subseteq {"pay_offer", "pay_invoice", "get_invoice", "create_offer"}
    /\ NoMacaroon \notin Nodes

VARIABLE cmd    \* what is known of each command

cliVars == <<vars, cmd>>

Paying == {"pay_offer", "pay_invoice"}

\* FixedMsat, Percent, none, or both where nothing forbids it.
Limits == {"none", "fixed", "percent", "both"}

Command ==
    [pc : {"idle", "started", "trusting", "connected", "served", "working", "done"},
     cli : BOOLEAN,                     \* lndk-cli, or another client?
     method : Methods \cup {"none"},
     asked : Limits,                    \* the fee limit the user asks for
     limit : Limits \cup {"unset"},     \* the one LND was given
     cert : NoFile..MaxStarts,          \* the certificate that was read
     fits : BOOLEAN,                    \* was it the one of a complete pair then?
     deletes : 0..MaxDeletes,           \* deletions before it was read
     macaroon : Nodes \cup {NoMacaroon},
     run : 0..MaxStarts,                \* the run of the daemon that serves it
     result : {"none", "ok", "error", "untrusted"}]

\* The calls the server is busy with: those of this run.
Served(c) == cmd[c].pc \in {"served", "working"} /\ pc # "down" /\ cmd[c].run = starts

\* The server's calls are those of the commands that wait for it.
CliTypeOK ==
    /\ TypeOK
    /\ cmd \in [Commands -> Command]
    /\ calls = Cardinality({c \in Commands : Served(c)})

NotBegun ==
    [pc |-> "idle", cli |-> TRUE, method |-> "none", asked |-> "none",
     limit |-> "unset", cert |-> NoFile, fits |-> FALSE, deletes |-> 0,
     macaroon |-> NoMacaroon, run |-> 0, result |-> "none"]

CliInit == Init /\ cmd = [c \in Commands |-> NotBegun]

-----------------------------------------------------------------------------
\* exit_gracefully, or the end of main.  Of an error nothing is left but the message.
End(c, result) ==
    cmd' = [cmd EXCEPT ![c] =
               [(IF result = "error" THEN NotBegun ELSE @) EXCEPT !.pc = "done",
                                                                  !.result = result]]

\* Mutant: the two limits do not exclude each other.
Accepts_Both(cli, limit) == TRUE

\* conflicts_with of the two arguments; a call may carry both.
Accepts(cli, limit) == cli => limit # "both"

Begin(c) ==
    /\ cmd[c].pc = "idle"
    /\ \E cli \in BOOLEAN, method \in Methods, limit \in Limits :
          /\ method \notin Paying => limit = "none"
          /\ Accepts(cli, limit)
          /\ cmd' = [cmd EXCEPT ![c].pc = "started", ![c].cli = cli,
                                ![c].method = method, ![c].asked = limit]
    /\ UNCHANGED vars

\* read_cert_from_args: the daemon's file, or a copy of some certificate of its as a
\* string or elsewhere; both arguments, or a file that is not there, end the command.
read_cert_from_args(c) ==
    /\ cmd[c].pc = "started"
    /\ \/ \E cert \in {certFile} \cup 1..starts :
             /\ cert # NoFile
             /\ cmd' = [cmd EXCEPT ![c].pc = "trusting", ![c].cert = cert,
                                   ![c].fits = Whole(keyFile, certFile) /\ cert = certFile,
                                   ![c].deletes = deletes]
       \/ End(c, "error")
    /\ UNCHANGED vars

\* The server listens and proves to have the key of the client's certificate.
Serving == server = "serving"
Trusts(c) == identity.cert = cmd[c].cert

\* The client cannot get through to the server.
TurnedAway(c) == End(c, IF Serving /\ ~Trusts(c) THEN "untrusted" ELSE "error")

\* Mutant: the connection is waited for.
create_grpc_channel_Waits(c) ==
    /\ cmd[c].pc = "trusting"
    /\ Serving /\ Trusts(c)
    /\ cmd' = [cmd EXCEPT ![c].pc = "connected"]
    /\ UNCHANGED vars

create_grpc_channel(c) ==
    /\ cmd[c].pc = "trusting"
    /\ \/ Serving /\ Trusts(c) /\ cmd' = [cmd EXCEPT ![c].pc = "connected"]
       \/ ~(Serving /\ Trusts(c)) /\ TurnedAway(c)
    /\ UNCHANGED vars

\* The macaroon is read, an offer decoded and the call made.  The channel connects
\* again by itself: the call may be served by a later run than the first.
MakeCall(c) ==
    /\ cmd[c].pc = "connected"
    /\ Trusts(c)
    /\ Accept
    /\ \E m \in Nodes \cup {NoMacaroon} :
          /\ cmd[c].cli => m # NoMacaroon
          /\ cmd' = [cmd EXCEPT ![c].pc = "served", ![c].macaroon = m, ![c].run = starts]

\* There is no macaroon or no offer, or the server is gone.
CallFails(c) ==
    /\ cmd[c].pc = "connected"
    /\ TurnedAway(c)
    /\ UNCHANGED vars

-----------------------------------------------------------------------------
(* The server.                                                             *)

\* A call is answered: offer says whether the answer is an offer.
Reply(c, result, offer) ==
    /\ Served(c)
    /\ Answer
    /\ offers' = IF offer THEN offers \cup {[node |-> node, seed |-> seed]} ELSE offers
    /\ End(c, result)

\* One limit is passed on; both together are none.
create_fee_limit(limit) == IF limit = "both" THEN "none" ELSE limit

\* Mutant: LND is asked with the daemon's own macaroon.
Authorized_Always(c) == TRUE

\* get_info with the client's macaroon, at the daemon's node.
Authorized(c) == cmd[c].macaroon = node

\* check_auth_metadata, get_lnd_client, get_info and get_network: the call goes on
\* with the client's macaroon (pay_invoice does without get_info and meets the
\* same refusal at its first request).
LetIn(c) ==
    /\ cmd[c].pc = "served"
    /\ Served(c)
    /\ Authorized(c)
    /\ cmd' = [cmd EXCEPT ![c].pc = "working",
                          ![c].limit = IF cmd[c].method \in Paying
                                       THEN create_fee_limit(cmd[c].asked) ELSE @]
    /\ UNCHANGED vars

\* No macaroon, one of another node, an argument that does not parse, or LND fails.
Refuse(c) == cmd[c].pc = "served" /\ Reply(c, "error", FALSE)

Finish(c) ==
    /\ cmd[c].pc = "working"
    /\ \/ Reply(c, "ok", cmd[c].method = "create_offer")
       \/ Reply(c, "error", FALSE)

\* Mutant: the server does not notice.
Interrupt_Unnoticed(c) ==
    /\ cmd[c].pc \notin {"idle", "done"}
    /\ End(c, "error")
    /\ UNCHANGED vars

\* The client is stopped: the server drops its call.
Interrupt(c) ==
    \/ Reply(c, "error", FALSE)
    \/ /\ cmd[c].pc \in {"started", "trusting", "connected"}
       /\ End(c, "error")
       /\ UNCHANGED vars

\* The daemon is gone, and the connection with it.
ConnectionLost(c) ==
    /\ cmd[c].pc \in {"served", "working"}
    /\ ~Served(c)
    /\ End(c, "error")
    /\ UNCHANGED vars

-----------------------------------------------------------------------------
Step(c) ==
    \/ read_cert_from_args(c) \/ create_grpc_channel(c) \/ MakeCall(c) \/ CallFails(c)
    \/ LetIn(c) \/ Refuse(c) \/ Finish(c) \/ ConnectionLost(c)

CliNext ==
    \/ Alone /\ UNCHANGED cmd
    \/ \E c \in Commands : Begin(c) \/ Step(c) \/ Interrupt(c)

\* A client goes on until it ends, and the server serves it as long as it is there.
CliFairness == \A c \in Commands : WF_cliVars(Step(c))

CliSpec == CliInit /\ [][CliNext]_cliVars /\ AloneFairness /\ CliFairness

-----------------------------------------------------------------------------
\* Whoever has read the certificate of a complete pair can connect to every later
\* run, while the daemon is killed, started and reads its files again: it is only
\* turned away once somebody has deleted one of them.
ReadCertIsGood ==
    \A c \in Commands :
        cmd[c].result = "untrusted" => ~cmd[c].fits \/ cmd[c].deletes < deletes

\* An offer that a user was given is one of the node whose macaroon the user
\* brought, even if the daemon was started for another node since it connected.
OfferIsOwn ==
    \A c \in Commands :
        cmd[c].method = "create_offer" /\ cmd[c].result = "ok" =>
            [node |-> cmd[c].macaroon, seed |-> <<cmd[c].macaroon>>] \in offers

\* The fee limit that a user of lndk-cli asks for is the one that LND gets.
LimitIsKept ==
    \A c \in Commands : cmd[c].cli /\ cmd[c].limit # "unset" => cmd[c].limit = cmd[c].asked

\* A command ends, whatever happens to the daemon.
CommandEnds == \A c \in Commands : cmd[c].pc # "idle" ~> cmd[c].pc = "done"
=============================================================================

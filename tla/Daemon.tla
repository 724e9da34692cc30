------------------------------- MODULE Daemon -------------------------------
(***************************************************************************)
(* The process around everything else: main of main.rs and run of lib.rs.  *)
(* It starts, may be killed at any step and is started again, perhaps      *)
(* against another LND node.  What outlives it is the data directory, with *)
(* the TLS key and certificate of its server, and the offers it has made,  *)
(* which are in other people's hands.                                      *)
(*                                                                         *)
(* A file is NoFile, Empty (created, not yet written) or the number of the *)
(* generation that wrote it: the key and the certificate of one generation *)
(* belong together.                                                        *)
(***************************************************************************)
EXTENDS Integers

CONSTANTS
    Nodes,       \* LND nodes the operator may point the daemon at
    Lnds,        \* what such a node may report of itself
    MinVersion,  \* MIN_LND_*_VER
    MaxStarts,   \* bound: how often the daemon is started
    MaxDeletes,  \* bound: how often the operator deletes a file
    MaxCalls     \* bound: calls served at a time

\* A version is [major, minor, patch, pre], pre ranking the pre-release strings.
ASSUME DaemonAssumption ==
    /\ \A l \in Lnds : l.onion \in BOOLEAN /\ l.tags \in BOOLEAN
    /\ MaxStarts \in Nat /\ MaxDeletes \in Nat /\ MaxCalls \in Nat

VARIABLES
    \* What outlives the process.
    keyFile, certFile,
    torn,        \* was the last generation of the two files interrupted?
    offers,      \* the offers made: the node and the seed each was signed with
    starts, deletes,
    \* The process.
    pc,          \* where main is
    node, lnd,   \* the LND node it is configured for and what that reports
    skip,        \* skip_version_check
    identity,    \* the key and certificate read for the server
    seed,        \* the seed of the OfferHandler
    shutdown,    \* has the signal task triggered the shutdown?
    messenger,   \* where messenger.run is
    server,      \* where the gRPC server is
    calls        \* the calls it is serving

files == <<keyFile, certFile, torn>>
kept  == <<files, offers, starts, deletes>>
conf  == <<node, lnd, skip>>
parts == <<messenger, server, calls>>
vars  == <<kept, pc, conf, identity, seed, shutdown, parts>>

NoFile == -1
Empty  == 0
NoSeed == <<>>

Whole(key, cert) == key = cert /\ key > Empty

\* The seed is the hash of a signature that LND makes of a fixed message with a
\* fixed key: it is the node's own and the same each time.
build_seed_from_lnd_node == <<node>>

Tls == {"tls", "key", "keyCreated", "keyWritten", "certCreated"}
Generating == {"keyCreated", "keyWritten", "certCreated"}

TypeOK ==
    /\ keyFile \in NoFile..MaxStarts /\ certFile \in NoFile..MaxStarts
    /\ torn \in BOOLEAN
    /\ offers \subseteq [node : Nodes, seed : {<<n>> : n \in Nodes}]
    /\ starts \in 0..MaxStarts /\ deletes \in 0..MaxDeletes
    /\ pc \in {"down", "config", "lnd", "read", "seed", "build", "up"} \cup Tls
    /\ node \in Nodes /\ lnd \in Lnds /\ skip \in BOOLEAN
    /\ identity.key \in NoFile..MaxStarts /\ identity.cert \in NoFile..MaxStarts
    /\ seed \in {NoSeed} \cup {<<n>> : n \in Nodes}
    /\ shutdown \in BOOLEAN
    /\ messenger \in {"off", "checking", "running", "done"}
    /\ server \in {"off", "binding", "serving", "draining", "done"}
    /\ calls \in 0..MaxCalls

NoIdentity == [key |-> NoFile, cert |-> NoFile]

Init ==
    /\ keyFile = NoFile /\ certFile = NoFile /\ torn = FALSE
    /\ offers = {}
    /\ starts = 0 /\ deletes = 0
    /\ pc = "down"
    /\ node \in Nodes /\ lnd \in Lnds /\ skip \in BOOLEAN
    /\ identity = NoIdentity /\ seed = NoSeed
    /\ shutdown = FALSE
    /\ messenger = "off" /\ server = "off" /\ calls = 0

-----------------------------------------------------------------------------
(* The operator.                                                           *)

Start ==
    /\ pc = "down"
    /\ starts < MaxStarts
    /\ starts' = starts + 1
    /\ pc' = "config"
    /\ node' \in Nodes /\ lnd' \in Lnds /\ skip' \in BOOLEAN
    /\ UNCHANGED <<files, offers, deletes, identity, seed, shutdown, parts>>

DeleteFile ==
    /\ pc = "down"
    /\ deletes < MaxDeletes
    /\ deletes' = deletes + 1
    /\ \/ keyFile' = NoFile /\ UNCHANGED certFile
       \/ certFile' = NoFile /\ UNCHANGED keyFile
    /\ UNCHANGED <<torn, offers, starts, pc, conf, identity, seed, shutdown, parts>>

\* SIGTERM or SIGINT, once the task that waits for them runs.
Signal ==
    /\ pc \notin {"down", "config"}
    /\ shutdown' = TRUE
    /\ UNCHANGED <<kept, pc, conf, identity, seed, parts>>

\* The process is gone, by itself or because it is killed.
Gone ==
    /\ pc' = "down"
    /\ torn' = (torn \/ pc \in Generating)
    /\ identity' = NoIdentity /\ seed' = NoSeed
    /\ shutdown' = FALSE
    /\ messenger' = "off" /\ server' = "off" /\ calls' = 0
    /\ UNCHANGED <<keyFile, certFile, offers, starts, deletes, conf>>

Crash == pc # "down" /\ Gone

-----------------------------------------------------------------------------
(* main, up to the select.                                                 *)

Goto(from, to) ==
    /\ pc = from
    /\ pc' = to
    /\ UNCHANGED <<kept, conf, identity, seed, shutdown, parts>>

\* Exactly one certificate and one macaroon, both as paths or both as strings.
validate_lnd_creds(certPath, certPem, macaroonPath, macaroonHex) ==
    /\ certPath # certPem
    /\ macaroonPath # macaroonHex
    /\ certPath = macaroonPath

\* The configuration is valid, or main returns an error or exits.
Configure ==
    \E certPath, certPem, macaroonPath, macaroonHex \in BOOLEAN :
        IF validate_lnd_creds(certPath, certPem, macaroonPath, macaroonHex)
        THEN Goto("config", "lnd")
        ELSE pc = "config" /\ Gone

\* LND answers get_info, or expect panics; the address parses and the
\* certificate can be read, or main returns an error.
ReachLnd == Goto("lnd", "tls") \/ (pc = "lnd" /\ Gone)

Missing == keyFile = NoFile \/ certFile = NoFile

\* Mutant: a new pair is made at each start.
CheckTls_Always == Goto("tls", "key")

CheckTls == Goto("tls", IF Missing THEN "key" ELSE "read")

TlsStep(from, to) ==
    /\ pc = from
    /\ pc' = to
    /\ UNCHANGED <<offers, starts, deletes, conf, identity, seed, shutdown, parts>>

\* File::create truncates, write_all follows; std::fs::write does both.
CreateKey  == TlsStep("key", "keyCreated") /\ keyFile' = Empty /\ UNCHANGED <<certFile, torn>>
WriteKey   == TlsStep("keyCreated", "keyWritten") /\ keyFile' = starts /\ UNCHANGED <<certFile, torn>>

\* Mutant: a certificate that is there already is left as it is.
CreateCert_Keeps ==
    IF certFile = NoFile
    THEN TlsStep("keyWritten", "certCreated") /\ certFile' = Empty /\ UNCHANGED <<keyFile, torn>>
    ELSE TlsStep("keyWritten", "read") /\ torn' = FALSE /\ UNCHANGED <<keyFile, certFile>>

CreateCert == TlsStep("keyWritten", "certCreated") /\ certFile' = Empty /\ UNCHANGED <<keyFile, torn>>
WriteCert  == TlsStep("certCreated", "read") /\ certFile' = starts /\ torn' = FALSE /\ UNCHANGED keyFile

\* Any step on the files may fail, and main returns an error; reading a file that is
\* not there always does.
IoFails == pc \in Tls \cup {"read"} /\ Gone

ReadTls ==
    /\ pc = "read"
    /\ ~Missing
    /\ pc' = "seed"
    /\ identity' = [key |-> keyFile, cert |-> certFile]
    /\ UNCHANGED <<kept, conf, seed, shutdown, parts>>

\* Mutant: the handler is created without a seed and makes one up.
BuildSeed_Random ==
    /\ pc = "seed"
    /\ pc' = "build"
    /\ seed' \in {<<n>> : n \in Nodes}
    /\ UNCHANGED <<kept, conf, identity, shutdown, parts>>

BuildSeed ==
    \/ /\ pc = "seed"
       /\ pc' = "build"
       /\ seed' = build_seed_from_lnd_node
       /\ UNCHANGED <<kept, conf, identity, shutdown, parts>>
    \/ pc = "seed" /\ Gone

\* tls_config refuses a pair that does not fit, and expect panics.
BuildServer ==
    \/ /\ pc = "build"
       /\ Whole(identity.key, identity.cert)
       /\ pc' = "up"
       /\ messenger' = "checking"
       /\ server' = "binding"
       /\ UNCHANGED <<kept, conf, identity, seed, shutdown, calls>>
    \/ /\ pc = "build"
       /\ ~Whole(identity.key, identity.cert)
       /\ Gone

-----------------------------------------------------------------------------
(* The messenger and the server run side by side; main ends with the first.*)

\* The first component that differs decides.
has_version(v) ==
    LET r == MinVersion IN
    \/ v.major > r.major
    \/ v.major = r.major /\ v.minor > r.minor
    \/ v.major = r.major /\ v.minor = r.minor /\ v.patch > r.patch
    \/ v.major = r.major /\ v.minor = r.minor /\ v.patch = r.patch /\ v.pre >= r.pre

Supported == lnd.onion /\ lnd.tags /\ (skip \/ has_version(lnd.version))

\* Mutant: the version is checked and its verdict ignored.
CheckLnd_Ignored ==
    /\ messenger = "checking"
    /\ messenger' = "running"
    /\ UNCHANGED <<kept, pc, conf, identity, seed, shutdown, server, calls>>

\* run asks LND for its features and version; an answer that does not come
\* panics in main's own task.
CheckLnd ==
    /\ messenger = "checking"
    /\ \/ /\ messenger' = IF Supported THEN "running" ELSE "done"
          /\ UNCHANGED <<kept, pc, conf, identity, seed, shutdown, server, calls>>
       \/ Gone

\* run_onion_messenger returns: see OnionMessenger for when.
MessengerReturns ==
    /\ messenger = "running"
    /\ messenger' = "done"
    /\ UNCHANGED <<kept, pc, conf, identity, seed, shutdown, server, calls>>

Server(from, to) ==
    /\ server = from
    /\ server' = to
    /\ UNCHANGED <<kept, pc, conf, identity, seed, shutdown, messenger, calls>>

Bind == Server("binding", "serving") \/ Server("binding", "done")

Accept ==
    /\ server = "serving"
    /\ calls < MaxCalls
    /\ calls' = calls + 1
    /\ UNCHANGED <<kept, pc, conf, identity, seed, shutdown, messenger, server>>

\* A call returns; it may have been create_offer.
Answer ==
    /\ calls > 0
    /\ calls' = calls - 1
    /\ \/ UNCHANGED offers
       \/ offers' = offers \cup {[node |-> node, seed |-> seed]}
    /\ UNCHANGED <<files, starts, deletes, pc, conf, identity, seed, shutdown,
                   messenger, server>>

\* Mutant: the server is run without the shutdown listener.
StopServing_Never == FALSE

\* serve_with_shutdown: no new calls, and the end when the last has returned.
StopServing == shutdown /\ Server("serving", "draining")
Drained     == calls = 0 /\ Server("draining", "done")

\* The select ends; what is left of the other part is dropped.
Exit ==
    /\ pc = "up"
    /\ messenger = "done" \/ server = "done"
    /\ Gone

-----------------------------------------------------------------------------

Startup ==
    \/ Configure \/ ReachLnd \/ CheckTls \/ CreateKey \/ WriteKey \/ CreateCert
    \/ WriteCert \/ ReadTls \/ BuildSeed \/ BuildServer

\* What happens without a client.
Alone ==
    \/ Start \/ DeleteFile \/ Signal \/ Crash
    \/ Startup \/ IoFails
    \/ CheckLnd \/ MessengerReturns \/ Bind \/ StopServing \/ Drained \/ Exit

Next == Alone \/ Accept \/ Answer

\* The runtime runs what can go on, LND answers or fails, and calls return (see
\* EveryCallEnds of OfferHandler).  Nothing makes the messenger return.
AloneFairness ==
    /\ WF_vars(Startup)
    /\ WF_vars(CheckLnd)
    /\ WF_vars(Bind)
    /\ WF_vars(StopServing)
    /\ WF_vars(Drained)
    /\ WF_vars(Exit)

Fairness == AloneFairness /\ WF_vars(calls > 0 /\ Answer)

Spec == Init /\ [][Next]_vars

FairSpec == Spec /\ Fairness

-----------------------------------------------------------------------------
\* The server's credentials fit each other whatever file was deleted before, unless
\* generate_tls_creds was interrupted the last time it ran.
PairIsWhole == pc = "seed" /\ ~torn => Whole(identity.key, identity.cert)

\* Clients pin the certificate: the daemon never changes a pair that is there.
PairIsKept == [][Whole(keyFile, certFile) /\ pc # "down" => UNCHANGED <<keyFile, certFile>>]_vars

\* An offer is answered by every later run against the node that it was made for:
\* invoice requests verify against the seed (verify_using_recipient_data).
OffersOutliveRestarts ==
    \A o \in offers : pc = "up" /\ o.node = node => o.seed = seed

\* After a signal the process ends, even if the messenger waits for LND for ever.
SignalEnds == shutdown ~> pc = "down"

\* With an LND that is not supported the daemon does not stay up, although its
\* server is bound before the version is known.
UnsupportedStops == pc = "up" /\ ~Supported ~> pc = "down"

-----------------------------------------------------------------------------
\* "If a tls cert/key pair doesn't already exist, generate_tls_creds creates the tls
\* cert/key pair": an empty file left by a run that was killed counts as one.
PairExists == pc = "seed" => Whole(identity.key, identity.cert)
=============================================================================

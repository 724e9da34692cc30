------------------------------ MODULE CliProofs ------------------------------
(***************************************************************************)
(* Proofs for Cli, for any finite number of clients and any bounds.  The   *)
(* daemon with its clients is the daemon of Daemon: what DaemonProofs says *)
(* of its files and its offers is used here for the clients.               *)
(***************************************************************************)
EXTENDS Cli, DaemonProofs, FiniteSetTheorems

-----------------------------------------------------------------------------
(* The daemon under its clients.                                           *)

\* Whatever a client does, the daemon takes a step of its own or none.
LEMMA ServesStep == [CliNext]_cliVars => [Next]_vars
<1> SUFFICES ASSUME [CliNext]_cliVars PROVE [Next]_vars
  OBVIOUS
<1>1. CASE Alone \/ UNCHANGED vars
  BY <1>1 DEF Next
<1>2. CASE UNCHANGED cliVars
  BY <1>2 DEF cliVars
<1>3. ASSUME NEW c \in Commands, Begin(c) \/ Step(c) \/ Interrupt(c)
      PROVE  [Next]_vars
  <2>1. Accept \/ Answer \/ UNCHANGED vars
    BY <1>3 DEF Begin, Step, Interrupt, read_cert_from_args, create_grpc_channel,
       MakeCall, CallFails, LetIn, Refuse, Finish, ConnectionLost, Reply
  <2> QED BY <2>1 DEF Next
<1> QED BY <1>1, <1>2, <1>3 DEF CliNext

\* Cli is built from the actions of Daemon, so that the theorems about them hold
\* here too.
LEMMA ServesDaemon == CliSpec => Spec
<1>1. CliInit => Init
  BY DEF CliInit
<1> QED BY <1>1, ServesStep, PTL DEF CliSpec, Spec

\* What is known of the daemon, from its own proofs.
DaemonInv == TypeOK /\ FilesInv /\ SeedInv

\* It holds of the daemon with its clients.
LEMMA DaemonInvariance == CliSpec => []DaemonInv
BY ServesDaemon, DaemonTypes, FilesInvariance, SeedInvariance, PTL DEF DaemonInv

\* The history grows; the node and the process stay those of one run until it ends.
LEMMA RunMoves ==
    ASSUME DaemonInv, [Next]_vars
    PROVE  /\ starts' \in Nat /\ starts' >= starts
           /\ deletes' \in Nat /\ deletes' >= deletes
           /\ offers \subseteq offers'
           /\ starts' = starts => node' = node /\ (pc' # "down" => pc # "down")
<1> USE DEF DaemonInv
<1>0. starts \in Nat /\ deletes \in Nat
  BY DaemonAssumption DEF TypeOK
<1>1. CASE Start
  BY <1>0, <1>1 DEF Start
<1>2. CASE DeleteFile
  BY <1>0, <1>2 DEF DeleteFile, conf
<1>3. CASE Gone
  BY <1>0, <1>3 DEF Gone, conf
<1>4. CASE ~Gone /\ (Configure \/ ReachLnd \/ CheckTls)
  <2>1. \/ Goto("config", "lnd") \/ Goto("lnd", "tls")
        \/ Goto("tls", "key") \/ Goto("tls", "read")
    BY <1>4 DEF Configure, ReachLnd, CheckTls
  <2> QED BY <1>0, <2>1 DEF Goto, kept, conf
<1>5. CASE CreateKey \/ WriteKey \/ CreateCert \/ WriteCert
  BY <1>0, <1>5 DEF CreateKey, WriteKey, CreateCert, WriteCert, TlsStep, conf
<1>6. CASE Signal \/ ReadTls \/ (~Gone /\ (BuildSeed \/ BuildServer \/ CheckLnd))
  BY <1>0, <1>6 DEF Signal, ReadTls, BuildSeed, BuildServer, CheckLnd, kept, conf
<1>7. CASE MessengerReturns \/ Bind \/ StopServing \/ Drained
  BY <1>0, <1>7 DEF MessengerReturns, Bind, StopServing, Drained, Server, kept, conf
<1>8. CASE Accept \/ Answer \/ UNCHANGED vars
  BY <1>0, <1>8 DEF Accept, Answer, vars, kept, conf
<1> QED
  BY <1>1, <1>2, <1>3, <1>4, <1>5, <1>6, <1>7, <1>8
     DEF Next, Alone, Startup, Crash, IoFails, Exit

\* Without a client, the calls stay what they are, or the process is gone with them.
LEMMA AloneCalls ==
    ASSUME DaemonInv, Alone
    PROVE  \/ pc' = "down" /\ calls' = 0
           \/ calls = 0 /\ calls' = 0 /\ starts' = starts + 1
           \/ pc # "down" /\ pc' # "down" /\ calls' = calls /\ starts' = starts
<1> USE DEF DaemonInv
<1>1. CASE Start
  BY <1>1 DEF Start, parts, SeedInv
<1>2. CASE DeleteFile
  BY <1>2 DEF DeleteFile, parts, SeedInv
<1>3. CASE Gone
  BY <1>3 DEF Gone
<1>4. CASE ~Gone /\ (Configure \/ ReachLnd \/ CheckTls)
  <2>1. \/ Goto("config", "lnd") \/ Goto("lnd", "tls")
        \/ Goto("tls", "key") \/ Goto("tls", "read")
    BY <1>4 DEF Configure, ReachLnd, CheckTls
  <2> QED BY <2>1 DEF Goto, kept, parts
<1>5. CASE CreateKey \/ WriteKey \/ CreateCert \/ WriteCert
  BY <1>5 DEF CreateKey, WriteKey, CreateCert, WriteCert, TlsStep, parts
<1>6. CASE Signal \/ ReadTls \/ (~Gone /\ (BuildSeed \/ BuildServer))
  BY <1>6 DEF Signal, ReadTls, BuildSeed, BuildServer, kept, parts
<1>7. CASE (~Gone /\ CheckLnd) \/ MessengerReturns \/ Bind \/ StopServing \/ Drained
  <2>1. calls' = calls /\ starts' = starts /\ pc' = pc
    BY <1>7 DEF CheckLnd, MessengerReturns, Bind, StopServing, Drained, Server, kept
  <2>2. calls \in Nat /\ (calls > 0 => pc = "up")
    BY DEF SeedInv
  <2> QED BY <2>1, <2>2
<1> QED
  BY <1>1, <1>2, <1>3, <1>4, <1>5, <1>6, <1>7 DEF Alone, Startup, Crash, IoFails, Exit

-----------------------------------------------------------------------------
(* The commands.                                                           *)

\* A command has no outcome before its end and no fee limit before it is let in; what
\* it remembers of the daemon is past.
Fresh(c) ==
    /\ cmd[c].run <= starts /\ cmd[c].deletes <= deletes
    /\ cmd[c].pc # "done" => cmd[c].result = "none"
    /\ cmd[c].pc \notin {"working", "done"} => cmd[c].limit = "unset"

\* The pair whose certificate was read is there until somebody deletes a file.
Pinned(c) ==
    cmd[c].fits /\ cmd[c].deletes = deletes =>
        Whole(keyFile, certFile) /\ cmd[c].cert = certFile

\* A call that was let in is one for the node that the run which serves it is for.
Admitted(c) == cmd[c].pc = "working" /\ Served(c) => cmd[c].macaroon = node

\* lndk-cli does not take both limits.
Single(c) == cmd[c].cli => cmd[c].asked # "both"

\* The three properties, of one command.
CertGood(c) == cmd[c].result = "untrusted" => ~cmd[c].fits \/ cmd[c].deletes < deletes
OfferOwn(c) ==
    cmd[c].method = "create_offer" /\ cmd[c].result = "ok" =>
        [node |-> cmd[c].macaroon, seed |-> <<cmd[c].macaroon>>] \in offers
LimitKept(c) == cmd[c].cli /\ cmd[c].limit # "unset" => cmd[c].limit = cmd[c].asked

Good(c) ==
    /\ Fresh(c) /\ Pinned(c) /\ Admitted(c) /\ Single(c)
    /\ CertGood(c) /\ OfferOwn(c) /\ LimitKept(c)

Busy == {c \in Commands : Served(c)}

CliInv ==
    /\ cmd \in [Commands -> Command]
    /\ \A c \in Commands : Good(c)
    /\ calls = Cardinality(Busy)

\* A step of the daemon, or of another command, leaves a command's account right.
LEMMA OthersGood ==
    ASSUME DaemonInv, CliInv, [Next]_vars, NEW c \in Commands, cmd'[c] = cmd[c]
    PROVE  Good(c)'
<1>0. cmd[c] \in Command /\ Good(c)
  BY DEF CliInv
<1>1. /\ starts \in Nat /\ deletes \in Nat
      /\ cmd[c].run \in Nat /\ cmd[c].deletes \in Nat
  BY <1>0, DaemonAssumption DEF Command, DaemonInv, TypeOK
<1>2. /\ starts' \in Nat /\ deletes' \in Nat
      /\ starts' >= starts /\ deletes' >= deletes
      /\ offers \subseteq offers'
      /\ starts' = starts => node' = node /\ (pc' # "down" => pc # "down")
  BY RunMoves
<1>3. Fresh(c)'
  BY <1>0, <1>1, <1>2 DEF Good, Fresh
<1>4. Pinned(c)'
  <2> SUFFICES ASSUME cmd[c].fits, cmd[c].deletes = deletes'
               PROVE  (Whole(keyFile, certFile) /\ cmd[c].cert = certFile)'
    BY DEF Pinned
  <2>1. deletes' = deletes
    BY <1>0, <1>1, <1>2 DEF Good, Fresh
  <2>2. Whole(keyFile, certFile) /\ cmd[c].cert = certFile
    BY <1>0, <2>1 DEF Good, Pinned
  <2>3. UNCHANGED <<keyFile, certFile>>
    BY <1>1, <2>1, <2>2, PairStays DEF DaemonInv
  <2> QED BY <2>2, <2>3 DEF Whole
<1>5. Admitted(c)'
  <2> SUFFICES ASSUME cmd[c].pc = "working", Served(c)'
               PROVE  cmd[c].macaroon = node'
    BY DEF Admitted
  <2>1. cmd[c].run = starts' /\ pc' # "down"
    BY DEF Served
  <2>2. starts' = starts
    BY <1>0, <1>1, <1>2, <2>1 DEF Good, Fresh
  <2>3. Served(c)
    BY <1>2, <2>1, <2>2 DEF Served
  <2> QED BY <1>0, <1>2, <2>2, <2>3 DEF Good, Admitted
<1>6. CertGood(c)'
  BY <1>0, <1>1, <1>2 DEF Good, CertGood
<1>7. OfferOwn(c)'
  BY <1>0, <1>2 DEF Good, OfferOwn
<1>8. Single(c)' /\ LimitKept(c)'
  BY <1>0 DEF Good, Single, LimitKept
<1> QED BY <1>3, <1>4, <1>5, <1>6, <1>7, <1>8 DEF Good

\* One command's record changes.
LEMMA OneCommand ==
    ASSUME CliInv, NEW c \in Commands, NEW r \in Command, cmd' = [cmd EXCEPT ![c] = r]
    PROVE  /\ cmd' \in [Commands -> Command]
           /\ cmd'[c] = r
           /\ \A d \in Commands \ {c} : cmd'[d] = cmd[d]
BY DEF CliInv

\* exit_gracefully, or the end of main: an outcome other than an error keeps what the
\* command knew.
LEMMA EndRecord ==
    ASSUME CliInv, NEW c \in Commands, NEW result \in {"ok", "error", "untrusted"},
           End(c, result)
    PROVE  /\ cmd' \in [Commands -> Command]
           /\ \A d \in Commands \ {c} : cmd'[d] = cmd[d]
           /\ cmd'[c] = [(IF result = "error" THEN NotBegun ELSE cmd[c])
                            EXCEPT !.pc = "done", !.result = result]
<1> DEFINE old == IF result = "error" THEN NotBegun ELSE cmd[c]
           r   == [old EXCEPT !.pc = "done", !.result = result]
<1>1. cmd[c] \in Command
  BY DEF CliInv
<1>2. NotBegun \in Command
  BY DaemonAssumption DEF NotBegun, Command, Limits, NoFile
<1>3. old \in Command
  BY <1>1, <1>2
<1>4. r \in Command
  <2> HIDE DEF old
  <2> QED BY <1>3 DEF Command
<1>5. cmd' = [cmd EXCEPT ![c] = r]
  BY DEF End
<1> QED BY <1>4, <1>5, OneCommand

\* A command that ends with an error has nothing to account for.
LEMMA ErrorGood ==
    ASSUME CliInv, NEW c \in Commands, End(c, "error"),
           starts' \in Nat, deletes' \in Nat
    PROVE  Good(c)'
<1>1. cmd'[c] = [NotBegun EXCEPT !.pc = "done", !.result = "error"]
  BY EndRecord
<1>2. /\ cmd'[c].run = 0 /\ cmd'[c].deletes = 0 /\ cmd'[c].pc = "done"
      /\ cmd'[c].fits = FALSE /\ cmd'[c].result = "error"
      /\ cmd'[c].asked = "none" /\ cmd'[c].limit = "unset"
  BY <1>1 DEF NotBegun
<1> QED BY <1>2 DEF Good, Fresh, Pinned, Admitted, Single, CertGood, OfferOwn, LimitKept

\* Whoever is turned away as untrusted did not read the certificate of the pair that
\* the server uses, which is the one on disk.
LEMMA TurnedAwayGood ==
    ASSUME DaemonInv, CliInv, NEW c \in Commands, TurnedAway(c), UNCHANGED vars,
           cmd[c].pc \in {"trusting", "connected"}
    PROVE  Good(c)'
<1>0. cmd[c] \in Command /\ Good(c)
  BY DEF CliInv
<1>1. UNCHANGED <<starts, deletes, offers, node, pc, keyFile, certFile>>
  BY DEF vars, kept, files, conf
<1>2. starts \in Nat /\ deletes \in Nat /\ cmd[c].deletes \in Nat
  BY <1>0, DaemonAssumption DEF DaemonInv, TypeOK, Command
<1>3. CASE End(c, "error")
  BY <1>1, <1>2, <1>3, ErrorGood
<1>4. CASE Serving /\ ~Trusts(c) /\ End(c, "untrusted")
  <2>1. cmd'[c] = [cmd[c] EXCEPT !.pc = "done", !.result = "untrusted"]
    BY <1>4, EndRecord
  <2>2. /\ cmd'[c].run = cmd[c].run /\ cmd'[c].deletes = cmd[c].deletes
        /\ cmd'[c].fits = cmd[c].fits /\ cmd'[c].cert = cmd[c].cert
        /\ cmd'[c].cli = cmd[c].cli /\ cmd'[c].asked = cmd[c].asked
        /\ cmd'[c].limit = cmd[c].limit
        /\ cmd'[c].pc = "done" /\ cmd'[c].result = "untrusted"
    BY <1>0, <2>1 DEF Command
  <2>3. identity.cert = certFile
    BY <1>4 DEF Serving, DaemonInv, SeedInv, FilesInv, ReadFiles
  <2>4. ~cmd[c].fits \/ cmd[c].deletes < deletes
    BY <1>0, <1>2, <1>4, <2>3 DEF Trusts, Good, Pinned, Fresh
  <2>5. Fresh(c)' /\ Pinned(c)'
    BY <1>0, <1>1, <2>2 DEF Good, Fresh, Pinned, Whole
  <2>6. CertGood(c)'
    BY <1>1, <2>2, <2>4 DEF CertGood
  <2>7. Admitted(c)' /\ OfferOwn(c)' /\ Single(c)' /\ LimitKept(c)'
    BY <1>0, <2>2 DEF Good, Admitted, OfferOwn, Single, LimitKept
  <2> QED BY <2>5, <2>6, <2>7 DEF Good
<1> QED BY <1>3, <1>4 DEF TurnedAway

\* A step that is one command's, whose account is right afterwards.
Moves(c) ==
    /\ cmd' \in [Commands -> Command]
    /\ \A d \in Commands \ {c} : cmd'[d] = cmd[d]
    /\ Good(c)'

\* Without a step of the daemon: what the accounts refer to stays.
LEMMA Still ==
    ASSUME DaemonInv, CliInv, UNCHANGED vars, NEW c \in Commands
    PROVE  /\ UNCHANGED <<starts, deletes, offers, node, pc, keyFile, certFile>>
           /\ cmd[c] \in Command /\ Good(c)
           /\ starts \in Nat /\ deletes \in Nat
           /\ cmd[c].run \in Nat /\ cmd[c].deletes \in Nat
BY DaemonAssumption DEF vars, kept, files, conf, DaemonInv, CliInv, TypeOK, Command

\* The user starts a command, with at most one of the limits in lndk-cli.
LEMMA BeginMoves ==
    ASSUME DaemonInv, CliInv, NEW c \in Commands, Begin(c)
    PROVE  Moves(c)
<1>0. UNCHANGED vars /\ cmd[c].pc = "idle"
  BY DEF Begin
<1>1. PICK cli \in BOOLEAN, method \in Methods, limit \in Limits :
         /\ Accepts(cli, limit)
         /\ cmd' = [cmd EXCEPT ![c].pc = "started", ![c].cli = cli,
                               ![c].method = method, ![c].asked = limit]
  BY DEF Begin
<1> DEFINE r == [cmd[c] EXCEPT !.pc = "started", !.cli = cli, !.method = method,
                               !.asked = limit]
<1>2. r \in Command
  BY <1>0, Still DEF Command
<1>3. cmd' = [cmd EXCEPT ![c] = r]
  BY <1>1 DEF CliInv
<1>4. cmd' \in [Commands -> Command] /\ cmd'[c] = r /\ \A d \in Commands \ {c} : cmd'[d] = cmd[d]
  BY <1>2, <1>3, OneCommand
<1>5. /\ r.pc = "started" /\ r.cli = cli /\ r.asked = limit
      /\ r.run = cmd[c].run /\ r.deletes = cmd[c].deletes /\ r.fits = cmd[c].fits
      /\ r.cert = cmd[c].cert /\ r.result = cmd[c].result /\ r.limit = cmd[c].limit
  BY <1>0, Still DEF Command
<1>6. /\ UNCHANGED <<starts, deletes, offers, node, pc, keyFile, certFile>>
      /\ Good(c)
  BY <1>0, Still
<1>7. cmd[c].result = "none" /\ cmd[c].limit = "unset"
  BY <1>0, <1>6 DEF Good, Fresh
<1>8. Fresh(c)' /\ Pinned(c)' /\ Admitted(c)'
  BY <1>4, <1>5, <1>6, <1>7 DEF Good, Fresh, Pinned, Admitted, Whole
<1>9. Single(c)' /\ CertGood(c)' /\ OfferOwn(c)' /\ LimitKept(c)'
  BY <1>1, <1>4, <1>5, <1>7 DEF Accepts, Single, CertGood, OfferOwn, LimitKept
<1> HIDE DEF r
<1> QED BY <1>4, <1>8, <1>9 DEF Moves, Good

\* read_cert_from_args, or an error.
LEMMA ReadMoves ==
    ASSUME DaemonInv, CliInv, NEW c \in Commands, read_cert_from_args(c)
    PROVE  Moves(c) /\ cmd'[c].pc \in {"trusting", "done"}
<1>0. UNCHANGED vars /\ cmd[c].pc = "started"
  BY DEF read_cert_from_args
<1>01. /\ UNCHANGED <<starts, deletes, offers, node, pc, keyFile, certFile>>
       /\ cmd[c] \in Command /\ Good(c)
       /\ starts \in Nat /\ deletes \in Nat
  BY <1>0, Still
<1>1. CASE End(c, "error")
  <2>1. cmd'[c] = [NotBegun EXCEPT !.pc = "done", !.result = "error"]
    BY <1>1, EndRecord
  <2>2. cmd'[c].pc = "done"
    BY <2>1 DEF NotBegun
  <2> QED BY <1>01, <1>1, <2>2, EndRecord, ErrorGood DEF Moves
<1>2. ASSUME NEW cert \in {certFile} \cup 1..starts,
             cmd' = [cmd EXCEPT ![c].pc = "trusting", ![c].cert = cert,
                                ![c].fits = Whole(keyFile, certFile) /\ cert = certFile,
                                ![c].deletes = deletes]
      PROVE  Moves(c) /\ cmd'[c].pc = "trusting"
  <2> DEFINE fits == Whole(keyFile, certFile) /\ cert = certFile
             r == [cmd[c] EXCEPT !.pc = "trusting", !.cert = cert, !.fits = fits,
                                 !.deletes = deletes]
  <2>1. cert \in NoFile..MaxStarts /\ deletes \in 0..MaxDeletes
    BY DaemonAssumption DEF DaemonInv, TypeOK, NoFile
  <2>2. fits \in BOOLEAN
    OBVIOUS
  <2>3. r \in Command
    <3> HIDE DEF fits
    <3> QED BY <1>01, <2>1, <2>2 DEF Command
  <2>4. cmd' = [cmd EXCEPT ![c] = r]
    BY <1>2 DEF CliInv
  <2>5. cmd' \in [Commands -> Command] /\ cmd'[c] = r /\ \A d \in Commands \ {c} : cmd'[d] = cmd[d]
    BY <2>3, <2>4, OneCommand
  <2>6. /\ r.pc = "trusting" /\ r.cert = cert /\ r.deletes = deletes
        /\ r.cli = cmd[c].cli /\ r.asked = cmd[c].asked
        /\ r.run = cmd[c].run /\ r.result = cmd[c].result /\ r.limit = cmd[c].limit
    BY <1>01 DEF Command
  <2>7. r.fits => Whole(keyFile, certFile) /\ cert = certFile
    BY <1>01 DEF Command
  <2>8. cmd[c].result = "none" /\ cmd[c].limit = "unset"
    BY <1>0, <1>01 DEF Good, Fresh
  <2> HIDE DEF r, fits
  <2>9. Fresh(c)' /\ Admitted(c)'
    BY <1>01, <2>5, <2>6, <2>8 DEF Good, Fresh, Admitted
  <2>10. Pinned(c)'
    BY <1>01, <2>5, <2>6, <2>7 DEF Pinned, Whole
  <2>11. Single(c)' /\ CertGood(c)' /\ OfferOwn(c)' /\ LimitKept(c)'
    BY <1>01, <2>5, <2>6, <2>8 DEF Good, Single, CertGood, OfferOwn, LimitKept
  <2> QED BY <2>5, <2>6, <2>9, <2>10, <2>11 DEF Moves, Good
<1> QED BY <1>1, <1>2 DEF read_cert_from_args

\* The client cannot get through, or gives up: it ends.
LEMMA TurnedAwayMoves ==
    ASSUME DaemonInv, CliInv, NEW c \in Commands, TurnedAway(c) \/ End(c, "error"),
           UNCHANGED vars,
           TurnedAway(c) => cmd[c].pc \in {"trusting", "connected"}
    PROVE  Moves(c) /\ cmd'[c].pc = "done"
<1>1. /\ UNCHANGED <<starts, deletes>>
      /\ starts \in Nat /\ deletes \in Nat
      /\ cmd[c] \in Command
  BY Still
<1>2. PICK result \in {"error", "untrusted"} : End(c, result)
  BY DEF TurnedAway
<1>3. /\ cmd' \in [Commands -> Command]
      /\ \A d \in Commands \ {c} : cmd'[d] = cmd[d]
      /\ cmd'[c] = [(IF result = "error" THEN NotBegun ELSE cmd[c])
                       EXCEPT !.pc = "done", !.result = result]
  BY <1>2, EndRecord
<1>4. cmd'[c].pc = "done"
  BY <1>1, <1>3 DEF NotBegun, Command
<1>5. Good(c)'
  BY <1>1, TurnedAwayGood, ErrorGood
<1> QED BY <1>3, <1>4, <1>5 DEF Moves

\* The client connects.
LEMMA ConnectMoves ==
    ASSUME DaemonInv, CliInv, NEW c \in Commands, UNCHANGED vars,
           cmd[c].pc = "trusting", cmd' = [cmd EXCEPT ![c].pc = "connected"]
    PROVE  Moves(c) /\ cmd'[c].pc = "connected"
<1>0. /\ UNCHANGED <<starts, deletes, offers, node, pc, keyFile, certFile>>
      /\ cmd[c] \in Command /\ Good(c)
  BY Still
<1> DEFINE r == [cmd[c] EXCEPT !.pc = "connected"]
<1>1. r \in Command
  BY <1>0 DEF Command
<1>2. cmd' = [cmd EXCEPT ![c] = r]
  BY DEF CliInv
<1>3. cmd' \in [Commands -> Command] /\ cmd'[c] = r /\ \A d \in Commands \ {c} : cmd'[d] = cmd[d]
  BY <1>1, <1>2, OneCommand
<1>4. /\ r.pc = "connected" /\ r.cert = cmd[c].cert /\ r.deletes = cmd[c].deletes
      /\ r.fits = cmd[c].fits /\ r.cli = cmd[c].cli /\ r.asked = cmd[c].asked
      /\ r.run = cmd[c].run /\ r.result = cmd[c].result /\ r.limit = cmd[c].limit
  BY <1>0 DEF Command
<1>5. cmd[c].result = "none" /\ cmd[c].limit = "unset"
  BY <1>0 DEF Good, Fresh
<1> HIDE DEF r
<1>6. Fresh(c)' /\ Pinned(c)' /\ Admitted(c)'
  BY <1>0, <1>3, <1>4, <1>5 DEF Good, Fresh, Pinned, Admitted, Whole
<1>7. Single(c)' /\ CertGood(c)' /\ OfferOwn(c)' /\ LimitKept(c)'
  BY <1>0, <1>3, <1>4, <1>5 DEF Good, Single, CertGood, OfferOwn, LimitKept
<1> QED BY <1>3, <1>4, <1>6, <1>7 DEF Moves, Good

\* The server takes the call, perhaps in a later run than the client connected to.
LEMMA CallMoves ==
    ASSUME DaemonInv, CliInv, NEW c \in Commands, MakeCall(c)
    PROVE  Moves(c) /\ cmd'[c].pc = "served" /\ cmd'[c].run = starts
<1>0. /\ UNCHANGED <<starts, deletes, offers, node, pc, keyFile, certFile>>
      /\ cmd[c].pc = "connected"
  BY DEF MakeCall, Accept, kept, files, conf
<1>01. /\ cmd[c] \in Command /\ Good(c)
       /\ starts \in Nat /\ starts \in 0..MaxStarts
  BY DaemonAssumption DEF CliInv, DaemonInv, TypeOK
<1>1. PICK m \in Nodes \cup {NoMacaroon} :
         cmd' = [cmd EXCEPT ![c].pc = "served", ![c].macaroon = m, ![c].run = starts]
  BY DEF MakeCall
<1> DEFINE r == [cmd[c] EXCEPT !.pc = "served", !.macaroon = m, !.run = starts]
<1>2. r \in Command
  BY <1>01 DEF Command
<1>3. cmd' = [cmd EXCEPT ![c] = r]
  BY <1>1 DEF CliInv
<1>4. cmd' \in [Commands -> Command] /\ cmd'[c] = r /\ \A d \in Commands \ {c} : cmd'[d] = cmd[d]
  BY <1>2, <1>3, OneCommand
<1>5. /\ r.pc = "served" /\ r.cert = cmd[c].cert /\ r.deletes = cmd[c].deletes
      /\ r.fits = cmd[c].fits /\ r.cli = cmd[c].cli /\ r.asked = cmd[c].asked
      /\ r.run = starts /\ r.result = cmd[c].result /\ r.limit = cmd[c].limit
  BY <1>01 DEF Command
<1>6. cmd[c].result = "none" /\ cmd[c].limit = "unset"
  BY <1>0, <1>01 DEF Good, Fresh
<1> HIDE DEF r
<1>7. Fresh(c)' /\ Pinned(c)' /\ Admitted(c)'
  BY <1>0, <1>01, <1>4, <1>5, <1>6 DEF Good, Fresh, Pinned, Admitted, Whole
<1>8. Single(c)' /\ CertGood(c)' /\ OfferOwn(c)' /\ LimitKept(c)'
  BY <1>0, <1>01, <1>4, <1>5, <1>6 DEF Good, Single, CertGood, OfferOwn, LimitKept
<1> QED BY <1>4, <1>5, <1>7, <1>8 DEF Moves, Good

\* What create_fee_limit passes on of one limit is that limit.
LEMMA OneLimit ==
    ASSUME NEW limit \in Limits
    PROVE  /\ create_fee_limit(limit) \in Limits
           /\ limit # "both" => create_fee_limit(limit) = limit
BY DEF create_fee_limit, Limits

\* The server lets the call in: the macaroon is one of the node of this run.
LEMMA LetInMoves ==
    ASSUME DaemonInv, CliInv, NEW c \in Commands, LetIn(c)
    PROVE  Moves(c) /\ cmd'[c].pc = "working" /\ cmd'[c].run = cmd[c].run
<1>0. /\ UNCHANGED <<starts, deletes, offers, node, pc, keyFile, certFile>>
      /\ cmd[c] \in Command /\ Good(c)
  BY Still DEF LetIn
<1>1. cmd[c].pc = "served" /\ cmd[c].macaroon = node
  BY DEF LetIn, Authorized
<1> DEFINE limit == IF cmd[c].method \in Paying
                    THEN create_fee_limit(cmd[c].asked) ELSE cmd[c].limit
           r == [cmd[c] EXCEPT !.pc = "working", !.limit = limit]
<1>2. cmd[c].limit = "unset" /\ cmd[c].result = "none"
  BY <1>0, <1>1 DEF Good, Fresh
<1>3. cmd[c].asked \in Limits
  BY <1>0 DEF Command
<1>4. /\ limit \in Limits \cup {"unset"}
      /\ limit # "unset" /\ cmd[c].asked # "both" => limit = cmd[c].asked
  BY <1>2, <1>3, OneLimit
<1>5. cmd' = [cmd EXCEPT ![c] = r]
  BY DEF LetIn, CliInv
<1> HIDE DEF limit
<1>6. r \in Command
  BY <1>0, <1>4 DEF Command
<1>7. cmd' \in [Commands -> Command] /\ cmd'[c] = r /\ \A d \in Commands \ {c} : cmd'[d] = cmd[d]
  BY <1>5, <1>6, OneCommand
<1>8. /\ r.pc = "working" /\ r.cert = cmd[c].cert /\ r.deletes = cmd[c].deletes
      /\ r.fits = cmd[c].fits /\ r.cli = cmd[c].cli /\ r.asked = cmd[c].asked
      /\ r.run = cmd[c].run /\ r.result = cmd[c].result /\ r.limit = limit
      /\ r.macaroon = cmd[c].macaroon
  BY <1>0 DEF Command
<1> HIDE DEF r
<1>9. Fresh(c)' /\ Pinned(c)' /\ Admitted(c)'
  BY <1>0, <1>1, <1>2, <1>7, <1>8 DEF Good, Fresh, Pinned, Admitted, Whole
<1>10. Single(c)' /\ CertGood(c)' /\ OfferOwn(c)' /\ LimitKept(c)'
  BY <1>0, <1>2, <1>4, <1>7, <1>8 DEF Good, Single, CertGood, OfferOwn, LimitKept
<1> QED BY <1>7, <1>8, <1>9, <1>10 DEF Moves, Good

\* The call is answered: an offer carries the node and the seed of this run, which
\* are the client's.
LEMMA ReplyMoves ==
    ASSUME DaemonInv, CliInv, NEW c \in Commands,
           \/ Reply(c, "error", FALSE)
           \/ cmd[c].pc = "working" /\ Reply(c, "ok", cmd[c].method = "create_offer")
    PROVE  Moves(c) /\ cmd'[c].pc = "done"
<1>0. /\ UNCHANGED <<starts, deletes, node, pc, keyFile, certFile>>
      /\ pc = "up" /\ seed = <<node>>
      /\ Served(c)
  BY DEF Reply, Answer, files, conf, DaemonInv, SeedInv
<1>01. /\ cmd[c] \in Command /\ Good(c)
       /\ starts \in Nat /\ deletes \in Nat
  BY DaemonAssumption DEF CliInv, DaemonInv, TypeOK
<1>1. CASE End(c, "error")
  <2>1. cmd'[c] = [NotBegun EXCEPT !.pc = "done", !.result = "error"]
    BY <1>1, EndRecord
  <2>2. cmd'[c].pc = "done"
    BY <2>1 DEF NotBegun
  <2> QED BY <1>0, <1>01, <1>1, <2>2, EndRecord, ErrorGood DEF Moves
<1>2. CASE /\ cmd[c].pc = "working" /\ End(c, "ok")
           /\ cmd[c].method = "create_offer" =>
                 offers' = offers \cup {[node |-> node, seed |-> seed]}
  <2>1. /\ cmd' \in [Commands -> Command]
        /\ \A d \in Commands \ {c} : cmd'[d] = cmd[d]
        /\ cmd'[c] = [cmd[c] EXCEPT !.pc = "done", !.result = "ok"]
    BY <1>2, EndRecord
  <2>2. /\ cmd'[c].run = cmd[c].run /\ cmd'[c].deletes = cmd[c].deletes
        /\ cmd'[c].fits = cmd[c].fits /\ cmd'[c].cert = cmd[c].cert
        /\ cmd'[c].cli = cmd[c].cli /\ cmd'[c].asked = cmd[c].asked
        /\ cmd'[c].limit = cmd[c].limit /\ cmd'[c].method = cmd[c].method
        /\ cmd'[c].macaroon = cmd[c].macaroon
        /\ cmd'[c].pc = "done" /\ cmd'[c].result = "ok"
    BY <1>01, <2>1 DEF Command
  <2>3. cmd[c].macaroon = node
    BY <1>0, <1>01, <1>2 DEF Good, Admitted
  <2>4. OfferOwn(c)'
    BY <1>0, <1>2, <2>2, <2>3 DEF OfferOwn
  <2>5. Fresh(c)' /\ Pinned(c)' /\ Admitted(c)'
    BY <1>0, <1>01, <2>2 DEF Good, Fresh, Pinned, Admitted, Whole
  <2>6. Single(c)' /\ CertGood(c)' /\ LimitKept(c)'
    BY <1>01, <2>2 DEF Good, Single, CertGood, LimitKept
  <2> QED BY <2>1, <2>2, <2>4, <2>5, <2>6 DEF Moves, Good
<1> QED BY <1>1, <1>2 DEF Reply

-----------------------------------------------------------------------------
(* The calls.                                                              *)

LEMMA BusyFinite == IsFiniteSet(Busy) /\ IsFiniteSet(Busy')
<1>1. Busy \subseteq Commands /\ Busy' \subseteq Commands
  BY DEF Busy
<1> QED BY <1>1, CliAssumption, FS_Subset

\* Other commands are served as before as long as the run goes on.
LEMMA OthersServed ==
    ASSUME NEW c \in Commands, Moves(c), UNCHANGED <<pc, starts>>,
           NEW d \in Commands \ {c}
    PROVE  Served(d)' <=> Served(d)
<1>1. cmd'[d] = cmd[d]
  BY DEF Moves
<1> QED BY <1>1 DEF Served

\* A client's step that the server does not take part in.
LEMMA AsidePreserves ==
    ASSUME DaemonInv, CliInv, NEW c \in Commands, Moves(c), UNCHANGED vars,
           \/ ~Served(c) /\ cmd'[c].pc \notin {"served", "working"}
           \/ Served(c) /\ cmd'[c].pc = "working" /\ cmd'[c].run = cmd[c].run
    PROVE  CliInv'
<1>1. UNCHANGED <<pc, starts, calls>>
  BY DEF vars, kept, parts
<1>2. Served(c)' <=> Served(c)
  BY <1>1 DEF Served
<1>3. \A d \in Commands : Served(d)' <=> Served(d)
  BY <1>1, <1>2, OthersServed
<1>4. Busy' = Busy
  BY <1>3 DEF Busy
<1>5. \A d \in Commands : Good(d)'
  BY OthersGood DEF Moves
<1> QED BY <1>1, <1>4, <1>5 DEF CliInv, Moves

\* The server takes one more call.
LEMMA CallPreserves ==
    ASSUME DaemonInv, CliInv, NEW c \in Commands, MakeCall(c)
    PROVE  CliInv'
<1>1. Moves(c) /\ cmd'[c].pc = "served" /\ cmd'[c].run = starts
  BY CallMoves
<1>2. UNCHANGED <<pc, starts>> /\ calls' = calls + 1 /\ pc = "up" /\ Accept
  BY DEF MakeCall, Accept, kept, DaemonInv, SeedInv
<1>3. ~Served(c) /\ Served(c)'
  BY <1>1, <1>2 DEF Served, MakeCall
<1>4. \A d \in Commands \ {c} : Served(d)' <=> Served(d)
  BY <1>1, <1>2, OthersServed
<1>5. Busy' = Busy \cup {c} /\ c \notin Busy
  BY <1>3, <1>4 DEF Busy
<1>6. Cardinality(Busy') = Cardinality(Busy) + 1
  BY <1>5, BusyFinite, FS_AddElement
<1>7. \A d \in Commands : Good(d)'
  <2>1. [Next]_vars
    BY <1>2 DEF Next
  <2> QED BY <1>1, <2>1, OthersGood DEF Moves
<1> QED BY <1>1, <1>2, <1>6, <1>7 DEF CliInv, Moves

\* The server answers, or drops the call of a client that is gone.
LEMMA ReplyPreserves ==
    ASSUME DaemonInv, CliInv, NEW c \in Commands,
           \/ Reply(c, "error", FALSE)
           \/ cmd[c].pc = "working" /\ Reply(c, "ok", cmd[c].method = "create_offer")
    PROVE  CliInv'
<1>1. Moves(c) /\ cmd'[c].pc = "done"
  BY ReplyMoves
<1>2. UNCHANGED <<pc, starts>> /\ calls' = calls - 1 /\ Answer
  BY DEF Reply, Answer
<1>3. Served(c) /\ ~Served(c)'
  BY <1>1 DEF Served, Reply
<1>4. \A d \in Commands \ {c} : Served(d)' <=> Served(d)
  BY <1>1, <1>2, OthersServed
<1>5. Busy' = Busy \ {c} /\ c \in Busy
  BY <1>3, <1>4 DEF Busy
<1>6. Cardinality(Busy') = Cardinality(Busy) - 1
  BY <1>5, BusyFinite, FS_RemoveElement
<1>7. \A d \in Commands : Good(d)'
  <2>1. [Next]_vars
    BY <1>2 DEF Next
  <2> QED BY <1>1, <2>1, OthersGood DEF Moves
<1> QED BY <1>1, <1>2, <1>6, <1>7 DEF CliInv, Moves

\* The daemon by itself: a run that ends takes its calls with it, and a new one serves
\* none of the old commands.
LEMMA AlonePreserves == DaemonInv /\ CliInv /\ Alone /\ UNCHANGED cmd => CliInv'
<1> SUFFICES ASSUME DaemonInv, CliInv, Alone, UNCHANGED cmd PROVE CliInv'
  OBVIOUS
<1>1. \A c \in Commands : Good(c)'
  BY OthersGood DEF Next
<1>2. \A c \in Commands : cmd[c].run <= starts /\ cmd[c].run \in Nat
  BY DaemonAssumption DEF CliInv, Good, Fresh, Command
<1>3. starts \in Nat
  BY DaemonAssumption DEF DaemonInv, TypeOK
<1>4. CASE pc' = "down" /\ calls' = 0
  <2>1. Busy' = {}
    BY <1>4 DEF Busy, Served
  <2> QED BY <1>1, <1>4, <2>1, FS_EmptySet DEF CliInv
<1>5. CASE calls' = 0 /\ starts' = starts + 1
  <2>1. Busy' = {}
    BY <1>2, <1>3, <1>5 DEF Busy, Served
  <2> QED BY <1>1, <1>5, <2>1, FS_EmptySet DEF CliInv
<1>6. CASE pc # "down" /\ pc' # "down" /\ calls' = calls /\ starts' = starts
  <2>1. Busy' = Busy
    BY <1>6 DEF Busy, Served
  <2> QED BY <1>1, <1>6, <2>1 DEF CliInv
<1> QED BY <1>4, <1>5, <1>6, AloneCalls

\* The account of every command is right at every step.
THEOREM CommandsInvariance == CliSpec => []CliInv
<1>1. CliInit => CliInv
  <2> SUFFICES ASSUME CliInit PROVE CliInv
    OBVIOUS
  <2>1. NotBegun \in Command
    BY DaemonAssumption DEF NotBegun, Command, Limits, NoFile
  <2>2. cmd \in [Commands -> Command]
    BY <2>1 DEF CliInit
  <2>3. Busy = {} /\ calls = 0
    BY DEF CliInit, Init, Busy, Served
  <2>4. ASSUME NEW c \in Commands PROVE Good(c)
    <3>1. cmd[c] = NotBegun /\ starts = 0 /\ deletes = 0
      BY DEF CliInit, Init
    <3> QED
      BY <3>1 DEF NotBegun, Good, Fresh, Pinned, Admitted, Single, CertGood, OfferOwn,
         LimitKept
  <2> QED BY <2>2, <2>3, <2>4, FS_EmptySet DEF CliInv
<1>2. ASSUME DaemonInv, CliInv, [CliNext]_cliVars PROVE CliInv'
  <2> USE <1>2
  <2>1. CASE Alone /\ UNCHANGED cmd
    BY <2>1, AlonePreserves
  <2>2. CASE UNCHANGED cliVars
    <3>1. UNCHANGED <<cmd, vars>>
      BY <2>2 DEF cliVars
    <3>2. \A c \in Commands : Good(c)'
      BY <3>1, OthersGood
    <3>3. UNCHANGED <<pc, starts, calls>>
      BY <3>1 DEF vars, kept, parts
    <3>4. Busy' = Busy
      BY <3>1, <3>3 DEF Busy, Served
    <3> QED BY <3>1, <3>2, <3>3, <3>4 DEF CliInv
  <2>3. ASSUME NEW c \in Commands, Begin(c) PROVE CliInv'
    <3>1. Moves(c) /\ UNCHANGED vars /\ ~Served(c)
      BY <2>3, BeginMoves DEF Begin, Served
    <3>2. cmd'[c].pc = "started"
      BY <2>3 DEF Begin, CliInv, Command
    <3> QED BY <3>1, <3>2, AsidePreserves
  <2>4. ASSUME NEW c \in Commands, read_cert_from_args(c) PROVE CliInv'
    <3>1. UNCHANGED vars /\ ~Served(c)
      BY <2>4 DEF read_cert_from_args, Served
    <3> QED BY <2>4, <3>1, ReadMoves, AsidePreserves
  <2>5. ASSUME NEW c \in Commands, create_grpc_channel(c) PROVE CliInv'
    <3>1. UNCHANGED vars /\ cmd[c].pc = "trusting" /\ ~Served(c)
      BY <2>5 DEF create_grpc_channel, Served
    <3>2. Moves(c) /\ cmd'[c].pc \in {"connected", "done"}
      BY <2>5, <3>1, ConnectMoves, TurnedAwayMoves DEF create_grpc_channel
    <3> QED BY <3>1, <3>2, AsidePreserves
  <2>6. ASSUME NEW c \in Commands, CallFails(c) PROVE CliInv'
    <3>1. UNCHANGED vars /\ cmd[c].pc = "connected" /\ ~Served(c)
      BY <2>6 DEF CallFails, Served
    <3>2. Moves(c) /\ cmd'[c].pc = "done"
      BY <2>6, <3>1, TurnedAwayMoves DEF CallFails
    <3> QED BY <3>1, <3>2, AsidePreserves
  <2>7. ASSUME NEW c \in Commands, MakeCall(c) PROVE CliInv'
    BY <2>7, CallPreserves
  <2>8. ASSUME NEW c \in Commands, LetIn(c) PROVE CliInv'
    <3>1. UNCHANGED vars /\ Served(c)
      BY <2>8 DEF LetIn
    <3> QED BY <2>8, <3>1, LetInMoves, AsidePreserves
  <2>9. ASSUME NEW c \in Commands, Refuse(c) \/ Finish(c) PROVE CliInv'
    BY <2>9, ReplyPreserves DEF Refuse, Finish
  <2>10. ASSUME NEW c \in Commands,
                \/ ConnectionLost(c)
                \/ /\ cmd[c].pc \in {"started", "trusting", "connected"}
                   /\ End(c, "error") /\ UNCHANGED vars
         PROVE  CliInv'
    <3>1. End(c, "error") /\ UNCHANGED vars /\ ~Served(c)
      BY <2>10 DEF ConnectionLost, Served
    <3>2. starts' \in Nat /\ deletes' \in Nat
      BY <3>1, Still
    <3>3. cmd'[c] = [NotBegun EXCEPT !.pc = "done", !.result = "error"]
      BY <3>1, EndRecord
    <3>4. Moves(c) /\ cmd'[c].pc = "done"
      BY <3>1, <3>2, <3>3, EndRecord, ErrorGood DEF Moves, NotBegun
    <3> QED BY <3>1, <3>4, AsidePreserves
  <2>11. ASSUME NEW c \in Commands, Interrupt(c) PROVE CliInv'
    BY <2>10, <2>11, ReplyPreserves DEF Interrupt
  <2> QED
    BY <2>1, <2>2, <2>3, <2>4, <2>5, <2>6, <2>7, <2>8, <2>9, <2>10, <2>11
       DEF CliNext, Step
<1> QED BY <1>1, <1>2, DaemonInvariance, PTL DEF CliSpec

\* The state has its types, and the calls that the server is busy with are those of
\* the commands that wait for this run, for any number of clients and restarts.
THEOREM CliTypes == CliSpec => []CliTypeOK
<1>1. DaemonInv /\ CliInv => CliTypeOK
  BY DEF DaemonInv, CliInv, CliTypeOK, Busy
<1> QED BY <1>1, DaemonInvariance, CommandsInvariance, PTL

\* Whoever has read the certificate of a complete pair is turned away only after a
\* file was deleted, over any number of kills and restarts (read_cert_from_args,
\* create_grpc_channel, generate_tls_creds).
THEOREM CertTheorem == CliSpec => []ReadCertIsGood
<1>1. CliInv => ReadCertIsGood
  BY DEF CliInv, Good, CertGood, ReadCertIsGood
<1> QED BY <1>1, CommandsInvariance, PTL

\* An offer a user was given is one of the node whose macaroon the user brought, even
\* if the daemon was started for another one in between (check_auth_metadata,
\* get_lnd_client, create_offer).
THEOREM OwnOfferTheorem == CliSpec => []OfferIsOwn
<1>1. CliInv => OfferIsOwn
  BY DEF CliInv, Good, OfferOwn, OfferIsOwn
<1> QED BY <1>1, CommandsInvariance, PTL

\* The fee limit that a user of lndk-cli asks for is the one LND gets (cli.rs's
\* conflicts_with, create_fee_limit of server.rs).
THEOREM LimitTheorem == CliSpec => []LimitIsKept
<1>1. CliInv => LimitIsKept
  BY DEF CliInv, Good, LimitKept, LimitIsKept
<1> QED BY <1>1, CommandsInvariance, PTL
=============================================================================

---------------------------- MODULE DaemonProofs ----------------------------
(***************************************************************************)
(* Proofs for Daemon, for any nodes, any bounds and any number of starts.  *)
(***************************************************************************)
EXTENDS Daemon, TLAPS

-----------------------------------------------------------------------------
(* The credentials.                                                        *)

\* Before WriteCert of the present start.
Early == {"config", "lnd", "tls", "key", "keyCreated", "keyWritten"}

\* No certificate is of the present generation before WriteCert.
FilesTyped ==
    /\ starts \in Nat /\ keyFile \in Int /\ certFile \in Int
    /\ pc # "down" => starts > 0
    /\ certFile <= starts
    /\ pc \in Early => certFile < starts

\* What the files hold at each step of generate_tls_creds.
StepFiles ==
    /\ pc = "key" => Missing
    /\ pc = "keyCreated" => keyFile = Empty
    /\ pc \in {"keyWritten", "certCreated"} => keyFile = starts
    /\ pc = "certCreated" => certFile = Empty

\* Outside of it they are a pair, or one is missing, unless the last generation was
\* interrupted; once they have been checked they are a pair.
PairFiles ==
    torn = FALSE =>
        /\ pc \notin Generating => Missing \/ Whole(keyFile, certFile)
        /\ pc \in {"read", "seed"} => Whole(keyFile, certFile)

\* What was read is what is there, as long as the process runs.
ReadFiles ==
    /\ torn \in BOOLEAN
    /\ pc \in {"seed", "build", "up"} => identity = [key |-> keyFile, cert |-> certFile]

FilesInv == FilesTyped /\ StepFiles /\ PairFiles /\ ReadFiles

\* A process that is gone leaves the files as they are and remembers whether it was
\* generating them.
LEMMA GoneFiles == FilesInv /\ Gone => FilesInv'
BY DEF FilesInv, FilesTyped, StepFiles, PairFiles, ReadFiles, Gone, Generating,
   Missing, Whole, Early

\* main's steps that leave the files alone.
LEMMA GotoFiles ==
    ASSUME NEW from, NEW to, FilesInv, Goto(from, to),
           from \in Early \ Generating,
           to \in {"lnd", "tls", "key", "read"},
           to = "key" => Missing,
           to = "read" => ~Missing
    PROVE  FilesInv'
<1>1. FilesTyped'
  BY DEF FilesInv, FilesTyped, Goto, kept, files, Early
<1>2. StepFiles'
  BY DEF FilesInv, StepFiles, Goto, kept, files, Missing, Early
<1>3. PairFiles'
  BY DEF FilesInv, FilesTyped, PairFiles, Goto, kept, files, Missing, Whole,
     Generating
<1>4. ReadFiles'
  BY DEF FilesInv, ReadFiles, Goto, kept, files
<1> QED BY <1>1, <1>2, <1>3, <1>4 DEF FilesInv

\* The files are as FilesInv says at every step.
THEOREM FilesInvariance == Spec => []FilesInv
<1>1. Init => FilesInv
  <2>1. Init => FilesTyped
    BY DEF Init, FilesTyped, NoFile, Early
  <2>2. Init => StepFiles
    BY DEF Init, StepFiles
  <2>3. Init => PairFiles
    BY DEF Init, PairFiles, Missing
  <2>4. Init => ReadFiles
    BY DEF Init, ReadFiles
  <2> QED BY <2>1, <2>2, <2>3, <2>4 DEF FilesInv
<1>2. ASSUME FilesInv, [Next]_vars PROVE FilesInv'
  <2> USE <1>2
  <2>1. CASE Start
    BY <2>1 DEF Start, FilesInv, FilesTyped, StepFiles, PairFiles, ReadFiles,
       files, Generating, Missing, Whole, Early
  <2>2. CASE DeleteFile
    BY <2>2 DEF DeleteFile, FilesInv, FilesTyped, StepFiles, PairFiles, ReadFiles,
       Generating, Missing, Whole, Early, NoFile
  <2>3. CASE Signal
    BY <2>3 DEF Signal, FilesInv, FilesTyped, StepFiles, PairFiles, ReadFiles,
       kept, files, Missing
  <2>4. CASE Crash \/ IoFails \/ Exit
    BY <2>4, GoneFiles DEF Crash, IoFails, Exit
  <2>5. CASE Configure
    <3>1. CASE Gone
      BY <3>1, GoneFiles
    <3>2. CASE Goto("config", "lnd")
      BY <3>2, GotoFiles DEF Early, Generating
    <3> QED BY <2>5, <3>1, <3>2 DEF Configure
  <2>6. CASE ReachLnd
    <3>1. CASE Gone
      BY <3>1, GoneFiles
    <3>2. CASE Goto("lnd", "tls")
      BY <3>2, GotoFiles DEF Early, Generating
    <3> QED BY <2>6, <3>1, <3>2 DEF ReachLnd
  <2>7. CASE CheckTls
    BY <2>7, GotoFiles DEF CheckTls, Early, Generating
  <2>8. CASE CreateKey
    BY <2>8 DEF CreateKey, TlsStep, FilesInv, FilesTyped, StepFiles, PairFiles,
       ReadFiles, Generating, Missing, Whole, Early, Empty, NoFile
  <2>9. CASE WriteKey
    BY <2>9 DEF WriteKey, TlsStep, FilesInv, FilesTyped, StepFiles, PairFiles,
       ReadFiles, Generating, Missing, Whole, Early, Empty, NoFile
  <2>10. CASE CreateCert
    BY <2>10 DEF CreateCert, TlsStep, FilesInv, FilesTyped, StepFiles, PairFiles,
       ReadFiles, Generating, Missing, Whole, Early, Empty, NoFile
  <2>11. CASE WriteCert
    <3>1. keyFile = starts /\ starts > 0
      BY <2>11 DEF WriteCert, TlsStep, FilesInv, FilesTyped, StepFiles
    <3>2. FilesTyped'
      BY <2>11 DEF WriteCert, TlsStep, FilesInv, FilesTyped, Early
    <3>3. StepFiles'
      BY <2>11 DEF WriteCert, TlsStep, StepFiles
    <3>4. PairFiles'
      BY <2>11, <3>1 DEF WriteCert, TlsStep, PairFiles, Whole, Empty
    <3>5. ReadFiles'
      BY <2>11 DEF WriteCert, TlsStep, ReadFiles
    <3> QED BY <3>2, <3>3, <3>4, <3>5 DEF FilesInv
  <2>12. CASE ReadTls
    BY <2>12 DEF ReadTls, FilesInv, FilesTyped, StepFiles, PairFiles, ReadFiles,
       kept, files, Generating, Missing, Whole, Early
  <2>13. CASE BuildSeed
    <3>1. CASE Gone
      BY <3>1, GoneFiles
    <3>2. CASE ~Gone
      BY <2>13, <3>2 DEF BuildSeed, FilesInv, FilesTyped, StepFiles, PairFiles,
         ReadFiles, kept, files, Generating, Missing, Whole, Early
    <3> QED BY <3>1, <3>2
  <2>14. CASE BuildServer
    <3>1. CASE Gone
      BY <3>1, GoneFiles
    <3>2. CASE ~Gone
      BY <2>14, <3>2 DEF BuildServer, FilesInv, FilesTyped, StepFiles, PairFiles,
         ReadFiles, kept, files, Generating, Missing, Whole, Early
    <3> QED BY <3>1, <3>2
  <2>15. CASE CheckLnd
    <3>1. CASE Gone
      BY <3>1, GoneFiles
    <3>2. CASE ~Gone
      BY <2>15, <3>2 DEF CheckLnd, FilesInv, FilesTyped, StepFiles, PairFiles,
         ReadFiles, kept, files, Missing
    <3> QED BY <3>1, <3>2
  <2>16. CASE MessengerReturns \/ Accept \/ Answer
    BY <2>16 DEF MessengerReturns, Accept, Answer, FilesInv, FilesTyped, StepFiles,
       PairFiles, ReadFiles, kept, files, Missing
  <2>17. CASE Bind \/ StopServing \/ Drained
    BY <2>17 DEF Bind, StopServing, Drained, Server, FilesInv, FilesTyped,
       StepFiles, PairFiles, ReadFiles, kept, files, Missing
  <2>18. CASE UNCHANGED vars
    BY <2>18 DEF vars, FilesInv, FilesTyped, StepFiles, PairFiles, ReadFiles, kept,
       files, Missing
  <2> QED
    BY <2>1, <2>2, <2>3, <2>4, <2>5, <2>6, <2>7, <2>8, <2>9, <2>10, <2>11, <2>12,
       <2>13, <2>14, <2>15, <2>16, <2>17, <2>18 DEF Next, Alone, Startup
<1> QED BY <1>1, <1>2, PTL DEF Spec

\* For any number of starts, crashes, I/O errors and deletions: the credentials that
\* main reads fit each other unless their generation was interrupted
\* (generate_tls_creds, read_tls).
THEOREM PairTheorem == Spec => []PairIsWhole
<1>1. FilesInv => PairIsWhole
  <2> SUFFICES ASSUME FilesInv, pc = "seed", ~torn
               PROVE  Whole(identity.key, identity.cert)
    BY DEF PairIsWhole
  <2>1. identity.key = keyFile /\ identity.cert = certFile
    BY DEF FilesInv, FilesTyped, StepFiles, PairFiles, ReadFiles
  <2> QED BY <2>1 DEF FilesInv, FilesTyped, StepFiles, PairFiles, ReadFiles, Whole
<1> QED BY <1>1, FilesInvariance, PTL

\* Nothing but a deletion, while the daemon is down, changes a whole pair.
LEMMA PairStays ==
    ASSUME FilesInv, [Next]_vars, Whole(keyFile, certFile)
    PROVE  \/ UNCHANGED <<keyFile, certFile>>
           \/ pc = "down" /\ deletes' = deletes + 1
<1>1. ~Missing /\ pc \notin {"key", "keyCreated", "keyWritten", "certCreated"}
  BY DEF FilesInv, FilesTyped, StepFiles, PairFiles, ReadFiles, Whole, Missing,
     Early, Empty, NoFile
<1>2. CASE Start \/ DeleteFile
  BY <1>2 DEF Start, DeleteFile, files
<1>3. CASE CreateKey \/ WriteKey \/ CreateCert \/ WriteCert
  BY <1>1, <1>3 DEF CreateKey, WriteKey, CreateCert, WriteCert, TlsStep
<1>4. CASE Crash \/ IoFails \/ Exit \/ Configure \/ ReachLnd \/ CheckTls
  BY <1>4 DEF Crash, IoFails, Exit, Configure, ReachLnd, CheckTls, Gone, Goto,
     kept, files
<1>5. CASE Signal \/ ReadTls \/ BuildSeed \/ BuildServer \/ CheckLnd
  BY <1>5 DEF Signal, ReadTls, BuildSeed, BuildServer, CheckLnd, Gone, kept, files
<1>6. CASE MessengerReturns \/ Bind \/ Accept \/ Answer \/ StopServing \/ Drained
  BY <1>6 DEF MessengerReturns, Bind, Accept, Answer, StopServing, Drained,
     Server, kept, files
<1>7. CASE UNCHANGED vars
  BY <1>7 DEF vars, kept, files
<1> QED BY <1>2, <1>3, <1>4, <1>5, <1>6, <1>7 DEF Next, Alone, Startup

\* A running daemon never changes a whole pair: clients that pin the certificate keep
\* their trust over any number of restarts (generate_tls_creds).
THEOREM KeptTheorem == Spec => PairIsKept
<1>1. ASSUME FilesInv, [Next]_vars, Whole(keyFile, certFile), pc # "down"
      PROVE  UNCHANGED <<keyFile, certFile>>
  BY <1>1, PairStays
<1> QED BY <1>1, FilesInvariance, PTL DEF Spec, PairIsKept

-----------------------------------------------------------------------------
(* The offers.                                                             *)

\* Every offer is signed with its node's own seed, because nothing serves calls
\* before main has built that seed.
SeedInv ==
    /\ \A o \in offers : o.seed = <<o.node>>
    /\ pc \in {"build", "up"} => seed = <<node>>
    /\ calls \in Nat
    /\ calls > 0 => pc = "up"
    /\ server = "serving" => pc = "up"
    /\ messenger = "checking" => pc = "up"
    /\ server # "off" => pc = "up"

\* A process that is gone serves nobody.
LEMMA GoneSeed == SeedInv /\ Gone => SeedInv'
BY DEF SeedInv, Gone

\* The steps of main before there is a seed.
LEMMA BeforeSeed ==
    ASSUME NEW from, NEW to, SeedInv, Goto(from, to) \/ TlsStep(from, to),
           from \notin {"build", "up"}, to \notin {"build", "up"}
    PROVE  SeedInv'
BY DEF SeedInv, Goto, TlsStep, kept, conf, parts

\* SeedInv holds at every step.
THEOREM SeedInvariance == Spec => []SeedInv
<1>1. Init => SeedInv
  BY DEF Init, SeedInv
<1>2. ASSUME SeedInv, [Next]_vars PROVE SeedInv'
  <2> USE <1>2
  <2>1. CASE Start
    BY <2>1 DEF Start, SeedInv, parts
  <2>2. CASE DeleteFile
    BY <2>2 DEF DeleteFile, SeedInv, conf, parts
  <2>3. CASE Signal
    BY <2>3 DEF Signal, SeedInv, kept, conf, parts
  <2>4. CASE Gone
    BY <2>4, GoneSeed
  <2>5. CASE ~Gone /\ (Configure \/ ReachLnd \/ CheckTls)
    <3>1. \/ Goto("config", "lnd") \/ Goto("lnd", "tls")
          \/ Goto("tls", "key") \/ Goto("tls", "read")
      BY <2>5 DEF Configure, ReachLnd, CheckTls
    <3> QED BY <3>1, BeforeSeed
  <2>6. CASE CreateKey \/ WriteKey \/ CreateCert \/ WriteCert
    BY <2>6, BeforeSeed DEF CreateKey, WriteKey, CreateCert, WriteCert
  <2>7. CASE ReadTls
    BY <2>7 DEF ReadTls, SeedInv, kept, conf, parts
  <2>8. CASE BuildSeed /\ ~Gone
    BY <2>8 DEF BuildSeed, SeedInv, kept, conf, parts, build_seed_from_lnd_node
  <2>9. CASE BuildServer /\ ~Gone
    BY <2>9 DEF BuildServer, SeedInv, kept, conf
  <2>10. CASE CheckLnd /\ ~Gone
    BY <2>10 DEF CheckLnd, SeedInv, kept, conf
  <2>11. CASE MessengerReturns
    BY <2>11 DEF MessengerReturns, SeedInv, kept, conf
  <2>12. CASE Bind \/ StopServing \/ Drained
    BY <2>12 DEF Bind, StopServing, Drained, Server, SeedInv, kept, conf
  <2>13. CASE Accept
    BY <2>13 DEF Accept, SeedInv, kept, conf
  <2>14. CASE Answer
    <3>1. pc = "up" /\ seed = <<node>>
      BY <2>14 DEF Answer, SeedInv
    <3>2. \A o \in offers' : o.seed = <<o.node>>
      BY <2>14, <3>1 DEF Answer, SeedInv
    <3> QED BY <2>14, <3>1, <3>2 DEF Answer, SeedInv, conf
  <2>15. CASE UNCHANGED vars
    BY <2>15 DEF vars, SeedInv, kept, conf, parts
  <2> QED
    BY <2>1, <2>2, <2>3, <2>4, <2>5, <2>6, <2>7, <2>8, <2>9, <2>10, <2>11, <2>12,
       <2>13, <2>14, <2>15 DEF Next, Alone, Startup, Crash, IoFails, Exit
<1> QED BY <1>1, <1>2, PTL DEF Spec

\* An offer stays good over any number of restarts and changes of the LND node: the
\* handler that answers for its node has the seed it was signed with
\* (build_seed_from_lnd_node, verify_using_recipient_data).
THEOREM OffersTheorem == Spec => []OffersOutliveRestarts
<1>1. SeedInv => OffersOutliveRestarts
  BY DEF SeedInv, OffersOutliveRestarts
<1> QED BY <1>1, SeedInvariance, PTL

-----------------------------------------------------------------------------
(* The types.                                                              *)

\* A process that is gone leaves typed state behind.
LEMMA GoneTyped == TypeOK /\ Gone => TypeOK'
<1> SUFFICES ASSUME TypeOK, Gone PROVE TypeOK'
  OBVIOUS
<1>1. identity'.key \in NoFile..MaxStarts /\ identity'.cert \in NoFile..MaxStarts
  BY DaemonAssumption DEF Gone, NoIdentity, NoFile
<1>2. torn' \in BOOLEAN /\ shutdown' \in BOOLEAN
  BY DEF Gone, TypeOK
<1>3. seed' \in {NoSeed} \cup {<<n>> : n \in Nodes}
  BY DEF Gone
<1>4. calls' \in 0..MaxCalls
  BY DaemonAssumption DEF Gone
<1>5. UNCHANGED <<keyFile, certFile, offers, starts, deletes, node, lnd, skip>>
  BY DEF Gone, conf
<1>6. pc' = "down" /\ messenger' = "off" /\ server' = "off"
  BY DEF Gone
<1> QED BY <1>1, <1>2, <1>3, <1>4, <1>5, <1>6 DEF TypeOK

\* The steps of main that only move on.
LEMMA GotoTyped ==
    ASSUME NEW from, NEW to, TypeOK, Goto(from, to), to \in {"lnd", "tls", "key", "read"}
    PROVE  TypeOK'
BY DEF TypeOK, Goto, kept, files, conf, parts, Tls

\* The steps of generate_tls_creds.
LEMMA TlsTyped ==
    ASSUME NEW from, NEW to, TypeOK, TlsStep(from, to), to \in Tls \cup {"read"},
           keyFile' \in {keyFile, Empty, starts}, certFile' \in {certFile, Empty, starts},
           torn' \in BOOLEAN
    PROVE  TypeOK'
BY DaemonAssumption DEF TypeOK, TlsStep, conf, parts, Tls, Empty, NoFile

\* The daemon's state has its types at every step, and the server never serves more
\* calls than it takes.
THEOREM DaemonTypes == Spec => []TypeOK
<1>1. Init => TypeOK
  <2> SUFFICES ASSUME Init PROVE TypeOK
    OBVIOUS
  <2>1. identity.key \in NoFile..MaxStarts /\ identity.cert \in NoFile..MaxStarts
    BY DaemonAssumption DEF Init, NoIdentity, NoFile
  <2>2. /\ keyFile \in NoFile..MaxStarts /\ certFile \in NoFile..MaxStarts
        /\ starts \in 0..MaxStarts /\ deletes \in 0..MaxDeletes /\ calls \in 0..MaxCalls
    BY DaemonAssumption DEF Init, NoFile
  <2>3. torn \in BOOLEAN /\ shutdown \in BOOLEAN
    BY DEF Init
  <2>4. seed \in {NoSeed} \cup {<<n>> : n \in Nodes}
    BY DEF Init
  <2>5. /\ offers = {} /\ pc = "down" /\ node \in Nodes /\ lnd \in Lnds /\ skip \in BOOLEAN
        /\ messenger = "off" /\ server = "off"
    BY DEF Init
  <2> QED BY <2>1, <2>2, <2>3, <2>4, <2>5 DEF TypeOK
<1>2. ASSUME TypeOK, SeedInv, [Next]_vars PROVE TypeOK'
  <2> USE <1>2
  <2>1. CASE Start
    BY <2>1, DaemonAssumption DEF Start, TypeOK, files, parts
  <2>2. CASE DeleteFile
    BY <2>2, DaemonAssumption DEF DeleteFile, TypeOK, conf, parts, NoFile
  <2>3. CASE Signal
    BY <2>3 DEF Signal, TypeOK, kept, files, conf, parts
  <2>4. CASE Gone
    BY <2>4, GoneTyped
  <2>5. CASE ~Gone /\ (Configure \/ ReachLnd \/ CheckTls)
    <3>1. \/ Goto("config", "lnd") \/ Goto("lnd", "tls")
          \/ Goto("tls", "key") \/ Goto("tls", "read")
      BY <2>5 DEF Configure, ReachLnd, CheckTls
    <3> QED BY <3>1, GotoTyped
  <2>6. CASE CreateKey
    BY <2>6, TlsTyped DEF CreateKey, Tls, TypeOK
  <2>7. CASE WriteKey
    BY <2>7, TlsTyped DEF WriteKey, Tls, TypeOK
  <2>8. CASE CreateCert
    BY <2>8, TlsTyped DEF CreateCert, Tls, TypeOK
  <2>9. CASE WriteCert
    <3>1. torn' \in BOOLEAN
      BY <2>9 DEF WriteCert
    <3> QED BY <2>9, <3>1, TlsTyped DEF WriteCert, Tls
  <2>10. CASE ReadTls
    BY <2>10 DEF ReadTls, TypeOK, kept, files, conf, parts
  <2>11. CASE BuildSeed /\ ~Gone
    BY <2>11 DEF BuildSeed, TypeOK, kept, files, conf, parts, build_seed_from_lnd_node
  <2>12. CASE BuildServer /\ ~Gone
    BY <2>12 DEF BuildServer, TypeOK, kept, files, conf
  <2>13. CASE CheckLnd /\ ~Gone
    BY <2>13 DEF CheckLnd, TypeOK, kept, files, conf
  <2>14. CASE MessengerReturns
    BY <2>14 DEF MessengerReturns, TypeOK, kept, files, conf
  <2>15. CASE Bind \/ StopServing \/ Drained
    BY <2>15 DEF Bind, StopServing, Drained, Server, TypeOK, kept, files, conf
  <2>16. CASE Accept
    BY <2>16, DaemonAssumption DEF Accept, TypeOK, kept, files, conf
  <2>17. CASE Answer
    <3>1. pc = "up" /\ seed = <<node>>
      BY <2>17 DEF Answer, SeedInv
    <3>2. offers' \subseteq [node : Nodes, seed : {<<n>> : n \in Nodes}]
      BY <2>17, <3>1 DEF Answer, TypeOK
    <3> QED BY <2>17, <3>2, DaemonAssumption DEF Answer, TypeOK, files, conf
  <2>18. CASE UNCHANGED vars
    BY <2>18 DEF vars, TypeOK, kept, files, conf, parts
  <2> QED
    BY <2>1, <2>2, <2>3, <2>4, <2>5, <2>6, <2>7, <2>8, <2>9, <2>10, <2>11, <2>12,
       <2>13, <2>14, <2>15, <2>16, <2>17, <2>18
       DEF Next, Alone, Startup, Crash, IoFails, Exit
<1> QED BY <1>1, <1>2, SeedInvariance, PTL DEF Spec
=============================================================================

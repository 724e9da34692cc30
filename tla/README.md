# LNDK in TLA+

LNDK runs beside an LND node and gives it BOLT 12 offers: it speaks onion messages
through LND's custom-message API, asks makers of offers for invoices, pays them
through LND, and answers invoice requests for offers of its own. These modules model
its concurrent core. TLC checks them on small instances, and TLAPS proves the main
safety properties for every value of the constants.

Paths in this file are relative to the repository; `handler.rs`, `lnd_requests.rs`,
`client_impls.rs` and `parse.rs` are in `src/offers/`, the other Rust files in `src/`.

## 1. Inventory

| Component | State | Operations | Talks to |
|---|---|---|---|
| Daemon (`main.rs`, `lib.rs`, `lnd.rs`) | TLS key and certificate on disk, the seed, the shutdown signal | configure, reach LND, generate and read the pair, derive the seed, check LND, serve, stop | LND, starts server and messenger |
| gRPC server (`server.rs`) | one task per call | pay_offer, get_invoice, pay_invoice, create_offer, decode_invoice | offer handler |
| Offer handler (`handler.rs`) | `active_payments`, `pending_messages` behind mutexes | get_invoice, pay_invoice, wait_for_invoice, handle_message, release_pending_messages | server tasks, LDK's callbacks, LND |
| Requests to LND (`lnd_requests.rs`, `client_impls.rs`) | none | create and send invoice requests, query_routes, send_to_route, track_payment, connect_to_peer | LND |
| Onion messenger (`onion_messenger.rs`) | one bounded channel, the limiter, LDK's messenger | four producer tasks, one consumer, reconnection, shutdown and join | LND, LDK, offer handler |
| Retryable (`grpc.rs`) | none | with_infinite_retries, with_max_attempts | the messenger's calls to LND |
| Rate limiter (`rate_limit.rs`, `clock.rs`) | `peer_map`, `last_update` | peer_connected, peer_disconnected, query_peer, peers | the consumer |
| Message router (`message_router.rs`) | none | find_path | LDK's callback, LND |
| Connection of peers (`lnd_requests.rs`, `onion_messenger.rs`) | attempts of each task | ConnectionNeeded, connect_to_peer(_with_retry) | LND, LDK |
| Recipient's side (`handler.rs`, `lnd_requests.rs`) | the seed | create_offer, the InvoiceRequest branch | LND |
| Reply paths (`lnd_requests.rs`) | none | create_reply_path_for_* | LND |
| Amounts, fee limits (`parse.rs`, `server.rs`) | none | validate_amount, create_fee_limit | - |
| Node signer (`lnd.rs`) | none | ecdh for each onion message | LND |
| Command line (`cli.rs`) | the certificate and macaroon it has read | pay-offer, get-invoice, pay-invoice, create-offer; decode-offer, decode-invoice | gRPC server |
| Errors (`offers/mod.rs`), protocol (`proto/`) | none | - | - |

How they interact: `main` starts the server and the messenger and ends with the first
of them. Calls of the server share `active_payments` with `handle_message`, which LDK
calls from the messenger's consumer. A call pushes its invoice request to
`pending_messages`; LDK collects it, and the consumer relays it to LND at its next
`SendOutgoing`. If LDK needs a connection it raises `ConnectionNeeded`, for which the
consumer's event handler spawns a detached task. Clients trust the certificate that the
daemon keeps on disk, and every call works on LND with the macaroon that the client
brought, not with the daemon's own.

What is hard here, and hardly reached by tests:

* replies, invoice errors, timeouts, cancellations and restarts in any order with the
  steps of a call (`handler.rs`);
* two streams from LND, a listing and a reconnection listing that describe the same
  peers at different times, through one channel that can be full;
* LND that goes away while tasks are in different states, and a shutdown that must
  reach tasks wherever they wait;
* check-then-act on LND's peers by several tasks at once;
* a consumer that waits for LND in the middle of a loop while everybody waits for it;
* clients that hold a certificate, a connection or a macaroon while the daemon is
  killed, started again, or started for another node;
* kills between the two files of a TLS pair, and what must survive a restart though
  nothing is stored;
* the limiter's lazily advanced periods, and peers that leave and return in one;
* invoice requests that come twice, after the expiry or around a restart, while LND
  keeps what was made for them.

`PROJECT.json` lists these hazards at their lines, with the properties that watch them.

## 2. Modules

A step of a model is what a task does between two points where another task can see or
change shared state: an await, or the release of a lock. Payloads, keys and hashes are
model values; what the code only logs is left out. Definitions whose name ends in
`_Something` and whose comment begins with "Mutant" are deliberately wrong versions of
the definition below them; each property is violated when its mutant is put in place.

### CallBudget, TokenLimiter (`rate_limit.rs`, `clock.rs`)

`peer_map`, `last_update` and the clock as in the code; `query_peer` is the whole of
needs_update, update and hit in one step, because the limiter has a single owner. The
history variable `log` keeps the times at which each peer was let through.
`remaining_calls` has the range of a `u8` at most (`CallCount \in 0..255`); a value
below zero violates `TypeOK`. `CallBudget` is the abstract promise: periods of at least
`CallFrequency`, at most `CallCount` grants in each, connections play no part.
`KeepsBudget` says that the limiter implements it under
`start <- last_update, used[p] <- CallCount - remaining_calls`.

### Payments, OfferHandler, MCOfferHandler (`handler.rs`, `server.rs`, `lnd_requests.rs`, `client_impls.rs`)

Each call is a process. Where it is (`pc`):

| pc | code |
|---|---|
| idle -> sending | `Reject` (server.rs:59-112) or `CreateRequest`, which inserts the entry (handler.rs:172) |
| sending -> waiting | `PushRequest`; `RequestFails` removes the entry; `RequestPanics` is the `expect` at lnd_requests.rs:459 |
| waiting -> got | `Poll` every `PollInterval` seconds, or `TimeoutFires` (handler.rs:209) |
| got -> removing / paying | `MarkReceived`; get_invoice then removes the entry, pay_offer pays |
| paying -> routing -> launching -> launched -> tracking | one payment path: `TakePath`, `RouteFound`, `SendToRoute`, `SendReturns`; every failure but that of get_node_id_from_scid goes on with the next path; `RoutesMissing` is the panic of `resp.routes[0]` when LND answers without a route (lnd_requests.rs:129) |
| done | `result` says how |

The InvoiceError that is sent back for an invoice that does not verify (handler.rs:494)
changes nothing here and is left out.

`HandleInvoice` and `HandleInvoiceError` are the callbacks; `lnd` and `launcher` are
LND's payments, shared by calls that hold the same invoice. `Cancel` is the drop of a
call's future when its client goes away; it is possible only at an await. `Restart`
forgets the memory and keeps LND's payments. A path that begins at a channel (`scid`)
never gets a route: `get_node_id` passes a 66-character hex string to
`PublicKey::from_slice` (lnd_requests.rs:586), and the model does the same.

`Payments` is the abstract promise to clients: an invoice is paid at most once whoever
tries, a call that reports a payment has one, and a call that reports a failure has moved
no money and never will. `PaysAsPromised` says that pay_offer and pay_invoice implement
it. What a client may conclude (`Report`) is *unknown* when it, or the process, went away
or when the call lost its connection to LND while paying; every other error is *unpaid*.

### OnionMessenger (`onion_messenger.rs`, `grpc.rs`)

The main task lists the peers, creates a channel with one place more than there are
peers, fills it and spawns the tasks: peer events, reconnection, incoming messages and
the ticks for outgoing ones. The consumer applies the events to LDK's peers (`ldk`),
LDK's queues (`outq`) and the limiter (`online`, `known`). Subscribing to peer events
is two steps, because the code waits for the first event before it goes on;
`notify_waiters` wakes the reconnection task only if it is waiting at that moment. LND
goes down (`LndDown`), both streams break, and `with_infinite_retries` waits; with
`MayRefuse` a call fails although LND can be reached, with an error that is not retried
or, while a message is relayed, with one that is (`Code::Unknown`), or LDK refuses a
peer. For a call that is retried for ever such an error is the same as an LND that is
down for a moment. A producer would panic only on a key of LND's that is not one, so
that the join never sees an error of a task (`task_err`).

At a tick the consumer goes through the online peers one by one (`ConsumeOutgoing`,
`VisitPeer`) and receives nothing until it is through. LDK collects what the handler has
left in `pending_messages` (`pending`: an invoice made while a message was handled, or a
request that a call of the server has pushed at any moment), and a message it holds for
the peer is taken from it and offered to LND up to `MaxAttempts` times (`RelayAttempt`,
`with_max_attempts`; three in the code), waiting in between. A message is named by the
peer it goes to first; `FirstHops` says which peers the handler's messages may go to.
`handle_onion_message` gets nowhere without the key that LND derives (`ecdh`).

`Foretold(p)` is what the messenger will take `p` for once everything on its way has
arrived: the last event about `p` in LND's stream, in the hands of the peer events task
or in the channel. The history variable `gap` records that LND's peers changed where no
event would tell: between a listing and the subscription, or while a reconnection listing
that names the peer is passed on.

### PeerConnect (`message_router.rs`, `lnd_requests.rs`, `onion_messenger.rs`)

One node that is or is not a peer, seen by LND (`connected`) and, through `events` that
may be lost, by LDK (`view`). `SendMessage` is LDK with `find_path`; `HandleEvent`
spawns a retrying task for `ConnectionNeeded`; `Request` is send_invoice_request's own
attempt. Listing, node info and connecting are a step each. `faults` and `drops` count
what really went wrong for a caller: failures of LND's or of the node's, and
disconnections of the node. `find_path`'s case of a message to one's own node does not
concern another node and is left out.

### OfferExchange, MCOfferExchange (`handler.rs`, `lnd_requests.rs`, `client_impls.rs`, `parse.rs`)

An offer from create_offer to the invoice. Calls of both sides look for introduction
nodes in a loop with an await in each round (`AskChannel`, `AskPeer`), about which LND
may say anything (`NodeInfo`); a hash set decides which three of four nodes an offer
gets (`BlindedPaths`, `Chosen`). A payer's LNDK takes its amount from `validate_amount`. The
InvoiceRequest branch of handle_message runs in the consumer, which blocks on LND
(`add_invoice`, `decode_payment_request`) and then pushes its reply (`Respond`) for LDK
to take (`ReleasePendingMessages`), which it does only when the consumer visits a peer
that is online (`peered`, `PeersChange`). LND numbers its invoices; `invoices[h]` is the
amount it expects for hash `h`, which is the offer's, while the reply asks for the
request's. A request is delivered any number of times; requests that the handler drops
are `Ignore`. `troubled` records the deliveries that LND or a restart kept from an
answer, `cause` the delivery for which each invoice was added. Building an offer or a path may fail (`CallFails`), whatever LDK's reasons.
How the request travels is left to PeerConnect and OnionMessenger, how the payer waits
and pays to OfferHandler, and that the key survives a restart to Daemon.

### Daemon, MCDaemon (`main.rs`, `lib.rs`, `lnd.rs`)

`main` step by step, with a kill possible at each. A file is missing, empty (created and
not yet written) or of some generation; a key and a certificate fit if they are of the
same generation, which is what `tls_config` (rustls) demands. An offer outside
remembers the node and the seed it was made with. `has_version` and
`validate_lnd_creds` are operators with the code's decisions; `MCDaemon` has TLC compare
`has_version` with the order of all versions of a range. The next-state relation is split
into what the process and its operator do (`Alone`) and the calls of clients (`Accept`,
`Answer`), so that clients can be composed with it.

### Cli, MCCli (`cli.rs`, `server.rs`)

The daemon with its clients: lndk-cli, and programs that call the gRPC server directly. A
command reads a certificate (`read_cert_from_args`), connects (`create_grpc_channel`),
reads a macaroon and makes its call (`MakeCall`), joined with the daemon's `Accept`; the
server lets it in or turns it away with what LND says to the macaroon (`LetIn`,
`Refuse`), and answers, joined with the daemon's `Answer`. tonic's channel connects again
by itself, so a call can reach a later run of the daemon than the connection did, and one
for another node. What the calls do is left to OfferHandler and OfferExchange; here a
call hands on a fee limit (`create_fee_limit`) or makes an offer. Some things are what
they are by definition in TLS: a client that trusts one certificate gets through to
whoever holds its key (`Trusts`).

## 3. Runs

| Run | Instance | Shows |
|---|---|---|
| limiter | 2 peers, allocation 2, period 2, clock to 5 | `BudgetHeld`: the records charge a peer with exactly what it was let through in the period. `WindowBound`: no window shorter than the period holds more than twice the allocation. `KeepsBudget`: refinement. Two full periods and two updates fit into the clock's bound. |
| offer_calls | a pay_offer and a pay_invoice, 2 invoices (two known nodes; a channel and a node), timeout 3, poll 2, one restart | `EndedIsForgotten`, `EntryTracksCall`, `AbandonedEarlyNeverPays`, `OnlyLastMomentMissed`; `FailureIsFinal`: a call that kept its connection returns with none of its HTLCs in flight; `PaysAsPromised`: refinement of `Payments`. The two calls may pay the same invoice. The timeout is no multiple of the poll interval, so the last look and the timeout differ. |
| offer_calls_end | a pay_offer and a get_invoice, under fairness | `EveryCallEnds`. That get_invoice removes its entry is part of `ForgottenTheorem`, which holds for every set of calls. |
| messenger | 1 peer, 2 changes, 1 outage, 2 attempts, refusals, no messages of the handler | `StartupFits`: filling the channel before there is a receiver never blocks. `ViewsAgree`: LDK, the ticks and the limiter agree on the peers. `ViewFollows`: without a gap the messenger is behind LND by no more than the events on their way, which come in order; so a message that overtakes its peer's event is dropped only until that event arrives. |
| messenger_live | 1 peer, a change or an outage, 2 attempts, refusals, messages of the handler, under fairness | `MessageIsRelayed`: a message, queued in LDK or pending in the handler, is handed to LND while the peer stays (and dropped if LND refuses it that often). `ShutdownEnds`: a signal, or a failed consumer, ends everything, unless a task waits for LND where the signal is not looked at (`StuckOnLnd`); the attempts to relay a message are not such a place. |
| offer_exchange | 1 offer, 6 channels with 5 nodes, 1 payer with 2 peers, amounts 0 to 2 or none, 3 deliveries, 1 restart, peers or none, under fairness | `PayableAsAsked`, `OwnHash`, `PathsChosenWell`. `NoStrayInvoice`: each invoice of LND's has its reply, unless LND, an expired offer or a restart accounts for it. `Answered`: a verified request is answered if from some time on the recipient always has a peer. Five nodes are the least with which the search can end early, and one of them has two channels. |
| peer_connect | 2 retrying tasks, 1 single attempt, 1 retry, 2 changes of the node | `GivesUpOnFaults`: a task does not give up for races it lost, but for one. `WaitingIsCaredFor`: a message that waits in LDK is not forgotten. `EveryCallerEnds`. |
| daemon | 2 nodes, 2 kinds of LND, 2 starts, 1 deletion, 1 client with a pay_offer or a create_offer, under fairness | `PairIsWhole`, `PairIsKept`, `OffersOutliveRestarts`; `SignalEnds`; `UnsupportedStops`. `ReadCertIsGood`: who has read the certificate of a complete pair can connect to every later run until a file is deleted. `OfferIsOwn`: an offer belongs to the node whose macaroon was brought. `LimitIsKept`: the fee limit given to lndk-cli is the one LND gets. `CommandEnds`: no client waits for ever. Two starts are enough for a certificate, a connection and an offer to outlive a run; for more starts there are the theorems of section 4. |
| removes_payment_id, tls_pair, no_event_missed, producer_exit_finishes | the smallest that shows it | see section 5 |

The bounds cap counters only: clock, restarts, changes of peers, outages, starts,
deletions, deliveries. One peer suffices for the messenger because its tasks treat peers
independently but for the channel, whose capacity depends on their number and is full
with one peer as with many; `StartupFits`, the one property about the number of
peers, was checked with two as well. One node suffices for PeerConnect because callers for different nodes share
nothing. `CHECK_DEADLOCK FALSE` stands where a system may stop: calls end, the messenger
returns, the bounds are used up.

### Fairness

* tokio runs every task that can go on, and time passes: weak fairness of a call's
  steps, of the consumer, of main, of a connecting task.
* A producer that waits for room in the channel is enabled only now and then; tokio's
  mpsc queues senders first come, first served, so each gets its turn. Strong fairness
  is assumed of the ticks only, which `MessageIsRelayed` needs; for the other producers
  weak fairness is enough, and a weaker assumption makes the stronger statement.
* LND answers a call or fails it, and resolves an HTLC in flight in the end (it times
  out). A call of connect_peer carries a timeout of 20 s.
* A search for introduction nodes and the handling of an invoice request go on: LND
  answers or fails each of their calls.
* The ticks go on, so that pending replies are collected if a peer is online and stays
  so. That there is one is not assumed: it is the premise of `Answered`.
* A client takes its steps, and the server serves a client that it has let in: weak
  fairness of `Step`. That a user gives a command is not assumed.
* Not assumed: that LND comes back, that peers come, go or reply, that messages arrive,
  that the messenger ever returns.

In `Daemon` the fairness of `Answer` rests on `EveryCallEnds` of OfferHandler.

## 4. Proofs

Every safety property that a run checks - each invariant, each action property and each
refinement - is also a theorem, for arbitrary constants under the named ASSUMEs of the
modules (`LimiterAssumption`, `HandlerAssumption`, `MessengerAssumption`,
`ConnectAssumption`, `ExchangeAssumption`, `DaemonAssumption`, `CliAssumption`), which TLC
evaluates in the runs.

* **TokenLimiterProofs.** `TypeInvariant`, `BudgetTheorem`, `WindowTheorem`,
  `BudgetRefinement`. Neither `BudgetHeld` nor `WindowBound` is inductive: `IInv` adds
  that logged times are not in the future (`LogPast`) and that all but the last
  allocation before this period lie at least a period behind its beginning
  (`PastBursts`); this is what makes two bursts the worst case. The proof is done for
  one peer's log at a time (`PeerInv`), with one lemma for each thing that can happen
  to it. The refinement shows that each step is a grant, a new period with or without a
  grant, a tick or a stutter of `CallBudget`.
* **OfferHandlerProofs.** `TypeInvariant`, `EntryTheorem`, `ForgottenTheorem`,
  `AbandonedTheorem`, `FailureTheorem`. `IInv` adds that a call that
  has not begun has left no trace (`IdleClean`), that a call past the wait holds an
  invoice (`HoldsInvoice`), that an abandoned payment has no entry (`AbandonedGone`), so
  that an invoice cannot revive it, and that an HTLC in flight is watched by the call
  that launched it (`LaunchedWatched`), so that none is left when the call ends.
  `LastMomentTheorem` from `TimingInv`: the next look is never further away than the poll
  interval, and a stored invoice stays stored while its call waits, so that a look after
  it would have found it; no arithmetic of multiples is needed. `PaymentsRefinement`
  shows that the handler implements `Payments`, action by action: most steps stutter, the
  end of a call maps to the abstract result. It needs that every attempt of a call's own
  that is or may become a payment is one that the call still waits for, or that it ended
  with a result that promises nothing (`Owing`), and that a waiting call holds no invoice
  (`Unfound`).
* **OnionMessengerProofs.** `TypeTheorem` and `StartupTheorem` from `StartInv`: before the
  tasks are spawned none of them has done anything (`NotStarted`), the events that are
  still to be filled in and those in the channel leave one place free (`Filling`), and an
  event that tells of a peer names one (`Named`). `ViewsTheorem` needs of it only
  that the views are empty when the startup listing fills them.
  `FollowsTheorem` from `FollowInv`: it adds that events come from an open subscription
  only and that startup events are about LND's peers (`Sourced`). What the messenger will
  believe of a peer when all is delivered is the last word about it: in the stream, in
  the producer's hand, in the channel, or else what it believes now (`Latest`). There is
  one lemma for each way an event moves on, resting on lemmas about the last element of a
  kind in a sequence (`LastOfTail` and its kin); that a set of indices has a maximum comes
  from the well-foundedness of the natural numbers.
* **DaemonProofs.** `PairTheorem` and `KeptTheorem` from `FilesInv`: where main is in
  generating the pair determines what the two files are (`StepFiles`); outside of it
  they fit, or one is missing, or the last generation was torn (`PairFiles`); what was
  read is what they are as long as the process runs (`ReadFiles`). `PairStays` says that
  nothing but a deletion changes a complete pair. `OffersTheorem` from `SeedInv`: the seed
  of every offer is its node's, and the server works only when the seed is set.
  `DaemonTypes` needs `SeedInv` for the offers.
* **CliProofs.** Cli is made of Daemon's actions, so that the invariants of DaemonProofs
  hold with clients too (lemmas `ServesDaemon` and `DaemonInvariance`). `CliTypes`, `CertTheorem`, `OwnOfferTheorem` and `LimitTheorem` come from
  one inductive invariant, `CliInv`, with an account of each command (`Good`): what it
  remembers of the daemon is past and it has neither outcome nor limit too early
  (`Fresh`); the pair whose certificate it read is there until somebody deletes a file
  (`Pinned`, by `PairStays`); a call that is let in is for the node of the run that serves
  it (`Admitted`, because only a new run changes the node and serves no old command); and
  lndk-cli never has both limits (`Single`). The number of calls is the cardinality of the
  commands that this run serves (`Busy`), which each action changes by one or not at all.
* **PeerConnectProofs.** `GivesUpTheorem` from `CountsInv`: each failed attempt of a
  task is a fault or a lost race, and between two lost races the node has disconnected,
  because the listing would have found it otherwise; hence attempts exceed faults and
  disconnections by one at most. `WaitingTheorem` from `WaitInv`: if nothing was lost,
  the last event on its way is LND's state (`Follows`), and LDK waits only for a node
  that it does not take for a peer (`BufferFits`); so a task that finds the node
  connected leaves an event on its way behind. `TypeTheorem` from `TypeInv`: a task that
  goes on has an attempt left (`Left`), and no caller has seen the node leave more often
  than it did (`Seen`).
* **OfferExchangeProofs.** `TypeTheorem`, `PayableTheorem`, `OwnHashTheorem`,
  `StrayTheorem`, `PathsTheorem`. `IInv` adds that a request covers the amount of its offer, which
  exists (`RequestsCover`), that the consumer handles a request that was sent
  (`HandlesRequest`), and that the invoice it handles is the last of LND's and has no
  reply yet (`HandlesInvoice`): a hash is fresh because LND's invoices only grow.
  `StrayTheorem` needs that a reply answers the request that caused its invoice
  (`CausesKnown`), so that the restart that loses the one accounts for the other.
  `PathsTheorem` adds that what a search has found is finite (`IntroFinite`) and that
  only the end of a search makes an offer.

Only model-checked: the liveness properties, since the prover does neither fairness nor
ENABLED (`EveryCallEnds`, `MessageIsRelayed`, `ShutdownEnds`, `Answered`,
`EveryCallerEnds`, `SignalEnds`, `UnsupportedStops`, `CommandEnds`), and that `has_version`
is the order of versions, which `MCDaemon` has TLC evaluate. The theorems are about the
specifications without their fairness, or, in Cli, do not use it. The inductive
invariants were checked by TLC on the instances of the runs before they were proved.

## 5. Where code and comments differ

Each has a run that TLC ends with a counterexample:

* **removes_payment_id.** handler.rs:234 asks that an error of pay_invoice removes the
  payment id; the `?` at handler.rs:268 does not.
* **tls_pair.** main.rs:62 promises a pair if none exists. `exists()` also accepts the
  empty file, or the old certificate beside a new key, that a kill during the
  generation left; nothing is regenerated, and every later start panics until somebody
  deletes a file.
* **no_event_missed.** onion_messenger.rs:247 says that the subscription comes first so
  that no event is missed; the peers are listed before, and the subscription is made in
  a task.
* **producer_exit_finishes.** onion_messenger.rs:332 says that the function finishes if
  a producer exits; it does not when the message subscription is refused.

Seen while modelling, and without a run of their own: an invoice error that comes after
the invoice was found does not stop the payment (handler.rs:345); an invoice stored
after the last look before the timeout is dropped with the entry (handler.rs:217,
bounded by `OnlyLastMomentMissed`); a broken tracking stream is taken for a failed
payment although the comment says "We'll track the payment until it settles"
(handler.rs:293, why `FailureIsFinal` excludes calls that lost their connection);
shutdown waits for the first peer event (`StuckOnLnd`); a message that overtakes its
peer's online event is dropped as if it were over the limit (onion_messenger.rs:911);
create_reply_path_for_offer_creation speaks of three channels at most and returns up to
four paths (lnd_requests.rs:305), of which create_offer uses three; an invoice request
for an expired offer has LND add an invoice before it is refused (handler.rs:436); of two
fee limits in a direct gRPC call none is passed on (server.rs:346), which only the parser
of lndk-cli rules out; a macaroon that LND refuses is reported as LND being unavailable
(server.rs:242), though docs/errors.md has authentication errors; the help of the command
line says of the macaroon that "there is no default" (cli.rs:72), and there is one
(cli.rs:454); lndk-cli looks for the certificate in the default data directory only, also
when the daemon was given another one; `pending_messages` are collected only while some
peer is online (onion_messenger.rs:920), until which a request waits and its caller's
timeout runs, and a reply waits too (the premise of `Answered`); an LND that answers
query_routes without a route panics the call and leaves its entry (lnd_requests.rs:129); feature bits are said to be "0 - 128" and taken up to 127 (lnd.rs:532); an
LNDK never gives a quantity with its requests, so that offers for several items, which it
can make, are not for it to pay.

## 6. Not modelled, and plan

| Part | Why not, or next |
|---|---|
| Proofs | every safety property of the runs has its theorem; next: the lemmas about shared operators that several proofs state for themselves, and a stronger abstract specification for OnionMessenger to refine |
| parse_blinded_paths, query_routes' conversions | one record copied into another, field by field, with narrower integers; no other state depends on the values |
| Quantities | passed on to LDK, which alone acts on them |
| create_blinded_paths of the router, decoding of offers, invoices and messages | calls of LDK without state of LNDK's |
| Node signer beyond ecdh, errors, protocol, logging, configuration files | cryptography, methods that are not implemented, tables, generated code and pure I/O |

# A TLA+ model of cf-socks

cf-socks reaches TCP targets through a Cloudflare Worker. A local agent accepts
SOCKS5 and HTTP CONNECT clients; the Go SDK dials the Worker over a WebSocket
(WSS) or posts payloads over HTTP/2 or HTTP/3; the Worker authenticates a bearer
token, connects to the target with `cloudflare:sockets` and relays.

This directory holds TLA+ modules translated from the source, configurations
that model-check them with TLC, and proofs that TLAPS checks. Source references
are relative to the repository's root; `PROJECT.json` maps every definition to the lines it
translates.

Contents: [inventory](#1-inventory), [modules](#2-modules),
[runs](#3-runs), [fairness](#4-fairness), [proofs](#5-proofs),
[what the code does otherwise than documented](#6-divergences),
[what is not modelled](#7-not-modelled), [plan](#8-plan).

## 1. Inventory

| component | source | state | operations | talks to |
|---|---|---|---|---|
| WSS connection | `sdk/go/wsconn.go` | context, `readMu`, `pending`, `messages`, `readErr`/`readDone`, write token, two deadlines with their `changed` channels | `Read`, `Write`, `Close`, `Set*Deadline`, `readLoop` | its callers (goroutines), the WebSocket |
| client operations | `sdk/go/client.go`, `route.go`, `options.go` | none of their own | `Dial`, `Do`, `buildRoute` | Worker; token; WSS connection |
| client pools | `sdk/go/pool.go`, `h3/h3.go` | atomic counter, clients, owned transports, `closeOnce` | `Do`, `Close`, constructors | client operations |
| token, Go | `sdk/go/internal/token/token.go` | none | `Seal` (`Open` for tests) | Worker's verification |
| token and replay cache, Worker | `worker/src/token.ts`, `auth/bearer-claims.ts` | the isolate's `NonceCache` | `verifyBearerToken`, `consume`, `cleanup` | requests of one isolate |
| WSS tunnel | `worker/src/response/wss-tunnel.ts`, `egress/connect.ts` | WebSocket, socket, `writeChain`, `closed` | connect, event handlers, read loop, `closeBoth` | client, target |
| payload exchange | `worker/src/response/payload-stream.ts` | request body reader, socket writer | upload pump, delayed half-close, response stream | client, target |
| routing and profiles | `worker/src/profiles`, `ingress`, `auth/static-bearer.ts` | none | match, authenticate, dispatch | exchange, tunnel, fetch |
| agent, one connection | `socksagent/agent.go` 146-374 | `relayCtx`, `errc`, `activity`, idle timer, two connections | `proxy`, `relay`, watchers, `monitorIdle` | client, WSS connection |
| agent, negotiation | `socksagent/agent.go` 99-144, 220-297 | position in the request | `negotiate`, `readAddr`, HTTP CONNECT | client |
| agent, server | `socksagent/agent.go` 43-97, `cmd/cf-socks-agent/main.go` | listeners, `errc`, context | accept loop, cancel, exit | handlers |
| load generator | `cmd/cfsbench` | jobs, results, wait group | `runLoad` | pools, agent |

What makes it hard, and what each part has to get right:

* **WSS connection.** Any number of goroutines call it at any moment, and the
  read side is a hand-over from a background loop. Deadlines are meant to be
  recoverable, so a time-out may lose nothing; a deadline change must reach a
  call wherever it is; `Close` must release everybody; a write that
  reports a time-out must not have been sent; the end of the stream must not
  overtake data.
* **Replay cache.** Verification awaits the decryption, so requests interleave
  between their arrival and the cache; the clocks of client and Worker differ;
  entries expire and are evicted. A token must be accepted once, and never be
  used up by a request that is refused for another reason.
* **WSS tunnel.** Single-threaded, but every `await` lets events in: a client
  that closes during connect, a target that ends while uploads are queued and may still take them
  or not, writes
  that fail while reads go on. Order and completeness of both streams, and one close that
  closes both sides.
* **Agent.** Six goroutines per connection share two connections, a context, a
  result channel and an idle timer. Whatever ends first, the handler must end
  once, leave nothing running, and forward everything that was read before a clean end.
* **From call to connection.** The Go client and the TypeScript Worker each have
  rules for hosts, ports, TLS modes and delays, and a request passes through
  both, through a route table and through one of two kinds of authentication.
  They have to agree on every value, a write close after 0 ms included, and no
  route may connect without its own authorisation.
* **Payload exchange.** The upload, the delayed half-close and the response run
  side by side, and each of client, target and socket may end under the others.
  The half-close must come after the whole body and on time. It may end the response
  (`docs/protocol.md:277`), so that only a request that asks for it may get it.
* **Agent's server and negotiation.** A client may send anything and leave
  at any point; listeners, their serves and main pass errors and cancellation to
  each other. What a client is told must be true, and the exit status too.
* **Load generator and pools.** Unbuffered jobs, buffered results, a wait group
  and a shared atomic counter: each job one result, no client of
  a pool preferred, an end in every mode.

Every hazard is listed, with its line and the properties aimed at it, under
`hazards` in `PROJECT.json`.

## 2. Modules

| module | what it is |
|---|---|
| `ByteStream` | abstract specification: what the reader of a `net.Conn` is promised |
| `WSConn` | `sdk/go/wsconn.go`; implements `ByteStream` |
| `MCWSConn` | constants and symmetry of the `WSConn` runs |
| `WSConnProofs` | TLAPS proofs about `WSConn`: types, locks, order of the bytes, wake-ups |
| `WSConnStreamProofs` | TLAPS proofs about `WSConn`: the end of the stream, the refinement of `ByteStream`, writes that timed out |
| `NonceCache` | `token.ts`, `bearer-claims.ts` and the time stamp of `token.go` |
| `MCNonceCache` | constants and symmetry of the `NonceCache` runs |
| `NonceCacheProofs` | TLAPS proofs about `NonceCache` |
| `WssTunnel` | `wss-tunnel.ts` between `Client.Dial`'s user and a target |
| `WssTunnelProofs` | TLAPS proofs about `WssTunnel` |
| `AgentProxy` | one proxied connection of `socksagent/agent.go` |
| `AgentProxyProofs` | TLAPS proofs about `AgentProxy` |
| `ClientRequest` | operators: what `Dial` and `Do` of `sdk/go` put on the wire |
| `WorkerRouting` | operators: what the Worker's profiles, routes and checks decide about a request; extends `ClientRequest` |
| `PayloadExchange` | a request from the SDK's call, or another client, through `WorkerRouting` to the end of `runPayloadExchange` |
| `MCPayloadExchange` | deployments, clients, calls and requests of its run |
| `PayloadExchangeProofs` | TLAPS proofs about the three modules above |
| `ClientPool` | operators: the pools of `sdk/go/pool.go` and `h3/h3.go` |
| `AgentServer` | `serve` and the handlers of `socksagent/agent.go` up to the relay |
| `Commands` | `cmd/cf-socks-agent` and `cmd/cfsbench`; extends `AgentServer` and `ClientPool` |
| `MCCommands` | command lines, messages and responses of its run |
| `CommandsProofs` | TLAPS proofs about `Commands`, `AgentServer` and `ClientPool` |

Definitions whose comment starts with "Mutant" are plausible wrong versions of
the definition below them. `Next` does not use them; each shows that a property
notices the bug.

### WSConn

An action is the code between two accesses to state that another goroutine can
change, so `Read` is: take `readMu` (`ReadLock`), look at `pending`
(`ReadPending`), at `readErr` (`ReadCurrentErr`), at the deadline
(`ReadExpired`), take deadline and `changed` channel (`ReadSnapshot`), `select`
(`ReadSelect`, `ReadEvent`, `ReadTimer`), and return. `rpc[r]` is where reader `r` is and `arm` holds the
locals of the one inside `readMu`. A `select` takes any ready case; with none it
parks, and the operation that makes a case ready moves the parked goroutine to
that case (`Released`): a closed `changed` channel is the field `stale` of
a snapshot. `Write`, with `acquireWriteLock`, is decomposed alike; `readLoop`
is `lpc`, with the message it offers in `held`.

Data: byte *i* of the peer is the number *i*. `inbound` is what the peer sent and
`ws.Read` has not returned; a message is a prefix of it. `delivered` is what
Reads returned.

`ByteStream` has one reader's view: `sent`, `delivered`, the last `outcome`,
`failed` and `closed`. `ImplementsByteStream` maps them onto `WSConn`'s state.

### NonceCache

A request arrives with a token (`Arrive`) and awaits decryption; everything after it is one turn of
the event loop: window check, cleanup, lookup, eviction and insertion
(`Accept`), or a refusal (`Replayed`, `Invalid`). The Map is the subset `seen` of
the insertion history `log`, because JavaScript Maps iterate in insertion order
and eviction takes the first. `Foreign` is any header that does not open under
this method and path. `Restart` replaces the isolate.

### WssTunnel

An action is one turn of the event loop. `c2w` and `w2c` are the WebSocket's
directions, `t2w` the target's bytes, `chain` the uploads in `writeChain`.
Events dispatched while `wpc = "connecting"` have no listener and are gone.
`closedBy` is the flag `closed` together with what set it. `ReadDone`, the end of the
target's stream, makes `awaited` the number of writes in the chain: `await writeChain`
waits for these, and `Flushed` follows when each has settled, well or not. `heard` is
a history variable, the uploads received before `ReadDone`; no guard looks at it.
`halfOpen` is `allowHalfOpen`, which `connect.ts:9-11` sets for a target that speaks TLS; both values
are initial states. `WritableCloses` is the runtime closing the writable side when it
is not set.

### AgentProxy

`hpc` follows the handler through negotiation (one step), `Dial`, the reply, the
buffered bytes and the relay; `rpc[c]` and `wpc[c]` are the relay that reads
connection `c` and its watcher; `mpc`, `left` and `activity` are `monitorIdle`, its timer and
its channel. `stop()` and `closeBoth()` are separate steps, both in the handler and in
`onIdle`. The remote connection behaves as `WSConn` does: it may hand out
what it holds after a deadline or `Close`, and a `Write` to it is all or nothing.

### ClientRequest, WorkerRouting, PayloadExchange

A request is a record of what the code looks at: method, path, the token or
bearer, the target a direct URL names, the query's options, the header names. A
token is the secret and the method and path it was sealed under and its claims:
`Seal` makes it, `VerifyBearerToken` opens it. Values that may be missing (a Go
option or nil pointer, an absent JSON field) are sets of at most one element, so that a
delay of 0 and no delay are two values. `Fetch` takes the first matching route of the
profile.

In `PayloadExchange`, `CallDo`, `CallDial` and `SendRaw` put a request on
`wire`, `Route` is the Worker's handler up to `connect()` or `fetch()` and keeps
its decision in `outbound`. Then `up.pc` is where `pipeRequestToSocket` awaits: a
read of the body, a write, the sleep, the writer's close. `target` and `resp` are
the other two streams; `RespMoves` lets the client take the end of a socket for the end of
the response, when the socket was closed after a failed upload or its writable side was
by the half-close. `DoReturns` may close the response under all of them, when the
HTTP version is not the one asked for.

### AgentServer, ClientPool, Commands

`served[l]` is the goroutine of listener `l`; `Accepts`, `AcceptFails`, `Closer`
and `ServeReturns` are the accept loop, and `conn[k]` is a connection with its
handler: `Reads` takes the whole next message of the client, or finds where its
bytes stop (`cut`), `Dials` is `Dialer.Dial`, `Replies` the answer. From there on
`AgentProxy` describes the handler; here it relays until it ends.

`Commands` has both programs. `main` goes through `cf-socks-agent`
(`AgentStarts`, `AgentListens`, `AgentReceives`) or through `cfsbench`
(`BenchStarts`, `BenchBuilds`, `HandsOut`, `ClosesJobs`, `Summarises`,
`CleansUp`); `work[w]` is a worker of `runLoad`. In the mode `socks-wss` a worker is a
client of an `AgentServer` in the same process. A pool's call takes its turn (`TakesTurn`)
in one step, the atomic add, and calls the client in another.

## 3. Runs

| run | property | what it shows |
|---|---|---|
| `wsconn_read` | `StreamIntact`, `EofComplete`, `ParkedOnCurrentDeadline`, `NoMissedWakeup`, `ImplementsByteStream`, `TypeOK` | two concurrent Reads, `readLoop`, a moving deadline, `Close`, every end of the peer; refinement of `ByteStream` |
| `wsconn_read_live` | `CloseReleasesReaders`, `DeadlineReleasesCallers`, `PeerEndReleasesReaders` | a blocked Read returns |
| `wsconn_write` | `OneWriteToken`, `TimedOutWriteUnsent`, `DeadlineReleasesCallers` | two concurrent Writes, one of which may block in the WebSocket for ever |
| `nonce_cache` | `AcceptedOnce`, `RefusedForCause`, `Bounded`, `TypeOK` | duplicates, skew, eviction, restart |
| `nonce_replay` | `ReplayRejected` (violated) | section 6 |
| `wss_tunnel` | `UploadsAreAPrefix`, `AnswerComesFirst`, `FlushedBeforeClose`, `CleanEndIsComplete`, `ClientEndClosesTarget`, `TargetEndClosesClient`, `TypeOK` | order and completeness of both streams, one end closing the other, with and without `allowHalfOpen` |
| `wss_tunnel_close` | `ClosingEitherClosesBoth` (violated) | section 6 |
| `agent_proxy` | `StreamsInOrder`, `CleanEndIsComplete`, `NothingLeftBehind`, `IdleCloseHasCause`, `TypeOK` | all goroutines of one connection |
| `agent_live` | `RelayEndsTogether`, `IdleRelayEnds`, `CancelEndsRelay` | peers that stop reading, idle time-outs, cancellation |
| `agent_buffered_idle` | `IdleConnectionCloses` (violated) | section 6 |
| `exchange` | `OutboundIsAuthorised`, `AskedIsDone`, `HalfCloseOnTime`, `ResponseIsComplete`, `HalfCloseArrives` | every profile and configuration, SDK calls and direct requests: nothing leaves unauthorised, client and Worker agree on every call, the half-close comes in time, and without one no response is cut under a good upload |
| `commands` | `RepliesAreTruthful`, `ExitStatusIsHonest`, `EvenSpread`, `ProcessesEnd` | both programs in every mode, with Accept errors and signals at any moment |

Bounds, and why they are enough to meet the hazards:

* `WSConn`: three bytes in messages of up to two with buffers of one make a
  rest in `pending` while the next message is offered; one empty message
  exercises the `continue`; instants 0 and 1 give past, present and no deadline,
  and a setter may be called any number of times. Two readers contend for `readMu`; two writers allow one in
  `ws.Write` and one waiting for the token. Reads and Writes share only the
  context, the socket and the setters, so each run takes one side; the proofs are about
  both together. The liveness run of the read side takes one reader.
* `NonceCache`: three tokens for a cache of two force evictions; four requests
  allow a token to be presented twice while others push it out; a window of 1 with skew 2 gives
  early, valid and late time stamps.
* `WssTunnel`: three uploads allow one written, one in flight and one queued
  late; two chunks and an end for the target; one text message; sockets with and
  without `allowHalfOpen`. `TargetEndClosesClient` excepts exactly one state, that of a socket with
  `allowHalfOpen` that waits for ever for an upload the target does not take (section 6).
* `AgentProxy`: two bytes each way, one of the client's behind its request;
  one tick of idle time: an activity can still be waiting in the channel when the
  timer fires, which is the case the idle property turns on.
  The safety run leaves out `PeerStalls`, which only removes behaviours of a
  Write that need not happen anyway. In `agent_live` the client alone may end or reset, to keep
  the liveness graph small; the safety run has ends on both sides. `CancelEndsRelay` excepts the state in which both
  peers have stopped reading: there the code does nothing (section 6).

* `exchange`: the inputs are a good one of each kind (SDK call, `/direct`,
  `/direct-url` with `tcp` and with `https`), and from there each part takes each of its
  values: every limit of port, delay and host with its neighbours, every profile,
  a missing and a wrong secret or bearer. `Fetch` decides by conjunctions of such
  tests, so that pairs of bad parts add nothing, and the proofs hold for any combination.
  Two chunks each way allow one written while the other waits.
* `commands`: two workers, or one client of the agent whose slot is used again
  and again; three jobs make the workers come back, six with pools of two and
  three clients run through the two-bit counter of the model, so that the reduction modulo three
  is met at each of its values (the code's 64 bits do not run out). All modes and payloads, targets that the SOCKS request cannot
  carry, and each invalid command line.

Deadlock is not checked where the system really stops: a tunnel that has ended,
a handler that has returned, an exchange or a program that is over.

## 4. Fairness

* `WSConn`: weak fairness of each goroutine's next step and of the clock: Go
  schedules what is runnable and timers fire. None for the peer, for the callers'
  decisions to call, close or move deadlines, nor for `ws.Write` to a peer that does not read. Waiting for
  `readMu` is strongly fair, as Go's mutex hands over to starving waiters, and so is the choice of
  a `select` among ready cases, which Go makes at random: a case that is ready
  again and again is taken in the end.
* `WssTunnel`: the event loop runs what is ready, `connect()` settles, the
  network delivers. A write that cannot succeed any more is rejected, and
  `cloudflare:sockets` closes the writable side after the target's end when
  `allowHalfOpen` is not set. Nothing makes the target send, end or read.
* `AgentProxy`: goroutines and clock as above; `DialTimeout` ends `Dial`. A
  Write to a peer that has stopped reading is not enabled and so never forced;
  negotiation has no fairness, since it reads without a deadline.

* `PayloadExchange`: the upload pump's next turn, its timer included. Nothing
  makes the client send its body, or the target read, answer or end.
* `Commands`: main, each worker, each handler and each serve take their next
  step; `Dial`, `Do` and the exchange with a target end, which the time-out of their
  contexts is assumed to see to (section 6 has what this leaves out). `Accept` must fail on a closed listener and need not on an open
  one. No client of the agent has to do anything, and no signal has to come.

## 5. Proofs

Checked by TLAPS for every value of the constants allowed by the `ASSUME`s of
the modules, whatever sets of readers, writers, nonces and requests.

* `WSConnProofs`
  * `Typing`: `Spec => []TypeOK`, one lemma per group of actions.
  * `WriteExclusion`: `Spec => []OneWriteToken`. Inductive together with
    `TypeOK`: every action either leaves the token and the set of holders alone, takes the
    token when nobody holds it, or gives it back.
  * `StreamPreserved`: `Spec => []StreamIntact`. Needs that `pending` is empty
    whenever a Read receives a message, that the loop holds a message only while it offers it,
    and that one reader is inside `readMu` (`StreamInv`).
  * `NoLostWakeup`: `Spec => []NoMissedWakeup`, and `NoStaleDeadline`:
    `Spec => []ParkedOnCurrentDeadline`.
    The strengthening says, for each place of a call between its snapshot and its
    park, that the snapshot is current or marked stale (`ReadersAwake`,
    `WritersAwake`), which is why a deadline change in that window cannot be missed.
* `WSConnStreamProofs`
  * `EofIsTheEnd`: `Spec => []EofComplete`. `EndInv` says what an error that `readLoop`
    has recorded means (`EofAtEnd`: `io.EOF`, unless the context is cancelled, only when
    the peer has closed and every byte has reached `pending` or a Read), that it offers nothing after it, and that a Read which sees the cancelled
    context returns what was recorded.
  * `ReadSideImplementsByteStream`: `Spec => ImplementsByteStream`, the refinement,
    for any readers. The initial state maps to one of `ByteStream`; a Read that
    returns maps to its abstract delivery, end, time-out or failure; every other step is a stutter
    or a step of the peer.
  * `TimedOutWriteSentNothing`: `Spec => []TimedOutWriteUnsent`. `WriteInv` numbers the
    calls of each writer: the messages sent carry numbers up to the writer's, and
    that of a call under way is not among them before its `ws.Write`.
* `NonceCacheProofs`
  * `AtMostOnce`: `Spec => []AcceptedOnce`. An insertion no longer in the Map has
    expired or is older than the last `MaxEntries` insertions (`Retained`); an
    entry expires at the token's own time stamp plus the window (`Stamped`).
  * `CacheSize`: `Spec => []Bounded`, from the fact that the entry evicted is a
    member of the set when the set is full; `Typing`: `Spec => []TypeOK`.
  * `GoodTokenRefusedForCause`: `Spec => RefusedForCause`. A nonce enters the cache
    only for a request that is then accepted (`Consumed`): a request refused for its
    window, its method or its claims uses up nothing.

* `PayloadExchangeProofs`, for any deployments, SDK calls, raw requests and number of chunks:
  * `Authorisation`: `Spec => []OutboundIsAuthorised`. The invariant `Routing` says that
    what was decided is what `Fetch` decides about the one request on the wire, and
    lemmas about `Fetch` say which route's check lies behind each decision.
  * `Agreement`: `Spec => []AskedIsDone`. `Calling` says that the request on the wire
    is what `BuildRoute` makes of the call; the Worker's checks accept all claims
    that `ValidateClaims` lets through and read the same values in them.
  * `HalfClose` and `Completeness`: `HalfCloseOnTime` and `ResponseIsComplete`, from
    what is known at each place of the pump (`Uploading`) and of the response
    (`Responding`: one that ended before the target did was ended by a closed or half-closed
    socket, and `Uploading` says what either takes).
  * `ExchangeTypes`: `Spec => []TypeOK`.
  The assumptions are that deployments have one of the four profiles and that
  a call's fields are of their types.
* `AgentProxyProofs`, for any number of bytes, idle timeout and misbehaviour of the peers:
  * `Typing` and `ReturnLeavesNothing`: `TypeOK` (with the claim that `errc`, of capacity
    two, never blocks a relay and loses no result) and `NothingLeftBehind`. `Phases`
    says what runs in each phase of the handler, `OneResultEach` that a relay has ended just when
    its one result is in `errc` or was taken: so the second receive means that both
    have ended.
  * `StreamsArriveInOrder`: `StreamsInOrder`. `Flow` says that what a relay holds and
    what waits in front of it are the bytes that follow those already passed on, with what
    is buffered behind the request between them; `Holding` that nothing is buffered any more when the
    relays start. The two together are why the join of `writeBuffered` and the relay has no gap.
  * `CleanEndsAreComplete`: `CleanEndIsComplete`. At `io.EOF` nothing is held or waiting, so `Flow`
    leaves no byte unaccounted for, and nobody else writes to that destination
    afterwards (`CompleteStays`), although the result is looked at only later.
  * `IdleCloseIsCaused`: the action property `IdleCloseHasCause`. Silence and the
    timer's rest add up to the timeout, unless an activity waits in the channel (`TimerCovers`).
  The only assumptions are the types of the constants.
* `CommandsProofs`, for any command lines, messages, clients and workers:
  * `TruthfulReplies`: `Spec => []RepliesAreTruthful`. The client must not change what
    it asks for under a dial: the agent's own clients write when they are read from,
    and a worker of `cfsbench` waits for the method before its request, which is the
    invariant `Handshaking` between a worker and its handler.
  * `HonestStatus`: `Spec => []ExitStatusIsHonest`. `Accounts` says that the jobs
    handed out are exactly those in work or with a result, `Places` what is open
    where main is, `Serving` why a serve has stopped and who cancelled, `Pooling` that
    a pool is open until the end.
  * `FairTurns`: `Spec => []EvenSpread`, for any pool size, counter width and number of
    workers. In a round the clients in front of the next one have been taken once more
    than those behind it, and a wrap-around may leave it so (`SpreadAfter`): this is
    inductive without multiplication, and needs of `%` and `\div` only how they
    change from one ticket to the next (`NextTicket`). The
    calls that have taken their turn are counted by the workers that have a job and have not.
  The assumptions are types of command lines and messages, that the clients are
  among the connections, and that these are finitely many.
* `WssTunnelProofs`, for any number of uploads, texts and chunks, with and without
  `allowHalfOpen`: `Typed` (`TypeOK`), `OrderedUploads` (`UploadsAreAPrefix`),
  `AnswerFirst` (`AnswerComesFirst`), `FlushedFirst` (`FlushedBeforeClose`) and
  `CompleteDownloads` (`CleanEndIsComplete`), from one inductive invariant.
  * Upwards (`ChainInv`, `WayUp`): as long as nothing called `closeBoth`, the messages
    under way continue the chain of writes and the chain continues what is written,
    without a gap. Once it was called, the chain may lose writes, and only the one
    in flight (`late`) may still succeed: it is the next in order. A connection that
    breaks cuts the messages under way but leaves no gap among the rest.
  * Downwards (`WayDown`, `Complete`): while the WebSocket is open, what the client
    has read, what is under way to it and what the Worker has not read add up to what
    the target sent, in order; the answer to `Dial` is not counted. So a normal
    close that is sent when the stream has ended stands behind everything.
  * `FlushedFirst` (`HeardInv`): until the target's end is read, what was received is
    written or in the chain; from then on it is written or awaited, because writes
    settle in order and one that fails closes the tunnel for another reason.
  * `Phases`: before the relay is up nothing moves, which is what `Dial`'s wait for OK
    and the listeners attached in the same turn as the OK amount to.

  The only assumption is that the bounds are natural numbers.

With these, every safety invariant and every action property that a run checks is a
theorem, the refinement included. Model-checked only are the liveness properties, which are out of
TLAPS's reach, as is anything with ENABLED: `CloseReleasesReaders`,
`DeadlineReleasesCallers`, `PeerEndReleasesReaders`, `ClientEndClosesTarget`,
`TargetEndClosesClient`, `RelayEndsTogether`, `IdleRelayEnds`, `CancelEndsRelay`,
`HalfCloseArrives` and `ProcessesEnd`. The three violated properties of section 6 are
refuted by TLC's counterexamples.
No module here uses a RECURSIVE operator.

## 6. Divergences

* `nonce_replay`: a token is accepted twice when its second request comes in the
  last second of the window, because the cache forgets the entry at `expiresAt <= now` (`token.ts:37`)
  while the window check still passes (`token.ts:88`). `docs/protocol.md:193`
  says that replayed tokens are rejected.
* `wss_tunnel_close`: a client that closes while the Worker is still connecting
  is not heard, because the listeners are attached after `await connectTarget`
  (`wss-tunnel.ts:15`); the socket stays open until the target ends.
  `docs/protocol.md:248`: "Closing either side closes both sides."
* `agent_buffered_idle`: bytes sent behind an HTTP CONNECT request are written to
  the remote end before the idle monitor starts (`agent.go:165-186`); blocked
  there, the connection is not closed as idle (`README.md:183`).

More behaviours have no run of their own but are worth knowing:

* `docs/protocol.md:248` fails in the other direction as well. For a `/wss` token with
  target TLS, `connect.ts:9-11` sets `allowHalfOpen`. A target that ends its stream and never takes an upload
  that is queued leaves `await writeChain` (`wss-tunnel.ts:89`) pending, and the
  client stays open until it closes itself. `TargetEndClosesClient` is checked with both kinds
  of socket and names this state as its one exception.
* `docs/protocol.md:277` reports that an immediate close of `socket.writable` "can
  terminate the readable response path in practice and break response streaming", which is why it is off
  by default. The model lets any requested half-close do so, also after a
  delay, since the code has no means against it. So where line 280 says that the Worker closes
  the writable side "while continuing to stream `socket.readable`", no property
  here promises it; `write_close_after_ms` of 0, which client and Worker accept
  (`route.go:59`, `payload-stream.ts:54`), asks for the very close that line 277 warns of.
* A reset of the target reaches the client as a normal close (`wss-tunnel.ts:67`).
* A cancelled context does not end a relay whose two Writes are both blocked
  (`agent.go:302`, `349`).
* `cfsbench -mode socks-wss` can wait for ever: if its own agent's `Accept`
  fails (for want of file descriptors, say), `serve` returns while the
  listener stays open, later connections are queued and never accepted, and `socksConnect` reads
  the reply without a deadline, which is set only for the exchange after it (`runner.go:53`),
  although the flag is described as "per-operation timeout" (`main.go:65`). `ProcessesEnd`
  leaves out this case. It also assumes that the time-out of a context ends every
  call of a job, which is not shown for a Write that is already inside
  `ws.Write` (`wsconn.go:128`): that call is given the connection's context and heeds no
  deadline.

## 7. Not modelled

* Cryptography, base64 and JSON of the token: a token opens or does not.
  `token.Open` in Go is used by tests only.
* Text: URLs and their parsing (a URL is its scheme, target and form), error
  messages, the bytes of `cfsbench`'s payloads, its percentiles and its summary.
* The constant-time form of the bearers' comparisons.
* `prepare`'s errors in `socksagent`, which neither program can reach: both
  check the same flags first.
* The HTTP parser's work: a client's HTTP message is a request or is not.
* The generated single-file bundles, the build, the examples and the end-to-end tests.

The runtimes (Go's, the Workers', the WebSocket library, HTTP and TCP) are modelled
from how the code uses them and marked `external`.

Two details of the delays and hosts in `AskedIsDone`: a write close below 1 ms becomes one
of 0 ms, in the property as in the code (`route.go:59`), and JSON's replacement
of invalid UTF-8 in a host (`token.go:66`) is outside the model.

Abstractions that bound what the properties say: `AgentServer` and
`PayloadExchange` take the stream inside a connection as `AgentProxy` and
`WssTunnel` describe it, instead of composing all of them; `NonceCache` has the
replays, so that in `PayloadExchange` a token is used once; and the agent's two
listeners share no limit on connections.

## 8. Plan

Done: `WSConn` with `ByteStream`, `NonceCache`, `WssTunnel`, `AgentProxy`,
`ClientRequest` and `WorkerRouting` with `PayloadExchange`, `ClientPool` and
`AgentServer` with `Commands`, with their runs; proofs of every safety and action
property of all of them, and of the refinement.

Left, in this order:

1. `WssTunnel` as an implementation of a byte pipe, upwards and downwards, in the
   way `WSConn` implements `ByteStream`, with the proof of the step.
2. `Tunnel`: composition of the read side promised by `ByteStream`, `WssTunnel`
   and the target: what a reset looks like to the reader, and which uploads a
   `Close` may lose.

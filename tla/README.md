# ws-proto: a TLA+ verification of the runtime

ws-proto carries gRPC-style calls over one WebSocket. The repository holds a Go
runtime (`wsrpc/`: server and client), a TypeScript client
(`packages/ws-proto-transport/`), and generators that emit typed stubs for both.
This directory models the two runtimes: everything between an application's
`Send`/`Recv` and the socket and, on the Go side, what the generated stubs, the
interceptors and the gRPC adapters do with a call on top of it. Paths below are relative to the repository.

## The system

| Part | Source | Concurrency and failures |
|---|---|---|
| Stream and flow control | `wsrpc/stream.go` | the application's goroutines, the read loop, a condition variable, contexts; a byte window per direction returned by WINDOW_UPDATE |
| Mux | `wsrpc/mux.go` | read loop, control writer, keepalive; may lose the connection at any time |
| Server | `wsrpc/server.go` | one goroutine per stream, a cap on streams, recovery of panics |
| Client connection | `wsrpc/client.go`, `wsrpc/reconnect.go` | callers of NewStream, Close, the reconnect controller |
| Connections | `wsrpc/wsconn.go`, `wsrpc/pipe.go` | bounded, FIFO, may close; the pipe also accepts a write as it closes |
| TypeScript transport | `transport.ts`, `mux.ts` | one event loop; socket events, three timers and API calls in any order |
| TypeScript stream | `stream.ts`, `queue.ts` | promises: work continues in microtasks |
| Typed calls (Go) | `wsrpc/dispatch.go`, `interceptor.go`, `middleware.go`, `metadata.go`, `callopt.go`, `status.go`, the generated `echo_ws.pb.go` | the client's stub, serveStream's goroutine and the application code both call; cancellation, deadlines, panics, loss of the connection |
| gRPC adapters | `wsrpc/bridge.go`, `wsrpc/grpc_registrar.go`, the generated bridge | a gRPC handler and its interceptor behind the above |
| Typed calls (TypeScript), codecs, options, statistics | the other files of `wsrpc/` and of the package | callbacks and conversions |
| Generators | `generator/`, `cmd/`, `packages/protoc-gen-ws-es/` | no run-time state |

A call is OPEN, then MSGs in both directions, HALF_CLOSE from the client, and
END from the server or RST from either side. Frames of a stream stay in order;
streams share one connection and one read loop, which must never block.

`PROJECT.json` lists every part with its status, maps each definition to the
lines it models, and lists the hazards, at the lines where they bite, with the
properties that cover them.

## Modules

| Module | Models | State and actions |
|---|---|---|
| `Stream` | one direction of a Go stream, both endpoints | The variables are the fields of `Stream` at sender and receiver, a program counter per goroutine, and two FIFO pipes. Actions are cut where the code releases a lock or may block: `SendRaw`'s check, its park and its write are three steps, `signalEnd` is two at an endpoint whose application sends, because it closes `ended` outside `mu`. |
| `Sums` | – | the bytes of a queue of frames, which the conservation of credit in `Stream` and `WsStream` is stated with |
| `Delivery` | what one direction of a stream promises | The abstract specification: messages are written, handed over by number, lost only behind the receiver's ended context; the peer's end is told last. It knows no windows, frames or locks. |
| `StreamMap` | – | the refinement mapping from `Stream` to `Delivery`, and `ImplementsDelivery` |
| `Server` | the server's end of a connection | The read loop routes one frame at a time and may end; `ctrlWriter`, `keepalive`, `ServeHTTP`, and the steps of `serveStream` in the order of its deferred calls. A Stream is numbered by the OPEN that made it and carries the wire id that OPEN named, so that two Streams of one id can be told apart; the peer may send any OPEN, MSG or RST at any time |
| `ClientConn` | the Go client | `NewStream` cut at each release of `cc.mu`, `Close` in its steps, the controller's `run`, `redial` and `dialOnce`; per mux its socket, context and read loop, which a frame that does not decode ends too. The connection is a WebSocket, with or without `WithReconnect`, or the pipe of `DialConn` |
| `WsTransport` | the TypeScript transport and the life of its muxes | one action per event handler, timer callback or API call, over every combination of options; a socket may be handed over in its handshake, or open already, with the right or another subprotocol |
| `WsStream` | one TypeScript stream, its queue, the mux's writes and routing for it | one action per handler; a resolved `recv()` continues in an action of its own. The pre-open buffer is shared with the other streams of the mux, so before the socket opens any write may find it full, which kills the mux (`full`). A payload is its length with its number and byte offset, which only the properties read |
| `Call`, `MCCall` | one typed call of any of the four kinds, on any of the four ways a handler is reached (raw, native, bridge, `GRPCRegistrar`) or to an unknown method | `cli` is the client's stub and Stream, `srv` serveStream's goroutine and Stream. The generated registrars are one action per step of the handler they wrap; middleware, interceptor and handler choose freely among the operations of their API, before and after the call they wrap, whose error they may pass on, replace or clear. A step of the server writes at most a HEADER and a MSG; `Emit` routes to the client those whose write did not fail |
| `SumProofs` | – | lemmas on sums: what appending to, taking from and joining queues does to them |
| `StreamSteps`, `StreamProofs` | – | the proofs about `Stream`: types and what each kind of step does; then the invariant, the theorems and the refinement |
| `ServerProofs`, `ClientProofs`, `TransportProofs`, `WsStreamProofs`, `CallProofs` | – | the proofs about `Server`, `ClientConn`, `WsTransport`, `WsStream` and `Call` |

The models share the wire frame and not their state. `Server` takes a stream as
its registration, terminal signal and context, and leaves its data to `Stream`;
`ClientConn` does the same for the client; `WsTransport` takes a call as its mux
and status, and leaves its data to `WsStream`. `Call` takes the Stream as what
`Stream` shows it to be: frames arrive in order, in the step that writes them,
unless they are lost.

Abstractions: a payload is its length; a status is its code; a socket is a FIFO
that may be lost; a timer may fire whenever it is armed; metadata is a map over
two keys whose values name who set them, so that a value that is lost,
overwritten or joined is seen. In `Call` a decoding error is any other error.
Operators whose
comment starts with `Mutant:` are deliberately wrong variants of the definition
that follows them. They are not part of any specification; each shows that some
property would notice that mistake.

## Runs

| Run | Result | What it shows |
|---|---|---|
| `stream` | holds | No byte of credit is lost or invented (`CreditConservation`); an obeying sender is never reset (`NoFalseReset`); batching credit to half a window cannot strand a sender (`NoCreditStall`); order (`InOrder`); END and HALF_CLOSE are reported after all data (`EOFComplete`); a client's status is final (`ClientStatusFinal`); every behaviour is one of `Delivery` (`ImplementsDelivery`) |
| `stream_live` | holds | With a sender whose window exceeds the receiver's: the backlog stays within its ceiling and one message (`BacklogCeiling`), a parked Send resumes (`SendResumes`), and the reset of an overflow reaches the sender if the control channel took it, or if the receiver is a server, whose END says it too (`ResetReachesSender`) |
| `stream_end_wake` | **violated** | END or RST routed between Send's check and its park is lost on Send |
| `stream_cancel_wake` | **violated** | a parked Send does not notice its own cancellation |
| `stream_eof` | **violated** | after cancellation, a truncated stream can read as a clean io.EOF |
| `server` | holds | the map keeps to the cap and each slot has a handler that will free it (`SlotOwned`); unless route took an id out of the map under its handler, the handler is counted and is the only one of its id (`OneHandler`); every OPEN is answered (`Answered`); no handler stays parked in Recv or on its context after the connection is gone (`HandlersReleased`) |
| `client_conn` | holds | no waiter misses an install or Close (`NoMissedWake`), after Close no socket stays up, that of a dial which raced Close included, except one whose read loop met a bad frame (`NoLeak`); Close and loss give different statuses (`CloseStatus`); a stream of a dead mux has a status, unless it was opened late on a connection that still accepts its OPEN (`DeadMuxFailsStreams`); a lost connection is replaced (`Reconnects`) |
| `ts_transport` | holds | timers and mux fit the phase and nothing dials while paused, an open socket with another subprotocol excepted (`PhaseTruth`); one live socket (`OneSocket`), no call on a dead mux (`NoCallOnDeadMux`), backoff kept until the connection is stable (`BackoffKept`), a gap in connectivity ends (`GapEnds`) |
| `ts_stream` | holds | credit (`CreditConserved`), order (`DeliveredInOrder`), no false reset (`NeverFalselyReset`), every `recv()` settles and nothing is written to a dead mux (`TeardownSafe`), queued sends drain (`Drains`) |
| `ts_half_close` | **violated** | HALF_CLOSE overtakes messages that wait for credit |
| `call` | holds | the client learns the handler's own status through every layer (`StatusFaithful`); the trailers, unary headers and request metadata the code sends arrive, merged as it merges them (`MetadataArrives`); no HEADER behind a response (`HeaderStable`); a typed single response is never that of a handler that failed (`ResponseMeansSuccess`); the call returns (`CallEnds`) |
| `call_metadata` | **violated** | a header set with SetHeader by a client-streaming gRPC handler is lost in the bridge |

### Where the code and its comments disagree

Five runs check what a comment says of the code and find a behaviour that does
otherwise. The entries under `findings` in `PROJECT.json` quote the comments.

1. `stream.go:519`. `signalEnd` closes `ended` and broadcasts without `mu`. A Send between
   its check and `sendCond.Wait` misses both. The stream has left the mux, so
   nothing wakes it later.
2. `stream.go:199`. Nothing broadcasts `sendCond` on cancellation or deadline.
3. `stream.go:489`. `tryDeliver` drops MSGs after cancellation and the end that follows them is
   still recorded. Recv's `select` may prefer it to the context.
4. `stream.ts:194`. `closeSend` does not wait for `outbound`.
5. `echo_ws.pb.go:368`. The bridge captures the response of a client-streaming call
   before it flushes the headers its handler buffered, and nothing flushes them
   later. `bridge.go:27` says that they are propagated.

Observed while modelling, and not the subject of a run:

- `Context` is documented as "cancelled on end/RST" (`stream.go:88`); `signalEnd`
  leaves it alone. In `Server` a handler that waits on its context is released by
  its deadline or by the end of the connection, never by RST.
- `newClientStream` (`mux.go:167`) registers without looking whether the read loop is
  gone. A dead WebSocket refuses the OPEN and the stream leaves the map again. A
  closed in-memory pipe may accept it (`pipe.go:50`), and so does a WebSocket
  whose read loop ended at a frame that does not decode. Such a late stream has no
  status until its own context ends, although on connection loss "every in-flight
  stream fails" (`client.go:14`).
- A frame that does not decode ends the read loop and not the socket. The reconnect
  controller then drops the mux without closing it (`reconnect.go`, `run`), so the
  socket stays up after Close.
- `WithMaxConcurrentStreams` (`options.go:146`) bounds the map and not the handlers. `route`
  removes the entry of a stream for RST and for an overflow while its handler
  runs on, uncounted. The id may then be opened again, and the first handler's
  deferred `remove(id)` deletes the second one's entry: its frames are then
  ignored, and it runs outside the cap as well.
- An RST that finds `ctrlCh` full is dropped, which "only delays the peer's own cleanup"
  (`mux.go:90`). After an overflow at a client nothing else tells the serving
  sender: it parks when its window is used up, until the connection ends.
- Middleware may fail a call whose response has been sent. END carries its status, and
  `InvokeUnary` reports it; a streaming client has seen the response by then. The
  README's example of a logging middleware calls `FromError(err).Code` also when err
  is nil (`README.md:472`); `FromError(nil)` is a nil pointer.
- Response metadata goes nowhere when a unary handler fails, for unary
  calls through the bridge without an interceptor, and when a
  streaming handler buffers headers and returns without a message. `bridge.go:30`,
  `metadata.go:11` and `README.md:626` promise it without these exceptions.
  `MetadataArrives` states what the code does send.
- A TypeScript `Mux` made over an open socket with another subprotocol fails in its
  constructor, before the transport has set its hooks. The transport then reads
  `connecting` (`transport.ts:35`) until a dial timeout, a pause or a close.
- A deadline below one millisecond is sent as none (`mux.go:155`): the handler is not told of it.

### Bounds

- `stream`: windows of 3 and 4 bytes, payloads of 0, 1 and 5. A message larger than the
  window, an exact fit, an empty message and a negative window all occur. Three
  messages are enough for one to be buffered, one in flight and one waiting; a
  pipe of 2 frames lets writers block. The proofs remove these bounds.
- `stream_live`: payloads of 1 and 3 against a send window of 4 and a receive window
  of 2, so that overflow happens; no cancellation and no loss, which would
  satisfy the liveness properties trivially.
- `server`: two OPENs, of one id or of two, against a cap of one and a control buffer
  of one, so that the cap, the duplicate check, an id opened again under a
  running handler and a dropped control frame are all met; one has a deadline.
- `client_conn`: two callers, since interference is between callers, controller and Close; two
  connections: the first, and one dialed after its loss, which may race Close or
  be lost itself.
- `ts_transport`: three sockets and two calls; a stale event needs an old socket and
  its replacement, the backoff a third.
- `ts_stream`: window 4 with payloads of 1 and 5: within the window, larger than it, and beyond
  the ceiling. A backlog of exactly the ceiling needs more messages; the theorems
  cover it.
- `call`: all kinds and paths, one fault per call (cancellation, a deadline, loss of the connection). A deadline below
  a millisecond acts as a cancellation with another code; only the theorems include
  it. One request of a stream and one response of a streaming handler
  suffice: after the first MSG nothing but the counts changes. A raw handler may
  send a second, which unary and client-streaming stubs must cope with. The
  interceptor and the handler set one key, the middleware another (`MCSets`).

Deadlock checking is off because in each system everything may end: the
stream, the connection, or the bounded supply of messages and dials. What must
not stop is stated as liveness instead.

### Fairness

- `Stream`, `Server`: weak fairness of each goroutine's steps, as the Go scheduler gives. In
  `Stream` the receiving application keeps calling Recv, and Recv's `select`
  among ready cases, which Go makes at random, does not ignore a case for ever
  (strong fairness). In `Server` the peer reads while the connection is up, and
  a handler returns once what it waits on has ended; nothing makes a handler
  return by itself.
- `ClientConn`: weak fairness of the controller, and strong fairness of a dial that
  succeeds: a server that stays unreachable refutes nothing. It includes that a dial
  returns: the controller gives it no timeout of its own.
- `WsTransport`: armed timers fire. No fairness of any socket event is assumed.
- `Call`: the client's stub and the application that receives from it, the client's
  read loop, and serveStream once the handler chain has returned. Nothing makes a
  handler return, a context end or the connection drop.
- `WsStream`: the event loop runs what is due, the socket opens unless the mux dies first, the server reads.

## Proofs

Each component has an inductive invariant `IInv`, stated at the end of
its module, with theorems `Invariance`
(`IInv` always holds) and `TypeCorrect` (`TypeOK`). TLC checked each `IInv`
on small instances before it was proved. The other theorems, for every value of the
constants that satisfies the module's assumption:

| Module | Theorem | States |
|---|---|---|
| `StreamProofs` | `NeverReset` | `NoFalseReset`, if SendWin <= RecvWin |
| | `NeverStalled` | `NoCreditStall`, if Threshold <= SendWin |
| | `Ordered` | `InOrder` |
| | `Complete` | `EOFComplete` |
| | `Bounded` | `BacklogCeiling`, for any pair of windows |
| | `StatusFinal` | `ClientStatusFinal` |
| | `CreditConserves` | `CreditConservation`, for any pair of windows |
| | `Refinement` | `ImplementsDelivery`: `Stream` implements `Delivery` |
| `ServerProofs` | `SlotsOwned` | `SlotOwned` |
| | `OneHandlerAtMost` | `OneHandler` |
| `ClientProofs` | `WakesHeard` | `NoMissedWake` |
| | `NothingLeaks` | `NoLeak` |
| | `StatusTellsWhy` | `CloseStatus` |
| | `NoStreamLeftBehind` | `DeadMuxFailsStreams` |
| `TransportProofs` | `PhaseIsTrue` | `PhaseTruth` |
| | `OneSocketAtMost` | `OneSocket` |
| | `CallsEndWithMux` | `NoCallOnDeadMux` |
| | `BackoffIsKept` | `BackoffKept` |
| `WsStreamProofs` | `TeardownIsSafe` | `TeardownSafe` |
| | `ObedientNeverReset` | `NeverFalselyReset` |
| | `RecvInOrder` | `DeliveredInOrder` |
| | `CreditIsConserved` | `CreditConserved` |
| `CallProofs` | `StatusIsFaithful` | `StatusFaithful` |
| | `MetadataDoesArrive` | `MetadataArrives` |
| | `ResponseIsSuccess` | `ResponseMeansSuccess` |
| | `HeadersAreStable` | `HeaderStable` |

### Stream

The theorems hold for all windows, payload sizes, pipe capacities and numbers of
messages, every pattern of cancellation, and with or without loss of the
connection. The assumptions on the constants are `StreamAssumption` (windows and capacities are positive,
sizes are naturals) and `DeltaFits` (a WINDOW_UPDATE delta fits its uint32). The
hypotheses of `NeverReset` and `NeverStalled` relate the windows of the two
sides. The code does not negotiate them: both hold when both sides are
configured alike, and either can fail when they are not.

None of the properties is inductive by itself: whether a MSG that arrives fits the buffer
depends on what the sender knew when it reserved the bytes. `IInv` follows each
byte through five totals, reserved, arrived, popped, returned and credited. The
history fields of a frame (`seq`, `off`) record how much had been written
before it, so `FwdChain` and `BackChain` can say that each frame starts where
its predecessor ends, and the bytes in a pipe are read off its first frame. `SenderInv`, `BacklogInv` and `CreditInv`
relate neighbouring totals as inequalities always, and as equalities while the
stream lives. `CloseInv` says that once the receiver knows of the end,
everything has arrived. `StreamSteps` proves the types and the
lemmas on pushing to and popping from a pipe and on what each kind of step
leaves alone, and `StreamProofs` that every action preserves `IInv`, from which
it derives the theorems. `StatusFinal` uses an invariant of its own,
`StatusInv`.

`CreditConservation` is about sums over the pipes. The frames of a pipe are a chain
of offsets, so its sum telescopes to last end minus first start
(`Telescopes`, `ChainTotal`), which the equalities of `IInv` relate to the
windows. `Telescopes` needs induction over the length of a sequence. The induction
theorems of the library take a predicate as a parameter, which the provers cannot
instantiate; `SumProofs` proves the principle for a *set* of naturals instead
(`SetInduction`, from the least element of the numbers outside it), and each use
names its set.

`Refinement` maps the abstract queue to the numbers of the MSGs in the
backlog and in the pipe, `closed` to the sending side's last write, and `told` to
what Recv reported. `IInv` places frames by bytes; that a step hands over
message number `got` and no other needs the order of numbers too, so `DInv` adds
that the MSGs of the pipe carry increasing numbers, all above the backlog's, and
that a stream that ended without a terminal frame had its context ended
(`OrderNext`). `StepRefines` then has one step per action: most stutter or are
quiet (`Stutters`, `Quietly`), a delivery moves a number from pipe to backlog,
which the abstract queue does not see, popRecv is `Hand`, and END or HALF_CLOSE
reported with an empty backlog is `TellEnd`, since `CloseInv` leaves nothing on
its way.

### Server

For any number of OPENs and ids, any cap (0 is none), control buffer and pipe, and a
peer that may send anything. `SlotOwned` and `OneHandler` need each other: a slot has one
owner because an OPEN whose id is in the map starts nothing, and a handler whose
entry route has not taken is in the map. `OpenInv` adds that an OPEN on the socket
has no goroutine yet, `KeyInv` that the map has one entry for an id. `freed`, a
history variable, holds the ids whose entry route removed under a running handler. That
`Cardinality(streams)` stays within the cap uses that only the read loop adds
(`SlotsCounted`, `FewerSlots`).

### Client connection

For any number of callers and dials, over a WebSocket with or without `WithReconnect`
and over a pipe (`ClientAssumption`: the first dial happened). `NoMissedWake` needs `WakeInv`:
a channel is closed once per install and once for Close, so a captured number
is not newer than the current one. `NoLeak` needs to know who will close a
socket: `HolderInv` says which mux the controller and Close hold at each of
their steps, and `MuxInv` that a live socket whose context has not ended
is the current mux, one about to be installed, or one Close has in hand.
`StreamInv` ties a stream's place in the map to its caller's step and says that a stream
in the map of a mux whose read loop is gone entered it afterwards. With `CloseStatus`
and `DeadMuxFailsStreams` it is inductive.

### TypeScript transport

For any number of calls and dials and every combination of options. `MuxInv` adds that
a mux has its lifecycle hooks exactly until it is defunct, so that a late socket event
of an old mux changes nothing, and that each failed attempt used up a dial.
`BackoffIsKept` is an action property: `attempt` is compared before and after every
step. `LosesCurrent` and `Dials` are the two lemmas most actions share, since
a drop, a failure, the dial timeout, pause and close all abandon the current mux, and
resume and the retries dial.

### TypeScript stream

For every window, send buffer, set of sizes and number of messages. The
server's messages carry their number and the bytes before them, as in `Stream`, so
the pump's queue is a run of messages whose length is read off its ends
(`OutInv`), and the socket, the queue and what was delivered are consecutive
pieces of what was sent (`SentInv`, `OrderInv`, `SocketInv`). `EndInv` ties
`finished` to the queue's end and to the socket. `NeverFalselyReset` is about a
server that stays within its window: `CreditInv` bounds what it can know by what
was consumed, `WithinInv` what it has sent by what it knew, and `BacklogInv`
makes `bufferedBytes` the difference of two offsets, so the ceiling of
`overCeiling` is not met. `Terminates` serves every way a stream
ends; `Writes`, `Takes`, `Pumps`, `Enqueued` and `RunGrows` serve the sending side; `Fails` and
`InvFull` the overflow of the pre-open buffer.

`CreditConserved` says more than `CreditInv`: that no credit is lost on its way
back. The server's WINDOW_UPDATEs do not say which bytes they credit, so here the
sums themselves are followed (`Accounts`): `SumProofs` says
what appending to a queue, routing its head and joining two queues do to its
bytes, `BytesRun` that the pump writes as many bytes as it reserves, and one lemma
per action that the two equations are kept. `Accounts` is inductive relative to
`IInv`, which supplies the types and that the pump's queue is a run.

### Typed calls

For any number of requests and responses, any choice of who may set which
metadata, and every set of faults (`CallAssumption`); all kinds and paths are
in every instance. What the client learns is decided in three places: the
handler chain leaves an error, `serveStream` turns it into END, and the stub
reads END, possibly after a context or the connection ended the call for it.

- `OpenInv`: the server was opened by OPEN and has been sent no more than the client sent.
- `EndInv`: END is written once, when `serveStream` is done, with the code due
  (`StatusDue`), and a client that reports END has what END carried.
- `ReplyInv`: a stub whose handler replies once sees the response only when the
  handler has returned nil; middleware around it may still fail the call.
- `TrailerInv`: at each step of the handler chain, what the Stream's trailer and the
  sink of a unary handler hold is what was asked for so far by those whose
  metadata goes there, each key with a value that one of them set (`Carries`).
- `HeaderInv`: the same of headers, by their keys, up to the response.

`HeadersAreStable` uses `ReplyInv`: a response that was read was sent, and `SendHeader`
after the first MSG writes nothing; where the library itself writes the response,
the handler has returned by then. The lemmas follow the shape of the model.
`OverMDs`, `CarriesOver` and `OneSetter` are about merging maps;
`RouteLeading`, `RouteMessage` and `Emits` about what the frames of one step do to the
peer; `Moves` and `Stops` cover the steps that write
nothing; `MetadataOnStream`, `MetadataOnSink`, `Replies` and `Ends` those that do; then there is one
lemma per action.

### Only model-checked

- All liveness properties, which are beyond the prover: `Answered`,
  `HandlersReleased`, `Reconnects`, `GapEnds`, `Drains`, `CallEnds`, and `SendResumes` and
  `ResetReachesSender` of `stream_live`.
- `ENABLED`, on which the fairness conditions rest, is not used in a theorem either.
- The five runs that find a violation show behaviours; there is nothing to prove.

## Not modelled

- Encoding of frames, the WebSocket library, TLS, compression, read limits: a
  connection is a FIFO that may be lost. The library closes the connection when the
  context of a write expires, so the end of one stream's context during its write is
  a loss of the connection too.
- Statistics, codecs and options: they transform values or observe. The options that
  matter are constants; what StreamEnded reports is the field `stat` of `Call`.
- Registration of services and GetServiceInfo: they fill maps before calls are
  served.
- Typed calls (`unary`, `stream` and their terminals) and the state listeners of
  the TypeScript transport: in the plan below.
- A write that a closed in-memory pipe still accepts.
- Several goroutines in Send, or one in Send and one in SendHeader, on one stream:
  gRPC forbids the former to callers.
- Wrap-around of stream ids, random jitter and wall-clock durations.
- The generators, generated message code and the example programs, and `docs/design/resumable-streams.md`,
  which describes something not yet implemented.

## Plan

1. The typed calls of the TypeScript client over `WsStream`, with the teardown of
   a request source that is still producing.
2. State listeners that call back into the transport, and `resume` after a loss
   while paused.
3. The backoff schedule as an operator, checked over bounded inputs.

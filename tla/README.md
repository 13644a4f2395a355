# TLA+ models of dmsg

dmsg is a peer-to-peer messaging overlay: nodes identified by public keys open
sessions to relay servers and multiplex encrypted streams over them; a
transport manager keeps long-lived transports to peers alive. This directory
holds TLA+ models of the parts of the repository that have state and
concurrency, the TLC configurations that check them, and `PROJECT.json`, which
maps every definition to the lines of source it models.

## The system

| Part | Source | State | Operations |
|---|---|---|---|
| Transport manager | `src/unnamed/part_001` | `transports` (ID to managed transport), `entries`, `doneChan`, `TrChan` (buffer of 9), `mgrQty`, the factories | `NewManager`, `Serve` (reconnect, default transports, one accept loop per factory), `CreateTransport`, `acceptTransport`, `dialTransport`, `manageTransport` (one worker per managed transport), `DeleteTransport`, `Close` |
| Managed transport | none (specification only) | the transport under it, `doneChan`, `errChan`, log counters | `killWorker`, `isClosing`, `updateTransport`, `Close` |
| Port manager | `src/port_manager.go` | `listeners` (port to listener), a random source | `Listener`, `AddListener`, `NextEmptyEphemeralPort` |
| Dial requests | `src/types.go` 18-172 | a request or response with timestamp, hash and signature | `Sign`, `Hash`, `Verify` of `SessionDialRequest`, `StreamDialRequest`, `DialResponse` |
| Frame codec | `src/types.go` 175-422 | the bytes on a connection, in each direction | `MakeFrame` and the accessors of a frame, `readFrame`, `writeFrame`, the five frame writers, the `HandshakeData` and ACK payloads |
| Session and stream | `src/types.go` 189-264 (`randID`, `isInitiatorID`, the serve counter, `AcceptBufferSize`, `StreamHandshakeTimeout`); the rest from the specification | stream table, windows, accept buffers, the serve counter | dial, dispatch loop, `Write` under credit, accept, close, teardown |
| Discovery client, log store | none (interfaces) | statuses, log records | `UpdateStatuses`, `Record` |
| Commands | `src/unnamed/part_000`, `src/cmd/dmsgpty-cli/commands/root.go` | flags | process start-up |

How they interact. A node's transport manager dials peers through factories
and accepts their dials in the accept loops of `Serve`; both paths end in the
same steps: look up and kill the managed transport that holds the ID, install
the new one in `transports`, hand it to `TrChan`, start its worker. The worker
waits for the transport to fail: a transport this node dialed is re-dialed
into the same wrapper, one it accepted is deleted (the peer dials again).
`DeleteTransport` and `Close` tell discovery that a transport is down. The
port manager serves the stream layer: a listener binds a port, an outgoing
stream takes an ephemeral one. The dial requests are the handshake of a
session; once it is done the two ends exchange frames: the frame codec puts
them on the connection and takes them off, and the dispatch loop of each end
hands what it reads to the streams of the session.

Most of what is hard in this code is in the transport manager: every
operation is a handful of short critical sections of `tm.mu` with channel
operations and network calls between them, and the goroutines that run them
(callers of `CreateTransport` and `DeleteTransport`, accept loops, one worker
per transport, `Close`) meet on one table keyed by an ID that the two ends of
a link derive independently. The dial requests are hard in another way: they
are sequential code, but what they promise is promised against whoever sits
between the two ends, which is a relay server for every stream dial. The
session is hard because its two ends act on what the other end did a while
ago: every frame read answers a state the writer has since left.

## Modules

### `TransportManager.tla`

One node's manager. Every goroutine is a process with a program counter `pc`;
`arg` is the ID it works on and `ref` the managed transport it holds. A step
is a piece of code that touches shared state once: a critical section, a
channel operation, or the return of a call into the network. The labels, in
the order of the code:

| Goroutine | Labels | Code |
|---|---|---|
| server | `serve`, `reconnect`, `dial_check` ... `publish`, `report_up`, `default`, `wait`, `returned` | `Serve`: `reconnectTransports`, `createDefaultTransports`, `wg.Wait()` |
| dialer | `idle`, `dial_check`, `dialing`, `lookup`, `install`, `publish` | `CreateTransport`, `dialTransport`, `createTransport` |
| accept loop | `unborn`, `loop`, `accepting`, `acc_check`, `handshake`, `lookup`, `install`, `publish`, `exit` | the loop of `Serve`, `acceptTransport` |
| worker of `m` | `none`, `spawned`, `select`, `dial_check`, `dialing`, `del_remove`, `del_close`, `del_status`, `exited` | `manageTransport` and the `dialTransport` and `DeleteTransport` it calls |
| user | `idle`, `del_remove`, `del_close`, `del_status` | `DeleteTransport` |
| closer | `idle`, `close_table`, `close_report`, `closed` | `Close` |

`dialTransport`, `createTransport` and `DeleteTransport` are written once and
run by whichever process called them; `Return` says where each caller goes on.
The server is the goroutine that calls `Serve`. `reconnectTransports` copies
`entries` into `todo` and visits the copy in any order (a Go map), skipping
an entry that is in the table or cannot be dialed and reporting `IsUp=true`
for one it has re-established; `createDefaultTransports` walks `DefaultNodes`
with the index `next`; `StartAccepting` starts the accept loops, which are
`unborn` until then, and `ServeReturn` is the return of `wg.Wait()`. The two
log cases of the worker are `WorkerLog`: one read or write adds to the
counters of the managed transport and records them in `logStore` under the
transport's ID. The environment decides whether a dial or handshake
succeeds (`DialOk`, `DialError`, `HandshakeOk`, `HandshakeError`,
`HandshakeClosed`), when a connection arrives (`AcceptReturn`), when a link
breaks (`LinkFail`), when `TrChan` is read (`ReceiveTr`) and when the context
is cancelled (`Cancel`).

Abstractions. A transport ID stands for its entry (edges, type, public flag);
`PublicIDs` says which are public, `FactoryIDs` which have a type with a
factory, `RemoteOf` the edge that is not the local key. A managed transport
is a record `[id, accepted, done, link, LogEntry]`: `done` is its closed `doneChan`, `link` is
`up`, `down` (failed, not yet replaced) or `closed`. `TrChan` is the number of
elements in it, since nothing reads their values. `discovery` and `logStore`
hold the last status and the last log entry given for each ID. A nil dereference, and
`close(tm.doneChan)` by a `Close` that finds the channel closed, set every
`pc` to `panic`: the process is gone. The select of the worker and the
`isClosing` test that follows it are one step, because both read only the
worker's own channels and any interleaving between them is the same as one
before them.

A transport whose link failed offers one error to its worker; the errors that
further reads of the same dead link would offer are not modelled, because
`ManagedTransport.Read` has no source.

### `PortManager.tla`

The registry and the ephemeral-port loop. `Listener`, `AddListener` and each
pass of the loop are atomic (they hold `pm.mu`); the loop is two steps, `Draw`
and `Check`, and what a caller does with a port (`AddListener`, `UsePort`)
is a later step. Ports are `0..MaxPort` with a non-ephemeral part, an
ephemeral part and the last port, which the draw never gives:
`firstEphemeralPort + Intn(last - first)` converted to `uint16`.
`busyAtCall` is a history variable: the ports registered when a caller
entered `NextEmptyEphemeralPort`.

`pm.rand` is used outside `pm.mu`. Two callers that draw at the same time
race on the state of the generator, and the model takes the outcomes the
race has: a number of the range (`Intn` reduces whatever the source gives;
`Draw`), or an index out of the vector of the source and a panic
(`DrawPanics`, enabled while another caller is at its draw too). `panicked`
says that the process has died; no caller takes a step after that.

### `PortRegistry.tla`

What the port manager promises, with each method as one step: `Allocate`
gives a caller an ephemeral port that has no listener at that moment,
`Register` stores a listener under the port given or under any other, over
the listener the port has, and `Release` is an outgoing stream that used the
port it was given. `PortManager` implements it under the mapping
`registered <- listeners`, `given <-` the `port` of a caller that is at
`returned`: the look-up that finds the port absent is the step at which the
loop takes effect, and the draws and failed look-ups before it change
nothing a caller can see.

### `DialHandshake.tla`

The three messages of `src/types.go` 18-172 and the handshake they are made
for. `Sign`, `Hash`, `SessionVerify`, `StreamVerify` and `RespVerify` are the
methods of the source, check for check and in the order of their early
returns (`FirstError` gives the error of the first check that fails);
`StreamSign`, `StreamHash` and `RespSign` repeat `Sign` and `Hash` as the
source does. The variable `kind`, chosen in `Init` and never changed, says
whether the nodes are a client and the server it dials for a session or
clients that dial each other for a stream.

The packages the methods call have no source here and are modelled by what
they do:

| Code | Model |
|---|---|
| `cipher.SignPayload(b, sk)` | the record `[by, of]`: the key, and the hash of the bytes signed |
| `cipher.VerifyPubKeySignedPayload(pk, sig, b)` | `sig.by = pk` and `sig.of` is the hash of `b` |
| `cipher.SumSHA256(b)` | the tagged preimage: equal hashes have equal preimages |
| `encodeGob(v)` | `v` restricted to the fields that are not zero, as gob omits them |
| `ErrorFromCode` | the six errors of the request `Verify` methods, codes 1 to 6 |

The callers are modelled from the specification (section 4.3): `Dial` makes a
request with the reading of `clock` and sends it; `Accept` is a responder
whose `Verify` passes, recording the timestamp for the source in
`lastTimestamp` and answering with a signed response over `Hash`;
`Established` and `DialFailed` are an initiator reading a response, `Timeout`
the handshake timeout. A responder that refuses changes none of its state,
so its refusals are the set `Refusals`, not an action.

`net` holds what honest nodes have sent. The adversary shows a responder any
member of `Requests` and an initiator any member of `Responses`: a message
of `net`, untouched or with one field changed (`Tampered`), under the
signature it came with, under none, or under a signature a compromised node
makes over it (`Signatures`); the requests compromised nodes make in their
own name (`Own`); and responses compromised nodes sign for the pending
request. Delivery is free: any message, to anybody, any number of times, in
any order. `accepted` and `sessions` are history variables the properties
are stated on.

### `Frame.tla`

The frames of `src/types.go` 175-422 as operators over sequences of bytes,
without state. `MakeFrame` builds `type ‖ id ‖ payLen ‖ payload` with the
`uint16` conversion of the length (`ToUint16`); `Type`, `TpID`, `PayLen`,
`Pay` and `Disassemble` take a frame apart; `marshalHandshakeData` and
`unmarshalHandshakeData`, `disassembleAckPayload` are the two payload
formats. A byte has `Base` values instead of 256, so that a `uint16` has
`Base^2` and a payload of `maxFwdPayLen` bytes, and one byte more, fit a
model. `encoding/json` is modelled by what it does for this type: the
document is the sequence of the six fields, a sequence of another length
does not parse, and neither the version nor the addresses nor the window of
a document that parses are checked.

A *message* is what the dispatch loop has of a frame once it has decoded the
payload by the type (`Decoded`). `RequestMessage`, `AcceptMessage`,
`FwdMessage`, `AckMessage` and `CloseMessage` are the messages the five
frame writers of the source write; `AcceptMessage` has the two addresses the
other way round, as `writeAcceptFrame` does.

### `FrameCodec.tla` and `FrameChannel.tla`

`FrameChannel` is what a connection promises the two ends of a session: in
each direction the messages written are read whole, once and in order.
`FrameCodec` is the connection as the code has it, a pipe of bytes in each
direction:

| Variable | Code |
|---|---|
| `wire` | the bytes written to the connection and not yet read |
| `open` | the writer has not closed the connection and the connection is not broken |
| `hdr` | the header `readFrame` has read with its first `io.ReadFull` |
| `rerr`, `werr` | the errors `readFrame` and the last `writeFrame` returned |
| `received` | the frames `readFrame` has returned |
| `sent` | history: the messages whose frame was written in full |

`writeRequestFrame`, `writeAcceptFrame`, `writeFwdFrame`, `writeAckFrame` and
`writeCloseFrame` make their frame and call `writeFrame`, which either writes
all of it (`WriteAll`) or fails with part of it on the wire (`WriteShort`:
nothing, the header but for a byte, the header, all but the last byte).
`writeFrame` wraps the error and returns it, and that is all `WriteShort`
takes from it; that the connection takes no byte afterwards is the
connection's doing (`Breaks`): a `Write` of a `net.Conn` returns short only
with an error, and on a connection without a write deadline, which the
sources never set, that error is the loss of the connection.
`readFrame` is two steps, `ReadHeader` and `ReadPayload`, each enabled when
the bytes it waits for are there, and `ReadError` when the connection ended
before them (`io.EOF` when nothing was read, `io.ErrUnexpectedEOF`
otherwise). `Stream.Write` has no source; `Chunk` cuts what it is given at
`maxFwdPayLen`, as the specification says.

`FrameCodec` implements `FrameChannel` under the mapping `received <-` the
frames returned, decoded. The reference decoder `Frames`, a recursive
operator that cuts a sequence of bytes into frames by their headers, states
the invariant the refinement rests on: the bytes on the wire, after the
header already read, are the frames of the messages not yet read.

### `Session.tla`

The two ends of one session, over the channel `FrameCodec` is shown to
implement: `chan[e]` holds the messages written to end `e` and not yet
dispatched. What is taken from the source: `randID` (the IDs of the parity
of the caller among the draws `RandomIDs`), `isInitiatorID`, the serve
counter, and the messages. The rest follows sections 4.4 to 4.6 of the
specification:

| Action | Specification |
|---|---|
| `Serve`, `Close`, `ReadError` | serve start (counter up); teardown on explicit close and on a read error: session closed, streams closed, connection closed, counter down |
| `DialStream`, `Timeout` | an ID of the right parity that is not in the table of the dialler, a REQUEST with the window of the dialler, the wait for ACCEPT bounded by `StreamHandshakeTimeout` |
| `OnRequest` | refuse with CLOSE when the parity is not the peer's or no listener has the port; otherwise register the stream, answer ACCEPT and put the stream into the accept buffer, waiting while it is full |
| `OnAccept` | the pending stream becomes active with the window of the peer |
| `OnFwd` | count the bytes and acknowledge the offset (`AckOffset`, a `uint16`); CLOSE for an unknown stream |
| `OnAck` | `sendWindow += (offset - lastAckOffset) mod 2^16` (`Credit`) |
| `OnClose`, `Dropped` | release the stream; a frame of a stream that is gone is read and ignored |
| `Write`, `Emit` | a `Write` of `n` bytes; each chunk of at most `maxFwdPayLen` waits until the window has room and takes it |
| `Accept`, `CloseStream` | the application takes a stream from a listener; it closes a stream it holds (CLOSE to the peer) |

`randID` keeps no memory of what it has returned, so `DialStream` can draw
the ID of a stream that has left the table of its end while frames of that
stream are on their way or the peer still holds it. The history variable
`redrawn` holds the IDs drawn in that way (`Left`), `uses` counts the draws,
and neither is read by an action.

Listeners are never removed (`PortManager` has no such method), so the ports
with a listener are chosen in `Init`. Keys, the key exchange and the content
of payloads are left out; a payload is told apart by its length.

### `MCTransportManager.tla`, `MCPortManager.tla`, `MCDialHandshake.tla`, `MCFrameCodec.tla`, `MCSession.tla`

The sets of goroutines, IDs, ports, nodes, addresses and payloads the
configurations use.

## Runs

| Run | Configuration | Result | Shows |
|---|---|---|---|
| `pm` | `PortManager.cfg` | holds | A returned port is in `[first, last)` and was vacant when the call began (`ReturnsVacantEphemeral`); the port manager implements `PortRegistry` (`ImplementsPortRegistry`); under fair draws the retry loop ends unless the range is full or a racing draw has panicked (`NextEmptyReturns`) |
| `tm_safety` | `TransportManager.cfg` | holds | `Serve` re-establishes a known entry and dials a default node while an accept loop accepts the same ID, a user deletes an ID, in the table or not, and workers log, over a public and a private ID: `mgrQty` is the number of running workers (`WorkersCounted`); a transport not told to stop has a worker (`OpenTransportsAreManaged`); the table of a live process holds a closing transport only during a replacement or after `Close` (`TableHoldsOpenTransports`) |
| `tm_close` | `TransportManagerClose.cfg` | holds | The last two with a caller of `CreateTransport` and an accept loop for two IDs, while `Close` and cancellation race dials, accepts and re-dials |
| `tm_live` | `TransportManagerLive.cfg` | holds | A failed link in the table is re-dialed or deleted (`FailedLinkHandled`); once `Close` has returned, a `Serve` that was called returns (`ServeReturnsAfterClose`); two goroutines call `Close` |
| `tm_nil_close` | `TransportManagerNilClose.cfg` | violated | `DeleteTransport` closes nil when the ID is already gone |
| `tm_replace` | `TransportManagerReplace.cfg` | violated | A transport is replaced without being killed |
| `tm_revive` | `TransportManagerRevive.cfg` | violated | A re-dial that ends after `Close` revives a closed transport |
| `tm_accept_loop` | `TransportManagerAcceptLoop.cfg` | violated | A handshake error that says "closed" ends the accept loop |
| `tm_discovery` | `TransportManagerDiscovery.cfg` | violated | Discovery shows a deleted transport as up |
| `dh` | `DialHandshake.cfg` | holds | Session dials and stream dials over the adversary, one node compromised: of two accepted requests of one source the later has the higher timestamp (`AcceptedTimestampsIncrease`); a request accepted in the name of an honest node is one it made (`RequestAuthentic`); a dial to an honest node succeeds only if that node accepted this request (`ResponseAuthentic`) |
| `fc` | `FrameCodec.cfg` | holds | Frames of every type are written to a connection that can be closed and can break inside a `Write`: the bytes on the wire are the frames of the messages not yet read (`WireHoldsUnread`); the reader gets the messages the writer meant, in order (`ImplementsFrameChannel`); every frame written in full is read (`EveryFrameIsRead`) |
| `session` | `Session.cfg` | holds | Two ends dial each other, time out, accept, write, close streams, draw an ID again and close the session in every order: the ends agree on who dialled a stream and on its addresses (`StreamEndsAgree`); a teardown reaches the peer (`TeardownReachesPeer`); and of every stream whose ID was free of an earlier stream when it was drawn: credit is neither lent nor lost (`FlowControl`), once nothing is on its way no end has it without the other (`TablesAgreeWhenQuiet`), a `Write` that waits for credit goes on (`WriteCompletes`) |

State counts (distinct states, two workers): `tm_safety` 934 thousand,
`tm_close` 994 thousand, `tm_live` 57 thousand, `pm` 95 thousand,
`dh` 46 thousand, `fc` 16 thousand, `session` 76 thousand; each run ends
within a minute.

`SessionTwoWrites.cfg` is the instance of `session` with `MaxWrites = 2`,
kept beside the runs and not among them because of its length: 509 thousand
distinct states, half a minute for the four invariants and more than five
minutes with the two liveness properties. All six hold in it
(`tlc -workers 2 -config SessionTwoWrites.cfg MCSession`). It is the
instance in which two Writes follow one another on a stream, so that the
second begins with `lastAckOffset` and `received` past the wrap-around, in
which both ends of a stream write, and in which the FWD and ACK frames of
two streams share the connection.
Every property of a passing run has a mutant in `PROJECT.json`: a faulty form
of one action (`WorkerStartUncounted`, `WorkerDoneAnytime`, `WorkerDoneUncounted`,
`DeleteRemoveKeeps`, `WorkerErrorSkipped`, `FactoryCloseNever`, `DrawOffset`,
`randomEphemeralPortInclusive`, `randomEphemeralPortConstant`, `CheckAtCall`;
for the dial requests `HashWithSig`, `SessionVerifyInclusive`,
`SessionVerifyUnsigned`, `StreamVerifyInclusive`, `StreamVerifyUnsigned`,
`RespVerifyAnyHash`, `RespVerifyAnySigner`; for the frames `ReadHeaderShort`,
`maxFwdPayLenOffByOne`, `WriteShortKeepsOpen`, `ReadPayloadWholeFrame`,
`ReadPayloadOneMore`; for the session `ReadErrorAfterClose`, `AckOffsetOfLast`,
`CreditSigned`, `randIDAnyParity`, `RegisteredAsDialled`,
`closeStreamSilently`, `EmitBelowWindow`, `DroppedButClose`) under which the
property fails.

What the frame and session runs show. `MakeFrame` writes the length of any
payload as a `uint16`; it is the chunking of `Stream.Write` at `maxFwdPayLen`
that keeps a header from announcing fewer bytes than follow. With chunks of
`maxFwdPayLen + 1` bytes both runs fail: in `fc` the reader takes the payload
for the frames that follow, in `session` the ACK of such a chunk repeats the
last offset and its credit is lost. A `Write` that fails leaves part of a
frame on the wire, and `WireHoldsUnread` holds only because a connection
that has failed a `Write` takes no more bytes: were a write deadline set, a
writer that went on after the error would write its next frame behind half
of the last (`WriteShortKeepsOpen`). In `session` the timeout of a dial races the ACCEPT, and a
CLOSE crosses the frames the other end wrote before it read it; the tables
of the two ends still agree once the connection is quiet, because a CLOSE
follows every release and a FWD of an unknown stream is answered with one.

What the dial runs show beyond their invariants. `TypeOK` of `DialHandshake`
says that the hash in every response an honest node sends is the hash of a
request without signature, which is what lets an initiator compare it with
the hash of what it sent although the two ends never saw the same signature
bytes being hashed. Two behaviours the runs reach are refusals of honest
dials that no property forbids: a second dial within one reading of the
clock, and an earlier request delivered after a later one, are both refused
with `ErrDialReqInvalidTimestamp`.

What the violated runs found:

- **`tm_nil_close`** (`part_001:216`). The worker of a dialed transport passes
  its `isClosing` test and re-dials; meanwhile the peer's dial is accepted for
  the same ID and replaces the transport. The re-dial fails and the worker
  deletes *by ID*, which removes the replacement. When the replacement's own
  link fails, its worker deletes the ID again, reads nil, and `tr.Close()`
  runs before the `tr != nil` test of line 223.
- **`tm_replace`** (`part_001:289-299`, `331-339`). The lookup of the old
  transport and the install of the new one are separate critical sections. A
  dial and an accept of one ID that both look up before either installs both
  find nothing to kill; the second install drops a managed transport whose
  worker keeps running outside the table.
- **`tm_revive`** (`part_001:383-398`). `Close` closes a transport while its
  worker is in `dialTransport`; the dial succeeds and `updateTransport` puts
  a live transport under the closed wrapper.
- **`tm_accept_loop`** (`part_001:186-189`). The loop of `Serve` applies
  `strings.Contains(err, "closed")` to every error of `acceptTransport`, so
  the failed handshake of one peer can end the loop for the factory.
- **`tm_discovery`** (`part_001:122`, `218`). `reconnectTransports` reports
  `IsUp=true` after `createTransport` has returned, when the worker of the
  new transport already runs. The link fails, the worker's re-dial fails, and
  `DeleteTransport` reports `IsUp=false`; then line 122 reports `IsUp=true`
  for a transport that is gone.

Two panics the runs reach that no property forbids. In `pm`, two callers
in the loop of `NextEmptyEphemeralPort` draw from `pm.rand` at the same
time (`port_manager.go:52`): the generator is not safe for concurrent use
and the lock of the port manager is not held around it, so that one of the
draws can panic. `NextEmptyReturns` holds with the panic named as a way out
of the loop; stated without it, it fails after three steps. In `tm_live`, a
second call of `Close` closes `tm.doneChan` again (`part_001:232`) and
panics, while the first call may still be closing transports; the
specification describes one call. The liveness properties of the manager
ask nothing of a process that has died.

Two more behaviours the runs reach that no property forbids, because the
specification promises nothing against them. In `pm`, two callers that both
find a port vacant in `Listener` both call `AddListener`, and the second
listener replaces the first (`port_manager.go:39`): `PortRegistry` says so
in `Register`. In `Session`, an end draws an ID again while frames of the
stream that had it are on their way or the peer still holds that stream:
the specification asks that the ID is not in use in the session, and the
dialler knows only its own table. What TLC finds for such an ID, when the
three properties are stated for every stream:

- the late ACCEPT of a dial that timed out answers the new dial, and the
  peer is left with a stream nobody holds (`TablesAgreeWhenQuiet`, fourteen
  steps);
- the peer writes on the stream of the first dial, reads the CLOSE of its
  timeout and registers the stream of the second REQUEST; the ACK of what it
  wrote then credits the new stream, whose window is twice what the dialler
  advertised (`FlowControl`, fifteen steps);
- the ACK of a FWD of the old stream moves `lastAckOffset` of the new one,
  the ACK of its own first chunk then brings no credit, and its `Write`
  waits for ever (`WriteCompletes`, twenty-one steps, with two Writes).

The three properties are therefore stated for the streams whose ID is not in
`redrawn`, and hold for them with redrawn streams beside them;
`StreamEndsAgree` and `TeardownReachesPeer` hold for all streams.

Three behaviours of the manager that TLC finds when asked and that no run
states. A worker whose re-dial failed deletes by ID: when a user's
`DeleteTransport` has taken its transport out of the table and a dial has
installed another under the ID, the worker removes and closes that one
(23 steps under `TransportManager.cfg`). `Close` runs its loop over the
table once: a `createTransport` that passed `isClosing` before `Close` began
installs its transport after the loop, and the transport is open in the
table of a closed manager (ten steps under `TransportManagerClose.cfg`);
`TableHoldsOpenTransports` asks nothing after `Close`. And a user who
deletes an ID the table does not hold meets the nil dereference of
`tm_nil_close` at once.

## Bounds

| Constant | Value | Why it is enough |
|---|---|---|
| `MaxManaged` | 2 | Every race found needs two managed transports of one ID: the old and the replacement. A third adds a second replacement of the same kind. A user calls `CreateTransport`, and a connection arrives, only while there is room for it and for every dial under way (`CanAllocate`); a dial or handshake of theirs succeeds only while there is room (`HasRoom`). The calls of `Serve` and the re-dials of workers are not held back. |
| `MaxBytes` | 0 or 1 | One logged read and one logged write per managed transport give every order of two workers recording under one ID; the counters do not steer the control flow. |
| `KnownEntries`, `DefaultNodes` | none or one ID | One known entry makes `reconnectTransports` dial and report; one default node makes `createDefaultTransports` find the transport or dial it. |
| `IDs` | one to three | Two IDs, one public and one private, where the invariants must hold whatever ID an operation meets and `Close` treats them differently; one ID where the run is about transports that follow one another under it; `tm_close` adds a third ID whose type has no factory, for which `CreateTransport` fails with "unknown transport type". |
| `TrChanCap` | 1 | The code has 9. With capacity 1 the second install already finds the channel full, so the blocked send is reached with two transports. |
| `Servers`, `Dialers`, `Acceptors`, `Users` | at most one each | One process of each kind together with the workers gives every pair of operations on one ID. |
| `Closers` | none, one, or two in `tm_live` | One caller of `Close` races every other operation; the second is there for the call that finds `doneChan` closed. |
| `MaxPort`, ephemeral range | 4, `2..3` | Two non-ephemeral ports, two ephemeral ones and the excluded last port: the range can fill up and the conversion can wrap. |
| `Callers` | 2 | The races of the port manager are between two callers. They are not taken as interchangeable, because the run checks a liveness property. |
| `Initiators`, `Responders`, `Compromised` | one node each | A replay needs one source and one responder, a forgery one key the adversary holds; the compromised node is also the second destination a request can be redirected to. Two honest nodes in both roles together with a compromised one pass half a million states without an end in sight and are not run. |
| `MaxTime` | 2 | Two readings of the clock give requests with equal and with increasing timestamps, and a later request delivered before an earlier one. The clock starts at 1 because `lastTimestamp` starts at 0. |
| `MaxAccepts` | 2 | A replay is the second acceptance of one request. It bounds only the history `accepted`. |
| `MaxPort`, `NoiseMsgs` | 1, one message | One valid port beside the null port 0, one noise message beside none: enough for a field to be changed into another value and into its zero value. |
| `Base` | 16 in `fc`, 2 in `session` | The values of a byte. In `fc` the frame types 10 and 11 must fit a byte and a `uint16` has 256 values, so that data of 256 bytes, one more than a frame holds, is written; in `session` no byte is looked at, a `uint16` has four values and the offsets wrap within one `Write`. |
| `Conns` | one direction | Nothing in the codec connects the two directions of a connection; with both, the run passes 430 thousand states without an end. |
| `MaxFrames` | 3 | A frame cut short, a frame behind it and one more: the reader is out of step with the second and shows it with the third. |
| `StreamIDs`, `Offsets`, `Data` | one ID and one offset that use both bytes; a payload of one byte and one of `MaxUint16 + 1` bytes | A byte order or field position that differs between writer and reader changes a number with two different bytes; the long payload is cut by `Chunk` to the greatest a frame holds. |
| `RandomIDs` | `{0, 1, 2}` | Two IDs of the initiator and one of the responder: two streams dialled from one end, and streams dialled from both. |
| `MaxDials` | 2 | Two dials in a behaviour: both from one end, of two IDs (they fill the accept buffer of the peer) or of one ID twice, or one from each end. With three dials (2.7 million states, three minutes, invariants only) the invariants hold as well: a stream of a clean ID beside a redrawn one. |
| `AcceptBufferSize` | 1 | The code has 20. With room for one stream the second REQUEST for a listener already finds the buffer full and the dispatch loop waits. |
| `Windows`, `Writes`, `MaxWrites` | `{maxFwdPayLen}` (3), `{5}`, 1 | One `Write` of five bytes through a window of three is two chunks, the second of which waits for the ACK of the first, and the offsets 3 and 1 of their ACKs lie on both sides of the wrap-around. A second `Write` multiplies the states by seven: `SessionTwoWrites.cfg` (see Runs). |
| adversary | one field changed per delivered message | A forgery that changes two fields under a kept signature passes only if the signature covers neither, which a change of either alone already shows; under a compromised key it is a request of `Own`. |

## Fairness

The invariants and action properties need no fairness (`pm` checks its
invariants under the fair specification, which has the same reachable
states). The liveness properties assume:

- weak fairness of every step a goroutine takes by itself (`Step`,
  `manageTransport`, the start-up of `Serve`, the accept loop, `CloseTable`,
  `CloseReport`, `FactoryClose`): the Go scheduler runs every runnable goroutine;
- that a dial or a handshake returns, with either result: they are bounded by
  the context and by timeouts of one minute and 30 seconds;
- strong fairness of the send on `TrChan` and weak fairness of its reader: a
  blocked sender is served when there is room, and the node reads the
  channel. The reader is not in the repository, so this is asked of the
  environment: without it `FailedLinkHandled` fails for a transport whose
  installer waits at the full channel, in the table and without a worker;
- for the port manager, strong fairness of the draw of a vacant port (draws
  are independent and uniform);
- for the frame codec, weak fairness of `readFrame`: the dispatch loop of a
  session is a goroutine that does nothing but call it;
- for the session, weak fairness of the goroutine that serves each end
  (`ServeLoop`: serve start, dispatch, the read error at the end of the
  connection) and of the next chunk of a `Write` that has the credit for it;
- for the session, that applications accept from their listeners (weak
  fairness of `Accept`). This is asked of the environment, not given by the
  code: the dispatch loop waits for room in the accept buffer, and without
  the assumption TLC shows a session that reads neither the ACKs its writers
  wait for nor the end of the connection because one listener is not
  accepted from.

Nothing is assumed of calls by users, arriving connections or failing links:
an accept loop that waits in `Accept` leaves only when its factory is closed.

`FailedLinkHandled` is stated for transports that have not been told to stop:
a worker whose re-dial ends after `Close` leaves a live link under a closed
wrapper and then exits, which is the finding of `tm_revive`, not a failure of
the worker to react.

The dial runs check safety only and assume no fairness. Deadlock is checked
in them: an initiator can always dial or give up waiting.

Deadlock is not checked for the transport manager: after `Close`, after a
panic, or when the bound `MaxManaged` is used up, the manager has nothing
left to do. Nor is it for the port manager, whose process may die of the
panic of a draw, and for the frame codec and the session, which end when
the connection is closed and everything written is read.

## Not modelled

- `Factories` and `Local` of the manager: they read the configuration.
- The errors of `UpdateStatuses` and `Record`: the manager only logs them.
- The raw transport an installer holds between `Accept` and the install: the
  early returns of `acceptTransport` (lines 315, 326) drop it without closing
  it, and no variable of the model shows that yet.
- The `String` methods of `Addr`, `FrameType` and `Frame` and
  `Addr.Network`: they format for logs.
- A reader that closes its own end of a connection, and both directions of a
  connection in one run of the codec.
- `Stream.Read`, the key exchange and the encryption of payloads: they have
  no source, and nothing the session model checks depends on them (an ACK
  acknowledges what was received, not what was read).
- The ports of a session's streams are not taken from `PortManager`: the
  two modules are checked apart, `Session` with the listeners as a set
  chosen at the start.
- The integer width of `Timestamp` (`int64` nanoseconds): no arithmetic is
  done on it, only comparison.
- The two command-line entry points: flags and process start-up, no state.
- A `Sign` that fails: `cipher.SignPayload` returns an error that `Sign`
  passes on and on which `MakeSessionDialRequest` panics. `Sign` of the
  model always succeeds; no property is about a request that was not made.
- A write deadline on the connection of the codec: the sources set none.
- A crash and restart of the manager. The process keeps nothing on disk;
  what outlives it are the entries of the discovery and the log store, and a
  manager that starts with them is `Init` with `KnownEntries` and the call of
  `Serve` that re-dials them, which the runs have.
- The contents of frames, signatures and keys in the transport manager: the
  settlement handshake has no source and is an environment step.

## Plan

Done: `PortManager` with the abstract `PortRegistry` it implements;
`TransportManager` with every operation of the manager, the start-up of
`Serve` and the log cases included; `DialHandshake` with the three messages
and an adversary between the ends; `Frame` and `FrameCodec` with the abstract
`FrameChannel`; `Session` from the specification.

1. `TransportManager`: the raw transport an installer holds, so that the
   transports dropped by the early returns of `acceptTransport` are visible.
2. `Session`: the three findings about a redrawn ID as runs of their own,
   with the properties stated for every stream.
3. `Session` over `PortManager`: `DialStream` with the port
   `NextEmptyEphemeralPort` returns, a listener registered while REQUESTs
   for its port are on their way.

Considered and left out, with the reason:

- Two managers composed over a link. The environment of the one manager of
  `TransportManager` already does whatever a peer can do to it (a connection
  arrives for any ID at any time, a link fails at any time, a dial or a
  handshake ends either way), so that every behaviour of one manager in the
  composition is a behaviour of the runs; what the composition would add is
  that both ends hold a live transport again after a failure, which the
  behaviours of `tm_nil_close` and `tm_discovery` already refute.
- An abstract specification of the table of the manager (an ID is absent,
  live or stopping). The code takes every transition between the three, the
  replacement of a live transport included (`tm_replace`), so that the
  abstract specification it implements forbids nothing.
- The relay between two sessions. Neither the sources nor the specification
  say how a server maps the stream IDs of one session to those of the other,
  and `Session` has the two ends of one connection.

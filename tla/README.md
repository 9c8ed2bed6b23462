# TLA+ models of bittorrent-client

This directory specifies the concurrent and failure-prone parts of the client
in TLA+, checks them with TLC on small instances, and proves the most important
invariants with TLAPS for every instance. `PROJECT.json` lists the runs, the
mutants, the source lines behind each definition, the hazards and the theorems.

Run from this directory, for example:

    tlc -workers 2 -config PoolSafety.cfg PoolMC
    tlapm PoolProofs.tla

## 1. The system

`bt` is a command-line client. `download-piece` parses a metainfo file,
announces to a tracker, dials the returned endpoints concurrently until one
handshake succeeds, downloads one piece from that peer block by block, checks
its SHA-1 and publishes it at the output path.

| Component | State | Operations | Interacts with |
| --- | --- | --- | --- |
| candidate pool, `internal/peerconn/pool.go` | channels `jobs`, `results`, `candidates`, `slots`, `done`; `exhaustErr`; `closeOnce`; a cancellable context | `NewPool`, `Next`, `Close`; goroutines `feedJobs`, `runWorker`, results closer, `collect` | calls `dial` in the workers; used by `DialFirst` |
| connection lifetime, `conn.go` | the connection's deadline, one watcher goroutine per phase, the phase's context | `dial`, `watchContext` and the stop function it returns | workers, `waitUntilReady`, block loop |
| peer session, `session.go` | `choked`, `peerPieces`, `bitfieldAllowed`, position in the byte stream | `NewSession`, `Read`, `FetchPiece`, `waitUntilReady` | reads frames of peerwire, bounded by `watchContext`, hands blocks to `onBlock` |
| download-piece, `cmd/bt/main.go` | temporary file, output path, exit status | `downloadPiece` | metainfo, tracker, `DialFirst`, `FetchPiece`, the file system, other processes |
| `DialFirst`, `conn.go` | a pool | `Next`, then a deferred `Close` | pool, dial, the commands |
| peer wire, `internal/peerwire` | the position in a stream; the bits of a `Bitfield` | `ReadFrame`, `Write*`, `New*`, `Parse*`, `NewBitfield`, `SetPiece`, handshake codec | session, dial |
| metainfo, `internal/metainfo` | none | `Open`, `toTorrentFile`, `splitPieceHashes` | all commands |
| tracker client, `internal/tracker` | one HTTP request and its body | `Announce`, `buildTrackerURL`, `decodeAnnounceResponse` | all network commands |
| other commands, `cmd/bt/main.go` | none | `inspect`, `announce`, `handshake` | the above |

### What is hard

* **Concurrency.** The pool runs a feeder, up to four workers, a closer and a
  collector beside callers of `Next` and `Close`. A budget of slots is acquired
  in one goroutine and released in another, on one of five paths. `Close`
  drains the channel that `Next` receives from. `exhaustErr` has no lock; the
  close of a channel orders its write and reads.
* **Cancellation.** A `select` with `ctx.Done()` may take either case after
  cancellation, so after a cancellation each result may be delivered, queued,
  dropped or received. A watcher goroutine that wakes as its phase ends could
  set a deadline on a connection that already has a new owner.
* **Time.** The deadline of a connection and the timer of a context fire
  independently, so an I/O call can time out while `ctx.Err()` is still nil.
* **An arbitrary peer.** Bitfields after Have, Choke between two blocks, stale,
  duplicate or unrelated Piece messages, silence.
* **Files.** The output path is examined long before it is written; other
  processes race for it; a crash can come between any two steps.
* **Streams.** A frame arrives and leaves in parts of any size; the peer
  declares the length of what is allocated; unknown messages must be skipped to
  their last byte; a write can fail with half a frame on the connection.
* **Crossing messages.** The peer chokes and unchokes while our requests are
  under way; both sides act on views that are late.
* **A tracker that may say anything, or nothing.**
* **Arithmetic.** Block offsets are `uint32` and may reach its limit; lengths and
  durations are `int64`, ports are narrowed to 16 bits.

What makes each component correct:

| Component | Correct when |
| --- | --- |
| candidate pool | slots are neither lost nor released twice; no connection leaks or is closed under its owner; exhaustion covers every endpoint; `Close` leaves nothing running; `Next` and `Close` return |
| connection lifetime | a phase ends in time, is interrupted only by its own context, reports cancellation as such, and leaves a clean connection; `dial` leaks nothing |
| peer session | requests go out only to a peer that serves the piece; the delivered blocks tile it and each answers its own request; advertised pieces are not forgotten |
| download-piece | only complete, verified data is published, no file is replaced without `--force`, a success leaves no temporary file and a failure only one that could not be removed |
| `DialFirst` | the returned connection is usable although its dial context has been cancelled; nothing else is left; it returns |
| peer wire | the stream implements an ordered queue of whole frames; the bits implement a set of pieces |
| metainfo | the pieces tile the content and each has one hash |
| tracker client | the request has our fields once and the well-formed rest of the URL's query; a response is taken exactly as sent or not at all; the call returns |

## 2. Modules

| Module | Role |
| --- | --- |
| `Pool` | feeder, workers, collector, `Next` and `Close` |
| `PoolProps` | its invariants, liveness properties and the refinement of `Discovery` |
| `Discovery` | abstract specification: the life cycle of an endpoint |
| `PoolMC` | endpoints and symmetry for TLC |
| `PoolProofs` | theorems about `Pool` |
| `Conn`, `ConnProps`, `ConnProofs` | connection, contexts, watchers; properties; theorems |
| `Session`, `SessionProps`, `SessionProofs` | the session against an arbitrary peer; properties; theorems about it and about `Transfer` |
| `Download`, `DownloadProps`, `DownloadMC`, `DownloadProofs` | processes of `download-piece` on one file system; properties; an instance; theorems |
| `DialFirst`, `DialFirstMC`, `DialFirstProofs` | composition of `Pool` and `Conn` with the caller of `DialFirst`; an instance; theorems |
| `Transfer` | composition of `Session` with a well-behaved peer over ordered channels (its theorems are in `SessionProofs`) |
| `Message` | constructors, parsers and length rules of the messages, on bytes |
| `Wire`, `WireProps`, `WireMC`, `WireProofs` | one direction of a connection: handshake, writers, `ReadFrame`; properties; an instance; theorems |
| `Framing` | abstract specification: an ordered queue of frames that may break |
| `Bitfield`, `BitfieldMC`, `BitfieldProofs` | the bits of a bitfield; an instance; theorems |
| `PieceSet` | abstract specification: a growing set of pieces |
| `Metainfo` | the layout checks of a torrent and the byte range of a piece |
| `Tracker` | one announce: request, response, decoder |
| `NewPool` | argument checks, deduplication and channel sizes of `NewPool` |
| `Command`, `CommandMC`, `CommandProofs` | composition of `Metainfo`, `Tracker` and `NewPool` in the order of `downloadPiece`; an instance; theorems |

`Command` ends where `NewPool` has returned, `DialFirst` starts there, `Transfer`
and `Session` follow on the connection, and `Download` surrounds all of it with
the files.

Some definitions stand directly before a mapped one and carry a name that says
how they differ from it (`LinkTrustsCheck` before `LinkAllowed`): these are
plausible bugs. `PROJECT.json` names, for every property, the one it must detect.

### Pool

A rendezvous on an unbuffered channel (`jobs`, `results`) is one action of both
goroutines: `Dispatch`, `Deliver`. Every case of a `select` is an action.
`candidates` is the content of the buffered channel, `slots` the number of
tokens. A connection is named by its endpoint, since the feeder offers each
once. `wpc`, `cpc` and `gpc` are the program counters of workers, collector and
clients; the feeder's is `fed` with `jobsClosed`. `owned` records what `Next`
has handed over and `reported` the failures that an exhaustion error joins; both
are history of what callers saw. A dial ends with success, `context.Canceled`,
or another error, and a failed one may or may not return a connection, as the
code allows a `dialFunc` to do. The check in `Next` after `releaseSlot` is a
step of its own, so cancellation can come in between.

That `uniqueAddrs` has no repetition, and what `validatePoolArguments` enforces,
are assumptions here and established by `NewPool` (`PoolPreconditions`). A caller closing a connection it owns is
not an action: `owned` connections are outside the pool, and the model shows
that the pool never touches them.

### Conn

One connection goes through numbered phases: 1 is `dial` under the attempt
context, 2 is `waitUntilReady`, later ones are block requests. A watcher is kept
per phase, so one that outlives its phase acts on the next. `due[p]` is the
clock passing the deadline of phase p, `ctxDone[p]` its context's `Err()`. Each
phase ends with `cancel()`, the step that would wake a watcher still waiting.
All I/O of a phase up to the last call is one state (`io`), because partial
reads, keep-alives and unrelated messages change nothing here.

### Session

Each message read is an action on the fields of `Session` plus the control of
`FetchPiece`. `Messages` are the frames that `ReadFrame` accepts, reduced to
what `Read` and `FetchPiece` tell apart; keep-alives and unsupported frames are
skipped by `Read` and change nothing. Contexts appear as errors that an I/O
call, a context check or `watchContext` may return. `usable` becomes false on
the read and protocol errors after which the comment on `Read` asks the caller
to close the connection; no call is made afterwards. `requested` and `delivered`
are history of the current call. Offsets and lengths wrap at `UintSize`.

### Download

Several processes run `downloadPiece` for one output path. After publication
the output names the inode of the process's temporary file, so `output = p`
means "the file written by p", and its content is `blocks[p]`. `Link` fails if
the output exists, `Rename` replaces it atomically, `CreateTemp` gives each
process its own name. Other programs create and delete the output at any time,
and a process may crash between any two steps. Both removals of the temporary
file may fail: the one after `os.Link`, whose error the command returns
(`Unlink`), and the deferred one, whose error it ignores (`Defers`). `stuck`
records the second. `CleanExit` says that a file stays only then, and that the
command has not reported a success in that case; it would if the first error
were ignored too.

### DialFirst

All goroutines of `Pool`, but the dial of one endpoint (`Tracked`) is the first
phase of `Conn` instead of an attempt that is assumed to end. The models meet in
four places: a worker calls `dial` (`BeginDial`), `dial` returns (`EndDial`),
the pool closes a connection (`Follow`), the end of the pool's context reaches
the attempt's (`Propagate`). An attempt that the pool's cancellation ends fails
with `context.Canceled` or with an I/O error, inside `DialContext` as well as
after it (`attemptErrors`). `dpc` is the control of `DialFirst` and its
caller, who begins a session on the connection (phase 2) and closes it.

### Transfer

`Session` with the messages it writes put on `toPeer` and those it reads taken
from `toUs`; the peer is external and obeys the protocol. Delivery in order is
what `Wire` shows. `givenUp` collects the requests that calls gave up because of
a Choke: the peer may still answer one if it unchoked before it read the request,
and a later call for another block then meets that answer and reports a protocol
error. `HonestPeerNotBlamed` looks at every step that ends the session on reading
a message of a well-behaved peer: the message must be such an answer. Messages
that are not, before or after a call was given up, are never held against it.

### Message, Wire, Framing

A byte is a number below `Base` and an integer has `uint32Size` of them, most
significant first; the limits (`maxMsgLen`, `MaxBlockSize`) are small.
`WriteSome` and `ReadSome` move any number of bytes, so writes and reads are cut
anywhere; `WriteFails`, `ReadFails` and `CloseConn` may come between them. `rpc`
is the `io.ReadFull` or `io.CopyN` that the reader is in. The sender is this
package, or another implementation that sends unknown messages and frames with
wrong lengths (`WriteForeign`). `Meaning` says what a complete frame means by
the parsers of its message, `ReadFrame` decides by its own length checks:
`ImplementsFraming` compares the two. In `Framing` a frame is delivered only
when it is completely sent, in order, and only a frame that violates the format
is called malformed.

### Bitfield, PieceSet

A byte is the set of its one bits. `instance` tells one `Bitfield` from the next
that a caller makes. `PieceSet` is the set of pieces for which `HasPiece` is
true.

### Metainfo, Tracker, NewPool, Command

`Metainfo` works on lengths only: the decoded info dictionary has two `int64`
and the number of bytes in `pieces`; `wrap` and `quotient` are Go's arithmetic.
`Tracker` keeps the shape of a decoded value that the decoder tells apart: its
type, an integer in the range of `int64` or `uint64`, whether an IP address and
a peer ID are valid. The query of the announce URL is a set of pairs, some of
them malformed (a semicolon or a wrong percent escape). `Query` is
`url.URL.Query`, which drops those without an error, so a parameter of the announce
URL in such a pair, a passkey for example, is missing from the request;
`RequestExact` is about the others. `buildQuery` makes the calls of `Set`, which
replace every value of a key. The 2 MiB limit and a broken body are the failures of
`DecodeFails`. The command's timeout is the context's and the HTTP client's; it
may strike at any step of the exchange.

`NewPool` goes through `addrs` one at a time. An endpoint is a host and whether
it is written as a mapped IPv6 address. `Command` turns the peers of the response into
endpoints and passes them on under the same context. `DialOptions` are those of
any caller; the commands use one.

## 3. Runs

| Run | Instance | What it shows |
| --- | --- | --- |
| `pool_safety` | 3 endpoints, 2 workers, 2 slots, 2 clients, symmetry of workers and clients; 398k states | `SingleHolder`, `SlotAccounting`, `OpenIffHeld`, `CollectorNeverBlocks`, `ExhaustionComplete`, `CloseQuiesces` |
| `pool_liveness` | 2 endpoints, 1 slot, 2 workers, 2 clients | `CloseTerminates`, `NextReturns`, `GoroutinesExit`, and that `Pool` implements `Discovery` (`ImplementsDiscovery`) |
| `conn` | 4 phases, all with deadlines but the dial | `CleanHandoff`, `OwnDeadlineOnly`, `CancellationReported`, `PhaseEnds` |
| `dial_first` | 2 endpoints, 1 slot, 2 workers; 290k states | `ReturnedUsable`, `NothingLeft`, `DialFirstReturns` |
| `session_any_peer` | 2 pieces, lengths 0, 1, 4, 7 with blocks of 2 and 3-bit integers | `RequestsOnlyWhenServed`, `BlocksTilePiece`, `BlocksAnswerRequests`, `PiecesNeverForgotten` |
| `transfer` | 2 pieces of 2 blocks, 3 calls, 2 Chokes; 183k states | `ViewsConverge`, `HonestPeerNotBlamed`, `CallAnswered` |
| `wire` | a handshake and up to 2 frames, bytes of base 16, integers of 2 bytes, messages of at most 8 | `HandshakeExact`, `ProgressReported`, `CheckedBeforeAllocation`, `FrameDelivered`, `ImplementsFraming` |
| `wire_request` | one Request with a length of 0 or above the limit | violates `RefusedPayloadsAreMalformed`, see Findings |
| `bitfield` | piece counts around 0, 8 and the limit 10, payloads of 5 byte values | `WrittenIsParsable`, `ImplementsPieceSet` |
| `command` | 5-bit `int64`, 2-bit ports, queries with our keys, repeated keys and malformed pairs, lists of up to 3 peers; 306k states | `PiecesTile`, `RangeExact`, `RequestExact`, `ResponseExact`, `PoolPreconditions`, `AnnounceReturns` |
| `download_files` | 3 processes, one with `--force`, pieces of 2 blocks; 507k states | `OnlyVerifiedPublished`, `CleanExit`, `NoOverwriteWithoutForce` |
| `download_large_piece` | as above | violates `LargePiecesRejected`, see Findings |

Type correctness of `Pool`, `Conn`, `Session` and `Bitfield` is proved and not
run again.

### Bounds and why they are enough

`Pool`, `Conn`, `Session`, `Download` and `Bitfield` have no counter that needs
a cap: they are finite for finite constants. The named bounds of the others are
`MaxFrames` and `Continue` (`Wire`), `MaxCalls` and `MaxChokes` (`Transfer`),
`MaxPiecesBytes`, `MaxIndex`, `Followed` and `DefaultFlags` (`Command`).

* *Pool.* Three endpoints on two slots make a worker block on the budget, fill
  the channel, and leave an endpoint to feed afterwards. Two workers race for a
  slot and for the collector. Two clients give two racing `Next` calls, `Next`
  against `Close`, and two `Close` calls (`closeOnce`); clients repeat calls
  without limit. The liveness run has one slot for two workers, where a blocked
  worker can only go on when a slot is released or the context ends. The
  theorems in section 5 need none of these bounds.
* *Conn.* Phase 1 is dial, 2 the setup, 3 and 4 two blocks: every kind of
  hand-over between two phases occurs.
* *Session.* Seven is the largest 3-bit length and takes four blocks with a
  short last one, so the last addition comes as close to wrapping as `uint32`
  allows; 4 divides evenly, 1 is less than a block, 0 is refused. A Have may
  name the first missing piece.
* *Download.* Two processes without `--force` race through `os.Link`, a third
  replaces their output. The last piece is shorter than the others and still
  has two blocks. `--piece` is negative, valid, or one too large.

* *DialFirst.* With one slot the second endpoint can be dialled only after the
  first has been claimed or has failed; either is the tracked one. More slots
  and endpoints are in `pool_safety`.
* *Transfer.* A call has two requests; a Choke can strike before, between and
  after them; with two Chokes a call that was given up is followed by one that
  meets its answer.
* *Wire.* Lengths lie on both sides of every limit that `ReadFrame` checks. A
  second frame of every kind follows an unknown message or a Choke (`Continue`),
  which is where a reader that stopped at a wrong byte would show.
* *Bitfield.* No byte, a full byte, one and two bits more, one beyond the limit.
* *Command.* All layouts of a 5-bit `int64` are opened with one command line;
  all command lines and responses are explored with one layout of one piece. The
  responses hold intervals around zero, around the largest whole number of
  seconds and ones that wrap to a positive duration, ports that wrap to a valid
  one, and lists with one endpoint in both forms.

### Fairness

`Pool`: weak fairness of feeder, each worker, closer, collector and each call
in progress: the Go scheduler runs every runnable goroutine, and
`AttemptTimeout` ends every dial. Nothing obliges clients to call `Next` or
`Close`, the parent context to end, or a `select` with two ready cases to take a
particular one. `CloseTerminates` needs no `Next`; `NextReturns` needs no
`Close` and no other `Next`.

`Conn`: weak fairness of the caller outside I/O, of clock, timers and watchers,
of `DialContext` returning once its context is done or due, and of an I/O call
returning once its deadline has expired. The peer may stay silent for ever.

`DialFirst`: the fairness of both, without `Pool`'s assumption that the tracked
dial ends. `Transfer`: `FetchPiece` runs on, the peer reads, answers and unchokes
who is interested; no deadline is needed. `Wire`: a writer inside `writeFull` and
the reading goroutine go on; nobody has to call. `Command`: the client's own
steps and the timer; the tracker may stay silent for ever.

`Session`, `Bitfield` and `Download` are checked for safety only.

Deadlock is checked in the `Pool`, `Bitfield` and `Download` runs: a client may
always call, other programs may always touch the output. The others end: a
connection is closed or unusable, a command or `DialFirst` has returned.

## 4. Findings

`download_large_piece`: `README.md:60` of the repository says "Pieces larger
than 16 KiB are rejected", and the comment at `cmd/bt/main.go:219` still calls
`downloadPiece` a single-block transfer. The code has no such check: it accepts
any length that fits `uint32`, and `FetchPiece` loops over the blocks. The run
shows a piece of two blocks downloaded and published. The documentation is
behind the code.

`wire_request`: `internal/peerwire/errors.go:5` says "ErrMalformedFrame reports
a received peer-wire frame or message payload that violates the wire format".
`ParseRequest` (`message.go:336`) refuses a zero length with
`errors.New("%w: ...")`, which does not interpret `%w`, and a length above
`MaxBlockSize` with an error that wraps nothing, so `errors.Is(err,
ErrMalformedFrame)` is false for both. No caller in the program parses requests
yet.

## 5. Proofs

Assumptions, each evaluated by TLC on the instances of the runs:

* `PoolAssumption`: finitely many endpoints, `uniqueAddrs` without repetition and
  not empty, a positive budget, at least one worker. `NewPool` establishes it;
  `PoolIsWellFormed` below proves that it does.
* `ConnAssumption`: at least one phase; all contexts have a deadline, except
  perhaps the dial's.
* `SessionAssumption`: a positive block size below the integer width, which also
  bounds piece count and lengths. `TransferAssumption`: the bounds on calls and
  chokes are numbers.
* `DownloadAssumption`: positive piece and block sizes.
* `BitfieldAssumption`: piece counts are integers, bytes have eight bits.
* `CommandAssumption`, `TrackerAssumption`: the constants of the code are
  positive, widths and bounds are numbers. `ResponsesAssumption`: a decoded
  response has the shape that the bencode library's Go types give it (a list has
  elements, an integer a value); every wrong type, value and length is allowed.
* `MessageAssumption`, `WireAssumption`: what is written is bytes, and a handshake
  has the field sizes that its own first byte and the fixed arrays of the
  `Handshake` struct give it; its protocol name need not be the right one.
* `DialFirstAssumption`: the observed endpoint is one of the pool's, and the only
  client of the pool is the caller of `DialFirst`, which does not share it.

The sets of workers, clients and processes are arbitrary, also infinite.

`PoolProofs`

* `TypeCorrect`: `TypeOK`, with `HeldTyped` (a worker, the collector or a client
  in a state in which it holds an endpoint does hold one).
* `OneHolder`: `SingleHolder`, inductive together with the type invariant. An
  endpoint moves from the unfed rest of the list to a worker, the collector,
  the channel, a client and its owner; each action moves one endpoint one place.
* `SlotsAccounted`: `SlotAccounting`, that is `slots = Cardinality(InBudget)`.
  It is inductive only with `SingleHolder`: releasing a slot removes an endpoint
  from `InBudget` only if no other holder has the same one, and acquiring one
  adds an endpoint that was not there.
* `BudgetHolds`: `BudgetRespected`, from the two before and `slots` being at most
  the capacity.
* `NothingLeaks`: `OpenIffHeld`. Inductive with `SingleHolder` and `DeliveredOpen`
  (a successful result between worker and collector has an open connection): a
  close takes the connection from its only holder.
* `CloseLeavesNothing`: `CloseQuiesces`. `Shutdown` says what the end of each
  goroutine implies for the ones before it in the chain context, workers, result
  channel, collector, `done`, and that a client waiting for `done` or draining has
  cancelled the pool.
* `ExhaustionReported`: `ExhaustionComplete`. `Settled` follows every endpoint: each
  was handed in by the caller (`FromTracker`), is always in some place until it
  has failed, was delivered or the pool is cancelled (`Somewhere`), and a failure is
  recorded before the collector ends (`FailuresSettled`).
* `CollectorHasRoom`: `CollectorNeverBlocks`. The buffered channel holds distinct
  endpoints (`SingleHolder`), each of which has a slot (`SlotAccounting`), as has
  the one the collector is about to send. So they are at most as many as the slots
  and as the endpoints, and the capacity is the smaller of the two.
* `PoolImplementsDiscovery`: the refinement of `Discovery`. In a state with a
  single holder per endpoint, the place of the endpoint determines its abstract
  status (`StatusAt`), and each action of `Pool` moves at most one endpoint
  (`OneMoves`), along an edge of the life cycle, or none (`SamePlaces`).

`ConnProofs`

* `ConnTypeCorrect`, `HandoffIsClean`, `DeadlineIsOwn`, `CancellationIsReported`,
  `DialLeaksNothing` follow from one inductive invariant `IInv`: the type
  invariant; which deadline and which watchers can exist at each control point
  of a phase (`PhaseShape`, `WatcherShape`: only the running phase can have a
  live watcher, and past `<-stopped` it has none); a timeout is pending only
  with its cause (`TimeoutShape`); `CancellationReported`; and the state of the
  connection while dialling (`DialShape`). The named properties are not
  inductive: that no watcher is alive at `idle` holds because `ClearDeadline`
  waits for `exited`, three steps earlier.

`SessionProofs`

* `SessionTypeCorrect`, `ServedRequests`, `BlocksTile`, `BlocksAnswer` and the
  action property `PiecesKept` follow from one inductive invariant `IInv`, for
  every piece count, piece length, block size and integer width. `WindowShape`
  (nothing is advertised while a Bitfield is still allowed) makes reading a
  message monotonic in `peerPieces`; so a piece found in `waitUntilReady` is
  still there at every request (`ReadyShape`). `LoopShape` ties `blockOffset` to
  the end of the delivered blocks and the outstanding request to the rest of
  the piece. The arithmetic is in `BlockLengthFits`: below the piece length, the
  block length is positive and neither the subtraction nor the addition wraps.
* `ViewIsPeersDelayed`, `NoFalseBlame` are about `Transfer`: `ViewsConverge` and
  the action property `HonestPeerNotBlamed`, for channels of any length. The
  inductive invariant `TInv` adds what a well-behaved peer has put in the channels
  (`HonestQueue`, a Bitfield only at the front); that nothing is known or under way
  until the peer has opened (`Window`); and `OneRequest`. A request or an answer is
  `Fresh` if it belongs to no request that was given up. There is at most one fresh
  one, it is the request that the current call waits for, and it is in exactly one
  of three places: on its way to the peer, pending there, or answered on its way
  back (`Waiting`); between two requests there is none (`Clean`). Giving up a
  request makes it stale and nothing else (`GiveUp`). So a Piece message that is
  not the block wanted is a stale one (`ReadNextStep`), and no other step both
  takes a message and ends the session (`OnlyReadsShorten`).

`DownloadProofs`

* `PublishedIsVerified`: `PublishedShape` records what each control point has
  established (all blocks written, then all genuine) and that a published file
  belongs to a process that will not write again.
* `ExitIsClean`: `CleanExit`, from `CleanShape`: nothing has to be cleaned up
  before `os.CreateTemp`; a process that reaches its deferred calls has failed, or
  the file is gone by `os.Rename` or the first `os.Remove`, so the deferred one
  can leave a file only of a process that reports an error.
* `NeverOverwrites`: a property of every single step; it rests on `os.Link`
  alone and not on the earlier `os.Lstat`.

`BitfieldProofs`

* `BitfieldTypeCorrect`, `SpareBitsStayClear`: the inductive invariant is `TypeOK`
  and `WrittenIsParsable` together. Every position below the piece count has a
  byte (`ByteExists`) and a bit that is not spare (`MaskNotSpare`).
* `ImplementsSet`: the refinement of `PieceSet`. Two positions in one byte have
  different bits (`MaskInjective`), so `SetPiece` adds one piece and no other
  changes; a new `Bitfield` is empty, a parsed one any set of pieces.

`WireProofs`

* `ProgressIsReported`: `ProgressReported`. `WriterInv` says where the bytes of the
  call in progress stand: the stream is what it was at the start of the call and a
  prefix of the data, whose length is `written`.
* `HandshakeIsExact`: `HandshakeExact`. The stream begins with a prefix of the
  handshake's bytes (`WriterInv`), so each `io.ReadFull` of the reader cuts out the
  field that the writer put there (`Parsed`, from the offsets in
  `HandshakeLayout`); `Outcome` carries this to the values the reader returns.
* `LengthCheckedFirst`: `CheckedBeforeAllocation`. `ReaderInv` has `Checked` at the
  allocation of a payload; `Format` turns the rule in the code into the length
  bounds of the message formats.

`CommandProofs`

* `PieceHashesTile`, `PieceRangeExact`: `PiecesTile` and `RangeExact`, for every
  integer width, number of pieces and piece length. `CountExact` is the
  arithmetic of the ceiling division without overflow; `RangeFits` shows that
  neither the product of index and length nor the end of the range wraps for an
  index that passed the check.
* `RequestIsExact`, `ResponseIsExact`: `RequestExact` and `ResponseExact`, from
  `TrackerInv` (the query is complete when the request goes out, and the answer
  that the decoder sees is the one sent). `ValuesSet` and `ValuesKept` say what
  setting a key leaves of a query: one value of the keys set, the well-formed
  values of the others. The decoder's lemmas are that an
  interval, a port or a flag is accepted with its own value or refused
  (`IntervalExact`, `PortExact`, `FlagExact`), and one bad peer refuses the whole
  response (`RefusedWhole`).
* `PoolIsWellFormed`: `PoolPreconditions`, that is, the assumptions of `Pool` hold
  of what `NewPool` was given. `UniqueInv` is the loop invariant of the
  deduplication: what is `seen` and what is `unique` are the same endpoints, each
  at its first position, with IPv4-mapped addresses taken as IPv4 (`IsFirst`).

`DialFirstProofs`

* `DialFirstLeavesNothing`, `ReturnedIsUsable`: `NothingLeft` and `ReturnedUsable` of
  the composition, from the invariants of its parts and not from the beginning.
  Every step of the composition is a step of `Conn` or leaves it alone
  (`ConnTakesPart`), and until the caller closes what it got, a step of `Pool` or
  leaves that alone (`PoolTakesPart`); so the inductive invariants of `ConnProofs`
  (instantiated) and `PoolProofs` carry over. `DInv` adds the control of the caller
  (`CallInv`) and `Link`: the tracked connection is not dialled yet, being dialled
  by the one worker that has the endpoint, or open exactly if the pool says so.

Only model-checked:

* all liveness properties (`CloseTerminates`, `NextReturns`, `GoroutinesExit`,
  `PhaseEnds`, `DialFirstReturns`, `CallAnswered`, `FrameDelivered`,
  `AnnounceReturns`): fairness and `ENABLED` are out of the prover's reach;
* `ImplementsFraming`, not proved yet: it needs `Uint32` after `PutUint32` to be the
  identity for every length, and an invariant that names the position at which
  every frame on the stream begins.

## 6. Not modelled

* Libraries: bencode decoding, HTTP, SHA-1, IP address parsing. Their results,
  right and wrong, are inputs of the models.
* `inspect`, usage texts and all printing: straight-line output. `newPeerID` is
  random bytes that nothing here depends on; that it may fail is part of `Start`.
* Names, paths and the announce URL of a metainfo file, apart from the query it
  carries.
* Durability after a power failure (a hazard without a property), and a repeated
  random name of `os.CreateTemp`.

## 7. Plan

1. Done: the four core components with their theorems.
2. Done: peer wire, metainfo, tracker client and `NewPool`; the compositions
   `DialFirst`, `Transfer` and `Command`; theorems about `Bitfield`.
3. Done: theorems for every safety invariant that a run checks, in all components
   and compositions, and for the refinements of `Discovery` and `PieceSet`.
4. Next: the refinement of `Framing`, from the length prefix (`Uint32` of
   `PutUint32`) and the positions of the frames on the stream; then action
   properties that support the liveness arguments.

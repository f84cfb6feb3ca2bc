# A verification of gonion's client core

gonion is a Tor client library in Go. These modules model the part of it where
goroutines, channels and windows meet: the connection to a guard with its
handshake, the circuits on it, how a path is built and the onion it is, its flow
control and its streams; the directory client on top of them, which fetches the
consensus, refreshes it and selects paths from it; and the keys of onion
services. PROJECT.json maps every definition to its lines.

## The system

| Component | State it keeps | Operations | Talks to |
|---|---|---|---|
| `Conn` (conn.go, conn_loop.go) | TLS socket, `writeCall`, `circuits`, a context | `NewConn` handshake, `readLoop`, `writeLoop`, `Close` | circuits: `Inbound` channels, `writeCall` |
| `Circuit` (circuit.go, circuit_loop.go) | id, `Inbound`, `WriteRelayCell`, hop chain, streams, context with cause | `NewCircuit`, `NewFastCircuit`, `Extend`, `Close`, `readloop`, `writeLoop`, `handleCell` | `Conn` below, streams above |
| Hop and chain (internal/hops, pkg/cells/relay) | per hop two windows, a one-slot `sendMe` channel, key streams and running digests | `MarshalMessage`, `UnmarshalMessage`, `NotifySendMe` | called by `readloop`, `writeLoop`, `Extend` |
| Window (internal/window) | counter, last digest, channel `Trigged` | `Increase`, `Subtract`, `SetDigest`, `Get` | hops and streams |
| SENDME (helpers.go) | none | `verifySendMe`, `sendmeManage` per hop | windows, `WriteRelayCell` |
| `Stream` (stream*.go) | state, two windows, `outbound`, `InboundControl`, ring buffer, token channel, two contexts, `closeOnce`, `mu` | `NewStream`, `Write`, `Read`, `End`, `Free`, `Close`, `controlLoop`, `sendController` | `WriteRelayCell`; `readloop` delivers to it |
| Directory client (circuit_methods.go, bootstraping.go) | `GlobalConsensus`, shared and unlocked; the refresh goroutine's timer | `GetConsensus`, `GetMicrodescriptors`, `BootstrapOneConn`, `StartConsensusRefresh`, `nextConsensus` | a stream to "dir", pkg/common |
| Path selection (pkg/path) | a `Selector`: the slice of relays it was made with, pointers into it | `New`, `SelectRandomCircuit` | consensus |
| Circuit building (circuit_build.go, pkg/handshakes) | a key pair per handshake | `BuildPath`, `NewCircuitTo`, `ExtendTo`, `Derive` | consensus entries, circuits |
| Onion services (pkg/hs) | none | `ParseOnionAddr`, `PeriodNum`, `BlindedPublicKey`, `BlindSecretKey`, `ServiceIndex` | nobody yet |
| Documents (pkg/common) | while parsing: the section, one reused `RouterStatus`, a builder of lines | `ParseConsensus`, `ParseMicrodescFile` | directory client |
| Codecs, key derivation, fallback, obfs4 | none that lasts | encode, decode, derive | everyone |

Hard in this code: every stream, circuit and connection runs several goroutines
that meet in bounded channels and are ended by contexts; SENDMEs carry digests
that two unsynchronised loops must keep aligned; tokens are dropped on purpose
by one-slot channels; `Close` can come from five goroutines at once; and one
`readLoop` serves every circuit, one `readloop` every stream. One consensus is
written by bootstrap and refresh while users hold pointers into it, and its
microdescriptors are matched to relays by position. The link handshake reads
four cells with four readers from a peer it knows nothing of yet; a path is built
relay by relay, any of which may fail or lie about the next; an onion service and
its client must compute the same keys without a word between them. There is no
persistence, so no crash recovery. What is hard to test is listed, line by line,
under "hazards" in PROJECT.json.

What makes each part correct:

* window and circuit SENDME: no cell without credit, no refused honest SENDME,
  no cell that waits for ever, SENDMEs in order with the right digest;
* link handshake: it takes every cell whole, believes only the relay at the other
  end, returns, and leaves no deadline behind;
* onion: both ends of every key stream and digest agree on their position, the
  hops are the relays that were asked for or the circuit is closed, and building
  a path returns;
* stream: nothing lost before end of file, `readloop` never blocked by a reader,
  goroutines and registry entries go away, every call returns;
* connection: cells reach their circuit in order or the circuit is over, no
  circuit stops another, every call returns;
* onion services: both sides arrive at the same keys in the same time period, and
  an address stands for a key that a service can have;
* directory: no relay gets another's keys and a bootstrap leaves none out, the next fetch comes in time and no
  failure ends the refresh, a selected path is usable and stays what it was, and
  each relay is chosen as often as its weight says.

## Modules

| Module | Models | How |
|---|---|---|
| `Window` | internal/window/window.go | operators on a record [v, digest, trigged]; `Trigged` is a bounded sequence |
| `Queue` | the cells of one kind among the first n of a channel | operators the invariants count with; a kind is a set of cells |
| `CreditFlow` | what a SENDME window promises | abstract specification: `Send` against credit, `Grant` for cells that were sent |
| `CircuitSend` | writeLoop and readloop on SENDMEs | per hop: window, token, cells marshalled, sent, acknowledged; `writer` is writeLoop's place. `WriterTake` is the receive, `MarshalMessage` and the charge; `WriterRestore` the inner select; `HandleSendMe` is relayControlFunc with verifySendMe |
| `CircuitRecv` | readloop on DATA, sendmeManage | per hop: window and the manager's place (`idle`, `put`, `increase`); `ReadData` charges and drops as readloop does |
| `Circuit` | both halves on one `WriteRelayCell` | instances of the two modules above, sharing queue, context and readloop |
| `Stream` | one stream, eight threads | `pc[t]` is the step each goroutine or caller is at; `Close` and `Free` are steps any of them goes through; a send on a closed channel sets `panicked`; Free's close of the reader ends Read and leaves `buffer` unread |
| `NTor` | linkSpecsFor, newNTorHandshake, the ntor handshake | operators; a public key is a name, a Diffie-Hellman secret the set of two names, a hash what was hashed |
| `Onion` | BuildPath, ExtendTo, Extend, Chain, Hop, RelayCellCoder | a key stream is the number of cells it was used for; a cell remembers the positions it was wrapped with. `builder` is BuildPath's place, `extender` Extend's; `keys[i]` is what the coder of hop i was made from. writeLoop and Extend each encrypt in one step and send in another, in any order. Create is one step: Conn has its dispatch |
| `Consensus` | ParseConsensus, port policies | a fold over lines [kw, ...]; one `RouterStatus`, `tmp`, is reused for all relays, and what an "a" or "pr" line sets stays until the next one; a broken download is a prefix whose last line may be cut |
| `Microdesc` | ParseMicrodescFile | a fold over lines; SHA-256 is the map from a digest to the block it belongs to |
| `Path` | pkg/path: who is eligible, weights, `selectRandom`, `conflicts` | operators; a relay is its index in the list, as it is a pointer in the code |
| `Directory` | BootstrapOneConn, nextConsensus, a user with a `Selector` | `boot`, `job` and `sel` hold the place of each; `cns` is \*GlobalConsensus; `Apply` sets a relay's keys in two halves, as the code does; `New` copies a slice header that `Store` may be assigning |
| `OnionService` | pkg/hs, with a service and a client that use it | the curve is the integers modulo 8 times a small prime, so torsion and clamping are what they are; a blinding factor is drawn when its input is first hashed |
| `Link` | NewConn and the readers it uses | `hand` is NewConn's place, what it has verified and whether it is still in frame; each reader gives the octets it takes, from the length or the address types the guard sent, and a cell's size is compared with them; `netinfo` has what Decode has read and what it has counted apart; certificates are records over named keys |
| `Conn` | on top of Link: Conn's loops, NewCircuit, NewFastCircuit, Close, handleCell | per circuit: opener, context cause, `Inbound`; the registry maps ids to circuits |

`Conn` (which extends `Link`), `Circuit`/`Onion` and `Stream` are three layers; each models the layer
below as a FIFO with back-pressure and the layer above as a user that may do
anything the API allows. `Circuit` composes `CircuitSend` and `CircuitRecv`, and
its property `ImplementsSend` says the composition is a `CircuitSend`. What is proved
of module M is in `M_proofs`, with lemmas about windows and queues in `Flow_proofs`.
`Directory` extends `Microdesc` and `Path`, and they `Consensus`; to it a stream
to a directory cache is a call that returns a document, part of one, or an error.

Relays are external. Unless a run says otherwise they follow the protocol: they
send within their window, acknowledge each AddValue-th cell in order with its
digest, refuse a SENDME that acknowledges anything else, and answer CREATE.
In `Link` the guard sends what it likes or nothing; in `Onion` a relay in
`Faulty` answers an EXTEND2 itself, without having the next relay's key.

Definitions whose comment begins "A plausible bug" are no part of the
specifications: each is a changed form of the definition below it, used to check
that the properties notice it (PROJECT.json, "mutants").

## Runs

| Run | Bounds | Shows |
|---|---|---|
| circuit_send | 2 hops, window 4/2, queue 1, 7 cells, an invalid destination; hop 0 is honest, hop 1 makes up SENDMEs | `IInv`, `CreditSafety`, `HonestSendMeAccepted` (of the honest hop), refinement of `CreditFlow`; every cell leaves; both loops end |
| circuit_recv | 2 hops, window 4/2, queues 1, 2 streams, 5 cells per hop, version 0, streams freed | `RelayAcceptsSendMe`, `AcksAddUp`; `DownstreamFlows`: a relay is starved only by its cells that were dropped uncharged |
| recv_closed_stream | 1 hop, version 1, two streams | **violation**: a freed stream breaks the circuit's SENDMEs |
| circuit | 1 hop, window 3/1, queues 1, 4 cells each way | `SendMeAccepted`, `ImplementsSend`, `BothWaysFlow` |
| stream | window 4/2, queues 1, buffer 6, eight scenarios: long transfers up, down and both ways; the relay, the user or the circuit ends the stream with DATA on the way, the relay and the circuit also under the freeing goroutine | `StreamCredit`, `ReadloopNeverBlocks`, `StreamFlows`, `EndLosesNothing`, `LoopsReturn`, `EndForgets` |
| stream_write | as stream, 8 cells, circuit dies or user ends | **violation**: Write waits for itself, or the process panics |
| stream_sendme | as stream, version 1 | **violation**: the first stream SENDME ends the circuit |
| onion | 3 relays, one faulty; paths and extensions with incomplete and stale entries; 2 stream cells, also while Extend runs, 3 replies; zero bytes by accident | `CellsRecognised`, `KeyStreamsInStep`, `HopsAreThePath`, `ExtendReturns` |
| conn | cell body of 41 octets, six lengths up to 65535, up to 3 addresses of types 4, 6 and another; certificates of 2 relays in cells of up to 3; then 2 circuits, queues 1, writes may fail, the guard may hang up | `LinkInFrame`, `LinkVouched`, `LinkOutlivesHandshake`, `NoCellLost`, `LinkNeverStuck`, `OpenReturns`, `CloseEndsAll` |
| directory | documents of 5 and 4 relays, with and without "a" and "pr" lines and 2 protocols, chunks of 2, paths of up to 3, one port, three scenarios | `RelaysAreTheirOwn`, `BootstrapComplete`, `PathIsSound`, `PathKeepsItsRelays`, `ChoiceByWeight`, `FetchedInTime`, `RefreshContinues` |
| hs | order 17, 2 services, 9 points, 2 blinding factors that clamp to different scalars, 3 parameter settings, 8 clock readings, 3 uses | `DescriptorsFound`, `AddressIsOneService` |
| refresh_keys | as directory | **violation**: a refresh drops every key |

Bounds. The code's windows are 1000/100 and 500/50; 4/2 keeps what matters, a
window of more than one acknowledgement and acknowledgements of more than one
cell, and 3/1 a token channel that can overflow. Cell counts exceed the window,
so it is used up and refilled. Queues of one cell make every send block as early
as it can; the properties say nothing of a queue's length. A stream's buffer of 6
cells is the smallest that suffices for 4/2 with a trigger of 2, as
`StreamAssumption` says; in the code 526 cells of buffer (256 KB) stand against
500 of window and a trigger of 11 (5 KB). The scenarios of
`stream` that end the stream stay away from a trigger point: beyond it the code
panics, which is what stream_write shows.

`directory` counts time in quarters of an hour: a consensus is fresh for an hour
(`Fresh` = 4) and valid for two more (`Valid` = 8; the authorities' ratio is the
same), which gives the fetch window four points. Downloads take no time, and
neither does the five minutes a broken window waits. Two documents that share
relays, in another order and with other weights, let a refresh shrink and grow
the list; the parser lists all relays but the last, so chunks of 2 leave one
document without and the other with a chunk that is not full, and in both the
position in an answer differs from the position in the list; the documents have relays in one /16, an exit that rejects the
port, and a bad exit with a key that does not decode. Only the
dates, "r" and "pr" lines of a broken download are cut in the middle: any other cut
line ends the process, counts as missing, or spoils only the relay being read, which is
then never listed. The
documents have relays with an "a" line, with a "pr" line, with both and with neither, and
of the 13 protocols two, one of them left out where the other is given. Bootstrap succeeds
once, three quarters into an interval (`FirstPhases`); the later downloads come
at every phase the fetch window allows. The three scenarios keep the run
small: in one everything may fail and nobody selects paths, in the second a user
selects all the time and nothing fails, in the third the cache has every
microdescriptor, which is what `BootstrapComplete` is about. `PathIsSound`,
`ChoiceByWeight` and `PathKeepsItsRelays` are about the second, the rest about
all.

In `conn` the handshake is over before the circuits begin, so its inputs add to
the states and do not multiply them. For `LinkInFrame` there are lengths on both
sides of 65531, from where the buffer for VERSIONS wraps, and addresses of every
type: two of type 6 fill the 41 octets of a body (509 in the code), and three fit
or do not, depending on their types. For `LinkVouched` there are all mixtures of
two relays' current, replaced and expired certificates. `onion` gives BuildPath entries without a key or an identity, and
with the key or the address of another relay. The group of `hs` has 136 points, 8
of small order; the points that are tried are two services' keys, one that is
nobody's, each with a torsion part too, and the points of small order alone. Its
clock has both sides of the edges of short periods and of the default one, whose
rotation is 12 hours.

The type invariants of `CircuitSend`, `CircuitRecv`, `Onion` and `Directory` are
conjuncts of `IInv`, `AcksAddUp`, `KeyStreamsInStep` and `RelaysAreTheirOwn`;
`Circuit` and `OnionService` have none of their own.

Fairness. Every goroutine is scheduled (weak fairness of its steps). A channel
several goroutines send on serves each of them in turn, as Go's FIFO queue of
waiting senders does: strong fairness of those sends. An honest relay
acknowledges and sends what it can. NewConn is scheduled and its deadline passes;
nothing obliges the guard to send what it waits for. Nothing obliges a user to write, end or
close, nor a context to be cancelled; `stream` lets the user read for ever. In
`Directory` the refresh goroutine is scheduled and time passes while it sleeps;
the cache need never answer, so `RefreshContinues` asks for attempts. In `Onion`
Create, Extend and readloop are scheduled and the relays work off what they are
sent, with whatever answer; Extend has no deadline of its own, so `ExtendReturns`
needs them to.

CHECK_DEADLOCK is FALSE throughout: a closed circuit, or one with nothing left
to send, stops.

## What the code does wrong

The four violations are what the code does, step by step:

1. *recv_closed_stream*: `readloop` drops DATA of a freed stream before charging
   it (circuit_loop.go:48), so later SENDMEs have the wrong digest.
2. *stream_write*: `Write` holds `mu` while `SendCell` calls `Close`, which locks
   it (stream.go:236); and `Close` closes channels still sent on (stream.go:283).
3. *stream_sendme*: the digest is stored before `Marshal` computes it
   (stream.go:173).
4. *refresh_keys*: `nextConsensus` assigns a document without keys over the
   consensus (bootstraping.go:61); after it no relay is eligible.

Other behaviour the modules contain, which no doc, comment or test contradicts,
and which the properties therefore leave room for:

* two zero bytes in a partly peeled cell end the circuit (hops.go:65);
  `CellsRecognised` is about circuits that have not ended.
* Extend encrypts EXTEND2 in its caller's goroutine while writeLoop encrypts and
  sends (circuit.go:277): a cell that leaves before one encrypted earlier is
  noise to its relay, which ends the circuit. `CellsRecognised` excuses such a
  cell only. Neither lock nor comment keeps users from extending a circuit with
  streams; BuildPath has none yet.
* DATA that is dropped uncharged (circuit_loop.go:48) is never acknowledged, on
  version 0 too: after StartValue - AddValue such cells the relay may starve.
  `DownstreamFlows` says that nothing else starves it.
* the freeing goroutine of GetConsensus wakes on the relay's END and closes the
  reader (circuit_methods.go:40, stream.go:259): what the HTTP client has not
  read by then is discarded, and the parser, which never asks `scanner.Err`,
  takes the rest for a whole document. `EndLosesNothing` allows this loss only.
* a Write that waits for itself (violation 2) also keeps the stream's goroutines
  and the freeing goroutine; `LoopsReturn` and `EndForgets` excuse that state.
* a relay's `StatusFlags` are those of all relays up to it, and an `Ipv6Addr`
  ("or empty string", consensus.go:92) or a protocol version it was not given is
  that of the relay before it (consensus_parse.go:188, 199, 207).
  `RelaysAreTheirOwn` says exactly this.
* SENDMEs need a body with version and length (send_me.go:41-51): the empty one
  a relay may send for a stream ends the circuit. The models' SENDMEs are
  well-formed.
* the relay listed last in a consensus is never appended (`ParseConsensus`).
* families are parsed and thrown away (microdesc.go:211), so `CmpFamily` is
  never true.
* a consensus whose header broke off has a zero date and is used; from then on
  no fetch time can be computed (bootstraping.go:89). `RefreshContinues` and
  `FetchedInTime` ask only for dated consensuses.
* a download has no time limit (circuit_methods.go:32), so the refresh waits for
  a cache that stops answering for ever; `RefreshContinues` is content with the
  attempt. No doc or comment promises more, so neither is a violation run.
* `ParseOnionAddr` accepts the identity point, which is no service's key
  (address.go:136-145); `AddressIsOneService` names it as the one exception.
* NETINFO that breaks off, and a CERTS cell without the certificates it should
  have, end the process with a panic (netinfo.go:84, crypto/certs.go:40, 58).
  NewConn's other failures leave the socket open for its caller.
* a VERSIONS cell of length 65531 or more ends the process with a panic: the
  size of the buffer is computed in uint16 (conn.go:264).
* a NETINFO that announces more addresses than its body holds is read on into the
  cells behind it (netinfo.go:55-76), and the link is out of frame. readLoop then
  drops what it takes for cells of unknown circuits, and NewCircuit waits for
  ever; `LinkInFrame` says when, `OpenReturns` is about links in frame. readLoop
  also reads cells of variable length as fixed ones (conn_loop.go:28): the guard
  of the model sends none after the handshake.
* the identity CERTS proves is dropped (conn.go:130): the link is to whoever has
  the TLS key, and `LinkVouched` asks no more. That it is the guard that was
  meant is left to the ntor handshake, whose NodeID and onion key are.
* an EXTENDED2 nobody waits for stays for the next Extend (circuit.go:289), which
  fails by its auth value and with it the path; `HopsAreThePath` allows that.
* `ServiceIndex` and `RelayIndex` take a period length of 0 as it is
  (hsdir.go:30, 42), where `PeriodNum` and `BlindingParameter` take the default.
* `path.New` may copy a slice header that is being assigned, pointer of one
  consensus and length of the other (`"wild"`).

## Proofs

Every safety invariant and every action property the runs check, but for the two
of `OnionService`, is a theorem for all values of the constants, as are the type
invariants and both refinements. None of these invariants is inductive: each follows
from a stronger one that is, and that TLC confirmed first, where it was new, on
instances of its own (below).

`Flow_proofs` has the arithmetic of trigger points and what each window
operator does to them: `Units(v)` trigger points are left before a window is empty,
`Since(v)` cells were charged since the last. It also says how the count
of a kind of cell changes when a channel gains or loses one. Most invariants are
sums of such counts over all the places a cell can be in.

*CircuitSend.* `IInv` ties, per hop, the window's counter to the cells marshalled and the
token waiting (`Ledger`), gives the digest queue one entry per trigger point
passed, so it never overflows (`Room`), and puts the entries in order
(`Aligned`). `CreditSafety` needs all three: a SENDME is worth AddValue cells only
because of `Room` and `Aligned`, a token one increase only because of `Ledger`.
That CircuitSend implements CreditFlow follows step by step.

*CircuitRecv.* Two books per hop: `Left`, what the window still covers of what
the relay may send, and `Covered`, what was used of it and will be acknowledged.
While each cell is charged both are exact, so `Trigged` has room at each trigger
point and the next digest to reach the relay is the one it expects.
`RelayAcceptsSendMe` and `AcksAddUp` are about version 0 or streams that are not
freed (`Safe`); recv_closed_stream shows why.

*Circuit.* It implements CircuitSend, for which it needs that every digest in the
receive half is one of a cell a relay sent (`DigestsKnown`). CircuitRecv's
invariant is proved for any number N[h] of SENDMEs beyond WriteRelayCell, and
`Circuit_proofs` takes it over (INSTANCE) with those on its longer way: the shared queue,
writeLoop's hands, the link. `WayInOrder` says they are in order in all three,
and `SendMeAccepted` follows.

*Onion.* `PathInv` follows a handshake: any answer on its way is some relay's to a
public key of this circuit, and one that Derive accepts is that of the relay behind
the last hop; hence `HopsAreThePath`, whichever relays are faulty. `StepInv` sees a direction as
one queue between the two ends of the key streams: either end's position is the
other's plus the cells between that use it (`Synced`). Towards the client the queue
is the link. The other way it is the order of encryption (`Encrypted`): writeLoop and
Extend encrypt in one order and may send in another, so the link and their hands
hold its cells in any order (`Flying`), each in one place (`Apart`), and the
positions are counted without one (`Counted`). `KeyStreamsInStep` is the count; a
cell on the link that none in flight precedes is the head of the queue, and hence
recognised (`CellsRecognised`).

*Conn.* The handshake's invariants follow from what each reader takes of a cell:
octets read and octets counted stay equal through a NETINFO, whose rest is then
discarded exactly if they are no more than the body. On a link in frame
`CircuitsInv` holds, on any other that no circuit comes up (`OutOK`); `BaseInv` is
what both share.
`NoCellLost` is about circuits that share an id one after the other. Per live
circuit, `WayOK` counts its cells through the link, the one readLoop holds, and `Inbound`: the RELAY
cells come after the CREATED, numbered on from those taken. `GuardOK` says nobody else can have the id once the
guard has answered, and `Unborn` that no cell is older than its circuit's CREATE. They rest on
`OpenAnswer` taking a CREATED for the circuit's own only if it is: with any
CREATED accepted TLC finds a cell lost among three circuits of one id.

*Stream.* `Stage` says where each of the eight threads can be, inside `Close`
and `Free` too, and that a channel is closed, and a thread past the lock, only on a closed
stream. `Credit` adds up what was charged (relay, link, sendController's hands), the
window, and AddValue for each acknowledgement not used yet (on its way, in
`InboundControl`, in controlLoop's hands, the token): never more than StartValue and what the relay
acknowledged. Dropping a token only lowers the sum, and restoring a window, which
is done only at zero, moves it; `StreamCredit` follows. For `ReadloopNeverBlocks`:
a digest in the receive window stands for AddValue cells the user has read or can
read (`Digests`), Read sends a SENDME only with the buffer below the trigger
(`Asking`), so the credit the relay has is covered by what was read and the
trigger; with the window on top that is what the buffer holds, which is the assumption
StartValue + TriggerCells <= BufferCap. `Floor` and `Ceiling` bound the receive
window by the SENDMEs sent for it and the trigger points passed, and give its type.

*Directory.* What the operators compute comes first. The prover cannot use the
library's induction theorems, which take an operator; that a set of numbers with
0 and every successor is all of Nat follows from the library's facts about finite
sets instead (`NatInduct`). The folds of the model are functions on sets of
positions that only a choice says exist: `FoldExists` builds them up, and
`FoldUnrolled` turns each into a sequence of steps. Hence, for all documents:
after line i the parser is in the state `Reads` says (`DocumentRead`), where
`Inherits` keeps what the reused RouterStatus has of the entries before; so a
download that breaks off anywhere leaves a list of relays that are each their own
entry's, with flags and optional fields inherited as `RelaysAreTheirOwn` says,
without keys (`ServedIs`); what `ParseMicrodescFile` puts at a place is the
microdescriptor of the digest there, whatever lines come (`FileRead`), and an
answer with all blocks, in any order, fills every place (`WholeAnswerRead`);
`Values` lists the eligible relays once each (`ValuesRead`), and
`selectRandom`'s numbers between two running sums fall on one of them
(`RandomIs`).

The inductive invariant `Inv` has five parts. `ConsensusInv` says the consensus,
and the one a refresh is about to assign, are lists of relays that are their own,
a prefix of one document's. `PhasesInv` is what cannot go on at the same time:
no refresh before the bootstrap is over, and a document waits only in `Store`.
`BootInv` says that from the relay bootstrap has come to onwards none has an
ed25519 identity, and, if the cache had all, that those before it are complete;
its `ChunkInv` that the answer's places are the chunk's. `RelaysAreTheirOwn` and
`BootstrapComplete` follow, and also why a path keeps its relays: one needs all
keys to be chosen, and `Apply` writes only to a relay that has not got them.
`SelectorInv` says that a Selector's slice is no longer than the list it points
into, the consensus, the document about to be one, or one that was replaced, and
that the part of the path chosen so far is sound; `PathIsSound`,
`PathKeepsItsRelays` and `ChoiceByWeight` rest on it. `FetchedInTime` is the fifth
part itself: with the arithmetic of `nextConsensusFetchTime` it is kept as it is.

Assumptions: those on the constants, named in the modules, as the code
justifies them. On version-0 circuits (CREATE_FAST) a SENDME is not verified, so
the credit theorems of circuits assume honest relays or version 1; of streams,
a relay that follows the protocol. `OnionAssumption` has paths of distinct relays, as
path selection makes them. `DocumentsAssumption` and `BlocksAssumption` are about
what authorities publish: relays of one document have different microdescriptors,
each published, and a block ends with its one "id ed25519" line, which is where
`ParseMicrodescFile` cuts; `IntervalsAssumption` that their intervals leave a
window to fetch in and that a consensus lives for at least the hour the job falls
back on.

TLC checked the new invariants on instances of their own: `ConnInv` completely for
the circuits of the conn run (205,082 states) and for two circuits of one id
(139,906), an earlier form of it also in 7.7 million states of three; Stream's completely
for the scenarios of stream (108,824) and for those of stream_write with version 1
(8,832), an earlier form of it also in 11 million states of one scenario in which everybody may end the
stream, with more cells than a window either way; Directory's `Inv` completely on the
instance of the directory run (285,212 states; there with the one witness of the
unbounded \E in `Own` that the fields name).

Only model-checked:

* every liveness property: fairness and ENABLED are outside the prover;
* `OnionService`: `DescriptorsFound` and `AddressIsOneService` are arithmetic of
  the group TLC computes in, products modulo a prime and its order of small
  factors, which the SMT backend does not do.

## Not modelled

Byte layouts beyond what the handshake's readers take, the body of a SENDME among
them, and documents' wording; the race of two MarshalMessage calls on one cipher;
the cryptography below the ntor handshake's symbols; several streams of one
circuit at once; `netWrapper` deadlines and the 10 minute download timeout; the
HTTP of directory requests; the ring of hidden-service directories, which nothing
computes yet, and the cells of introduction and rendezvous, which nothing sends;
fallback directories and obfs4. PROJECT.json gives the reason for each component.

## Plan

1. (done) Window, CreditFlow, CircuitSend, CircuitRecv, Circuit, Onion, Stream,
   Conn; proofs of the send half.
2. (done) Consensus, Microdesc, Path, Directory.
3. (done) Link under Conn, NTor and BuildPath in Onion, OnionService.
4. (done) Proofs: CircuitRecv, Circuit's SendMeAccepted from both halves, Onion,
   Conn, Stream.
5. (done) Proofs of Directory, with those about Consensus, Microdesc and Path
   they rest on.
6. Left: the registry of several streams of one circuit, with the wrap of
   `nextStreamID`; the arithmetic of `OnionService`.

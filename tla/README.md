# A TLA+ model of the livego streaming server

The repository is a live streaming server in Go. Publishers send audio and video
over RTMP; players receive it over RTMP, HTTP-FLV or HLS; an HTTP API controls it.
This directory holds TLA+ modules of its core, TLC configurations that check
them on small instances and TLAPS proofs of what holds for every instance.

## 1. Inventory

| Part | State | Operations | Talks to |
|---|---|---|---|
| Stream hub (`protocol/rtmp/stream.go`) | `sync.Map` room key → `Stream`; per Stream: `isStart`, publisher `r`, writers `ws` with `init` flags, packet cache | `HandleReader`, `HandleWriter`, `TransStart` (goroutine), `TransStop`, `CheckAlive` (every 5 s), `closeInter` | everything below |
| RTMP connections (`protocol/rtmp/rtmp.go`) | `VirWriter`: channel of 1024 packets, flag `closed`; `VirReader` | `handleConn`, `Write`/`DropPacket`, `SendPacket` (goroutine), `Check` (goroutine), `Close` | hub, chunk layer, room keys |
| Packet cache (`protocol/rtmp/cache`) | metadata, two sequence headers, ring of `gop_num` groups | `Write`, `Send` | called by `TransStart` |
| HLS (`protocol/hls`) | server map key → `Source`; Source: channel of 512, segmenter, cache of 3 segments | `GetWriter`, `checkStop`, `handle`; `Write`, `SendPacket`, `cut`, `Close` | hub (as a writer), HTTP clients |
| HTTP-FLV (`protocol/httpflv`) | per client: channel of 1024, `closed`, `closedChan` | `handleConn`, `Write`, `SendPacket`, `Wait`, `Close` | hub, HTTP clients |
| FLV recorder (`container/flv/muxer.go`) | file, channel `closed` | `Write`, `Close` | hub |
| Static push (`rtmprelay/staticrelay.go`) | global map URL → object; `startflag`, channel of 500 | `Start`, `Stop`, `WriteAvPacket`, `HandleAvPacket` | hub, `ConnClient` |
| Relay sessions (`rtmprelay/rtmprelay.go`, `protocol/api`) | API session map; `startflag`, channels | `Start`, `Stop`, two goroutines | API, `ConnClient` |
| Room keys (`configure/channel.go`) | channel ↔ key in a cache or Redis | `SetKey`, `GetKey`, `GetChannel`, `DeleteChannel`, `DeleteKey` | API, `handleConn` |
| RTMP core (`protocol/rtmp/core`) | chunk streams per connection, chunk and window sizes | handshake, chunk read/write, command exchange | connections, relays |
| Codecs and containers (`amf`, `container`, `parser`, `utils/pio`) | none between calls, except the TS muxer's counters | encode, decode | connections, HLS |
| `utils/queue`, `utils/pool` | a list; a byte buffer | `Push`, `Pop`; `Get` | (unused); chunk layer |

What is hard here is the concurrency. The hub is worked on by one goroutine per
connection, one transfer goroutine per publisher, the sweeper and the API's
handlers; its maps are `sync.Map`s, but the sequences of operations on them are
under no lock, and `isStart` and `r` are plain fields. The same holds of the HLS
server's map, the API's session map, the map of static pushes and the segment cache.
The writers' queues have producers (two at a takeover) that also receive from the queue
(`DropPacket`), a sender that may die, and several callers of `Close`. Below that lie
protocols with state on both ends (handshake, commands, chunks, AMF tables) and
arithmetic with many boundaries (chunk sizes, 29-bit integers, stuffing, clocks).
PROJECT.json lists the hazards line by line.

What makes each part correct:

* hub: packets stay in their room; a publisher that runs can be reached through
  the map; a replaced publisher ends; writers are neither lost nor in two
  Streams; delivery has no gap; rooms that are in use are not removed, idle ones are;
* queues: bounded, no packet twice, what must be kept is kept, the producer is not
  blocked for good, the channel is closed once;
* cache: a late player gets the newest headers and groups in order, no panic;
* HLS: the segments split the stream, a playlist has no gap and lists what can be
  fetched, the source that is fed is the one that is served, the audio clock
  follows the stream, does not run backwards and jumps rarely;
* relays and static pushes: what was started can be stopped, a stop returns, and
  after it nothing is left behind;
* room keys: the key that was answered opens the room, and never another one;
* connection: a session that opens agrees on both ends and ends up in the room its name
  stands for, messages and values arrive as they were sent.

## 2. Modules

| Module | Contents |
|---|---|
| `StreamHub` | the hub, with all its goroutines |
| `PacketQueue` | the bounded queue of `VirWriter`, HLS `Source` and HTTP-FLV `FLVWriter` |
| `GopWindow`, `GopCache` | abstract: what a late player is promised; the ring of the packet cache, which implements it |
| `SegmentWindow`, `HlsSource` | abstract: what a live playlist promises; the sender of an HLS source with the segment cache and the playlist builder, which implements it |
| `AudioAlign` | the audio clock of the HLS source |
| `HlsServer` | the HLS server's map, its sweeper and its request handlers |
| `RtmpRelay` | relay sessions of the control API |
| `StaticPush` | static pushes of a room |
| `RoomKeys` | room keys in memory or in redis |
| `RtmpSession` | handshake and command exchange, both ends, and `handleConn` up to the hub |
| `ChunkLayer` | chunks, acknowledgements, the pool |
| `AmfEncoder`, `AmfDecoder`, `Amf` | AMF0 and AMF3, and messages of values on a connection |
| `TsMuxer` | frames to transport stream packets |
| `MC*` | instances for TLC |
| `StreamHubProofs`, `PacketQueueProofs`, `GopCacheProofs`, `RtmpSessionProofs`, `ChunkLayerProofs`, `TsMuxerProofs` | the theorems about the module of that name |
| `HlsSourceProofs` | the theorems about `HlsSource` and `AudioAlign` |
| `ControlProofs` | the theorems about `HlsServer`, `RtmpRelay` and `RoomKeys` |

Components meet at an interface rather than in one state: `StreamHub` writes to
writers (their inside is `PacketQueue`), `PacketQueue` of the "hls" kind hands packets
to `HlsSource`, the hub appears in `HlsServer` as the set of sources it feeds and
closes, in `StaticPush` as the transfer goroutines of a room, and `RtmpSession` ends
where the hub's `HandleReader` and `HandleWriter` begin. `MCHls`, `MCControl` and `MCCore`
explore several modules in one run: they share no state, and the variable `which`
says whose behaviours are explored, so nothing is multiplied.

Many properties hold except in cases the code really reaches. Such a case is a
history variable (or a state) named in the property, so that the exception is exact: the
case is in the model, TLC reaches it, and the property says that nothing else breaks it.

| Name | Case | Property |
|---|---|---|
| `stale` | somebody acted on an outdated finding about the room | `NoLeakedPublisher`, `WritersReachable`, `GaplessDelivery`, `SupersededStops`, `RemovalIsSafe` |
| `joined` | a handler was inside the room during the sweeper's visit | `RemovalIsSafe` |
| `overlapped` | a `Close` tested the flag while another had tested and not set it | `PanicNeedsOverlap` |
| `LeftOpen` | the flag is set on an open channel: the sender died, or `hls_keep_after_end` | `WriteReturns` |
| `collided` | two segments in one second | `PlaylistServable` |
| `cleaned` | `Close` has set the segment cache to nil | `PlaylistServable`, second part |
| `orphaned` | an HLS source lost its map entry | `FedIsServed` |
| `careful` | API users who wait for each answer | `RelayReachable`, `StopReturns` |
| `missed` | a push goroutine scheduled too early | `PushStopReturns` |
| `torn` | a key written halfway | `AnsweredKeyOpens`, `KeyOpensOneRoom` |
| `raced`, `bigDelta` | an acknowledgement inside a chunk; a split extended time difference | `MessagesIntact` |

What lies in the excepted cases is therefore not promised: `FedIsServed` does not catch a
source that is fed after it was swept or closed, `StopReturns` and `RelayReachable` say
nothing of overlapping requests, `PushStopReturns` nothing of the early goroutine.

### StreamHub

A step is one access to shared state, so the interleavings are those of the
goroutines under sequential consistency. `pc[x]` is the control point of the
handler of connection `x` and then, for a publisher, of the `TransStart`
goroutine the handler started; `cur[x]` is the Stream that goroutine holds. A
handler creates at most one Stream, so Streams are named by the connection that
created them. `Range` over a `sync.Map` is `todo` (the keys still to visit) and
`at` (the entry loaded for the callback), with entries deleted in between skipped.

`TransStop` is two steps (test and close of the reader; `isStart = false`),
`Copy` two steps per writer, `CheckAlive` three (the reader; the writers; the
deletion), a packet's fan-out one step to load an entry and one to write. The
answer of `Alive()` depends on the clock and is either. `closeInter` and the
sweeper's visit of the writers are one step each: they only close writers and
delete entries, and the race inside a writer's `Close` is a subject of
`PacketQueue`.

A writer fails every write once it is closed; the recorder (`Archivers`) can also fail
while it is open, when its file or a metadata packet is bad. A read of a publisher fails when
its connection is closed (`TransReadError`) or when what came cannot be read
(`TransReadBad`); then nobody closes the connection. The recorder is not
"interval": `closeInter` closes it and leaves it registered, and its second
`Close` panics; the panic ends the process (`crashed`) except in the API's
handler, where `net/http` recovers it.

There is no lock around a lookup and what is done with it, and the model has none either:
handlers of one room, the sweeper and the API overlap freely. `stale` records the
rooms for which somebody acted on a finding that another goroutine had changed by then:

* a handler stores its Stream although the map no longer holds what it found
  (`ReaderCreate`, `WriterCreate`, `CopyStore`), or registers in a Stream that is no longer
  the map's or is being copied (`AddReader`, `AddWriter`);
* two publishers copy one Stream (`ReaderClear`);
* a `TransStart` sets `isStart` after a `TransStop` has tested it or its Stream has left the
  map (`TransStart`);
* the sweeper deletes the key although a handler was inside the room during its visit
  (`joined`) and what it counted has changed since (`SweepDelete`).

`NoLeakedPublisher`, `WritersReachable`, `GaplessDelivery`, `RemovalIsSafe` and
`SupersededStops` except these rooms, and fail without the exception: for each of the four
ways TLC finds a publisher, a writer or a packet that is lost. (Two publishers that copy one
Stream, and a `CopyStore` over another Stream, do harm only with a third publisher, which the
run's instance does not have and the theorems cover.) So the properties say that these
four are the only ways, in overlaps of any depth. `RoomIsolation`, `PlayersReleased` and
`EmptyRoomRemoved` need no exception. `RemovalIsSafe` is about the window between the
sweeper's count and its deletion: without a handler inside the room
nothing that others do there (transfer goroutines, copies that ended, failing writers,
deletions by the API) makes it remove a room in use. With one it may; that is `joined`.

The static push calls inside `TransStart` and `closeInter` are the module `StaticPush`,
and the HLS source that `GetWriter` returns a second time for the same key is a case
of `HlsServer`. The timestamps that `CalcBaseTimestamp` adjusts are left out.

### PacketQueue

One module for three writers that differ in a few lines; the variable `variant`,
fixed at the start, says which one it is, and `Variants` which ones a run covers.
The channel follows Go: a receive from an empty open channel waits, a send on a
closed channel panics (recovered by `Write` and returned as an error, after which
the hub removes the writer), a second close panics and ends the process. The
producers are transfer goroutines: at a takeover the old one may still be inside `Write` of a
writer that `Copy` has moved, while the new one writes to it as well. `WriteTest`, the loops'
receives and put-backs, the sender and the three steps of `Close` interleave. "kept" is the
HLS source under `hls_keep_after_end`, whose `Close` sets the flag and leaves the channel open.

`out`, `refused`, `dropped` and `taken` are history variables. The packet's kind
is what `DropPacket` looks at; sending one is one step that succeeds or fails.

What the checks show: the queue passes the mark `MaxQueueNum - 24` by at most one packet for
every producer but one, so a send does not block and, for up to 15 producers (`Few`),
the tests of `len` inside `DropPacket` are never true. The drop loop always
receives `MaxQueueNum - 84` packets, so it blocks the room when the sender and the drop loops
of other producers together take more than 60 while it runs (`StallNeedsDrain`); the
sweeper's close wakes it (`WriteReturns`), except when the channel is left open: after the
sender died of a write error, which sets `closed` and makes `Close` skip the channel, or
with `hls_keep_after_end`.

Calls of `Close` overlap, and TLC reaches the double close, since test and close are under
no lock. `PanicNeedsOverlap` says that it takes such an overlap: calls one after another,
a sender that sets the flag in between and producers at work never lead to it.

The HTTP-FLV loop receives one more packet after each that it put back, and
discards it unseen, audio and key frames included; `DropKeepsAudioAndKeys` is
therefore about the other two.

### GopCache and GopWindow

`GopWindow` keeps the newest metadata, sequence headers and the newest `N` groups.
`GopCache` keeps the code's ring: `nextindex`, `num`, `gops` with nil slots, and the
index expressions of `writeToArray` and `sendTo`. `Groups` is what `sendTo` walks
through and is the refinement mapping for the window. A nil group that is
dereferenced sets `panicked`. A `gop_num` of 0 is excluded by assumption: every
access to the ring would panic.

"bareaudio" and "barevideo" are packets whose header the demuxer did not parse:
the former reach the ring, the latter are ignored. Parsed audio never enters the
ring, so a late player gets no audio from the cache.

### HlsSource and SegmentWindow

The sender `SendPacket` with its control points: a packet is parsed or skipped, may
end the segment (`cut`), which flushes the audio cache and calls `SetItem` in its four
accesses to list and map; then the frame goes to the audio cache or the segment.
`GenM3U8PlayList` walks the same list at the same time, as the code does without the
lock. `Close` sets the buffers to nil under the sender, whose panic is recovered and
ends it. Frames are numbered, segments are sequences of them, the clock that names
segments advances by `ClockSteps` per cut. `Close` also sets `tsCache` to nil (`cleaned`): from
then on a request for a segment (`TsRequest`) dereferences nil and is not answered, while a playlist handler
that has the cache goes on. `SegmentWindow` is the abstract sliding
window; `WindowSlides` maps the list of segment numbers to it. A frame's duration
and stamps may go back once per takeover, since the source adds no base timestamp.

### AudioAlign

`align` numbers frames from a base while the estimate is within `Tol` ticks of the
frame's own time, otherwise it starts from a new base. The increment is an integer division:
at 44.1 kHz the code uses 2089 ticks for a frame of 2089 + 39/49. The steady publisher has the
true period (`Inc + Frac/Den` ticks) and cuts its times to milliseconds, so the aligned
clock falls behind and is moved forward now and then: `SteadyRarelyJumps` says how often
and how far. An irregular publisher jumps. Unsigned differences are absolute
values here, because the code compares both signs.

### HlsServer

One room: `conn` is its map entry. `GetWriter` is a lookup and a store, `checkStop` a
sweep that drops a source that is not alive (and not kept), a request is a lookup
followed by one access to the source, which `Close` may have cleaned up in between.
The segment handler does not test for that; its panic is recovered by `net/http`.

### RtmpRelay, StaticPush

Handlers, transfer goroutines and the relays' goroutines are processes; a send on
an unbuffered channel is a joint step of both sides, enabled when the other side is
at its `select`. Concurrent access of two handlers to the API's plain map may end the
process (`apiDown`). A relay's play server may be silent for good (a room without a publisher):
its receiver then stays in `Read` and does not see the flag, which `StopCloses` names. The push is modelled for one address with the start and the end of
two publishers that follow each other (`overlap` FALSE) or take over (TRUE).

### RoomKeys

The store is one flat map from rooms to keys and from keys to rooms, as in the code;
each of its operations is a step. Keys are the numbers 1, 2, ... in the order
in which they are drawn: the generator is never seeded (the module's Go version
does not seed it by itself), so every process draws the same sequence, which is
what makes a restart with redis interesting. A redis operation may fail; memory is
lost at a restart. A room named like a key, which the flat map would take, is excluded by
`KeysAssumption`: keys are 48 random characters.

### RtmpSession

`ends` says which ends are this program: both (a relay into a server), only the
client or only the server. The other end sends any message in any order. A
message of such a peer is chosen when the one before it was read; the reader cannot
tell. C2 is buffered by the client and goes out with the first command. The
connection may be lost at any time; what was sent may still arrive. This program's own
C1 has version 0, so its own ends use the simple handshake; whether a digest fits is
an input for other clients.

A malformed command is refused; an empty batch, an empty message or a field of another type
is a failed index or type assertion outside of any `recover` and ends the process (`spc` =
"panic"; in the client a code that is no string, `cpc` = "panic"). `handleConn` looks a
publisher's name up once (`SrvGetChannel`) or, with `rtmp_noauth`, twice (`SrvGetKey` first),
and either lookup can fail. The store is flat, so `Held` answers a room's name with its key as well:
a publisher that gives a room's name is accepted and reaches the hub under the key's name.
`AdmittedIntoItsRoom` says which name it may be in each case. A peer's answers to `connect` may
name a stream, which the client keeps if the answer to `createStream` names none, and
may have no usable fields at all ("bare").

### ChunkLayer

One direction. The writer is `Conn.Write` plus the reading goroutine's acknowledgements
in the same buffer, or a peer that interleaves messages and compresses headers
(formats 1 to 3, and two-byte stream ids; a format 3 header that starts a message after
format 0 repeats the absolute time, as the reader has it). A message may be longer than a
buffer of the pool (a peer's length goes to 16 MB, the pool to 500 KB): `pool.Get` then panics
(`readErr`). Windows are at least 1, and the 32-bit count of bytes does not wrap. The reader's result depends only on the order of what is on the
way, so `MaxFlight` may bound how much is. Lengths are in units of which a control
message takes one; the pool's buffers are intervals. `conn.chunks` is keyed by the six
bits of the basic header, so all two-byte ids share one entry and all three-byte ids
another; the instance of the run has one two-byte id.

### Amf, AmfEncoder, AmfDecoder

Bytes are tokens: a marker, a fixed-width number, a string's body. Every encoder and
decoder function of the code is an operator; the recursion on nested values is the
code's. Values are taken from each kind and from the boundaries of the formats, a
map is visited in either order, and a peer uses references, traits and external
objects that the encoder never writes. AMF3 strings, XML and byte arrays that are cut off by the end of
the message are accepted, with zeros (`ReadUnchecked`, the code ignores how much was read);
AMF0 refuses them.

### TsMuxer

`Mux` on packets of 188 cells in one reused buffer, with the code's byte arithmetic. A
receiver takes what lies behind the adaptation field. Frame lengths are chosen at
the boundaries: one short of, exactly and one past what fits with each of the headers.

## 3. Runs

| Run | Instance | Shows |
|---|---|---|
| `hub_race` | 2 rooms, 1 publisher with a player, a player in the other room, 1 packet, fair | `TypeOK`, `RoomIsolation`, `PlayersReleased`, `EmptyRoomRemoved` |
| `hub_overlap` | 1 room, 2 publishers, 1 player, 3 packets each, 1 deletion | `NoLeakedPublisher`, `WritersReachable`, `RemovalIsSafe`, `GaplessDelivery` (three packets are what a gap needs) |
| `hub_takeover` | 1 room, 2 publishers, a recorder, 1 packet each, fair | `SupersededStops` |
| `queue` | four variants, 2 producers, capacity 5, margins 1 < 2 < 3 < 4, 4 writes, 1 closer | `QueueBound`, `DropKeepsAudioAndKeys`, `StallNeedsDrain`, `SentOnce` |
| `queue_close` | four variants, 2 producers, 3 writes, 2 closers, fair | `PanicNeedsOverlap`, `WriteReturns` |
| `queue_keyframes` | `VirWriter`, 5 writes | violated: a key frame that arrives at the mark is lost |
| `cache_gop2` | `gop_num` 2, groups of 3 packets, 2 identities | refinement of `GopWindow` (`gop_num` 1: by proof) |
| `cache_panic` | `gop_num` 3 | violated: nil dereference after the first key frame |
| `hls` | 7 packets, 2 segments kept, 1 takeover, a playlist request; 5 audio frames of an irregular publisher, 20 of a steady one | `PlaylistServable`, `SegmentsSplitStream`, `SegmentShape`, `WindowSlides`; `AlignedIncreases`, `SteadyRarelyJumps` |
| `control` | 2 publishers, 2 sources, 1 request; 2 handlers, 2 relays; 2 publishers, 2 pushes; channels of 1; fair | `FedIsServed`, `ClosedIsForgotten`; `RelayReachable`, `StopReturns`, `StopCloses`; `PushStopReturns` |
| `push_takeover` | static push with takeovers | violated: a replaced publisher's end stops its successor's push |
| `core` | keys: 2 rooms, 2 callers, 2 draws, 1 restart; AMF: messages of 2 values; chunks: 3 messages, 1 acknowledgement; session: 2 keys of a room, 4 messages of a peer; TS: 2 frames, 17 tables; fair | `CoreTypeOK`; `AnsweredKeyOpens`, `KeyOpensOneRoom`; `MessagesSurvive`; `MessagesIntact`, `AckAccounts`; `RoleAgreed`, `AdmittedIntoItsRoom`, `StartReturns`, `HandlerEnds`; `FrameIsReceived`, `CountersFollow` |

Bounds. Two publishers are what a takeover needs, and two rooms are what isolation
needs; the sweeper is always there. `hub_overlap` does not go on behind a room in `stale`, about
which its properties say nothing (no room ever leaves it). The queue's margins keep the order of the code's
2 < 10 < 24 < 84 < 1024, with a capacity that four writes can fill past the mark.
Two identities tell the packets of a group, and the groups, apart. Seven packets
make up to three segments; with two segments kept (the code: three) one is evicted, also while a
playlist is written. A steady publisher's 20 frames make the audio clock jump at least once. Two draws and a restart make a new process draw a
key that redis still has. Chunk sizes 1, 2 and 3 against lengths 0, 3 and 6 give empty,
split and whole messages, one that is longer than the pool's 5, and a size that changes between them; times 1 and 7 lie on
either side of the extended field's limit 6. A frame of 2900 bytes takes 16 packets
with its header, so that the four-bit counter wraps; 17 tables do the same.
Deadlock is not checked where the system may rightly stop: when all connections
are done, all bounds are used up, or after a crash.

Fairness. A goroutine that can take a step takes one (Go's scheduler); `CheckAlive`
ranges over the map every five seconds, so every key in it is visited again and
again (strong fairness, since the sweeper is busy with other keys in between). For
the queue: a writer that is stalled sends nothing, `Alive()` turns false and the
sweeper calls `Close`. The HLS server's `checkStop` is a ticker as well. In `RtmpRelay` and
`StaticPush` the sender of a stop competes with packets in the other side's `select`,
which picks at random: some stop that is possible again and again is taken
(strong fairness of the stops together, no more). Nothing is assumed of a relay's play server: its
reads need not return. In `RtmpSession` the handshake's deadlines pass;
after it nothing is assumed of a silent peer, nor anywhere of API clients, of the
answer of `Alive()` or of the queue's sender.

## 4. Proofs

All theorems hold for every value of the constants that satisfies the named
assumptions. These only say what kind of values the constants are and that the
markers for "nothing" (`None`, `Nil`, `NoOne`, ...) are not among the values they stand
beside; for the queue they give the order of the margins, for the audio clock that
the tolerance is at least a millisecond, for the session that no room is named like a key.
Chunk sizes and windows are at least 1. `OneEntryEach` is named in the
theorems that need it. The larger inductive invariants were checked by TLC on the
instance of the run before they were proved.

### The hub (`StreamHubProofs`)

`TypeCorrect` and `Isolation` hold in every interleaving. Isolation is not
inductive: a step that hands a packet over looks at `cur`, `rd`, `ws`, `at` and
`pkt`, all set by earlier steps of other goroutines. The invariant adds `LocalsDefined`
(a goroutine past its lookup has the locals its next step uses) and `SameKey`
(whatever is linked to anything has the same key).

`NoPublisherLeaks`, `WritersStayReachable`, `RemovalsAreSafe` and `DeliveryHasNoGap`
are proved for every interleaving, with no assumption that operations exclude one another;
they are about the rooms that are not in `stale`. They rest on `HubInv`:

| Part | Says | Needed because |
|---|---|---|
| `Fresh` | a Stream not yet stored is known to nobody | `Copy` fills it before it is stored |
| `Registered` | a registered writer's handler has ended | a writer is not added a second time |
| `OneReader` | a Stream has one publisher for good | a takeover is a new Stream |
| `Started` | a running publisher's Stream is started until whoever stops it has closed the publisher | `isStart` is a plain field that four goroutines write |
| `Held` | the map holds the Stream of every open publisher | this is `NoLeakedPublisher` |
| `Swept` | what the sweeper has counted stays so while no handler is inside the room | this gives `RemovalIsSafe` |
| `Listed` | a writer is in one Stream, the map's or a copy; one handler copies a Stream and leaves no writer behind | this gives `WritersReachable` |
| `UpToDate` | a writer that has a packet has all up to the one in hand | this gives `GaplessDelivery` |

`Held` is where the takeover could go wrong: `CopyStore` replaces an entry, and what
makes it safe is that the entry's publisher was closed before the copy began (`Started`), or
else the action itself finds its lookup outdated and the room is `stale`.

### The queues (`PacketQueueProofs`)

`TypeCorrect`, `Bounded`, `StallBound`, `DropKeeps`, `SentAtMostOnce`, `ClosedAtMostOnce`, for
any number of producers and closers. `RoomInv` counts the producers that have passed their
test or hold a packet they took out: each has its place below the bound when it sends.
`DrainInv` counts what is missing from the channel since a producer's loop began: at most one
packet a round, the rest went to the sender or to other producers. `StallBound` and
`DropKeeps` are about the RTMP and HLS writers; the HTTP-FLV loop takes two packets
a round. `DropKeeps` needs `Few`, so that no `len` test of the loop is true. `PlaceInv` puts
every packet in one place (channel, output, given up, a producer's or the sender's hand).
`ClosedAtMostOnce` rests on `CloseInv`: as long as no call tested the flag while another had
tested and not set it, who closed the channel has set the flag before the next one tests it.

### The packet cache (`GopCacheProofs`)

`RingFilled` for every `gop_num`; `NoPanic` and `Refinement` for 1 and 2. The argument
rests on `GroupsForm`: the slot that packets go to is the newest group and the last
one `sendTo` reaches. With three slots it is false.

### HLS (`HlsSourceProofs`, `ControlProofs`)

`PlaylistsAreServable`, `SegmentsSplit`, `SegmentsHaveShape` and the refinement
`WindowImplemented` follow from one invariant of the source, `SourceInv`, kept by each
step of the sender, the playlist handler and `Close`:

* `WindowInv`: the list holds the newest segments in order, one less in the middle
  of `SetItem`; it alone gives the refinement of `SegmentWindow`. That is
  proved for a window of at least two segments (the code keeps three): with one, the
  list is empty in the middle of `SetItem`, which a reader can see and `SegmentWindow`
  has only before the first segment.
* `MapInv`: the map holds what the list names and the last `MaxTSNum` segments, unless
  two of them share a name (`collided`); after `cleaned` the map is there but nobody can reach it.
* `HandlerInv`: what the handler holds was in the list, and an element that is
  still in it has been written down before the handler goes on. An evicted element
  has no successor, so the playlist ends there instead of skipping.
* `SplitInv`, `BufferInv`, `ShapeInv`: the numbers of frames in the segments, the buffer
  and the audio cache partition what was fed; the buffer starts with the tables and the
  key frame whose time the status keeps.

`AlignTypeCorrect`, `AlignedStaysNear`, `AlignedKeepsOrder`: one lemma shows that a step
of `calcPtsDts` returns a time within the tolerance of the frame's own; order follows
for frames more than twice the tolerance apart. `SteadyJumpsRarely` needs `SteadyInv`: the
clock of a steady publisher is never early, and after `k` frames from a base it is late by at most
a millisecond and `k` ticks, one for every frame whose period was cut; so it takes more than
`Tol - Hz` frames to leave the tolerance.

`FedSourceIsServed`, for any number of publishers and requests, needs `GotIsServed`:
between `GetWriter` and `HandleWriter` an open source is the one in the map.

### Relays, keys, sessions (`ControlProofs`, `RtmpSessionProofs`)

`RelaysAreReachable` needs `OneRequest`: a careful user has one request under way, and a
relay that runs is the session's or is about to be stored.

`KeysTypeCorrect`, `AnswersOpen`, `KeysStaySeparate` hold for both stores. A key in
flight was drawn once and the store does not know it (`FlightInv`); a room's key leads
back or is about to (`LinkInv`); in memory a key belongs to one room from its draw on
(`MemoryInv`); what was handed out leads nowhere else (`IssuedInv`), over restarts too,
since redis keeps every key and memory forgets all of them.

`RolesAgree` needs `LockStep`: against this
program's server at most one command is under way, it is the one the client waits for,
and the server's state is what the answered ones made it; and `StreamInv`:
against another server, until `createStream` is answered only an answer to `connect` has set
the stream, and after it the stream is one that an answer taken for it has named (`Chosen`).
`PublishersFindTheirRoom` needs `LookupInv` (what `handleConn` asks for at each lookup), `OwnInv`
(this program's commands carry the client's name and role also when it has given up), and
the lemma `HeldRoom`: an entry of the flat store and its name stand for the same room.
`SessionTypeCorrect` adds `RangeInv`: `Start` writes at most three commands, each of
which moves the transaction number by at most one.

### The chunk layer (`ChunkLayerProofs`)

`MessagesStayIntact`, `AcksAccount` and `ChunkTypeCorrect` hold for both writers and for
every length (one longer than the pool's buffer stops the reader with a panic and nothing else does), chunk size, window and order of chunks, under `OneEntryEach`: no two
chunk streams share an entry of `conn.chunks`. A peer with two two-byte ids breaks that: a
message that starts inside another one ends the reader with an error, and a compressed
header refers to the wrong message. This program's writer uses 2, 4 and 6.

The writer is ahead of the reader by what is on its way, so the invariant cannot
compare the two directly. `StreamInv` says that there are snapshots of the writer,
one between any two chunks on their way (`Snapshots`: per chunk stream the last first
header and how much of its message is out, the chunk size, the number of messages
finished), such that

* each chunk leads from one snapshot to the next (`ChunkOf`): its header has a format
  that is allowed there, its body the size that the chunk size of that moment gives;
* the reader is where the first snapshot is (`ReaderAt`): its entries, `remoteChunkSize`
  and the number of messages returned;
* the writer is where the last one is (`WriterAt`), but for a header that is half of
  a chunk (`EndsAt`); or, after a race of the acknowledgement, the chunks are followed by
  two headers in a row (`BrokenAt`), which is where the reader stops.

A writer's step appends a snapshot (`ChainGrows`), the reader's step takes the first
one away (`ChainShrinks`, `ReaderFollows`). Two places need more: this program's
writer uses a new chunk size for the very message that announces it, which works
because that message has one unit (`UnitBody`); and a chunk that continues a message
carries its extended time again, which the reader compares with the entry's absolute
time, so that a time difference past the limit must not be split (`bigDelta`).

The other conjuncts: `WriterInv` (one message at a time for this program's writer, a
started one for a peer's chunk stream), `ReaderInv` (what was returned was finished, in
that order), `PoolInv` (places handed out lie before the current end of the pool and
apart; a place is handed out once), `AckInv` (there are partial sums of the lengths
returned, and the last one is what is acknowledged and counted). `Payload`, a recursive
function, equals these sums since otherwise there would be a first place where it
does not (`PayloadIs`, by the well-foundedness of the naturals).

### The TS muxer (`TsMuxerProofs`)

`NoLossIsSeen` rests on `CounterInv`: video and audio step their counter before they
use it and the tables after, so the counter last shown is the one kept, or the one
before it; the step from 15 or 16 back to 0 is then the same for a receiver.

`FramesAreReceived` rests on `MuxInv`: the PES header goes out with the first packet,
what is left is the rest of the frame, and what was received is the part that went out.
Its core is one lemma about a packet (`PacketEffect`): the adaptation field, whose length
is a byte and may wrap, ends where the copied cells begin, and the packet ends at 188.
It fails for a key frame smaller than its first packet, whose stuffing goes behind a
field that does not count it (`SmallKey`); the theorem excludes it as the property does.
The stamps are at most one tick late over the wrap of the clock (`Turn`, `StampNear`).
`MuxTypeCorrect` follows from the same invariant, small key frames included: no slice
of a frame ends past it.

### Only model-checked

* Liveness (`PlayersReleased`, `EmptyRoomRemoved`, `SupersededStops`, `WriteReturns`,
  `ClosedIsForgotten`, `StopReturns`, `StopCloses`, `PushStopReturns`, `StartReturns`,
  `HandlerEnds`): out of the prover's reach together with `ENABLED`.
* `MessagesSurvive`: the codec's operators are recursive, and what they compute for
  every value takes an induction over data.
* `CoreTypeOK`: it contains the codec's types. Its other four parts are the theorems
  `KeysTypeCorrect`, `ChunkTypeCorrect`, `SessionTypeCorrect` and `MuxTypeCorrect`.

## 5. State of the plan

Every safety property and action property of the passing runs is a theorem, except
the two above. What could follow:

1. The chunk layer without `OneEntryEach`: which of the three results remain.
2. The static push: the passing runs check only liveness of it.

## 6. Not modelled

* FLV tags and demuxer, the codec parsers (`parser`), `utils/pio`: functions of one
  frame's bytes; what they yield (a kind of packet, parsed or not) is an input.
* The payload of packets. Cached packets are handed out as pointers, and the HLS
  source strips their headers in place; the hazards list it.
* HTTP-FLV server: a check before the registration that `StreamHub` models; `Wait` and
  `closedChan` of the handler.
* A room that is named like a key; an acknowledgement window of 0 and the wrap of the 32-bit
  count of bytes.
* User control messages, the list of push addresses per application, paths and
  headers of HTTP answers, the contents of the tables of a transport stream.
* Configuration, statistics, JSON, JWT, logging and process start: no state that
  the properties depend on.
* `utils/queue` and `DeleteKey`: no caller.

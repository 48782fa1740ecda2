----------------------------- MODULE HlsSource -----------------------------
(***************************************************************************)
(* One room's HLS Source (protocol/hls/source.go): its sender goroutine    *)
(* SendPacket, which cuts the stream into MPEG-TS segments, the segment    *)
(* cache (cache.go) it fills without taking the cache's lock, a handler    *)
(* that builds the playlist from the same cache at the same time, and      *)
(* Close, which takes buffers and cache away from under both.  The channel in    *)
(* front of the sender is the module PacketQueue.                          *)
(***************************************************************************)
EXTENDS Integers, Sequences, FiniteSets

CONSTANTS Duration,    \* duration: 3000 ms
          MaxTSNum,    \* maxTSCacheNum: 3
          MaxFrames,   \* cache_max_frames: 6
          TimeSteps,   \* how far the stream time advances per packet
          ClockSteps,  \* how far the wall clock (seconds) advances per cut
          MaxPackets,  \* bound: packets received
          MaxTakeovers,\* bound: publishers that take the room over
          Nil

ASSUME SourceAssumption ==
    /\ Duration \in Nat \ {0} /\ MaxTSNum \in Nat \ {0} /\ MaxFrames \in Nat \ {0}
    /\ TimeSteps \subseteq Nat /\ ClockSteps \subseteq Nat
    /\ MaxPackets \in Nat /\ MaxTakeovers \in Nat

\* What SendPacket tells apart in a packet; "tables" is the PAT and PMT at the
\* head of a segment.
Video == {"key", "inter"}
FrameKinds == Video \cup {"audio"}
Frames == [id : 1..MaxPackets, kind : FrameKinds, ts : Nat]
Tables == [id |-> 0, kind |-> "tables", ts |-> 0]

ASSUME NilAssumption == Nil \notin Seq(Frames \cup {Tables})

VARIABLES
    spc,       \* the sender's control point
    pkt,       \* the packet in work, or Nil
    bts,       \* btswriter: the segment being written, Nil for no buffer
    acache,    \* cache: audio frames not yet written
    stat,      \* status: whether the first timestamp is set, first and last one
    seq,       \* number of segments cut
    item,      \* the segment being put in the cache
    out,       \* the key SetItem took off the list, or Nil
    ll,        \* the list of segment nodes [seq, key]
    lm,        \* the map from key to segment
    cleaned,   \* cleanup has run: the buffers and tsCache are nil
    srcClosed, \* the flag closed
    clock,     \* time.Now().Unix()
    now,       \* timestamp of the newest packet
    received,  \* number of packets received
    takeovers, \* number of publishers that took over
    rpc,       \* the playlist handler's control point
    node,      \* the list element it is at, or Nil
    playlist,  \* the segments it has written down
    crashed,   \* a map read met a map write: the Go runtime ends the process
    emitted,   \* history: all segments cut
    fed,       \* history: the frames given to the muxer or the audio cache
    collided   \* history: two segments got the same name

sender == <<spc, pkt, bts, acache, stat, seq, item, out>>
segments == <<ll, lm>>
input == <<clock, now, received, takeovers>>
handler == <<rpc, node, playlist>>
sourceVars == <<sender, segments, cleaned, srcClosed, input, handler, crashed,
                emitted, fed, collided>>

SourceInit ==
    /\ spc = "loop" /\ pkt = Nil /\ bts = Nil /\ acache = <<>>
    /\ stat = [set |-> FALSE, first |-> 0, last |-> 0]
    /\ seq = 0 /\ item = Nil /\ out = Nil /\ ll = <<>> /\ lm = <<>>
    /\ cleaned = FALSE /\ srcClosed = FALSE
    /\ clock = 0 /\ now = 0 /\ received = 0 /\ takeovers = 0
    /\ rpc = "idle" /\ node = Nil /\ playlist = <<>> /\ crashed = FALSE
    /\ emitted = <<>> /\ fed = <<>> /\ collided = FALSE

-----------------------------------------------------------------------------
(* The sender: SendPacket.                                                 *)

\* status.durationMs
durationMs == stat.last - stat.first

\* status.update
StatUpdate(t) ==
    stat' = [set |-> TRUE, first |-> IF stat.set THEN stat.first ELSE t, last |-> t]

\* A frame is received and parsed; a key frame goes through cut first.  The
\* last timestamp stays what it was until the frame is muxed.
SendFrame(kind, step) ==
    /\ spc = "loop" /\ ~srcClosed /\ ~cleaned
    /\ received < MaxPackets
    /\ received' = received + 1
    /\ now' = now + step
    /\ pkt' = [id |-> received + 1, kind |-> kind, ts |-> now + step]
    /\ spc' = IF kind = "key" THEN "cut" ELSE "mux"
    /\ UNCHANGED <<bts, acache, stat, seq, item, out, segments, cleaned, srcClosed,
                   clock, takeovers, handler, crashed, emitted, fed, collided>>

\* Metadata, sequence headers, end-of-sequence tags and packets the parser
\* refuses (another codec, a malformed payload) leave the source alone.
SendSkips ==
    /\ spc = "loop" /\ ~srcClosed /\ ~cleaned
    /\ UNCHANGED sourceVars

\* A payload too short for the demuxer ends the sender with the flag set; a
\* closed and drained channel, or the flag, ends it too.
SendEnds ==
    /\ spc = "loop"
    /\ spc' = "gone"
    /\ srcClosed' = TRUE
    /\ UNCHANGED <<pkt, bts, acache, stat, seq, item, out, segments, cleaned, input,
                   handler, crashed, emitted, fed, collided>>

\* After cleanup the use of a nil buffer panics, SendPacket recovers and ends;
\* or the frame meets a nil test first and goes where nobody will see it.
SendPanics ==
    /\ cleaned /\ spc \in {"cut", "mux"}
    /\ spc' \in {"gone", "loop"}
    /\ pkt' = Nil
    /\ UNCHANGED <<bts, acache, stat, seq, item, out, segments, cleaned, srcClosed, input,
                   handler, crashed, emitted, fed, collided>>

\* cut, first key frame: a buffer that starts with the tables.
CutFirst ==
    /\ spc = "cut" /\ ~cleaned /\ bts = Nil
    /\ bts' = <<Tables>>
    /\ spc' = "mux"
    /\ UNCHANGED <<pkt, acache, stat, seq, item, out, segments, cleaned, srcClosed,
                   input, handler, crashed, emitted, fed, collided>>

\* cut, the segment is too short: it goes on.
CutShort ==
    /\ spc = "cut" /\ ~cleaned /\ bts # Nil /\ durationMs < Duration
    /\ spc' = "mux"
    /\ UNCHANGED <<pkt, bts, acache, stat, seq, item, out, segments, cleaned, srcClosed,
                   input, handler, crashed, emitted, fed, collided>>

\* The segment that ends with buffer b, named after the wall clock.
EndSegment(b, t) ==
    /\ seq' = seq + 1
    /\ clock' = t
    /\ item' = [seq |-> seq + 1, name |-> t, dur |-> durationMs, data |-> b]
    /\ emitted' = Append(emitted, item')
    /\ collided' = (collided \/ \E j \in DOMAIN emitted : emitted[j].name = t)

\* Mutants: the audio is left for the next segment; the first timestamp of the
\* segment is kept.
CutSegment_NoFlush ==
    /\ spc = "cut" /\ ~cleaned /\ bts # Nil /\ durationMs >= Duration
    /\ \E d \in ClockSteps : EndSegment(bts, clock + d)
    /\ bts' = <<Tables>>
    /\ stat' = [stat EXCEPT !.set = FALSE]
    /\ spc' = "evict"
    /\ UNCHANGED <<pkt, acache, out, segments, cleaned, srcClosed, now, received,
                   takeovers, handler, crashed, fed>>

CutSegment_NoReset ==
    /\ spc = "cut" /\ ~cleaned /\ bts # Nil /\ durationMs >= Duration
    /\ \E d \in ClockSteps : EndSegment(bts \o acache, clock + d)
    /\ acache' = <<>>
    /\ bts' = <<Tables>>
    /\ spc' = "evict"
    /\ UNCHANGED <<pkt, stat, out, segments, cleaned, srcClosed, now, received,
                   takeovers, handler, crashed, fed>>

\* cut, at a key frame after Duration: flushAudio, the item with a copy of the
\* buffer, then SetItem; btswriter.Reset, resetAndNew and the new tables are
\* seen by nobody before the sender's next step and are taken here.
CutSegment ==
    /\ spc = "cut" /\ ~cleaned /\ bts # Nil /\ durationMs >= Duration
    /\ \E d \in ClockSteps : EndSegment(bts \o acache, clock + d)
    /\ acache' = <<>>
    /\ bts' = <<Tables>>
    /\ stat' = [stat EXCEPT !.set = FALSE]
    /\ spc' = "evict"
    /\ UNCHANGED <<pkt, out, segments, cleaned, srcClosed, now, received, takeovers,
                   handler, crashed, fed>>

CacheKeeps ==
    UNCHANGED <<pkt, bts, acache, stat, seq, cleaned, srcClosed, input, handler,
                crashed, emitted, fed, collided>>

\* Mutant: the window grows by one.
SetItemEvict_Late ==
    /\ spc = "evict"
    /\ IF Len(ll) > MaxTSNum
       THEN ll' = Tail(ll) /\ out' = ll[1].key /\ spc' = "delete"
       ELSE spc' = "store" /\ UNCHANGED <<ll, out>>
    /\ UNCHANGED <<lm, item>>
    /\ CacheKeeps

\* SetItem: a full list loses its front element, the map loses that element's
\* key and gets the new one, and the list its new back.
SetItemEvict ==
    /\ spc = "evict"
    /\ IF Len(ll) = MaxTSNum
       THEN ll' = Tail(ll) /\ out' = ll[1].key /\ spc' = "delete"
       ELSE spc' = "store" /\ UNCHANGED <<ll, out>>
    /\ UNCHANGED <<lm, item>>
    /\ CacheKeeps

SetItemDelete ==
    /\ spc = "delete"
    /\ lm' = [k \in DOMAIN lm \ {out} |-> lm[k]]
    /\ out' = Nil
    /\ spc' = "store"
    /\ UNCHANGED <<ll, item>>
    /\ CacheKeeps

SetItemStore ==
    /\ spc = "store"
    /\ lm' = [k \in DOMAIN lm \cup {item.name} |-> IF k = item.name THEN item ELSE lm[k]]
    /\ spc' = "push"
    /\ UNCHANGED <<ll, item, out>>
    /\ CacheKeeps

SetItemPush ==
    /\ spc = "push"
    /\ ll' = Append(ll, [seq |-> item.seq, key |-> item.name])
    /\ item' = Nil
    /\ spc' = IF cleaned THEN "gone" ELSE "mux"
    /\ UNCHANGED <<lm, out>>
    /\ CacheKeeps

\* tsMux: video goes straight into the segment, audio waits in the cache until
\* there are MaxFrames of it; frames before the first key frame are dropped.
MuxFrame ==
    /\ spc = "mux" /\ ~cleaned
    /\ IF bts = Nil THEN UNCHANGED <<bts, acache, stat, fed>>
       ELSE /\ StatUpdate(pkt.ts)
            /\ fed' = Append(fed, pkt)
            /\ \/ pkt.kind \in Video /\ bts' = Append(bts, pkt) /\ UNCHANGED acache
               \/ /\ pkt.kind = "audio" /\ Len(acache) + 1 < MaxFrames
                  /\ acache' = Append(acache, pkt) /\ UNCHANGED bts
               \/ /\ pkt.kind = "audio" /\ Len(acache) + 1 >= MaxFrames
                  /\ bts' = bts \o Append(acache, pkt) /\ acache' = <<>>
    /\ pkt' = Nil
    /\ spc' = "loop"
    /\ UNCHANGED <<seq, item, out, segments, cleaned, srcClosed, input, handler, crashed,
                   emitted, collided>>

SendPacket ==
    \/ \E k \in FrameKinds, d \in TimeSteps : SendFrame(k, d)
    \/ SendSkips \/ SendEnds \/ SendPanics
    \/ CutFirst \/ CutShort \/ CutSegment
    \/ SetItemEvict \/ SetItemDelete \/ SetItemStore \/ SetItemPush
    \/ MuxFrame

\* The next publisher's timestamps start again; the source, unlike the other
\* writers, does not add its base timestamp.
Takeover ==
    /\ takeovers < MaxTakeovers /\ now > 0
    /\ takeovers' = takeovers + 1
    /\ now' = 0
    /\ UNCHANGED <<sender, segments, cleaned, srcClosed, clock, received, handler,
                   crashed, emitted, fed, collided>>

\* Close: cleanup takes the buffers away and sets tsCache to nil.  The list and
\* the map go on for those who hold them: a sender inside SetItem and a handler
\* inside GenM3U8PlayList; nobody else finds them any more.
SourceCleanup ==
    /\ ~srcClosed /\ ~cleaned
    /\ cleaned' = TRUE /\ bts' = Nil /\ acache' = <<>>
    /\ UNCHANGED <<spc, pkt, stat, seq, item, out, segments, srcClosed, input, handler,
                   crashed, emitted, fed, collided>>

\* Then the flag is set; with hls_keep_after_end nothing is cleaned up before.
SourceCloseFlag ==
    /\ ~srcClosed
    /\ srcClosed' = TRUE
    /\ UNCHANGED <<sender, segments, cleaned, input, handler, crashed, emitted,
                   fed, collided>>

-----------------------------------------------------------------------------
(* handle: a client asks for the playlist (GenM3U8PlayList), then for what *)
(* it lists.                                                               *)

HandlerKeeps ==
    UNCHANGED <<sender, segments, cleaned, srcClosed, input, emitted, fed, collided>>

\* The element at position j of the list, Nil behind its end.
ElementAt(j) == IF j \in DOMAIN ll THEN ll[j] ELSE Nil

PlaylistBegin ==
    /\ rpc \in {"idle", "done"} /\ ~cleaned
    /\ rpc' = "visit"
    /\ node' = ElementAt(1)
    /\ playlist' = <<>>
    /\ UNCHANGED crashed
    /\ HandlerKeeps

\* The map is read without the lock.  Overlapping a write, the read may end
\* the process ("concurrent map read and map write").
PlaylistVisit ==
    /\ rpc = "visit" /\ node # Nil
    /\ playlist' = IF node.key \in DOMAIN lm THEN Append(playlist, lm[node.key])
                   ELSE playlist
    /\ rpc' = "next"
    /\ crashed' \in IF spc \in {"delete", "store"} THEN BOOLEAN ELSE {FALSE}
    /\ UNCHANGED node
    /\ HandlerKeeps

\* Mutant: an element taken off the list leads on to the list's new front.
PlaylistNext_Restarts ==
    /\ rpc = "next"
    /\ node' = IF \E j \in DOMAIN ll : ll[j] = node
               THEN ElementAt(1 + CHOOSE j \in DOMAIN ll : ll[j] = node)
               ELSE ElementAt(Len(ll))
    /\ rpc' = "visit"
    /\ UNCHANGED <<playlist, crashed>>
    /\ HandlerKeeps

\* e.Next(): an element that was taken off the list meanwhile has no next.
PlaylistNext ==
    /\ rpc = "next"
    /\ node' = IF \E j \in DOMAIN ll : ll[j] = node
               THEN ElementAt(1 + CHOOSE j \in DOMAIN ll : ll[j] = node)
               ELSE Nil
    /\ rpc' = "visit"
    /\ UNCHANGED <<playlist, crashed>>
    /\ HandlerKeeps

PlaylistDone ==
    /\ rpc = "visit" /\ node = Nil
    /\ rpc' = "done"
    /\ UNCHANGED <<node, playlist, crashed>>
    /\ HandlerKeeps

\* What a request for a .ts file gets, Nil for an error: GetItem's ErrNoKey, or
\* the end of the request's goroutine, which calls GetItem on a nil tsCache.
TsAnswer(name) == IF ~cleaned /\ name \in DOMAIN lm THEN lm[name] ELSE Nil

\* The request changes nothing, but GetItem reads the map without the lock, too.
TsRequest ==
    /\ rpc = "done" /\ playlist # <<>> /\ ~cleaned
    /\ crashed' \in IF spc \in {"delete", "store"} THEN BOOLEAN ELSE {FALSE}
    /\ UNCHANGED handler
    /\ HandlerKeeps

GenM3U8PlayList == PlaylistBegin \/ PlaylistVisit \/ PlaylistNext \/ PlaylistDone

-----------------------------------------------------------------------------
SourceNext ==
    /\ ~crashed
    /\ \/ SendPacket \/ GenM3U8PlayList \/ TsRequest
       \/ Takeover \/ SourceCleanup \/ SourceCloseFlag

SourceSpec == SourceInit /\ [][SourceNext]_sourceVars

-----------------------------------------------------------------------------
(* Properties.                                                             *)

\* The segments a request sees at this moment.
Window == [j \in DOMAIN ll |-> ll[j].seq]

W == INSTANCE SegmentWindow WITH Size <- MaxTSNum, window <- Window

\* Every step of SetItem shows the readers a window of consecutive segments
\* that slides by one.
WindowSlides == W!WindowInit /\ [][W!WindowNext]_Window

\* A playlist lists consecutive segments and every one of them once, although
\* it is written down while the sender replaces segments or the source is
\* closed: it may end early but has no gap.  A request for what it lists gets
\* that segment until MaxTSNum newer ones have been cut, or the source is
\* cleaned up: then no request for a segment is answered.  (Not when two cuts
\* fall in one second and share a name.)
PlaylistServable ==
    ~collided =>
        /\ \A j \in 1 .. Len(playlist) - 1 : playlist[j + 1].seq = playlist[j].seq + 1
        /\ (rpc = "done" /\ ~cleaned) => \A j \in DOMAIN playlist :
              seq - playlist[j].seq < MaxTSNum => TsAnswer(playlist[j].name) = playlist[j]

Ids(s) == {s[j].id : j \in DOMAIN s} \ {0}

\* The frames of each segment cut, and of what will be the next one.
Pieces == Append([j \in DOMAIN emitted |-> Ids(emitted[j].data)],
                 IF cleaned THEN {} ELSE Ids(acache) \cup (IF bts = Nil THEN {} ELSE Ids(bts)))

\* The segments split the stream: every frame that was fed is in exactly one
\* of the segments cut, the buffer and the audio cache, and whatever came
\* before the key frame that starts a segment is in an earlier one, the audio
\* waiting in the cache included.
SegmentsSplitStream ==
    /\ ~cleaned => UNION {Pieces[j] : j \in DOMAIN Pieces} = Ids(fed)
    /\ \A j, k \in DOMAIN Pieces : j < k =>
          \A a \in Pieces[j], b \in Pieces[k] : a < b

FrameOf(i) == CHOOSE f \in {fed[j] : j \in DOMAIN fed} : f.id = i

\* A segment starts with the tables and a key frame, and the duration in the
\* playlist is the time from its first frame to its last, never less than
\* Duration, also when a takeover set the timestamps back.
SegmentShape ==
    \A j \in DOMAIN emitted :
        LET d == emitted[j].data
            last == CHOOSE a \in Ids(d) : \A b \in Ids(d) : b <= a
        IN  /\ d[1] = Tables /\ d[2].kind = "key"
            /\ emitted[j].dur = FrameOf(last).ts - d[2].ts
            /\ emitted[j].dur >= Duration
=============================================================================

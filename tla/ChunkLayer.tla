----------------------------- MODULE ChunkLayer -----------------------------
(***************************************************************************)
(* The RTMP chunk layer (protocol/rtmp/core: conn.go, chunk_stream.go,     *)
(* read_writer.go, and utils/pool): one direction of a connection, from a  *)
(* writer to the reader Conn.Read.  The writer is this program's own       *)
(* (Conn.Write, with a second goroutine, the one that reads the            *)
(* connection, writing acknowledgements to the same buffer) or a peer that *)
(* uses what the protocol allows: compressed headers and chunks of several *)
(* messages in turn.  A chunk is a header and a body; lengths are counted  *)
(* in units of which a control message takes one.                          *)
(***************************************************************************)
EXTENDS Integers, Sequences

CONSTANTS MaxMsgs,     \* bound: messages written
          MaxAcks,     \* bound: acknowledgements written
          MaxFlight,   \* bound: headers and bodies on their way when one is added
          Lengths,     \* lengths of media messages
          Times,       \* their timestamps
          TsMod,       \* timestamps are modulo this: 2^32
          ExtTs,       \* and extended from here on: 0xffffff
          Sizes,       \* chunk sizes a SetChunkSize message brings
          InitSize,    \* chunk size at the start: 128
          Windows,     \* window sizes a WindowAckSize message brings
          InitWindow,  \* window size at the start: 2500000
          PoolSize,    \* size of a buffer of the pool: 500 KB
          PeerStreams, \* chunk stream ids a peer uses for media
          Absent

ASSUME ChunkAssumption ==
    /\ {MaxMsgs, MaxAcks, MaxFlight} \subseteq Nat /\ {InitSize, InitWindow} \subseteq Nat \ {0}
    /\ Sizes \subseteq Nat \ {0} /\ Lengths \subseteq Nat /\ Windows \subseteq Nat \ {0}
    /\ TsMod \in Nat /\ ExtTs \in 1..(TsMod - 1) /\ Times \subseteq 0..(TsMod - 1)
    /\ PoolSize \in Nat \ {0}
    /\ PeerStreams \subseteq Nat \ {0, 1}

\* Types of messages.
SetChunkSize == 1
AckType == 3
WindowAckSize == 5
Audio == 8
Video == 9

Csids == {2, 4, 6} \cup PeerStreams

\* Messages: a control message takes one unit.
Timestamps == 0..(TsMod - 1)
Msgs ==
    {m \in [id : Nat, type : {SetChunkSize, AckType, WindowAckSize, Audio, Video},
            len : Nat, ts : Timestamps, val : Nat] :
        /\ m.type \notin {Audio, Video} => m.len = 1
        /\ m.type = SetChunkSize => m.val \in Sizes
        /\ m.type = WindowAckSize => m.val \in Windows}

\* What inWork, lastHdr and entries hold.
Works == [m : Msgs, done : Nat]
Lasts == [m : Msgs, time : Timestamps, delta : Timestamps \cup {Absent}]
Entries ==
    [time : Nat, delta : Nat, len : 0..PoolSize, type : Nat, fmt : 0..3, exted : BOOLEAN,
     index : Nat, remain : Nat, data : Seq(Nat \X Nat), at : [buf : Nat, pos : Nat] \cup {Absent}]

\* Absent is none of the values it stands for the lack of.
ASSUME AbsentAssumption == Absent \notin Int \cup Works \cup Lasts \cup Entries

VARIABLES
    ours,      \* the writer is this program's
    wsize,     \* the writer's chunkSize
    inWork,    \* per chunk stream: the message being written and how much of it is
    lastHdr,   \* per chunk stream: what a peer's compressed headers refer to
    half,      \* who has written a header and not yet the body: {}, {"msg"}, {"ack"} or both
    ackBody,   \* the acknowledgement whose body is due
    count,     \* messages and acknowledgements started
    stream,    \* headers and bodies on their way
    entries,   \* the reader's conn.chunks
    rsize, window,       \* its remoteChunkSize and remoteWindowAckSize
    ackReceived, acked,  \* its counter, and what it has acknowledged in all
    pool,      \* its pool: the number of the current buffer and pos
    delivered, \* the messages it has returned
    finished,  \* history: the messages completely written, in that order
    readErr,   \* "", or why the reader cannot go on
    raced,     \* history: two goroutines were inside one chunk at once
    bigDelta   \* history: a peer split a message whose time delta was extended

writerVars == <<ours, wsize, inWork, lastHdr, half, ackBody, count, raced, bigDelta, finished>>
readerVars == <<entries, rsize, window, ackReceived, acked, pool, delivered, readErr>>
chunkVars == <<writerVars, readerVars, stream>>

ChunkInit ==
    /\ ours \in BOOLEAN
    /\ wsize = InitSize /\ rsize = InitSize /\ window = InitWindow
    /\ inWork = [c \in Csids |-> Absent] /\ lastHdr = [c \in Csids |-> Absent]
    /\ half = {} /\ ackBody = Absent /\ count = [msg |-> 0, ack |-> 0]
    /\ raced = FALSE /\ bigDelta = FALSE
    /\ stream = <<>>
    /\ entries = [c \in 0..63 \cap (Csids \cup {0, 1}) |-> Absent]
    /\ ackReceived = 0 /\ acked = 0
    /\ pool = [buf |-> 1, pos |-> 0]
    /\ delivered = <<>> /\ finished = <<>> /\ readErr = ""

-----------------------------------------------------------------------------
(* Writing.                                                                *)

Messages(id) ==
    [id : {id}, type : {Audio, Video}, len : Lengths, ts : Times, val : {0}]
      \cup [id : {id}, type : {SetChunkSize}, len : {1}, ts : {0}, val : Sizes]
      \cup [id : {id}, type : {WindowAckSize}, len : {1}, ts : {0}, val : Windows]

\* writeChunk chooses the chunk stream of media by type.
CsidOf(m) == IF m.type = Audio THEN 4 ELSE IF m.type = Video THEN 6 ELSE 2

\* The header of chunk stream c with the message fields of m, and the
\* extended timestamp that follows it.
Header(c, fmt, m, time) ==
    [kind |-> "hdr", csid |-> c, fmt |-> fmt, type |-> m.type, len |-> m.len,
     time |-> IF time > ExtTs THEN ExtTs ELSE time,
     ext |-> IF time >= ExtTs THEN time ELSE Absent]

BodyOf(m, from, size) ==
    [kind |-> "body", id |-> m.id, from |-> from, val |-> m.val,
     size |-> IF m.len - from <= size THEN m.len - from ELSE size]

\* Conn.Write begins.  A SetChunkSize takes effect on its own message.  A
\* message of length 0 leaves the loop of writeChunk before its first chunk.
WriteMessage(m) ==
    /\ ours /\ \A c \in Csids : inWork[c] = Absent
    /\ count.msg < MaxMsgs
    /\ count' = [count EXCEPT !.msg = @ + 1]
    /\ wsize' = IF m.type = SetChunkSize THEN m.val ELSE wsize
    /\ inWork' = IF m.len = 0 THEN inWork
                 ELSE [inWork EXCEPT ![CsidOf(m)] = [m |-> m, done |-> 0]]
    /\ UNCHANGED <<ours, lastHdr, half, ackBody, raced, bigDelta, finished, readerVars, stream>>

\* writeHeader: format 0 for the first chunk of a message, then 3.
WriteHeader(c) ==
    LET m == inWork[c].m
    IN  /\ ours /\ inWork[c] # Absent /\ "msg" \notin half
        /\ stream' = Append(stream, Header(c, IF inWork[c].done = 0 THEN 0 ELSE 3, m, m.ts))
        /\ half' = half \cup {"msg"}
        /\ raced' = (raced \/ "ack" \in half)
        /\ UNCHANGED <<ours, wsize, inWork, lastHdr, ackBody, count, bigDelta, finished, readerVars>>

\* The part of the message, up to the chunk size.
Advance(c, body) ==
    LET m == inWork[c].m
        done == inWork[c].done + body.size
    IN  /\ inWork' = [inWork EXCEPT ![c] = IF done = m.len THEN Absent ELSE [m |-> m, done |-> done]]
        /\ finished' = IF done = m.len THEN Append(finished, m) ELSE finished

WriteBody(c) ==
    /\ ours /\ inWork[c] # Absent /\ "msg" \in half
    /\ LET body == BodyOf(inWork[c].m, inWork[c].done, wsize)
       IN  stream' = Append(stream, body) /\ Advance(c, body)
    /\ half' = half \ {"msg"}
    /\ raced' = (raced \/ "ack" \in half)
    /\ UNCHANGED <<ours, wsize, lastHdr, ackBody, count, bigDelta, readerVars>>

\* ack: the goroutine that reads this connection writes to the same buffer.
AckHeader ==
    LET m == [id |-> 100 + count.ack, type |-> AckType, len |-> 1, ts |-> 0, val |-> 0]
    IN  /\ ours /\ "ack" \notin half /\ count.ack < MaxAcks
        /\ count' = [count EXCEPT !.ack = @ + 1]
        /\ stream' = Append(stream, Header(2, 0, m, 0))
        /\ ackBody' = m
        /\ half' = half \cup {"ack"}
        /\ raced' = (raced \/ "msg" \in half)
        /\ UNCHANGED <<ours, wsize, inWork, lastHdr, bigDelta, finished, readerVars>>

AckBody ==
    /\ "ack" \in half
    /\ stream' = Append(stream, BodyOf(ackBody, 0, wsize))
    /\ finished' = Append(finished, ackBody)
    /\ half' = half \ {"ack"}
    /\ raced' = (raced \/ "msg" \in half)
    /\ UNCHANGED <<ours, wsize, inWork, lastHdr, ackBody, count, bigDelta, readerVars>>

\* A peer starts a message on one of its chunk streams, with a full header, or
\* one that refers to the stream's last message: a time difference, the same
\* length and type, the same difference or, after a full header, the same time.
PeerStart(m, c, fmt) ==
    LET last == lastHdr[c]
        delta == (m.ts - last.m.ts) % TsMod
        full == fmt = 0 \/ (fmt = 3 /\ last.delta = Absent)
    IN  /\ ~ours /\ inWork[c] = Absent /\ count.msg < MaxMsgs
        /\ c = 2 <=> m.type \notin {Audio, Video}
        /\ fmt # 0 => last # Absent
        /\ fmt \in {2, 3} => m.len = last.m.len /\ m.type = last.m.type
        /\ fmt = 3 => IF full THEN m.ts = last.m.ts ELSE last.delta = delta
        /\ count' = [count EXCEPT !.msg = @ + 1]
        /\ LET body == BodyOf(m, 0, wsize)
               time == IF full THEN m.ts ELSE delta
               hdr == [Header(c, fmt, m, time) EXCEPT !.csid = c]
               all == body.size = m.len
           IN  /\ stream' = stream \o <<hdr, body>>
               /\ inWork' = [inWork EXCEPT ![c] = IF all THEN Absent ELSE [m |-> m, done |-> body.size]]
               /\ finished' = IF all THEN Append(finished, m) ELSE finished
               /\ wsize' = IF all /\ m.type = SetChunkSize THEN m.val ELSE wsize
               /\ lastHdr' = [lastHdr EXCEPT ![c] =
                     [m |-> m, time |-> time, delta |-> IF full THEN Absent ELSE delta]]
               /\ bigDelta' = (bigDelta \/ (~full /\ delta >= ExtTs /\ ~all))
        /\ UNCHANGED <<ours, half, ackBody, raced, readerVars>>

\* A chunk that continues a message; chunks of other streams may come between.
PeerContinue(c) ==
    /\ ~ours /\ inWork[c] # Absent
    /\ LET m == inWork[c].m
           body == BodyOf(m, inWork[c].done, wsize)
       IN  stream' = stream \o <<Header(c, 3, m, lastHdr[c].time), body>> /\ Advance(c, body)
    /\ UNCHANGED <<ours, wsize, lastHdr, half, ackBody, count, raced, bigDelta, readerVars>>

-----------------------------------------------------------------------------
(* Reading.                                                                *)

\* conn.chunks is keyed by the six bits of the basic header: all ids of two
\* bytes share the entry 0, those of three bytes the entry 1.
EntryOf(c) == IF c < 64 THEN c ELSE IF c - 64 < 256 THEN 0 ELSE 1

NewEntry ==
    [time |-> 0, delta |-> 0, len |-> 0, type |-> 0, fmt |-> 0, exted |-> FALSE,
     index |-> 0, remain |-> 0, data |-> <<>>, at |-> Absent]

\* Mutant: the rest of the buffer is handed out although it is too short.
PoolGet_NoTest(size) == [pool EXCEPT !.pos = @ + size]

\* pool.Get: from a fresh buffer when the current one has too little room.
PoolGet(size) ==
    IF PoolSize - pool.pos < size THEN [buf |-> pool.buf + 1, pos |-> size]
    ELSE [pool EXCEPT !.pos = @ + size]

\* The slice of a fresh buffer: it panics when even that has too little room.
PoolHas(size) == size <= PoolSize

\* readChunk's new: an entry starts a message of the length it has.
StartEntry(e) ==
    [e EXCEPT !.index = 0, !.remain = e.len, !.data = <<>>,
              !.at = [buf |-> PoolGet(e.len).buf, pos |-> PoolGet(e.len).pos - e.len]]

\* Mutant: a difference of time replaces the time.
ReadHeader_Replaces(e, h) ==
    IF h.fmt = 3 /\ e.remain # 0 THEN e
    ELSE StartEntry([e EXCEPT
            !.time = IF h.ext # Absent THEN h.ext ELSE IF h.fmt = 3 THEN e.time ELSE h.time,
            !.delta = IF h.fmt \in {1, 2} THEN h.time ELSE @,
            !.len = IF h.fmt < 2 THEN h.len ELSE @, !.type = IF h.fmt < 2 THEN h.type ELSE @,
            !.fmt = IF h.fmt < 3 THEN h.fmt ELSE @,
            !.exted = IF h.fmt < 3 THEN h.time = ExtTs ELSE @])

\* readChunk up to the body.
ReadHeader(e, h) ==
    LET given == IF h.ext # Absent THEN h.ext ELSE h.time
        exted == h.time = ExtTs
        again == IF e.exted THEN h.ext ELSE e.delta
    IN  CASE h.fmt = 0 ->
               StartEntry([e EXCEPT !.fmt = 0, !.time = given, !.exted = exted,
                                    !.len = h.len, !.type = h.type])
          [] h.fmt = 1 ->
               StartEntry([e EXCEPT !.fmt = 1, !.time = (@ + given) % TsMod, !.delta = given,
                                    !.exted = exted, !.len = h.len, !.type = h.type])
          [] h.fmt = 2 ->
               StartEntry([e EXCEPT !.fmt = 2, !.time = (@ + given) % TsMod, !.delta = given,
                                    !.exted = exted])
          [] h.fmt = 3 /\ e.remain = 0 ->
               StartEntry(IF e.fmt = 0
                          THEN [e EXCEPT !.time = IF e.exted THEN h.ext ELSE @]
                          ELSE [e EXCEPT !.time = (@ + again) % TsMod])
          [] OTHER -> e

\* The bytes that follow are not those the reader takes them for: a body
\* where none is, or an extended timestamp it does not expect or know.
OutOfStep(e, h, body) ==
    \/ h.kind # "hdr" \/ body.kind # "body"
    \/ h.fmt = 3 /\ e.remain = 0 /\ e.exted # (h.ext # Absent)
    \/ h.fmt = 3 /\ e.remain # 0 /\ h.ext # Absent /\ (~e.exted \/ h.ext # e.time)
    \/ LET f == ReadHeader(e, h)
       IN  body.size # IF f.remain > rsize THEN rsize ELSE f.remain

\* Mutant: what is over a full window is counted again.
Ack_Carries(size) ==
    LET sum == ackReceived + size
    IN  IF sum >= window' THEN ackReceived' = sum - window' /\ acked' = acked + sum
        ELSE ackReceived' = sum /\ UNCHANGED acked

\* ack counts the payload, and acknowledges when a window is full.
Ack(size) ==
    LET sum == ackReceived + size
    IN  IF sum >= window' THEN ackReceived' = 0 /\ acked' = acked + sum
        ELSE ackReceived' = sum /\ UNCHANGED acked

\* Conn.Read takes the next chunk; a complete message is looked at for
\* control, acknowledged and returned.
ReadChunk ==
    /\ Len(stream) >= 2 /\ readErr = ""
    /\ LET h == stream[1]
           body == stream[2]
           k == EntryOf(h.csid)
           e == IF entries[k] = Absent THEN NewEntry ELSE entries[k]
       IN  IF h.kind = "hdr" /\ e.remain # 0 /\ h.fmt # 3
           THEN /\ readErr' = "invalid remain"
                /\ UNCHANGED <<entries, rsize, window, ackReceived, acked, pool, delivered, stream>>
           ELSE IF h.kind = "hdr" /\ (h.fmt # 3 \/ e.remain = 0) /\ ~PoolHas(ReadHeader(e, h).len)
           THEN /\ readErr' = "panic"
                /\ UNCHANGED <<entries, rsize, window, ackReceived, acked, pool, delivered, stream>>
           ELSE IF h.kind # "hdr" \/ OutOfStep(e, h, body)
           THEN /\ readErr' = "out of step"
                /\ UNCHANGED <<entries, rsize, window, ackReceived, acked, pool, delivered, stream>>
           ELSE LET new == h.fmt # 3 \/ e.remain = 0
                    f == ReadHeader(e, h)
                    g == [f EXCEPT !.index = @ + body.size, !.remain = @ - body.size,
                                   !.data = @ \o [j \in 1..body.size |-> <<body.id, body.from + j>>]]
                    full == g.remain = 0
                IN  /\ stream' = SubSeq(stream, 3, Len(stream))
                    /\ entries' = [entries EXCEPT ![k] = g]
                    /\ pool' = IF new THEN PoolGet(f.len) ELSE pool
                    /\ rsize' = IF full /\ g.type = SetChunkSize THEN body.val ELSE rsize
                    /\ window' = IF full /\ g.type = WindowAckSize THEN body.val ELSE window
                    /\ IF full THEN /\ delivered' = Append(delivered, [g EXCEPT !.index = h.csid])
                                    /\ Ack(g.len)
                       ELSE UNCHANGED <<delivered, ackReceived, acked>>
                    /\ UNCHANGED readErr
    /\ UNCHANGED writerVars

ChunkNext ==
    \/ /\ Len(stream) < MaxFlight
       /\ \/ \E m \in Messages(count.msg + 1) :
                \/ WriteMessage(m)
                \/ \E c \in {2} \cup PeerStreams, fmt \in 0..3 : PeerStart(m, c, fmt)
          \/ \E c \in Csids : WriteHeader(c) \/ WriteBody(c) \/ PeerContinue(c)
          \/ AckHeader \/ AckBody
    \/ ReadChunk

ChunkSpec == ChunkInit /\ [][ChunkNext]_chunkVars

-----------------------------------------------------------------------------
(* Properties.                                                             *)

\* Type correctness.  A message that the reader has begun fits a buffer of the
\* pool, the buffers of the pool end where they should, and no more of a message
\* remains than it has.
ChunkTypeOK ==
    /\ ours \in BOOLEAN /\ raced \in BOOLEAN /\ bigDelta \in BOOLEAN
    /\ wsize \in Sizes \cup {InitSize} /\ rsize \in Sizes \cup {InitSize}
    /\ window \in Windows \cup {InitWindow}
    /\ count \in [msg : 0..MaxMsgs, ack : 0..MaxAcks]
    /\ half \subseteq {"msg", "ack"}
    /\ inWork \in [Csids -> Works \cup {Absent}] /\ lastHdr \in [Csids -> Lasts \cup {Absent}]
    /\ finished \in Seq(Msgs) /\ delivered \in Seq(Entries)
    /\ pool.buf \in Nat \ {0} /\ pool.pos \in 0..PoolSize
    /\ \A k \in DOMAIN entries : entries[k] # Absent =>
          entries[k] \in Entries /\ entries[k].index + entries[k].remain = entries[k].len
    /\ readErr \in {"", "invalid remain", "out of step", "panic"}

\* d is the message m, whole and with its own bytes.
IsMessage(d, m) ==
    /\ d.time = m.ts /\ d.type = m.type /\ d.len = m.len
    /\ d.data = [j \in 1..m.len |-> <<m.id, j>>]

\* The messages the reader has, handed out or in progress, share no byte of a
\* buffer: what a cache or a queue holds is not written over by a later read.
PoolDisjoint ==
    LET live == {<<"delivered", i>> : i \in DOMAIN delivered}
                  \cup {<<"entry", k>> : k \in {j \in DOMAIN entries :
                                                 entries[j] # Absent /\ entries[j].remain # 0}}
        Of(x) == IF x[1] = "entry" THEN entries[x[2]] ELSE delivered[x[2]]
    IN  \A x, y \in live :
            x = y \/ Of(x).at.buf # Of(y).at.buf \/ Of(x).len = 0 \/ Of(y).len = 0
              \/ Of(x).at.pos + Of(x).len <= Of(y).at.pos
              \/ Of(y).at.pos + Of(y).len <= Of(x).at.pos

\* Unless an acknowledgement is written in the middle of a chunk (nothing in
\* conn.ack prevents it), or a peer splits a message whose time difference
\* needs the extended field, the reader stays in step with the writer and
\* returns the messages in the order their last chunks were written, each with
\* its time, type, length and bytes, in memory of its own: through changes of
\* the chunk size, compressed headers and chunks of other messages in between.
\* It stops nowhere but before a message longer than a buffer of the pool, which
\* panics.  (Format 3 after format 0 stands for the same time, as readChunk has
\* it; a peer that means, with the RTMP specification, the time of the first
\* message once more on top sends the same bytes and gets a wrong time.)
MessagesIntact ==
    ~raced /\ ~bigDelta =>
        /\ readErr = "" \/ (readErr = "panic" /\ stream[1].len > PoolSize)
        /\ PoolDisjoint
        /\ Len(delivered) <= Len(finished)
        /\ \A i \in DOMAIN delivered : IsMessage(delivered[i], finished[i])

\* The bytes of the messages ms.
Payload(ms) ==
    LET total[i \in 0..Len(ms)] == IF i = 0 THEN 0 ELSE total[i - 1] + ms[i].len
    IN  total[Len(ms)]

\* Every byte returned is acknowledged exactly once: acknowledged, or counted
\* towards the window that is in force now, which is not yet full.  (Windows are
\* not 0, which has every message acknowledged, and the counter of four bytes
\* does not wrap, as it may when a window is within one message of 2^32.)
AckAccounts == acked + ackReceived = Payload(delivered) /\ ackReceived < window
=============================================================================

-------------------------- MODULE ChunkLayerProofs --------------------------
(***************************************************************************)
(* The chunk layer, for every length, chunk size, window and number of     *)
(* messages, for this program's writer and for a peer.                     *)
(*                                                                         *)
(* What the writer was when it wrote a chunk and what the reader is when   *)
(* it reads it correspond.  The proof therefore relates the two by         *)
(* snapshots of the writer, one between any two chunks on their way: the   *)
(* last one is the writer as it is, the first one the reader.              *)
(***************************************************************************)
EXTENDS ChunkLayer, SequenceTheorems, WellFoundedInduction, TLAPS

\* No two chunk streams share an entry of conn.chunks: the peer uses at most
\* one id of two bytes and one of three.
OneEntryEach == \A c, d \in Csids : EntryOf(c) = EntryOf(d) => c = d

-----------------------------------------------------------------------------
(* Snapshots of the writer.                                                *)

\* Per chunk stream what the last first chunk said, how much of its message has
\* been written (0 when it is complete); the chunk size and the number of
\* messages finished.
Snapshots ==
    [last : [Csids -> Lasts \cup {Absent}], done : [Csids -> Nat], size : Sizes \cup {InitSize}, fin : Nat]

\* The time of a header is the message's, or the difference.
Timed(l) == l.time = IF l.delta = Absent THEN l.m.ts ELSE l.delta

\* A message in progress is not complete, and a message that was split has no
\* extended time difference unless bigDelta tells.
Sound(s) ==
    /\ s.fin <= Len(finished)
    /\ \A c \in Csids :
          /\ s.last[c] # Absent => Timed(s.last[c])
          /\ s.done[c] > 0 =>
                /\ s.last[c] # Absent /\ s.done[c] < s.last[c].m.len
                /\ ~bigDelta => s.last[c].delta = Absent \/ s.last[c].delta < ExtTs

\* The header of a message gives its time: it is full, or repeats a full one.
Full(last, fmt) == fmt = 0 \/ (fmt = 3 /\ last.delta = Absent)

\* A message may begin with a header of format fmt after the last one.
Begins(last, l, fmt) ==
    /\ fmt # 0 => last # Absent
    /\ fmt \in {2, 3} => l.m.len = last.m.len /\ l.m.type = last.m.type
    /\ l.delta = IF Full(last, fmt) THEN Absent ELSE (l.m.ts - last.m.ts) % TsMod
    /\ fmt = 3 => last.delta = l.delta
    /\ fmt = 3 /\ last.delta = Absent => l.m.ts = last.m.ts

\* The header h and the body b, of chunk stream c, lead from snapshot s to t.
ChunkOf(c, s, h, b, t) ==
    LET l == t.last[c]
        from == s.done[c]
        all == from + b.size = l.m.len
    IN  /\ l \in Lasts
        /\ b = BodyOf(l.m, from, s.size)
        /\ \E fmt \in 0..3 :
              /\ h = Header(c, fmt, l.m, l.time)
              /\ IF from = 0 THEN Begins(s.last[c], l, fmt) ELSE fmt = 3 /\ l = s.last[c]
        /\ t.last = [s.last EXCEPT ![c] = l]
        /\ t.done = [s.done EXCEPT ![c] = IF all THEN 0 ELSE from + b.size]
        /\ t.size = IF all /\ l.m.type = SetChunkSize THEN l.m.val ELSE s.size
        /\ t.fin = IF all THEN s.fin + 1 ELSE s.fin
        /\ all => finished[t.fin] = l.m

\* The first 2 * k headers and bodies are chunks between the snapshots S.
Chain(S, k) ==
    /\ \A i \in 0..k : Sound(S[i])
    /\ 2 * k <= Len(stream)
    /\ \A i \in 1..k : \E c \in Csids :
          ChunkOf(c, S[i - 1], stream[2 * i - 1], stream[2 * i], S[i])

\* The entry e has what the first chunk of the message l said.
Matches(e, l) ==
    /\ e.time = l.m.ts /\ e.len = l.m.len /\ e.type = l.m.type
    /\ e.exted = (l.time >= ExtTs)
    /\ IF l.delta = Absent THEN e.fmt = 0 ELSE e.fmt \in {1, 2} /\ e.delta = l.delta

\* And has read the message up to done.
EntryAt(e, l, done) ==
    IF l = Absent THEN e = Absent
    ELSE /\ e # Absent /\ Matches(e, l)
         /\ IF done = 0 THEN e.remain = 0
            ELSE e.remain = l.m.len - done /\ e.data = [j \in 1..done |-> <<l.m.id, j>>]

\* The reader is where the snapshot s is.
ReaderAt(s) ==
    /\ rsize = s.size /\ Len(delivered) = s.fin
    /\ \A c \in Csids : EntryAt(entries[EntryOf(c)], s.last[c], s.done[c])

\* The writer is where the snapshot s is.  This program's writer sets its chunk
\* size before it writes the message that tells.
WriterAt(s) ==
    /\ s.fin = Len(finished)
    /\ \A c \in Csids :
          IF inWork[c] # Absent /\ inWork[c].done > 0
          THEN s.done[c] = inWork[c].done /\ s.last[c].m = inWork[c].m
          ELSE s.done[c] = 0
    /\ IF ours THEN \A c \in Csids : s.last[c] # Absent => s.last[c].delta = Absent
       ELSE s.last = lastHdr
    /\ IF inWork[2] # Absent /\ inWork[2].m.type = SetChunkSize THEN wsize = inWork[2].m.val
       ELSE s.size = wsize

\* After 2 * k headers and bodies comes what is half written: nothing, or the
\* header of the message or of the acknowledgement.
EndsAt(k) ==
    \/ half = {} /\ Len(stream) = 2 * k
    \/ /\ half = {"msg"} /\ Len(stream) = 2 * k + 1
       /\ \E c \in Csids :
             /\ inWork[c] # Absent
             /\ stream[2 * k + 1] =
                   Header(c, IF inWork[c].done = 0 THEN 0 ELSE 3, inWork[c].m, inWork[c].m.ts)
    \/ /\ half = {"ack"} /\ Len(stream) = 2 * k + 1
       /\ stream[2 * k + 1] = Header(2, 0, ackBody, 0)

\* Or two headers in a row: the end of what the reader can read.
BrokenAt(k) ==
    /\ raced /\ 2 * k + 2 <= Len(stream)
    /\ stream[2 * k + 1].kind = "hdr" /\ stream[2 * k + 2].kind = "hdr"

\* What is on its way leads from the reader to the writer, or to where two headers
\* meet.
StreamInv ==
    \E k \in Nat : \E S \in [0..k -> Snapshots] :
        /\ Chain(S, k) /\ ReaderAt(S[0])
        /\ (WriterAt(S[k]) /\ EndsAt(k)) \/ BrokenAt(k)

\* This program's writer has one message at a time, on the chunk stream of its
\* type; a peer's messages have begun.
WriterInv ==
    /\ ours \in BOOLEAN /\ raced \in BOOLEAN /\ bigDelta \in BOOLEAN
    /\ wsize \in Sizes \cup {InitSize}
    /\ count \in [msg : 0..MaxMsgs, ack : 0..MaxAcks] /\ half \subseteq {"msg", "ack"}
    /\ inWork \in [Csids -> Works \cup {Absent}] /\ lastHdr \in [Csids -> Lasts \cup {Absent}]
    /\ finished \in Seq(Msgs)
    /\ \A c \in Csids : inWork[c] # Absent =>
          /\ inWork[c].done < inWork[c].m.len
          /\ ours => c = CsidOf(inWork[c].m) /\ \A d \in Csids : inWork[d] # Absent => c = d
          /\ ~ours => inWork[c].done > 0 /\ lastHdr[c] # Absent
    /\ half # {} => ours
    /\ "ack" \in half => ackBody \in Msgs /\ ackBody.type = AckType /\ ackBody.ts = 0
    /\ half = {"msg", "ack"} => raced

\* What is on its way.
Headers ==
    [kind : {"hdr"}, csid : Csids, fmt : 0..3, type : Nat, len : Nat, time : Timestamps,
     ext : Timestamps \cup {Absent}]
Bodies == [kind : {"body"}, id : Nat, from : Nat, val : Nat, size : Nat]

\* What the reader has returned was finished, in that order, and it stops only
\* where one of the two exceptions has occurred, or before a message that no
\* buffer of the pool has room for.
ReaderInv ==
    /\ stream \in Seq(Headers \cup Bodies)
    /\ rsize \in Nat \ {0} /\ window \in Windows \cup {InitWindow}
    /\ readErr \in {"", "invalid remain", "out of step", "panic"}
    /\ DOMAIN entries = 0..63 \cap (Csids \cup {0, 1})
    /\ \A k \in DOMAIN entries : entries[k] # Absent =>
          entries[k] \in Entries /\ entries[k].index + entries[k].remain = entries[k].len
    /\ delivered \in Seq(Entries)
    /\ Len(delivered) <= Len(finished)
    /\ \A i \in 1..Len(delivered) : IsMessage(delivered[i], finished[i])
    /\ readErr \in {"invalid remain", "out of step"} => raced \/ bigDelta
    /\ readErr = "panic" => Len(stream) >= 1 /\ stream[1].len > PoolSize

-----------------------------------------------------------------------------
(* Headers, bodies and entries.                                            *)

\* The constants, as the proofs use them.
LEMMA Constants ==
    /\ Absent \notin Nat /\ Absent \notin Timestamps /\ Absent \notin Works /\ Absent \notin Lasts
    /\ Absent \notin Entries
    /\ TsMod \in Nat /\ ExtTs \in Nat /\ 0 < ExtTs /\ ExtTs < TsMod /\ PoolSize \in Nat
    /\ Sizes \cup {InitSize} \subseteq Nat \ {0} /\ Windows \cup {InitWindow} \subseteq Nat \ {0}
    /\ {2, 4, 6} \subseteq Csids /\ Csids \subseteq Nat \ {0, 1}
<1>1. TsMod \in Nat /\ ExtTs \in Nat /\ 0 < ExtTs /\ ExtTs < TsMod /\ PoolSize \in Nat
  BY ChunkAssumption
<1>2. Absent \notin Nat /\ Absent \notin Timestamps
  BY <1>1, AbsentAssumption DEF Timestamps
<1>3. Absent \notin Works /\ Absent \notin Lasts /\ Absent \notin Entries
  BY AbsentAssumption
<1>4. Sizes \cup {InitSize} \subseteq Nat \ {0} /\ Windows \cup {InitWindow} \subseteq Nat \ {0}
  BY ChunkAssumption
<1>5. {2, 4, 6} \subseteq Csids /\ Csids \subseteq Nat \ {0, 1}
  BY ChunkAssumption DEF Csids
<1>6. QED
  BY <1>1, <1>2, <1>3, <1>4, <1>5

\* Every chunk stream has an entry.
LEMMA EntryInDomain ==
    ASSUME NEW c \in Csids
    PROVE  EntryOf(c) \in 0..63 \cap (Csids \cup {0, 1})
BY Constants DEF EntryOf

\* The fields of a message.
LEMMA MsgFields ==
    ASSUME NEW m \in Msgs
    PROVE  /\ m.id \in Nat /\ m.type \in Nat /\ m.len \in Nat
           /\ m.ts \in Timestamps /\ m.ts \in Nat /\ m.ts < TsMod /\ m.val \in Nat
           /\ m.len > 1 => m.type # SetChunkSize
           /\ m.type = SetChunkSize => m.len = 1 /\ m.val \in Sizes
           /\ m.type = WindowAckSize => m.val \in Windows
BY Constants DEF Msgs, Timestamps, SetChunkSize, AckType, WindowAckSize, Audio, Video

\* What a header says.
LEMMA HeaderFields ==
    ASSUME NEW c \in Csids, NEW fmt \in 0..3, NEW m \in Msgs, NEW t \in Timestamps
    PROVE  LET h == Header(c, fmt, m, t)
           IN  /\ h \in Headers
               /\ h.kind = "hdr" /\ h.csid = c /\ h.fmt = fmt /\ h.type = m.type /\ h.len = m.len
               /\ (h.time = ExtTs) = (t >= ExtTs) /\ (h.ext # Absent) = (t >= ExtTs)
               /\ h.ext # Absent => h.ext = t
               /\ (IF h.ext # Absent THEN h.ext ELSE h.time) = t
<1> DEFINE h == Header(c, fmt, m, t)
<1>1. t \in Nat /\ t < TsMod
  BY Constants DEF Timestamps
<1>2. /\ h = [kind |-> "hdr", csid |-> c, fmt |-> fmt, type |-> m.type, len |-> m.len,
              time |-> IF t > ExtTs THEN ExtTs ELSE t, ext |-> IF t >= ExtTs THEN t ELSE Absent]
  BY DEF Header
<1>3. /\ h.kind = "hdr" /\ h.csid = c /\ h.fmt = fmt /\ h.type = m.type /\ h.len = m.len
      /\ h.time = IF t > ExtTs THEN ExtTs ELSE t
      /\ h.ext = IF t >= ExtTs THEN t ELSE Absent
  BY <1>2
<1>4. /\ (h.time = ExtTs) = (t >= ExtTs) /\ (h.ext # Absent) = (t >= ExtTs)
      /\ h.ext # Absent => h.ext = t
      /\ (IF h.ext # Absent THEN h.ext ELSE h.time) = t
  BY <1>1, <1>3, Constants
<1>5. h.time \in Timestamps /\ h.ext \in Timestamps \cup {Absent}
  BY <1>1, <1>3, Constants DEF Timestamps
<1>6. h \in Headers
  BY <1>2, <1>3, <1>5, MsgFields DEF Headers
<1>7. QED
  BY <1>3, <1>4, <1>6

\* A body is not longer than the chunk size and the rest of the message.
LEMMA BodyFields ==
    ASSUME NEW m \in Msgs, NEW from \in 0..m.len, NEW size \in Nat \ {0},
           NEW b, b = BodyOf(m, from, size)
    PROVE  /\ b \in Bodies
           /\ b.kind = "body" /\ b.id = m.id /\ b.from = from /\ b.val = m.val
           /\ b.size = IF m.len - from > size THEN size ELSE m.len - from
           /\ b.size \in 0..(m.len - from) /\ b.size \in Nat
           /\ from < m.len => b.size > 0
<1>1. b = [kind |-> "body", id |-> m.id, from |-> from, val |-> m.val,
           size |-> IF m.len - from <= size THEN m.len - from ELSE size]
  BY DEF BodyOf
<1>2. /\ b.kind = "body" /\ b.id = m.id /\ b.from = from /\ b.val = m.val
      /\ b.size = IF m.len - from <= size THEN m.len - from ELSE size
  BY <1>1
<1>3. m.len \in Nat /\ from \in Nat /\ from <= m.len
  BY MsgFields
<1>4. /\ b.size = IF m.len - from > size THEN size ELSE m.len - from
      /\ b.size \in 0..(m.len - from) /\ b.size \in Nat
      /\ from < m.len => b.size > 0
  BY <1>2, <1>3
<1>5. b \in Bodies
  BY <1>1, <1>2, <1>3, <1>4, MsgFields DEF Bodies
<1>6. QED
  BY <1>2, <1>4, <1>5

\* The difference of two times, added to the first, is the second.
LEMMA Difference ==
    ASSUME NEW a \in Timestamps, NEW b \in Timestamps
    PROVE  (a - b) % TsMod \in Timestamps /\ (b + ((a - b) % TsMod)) % TsMod = a
<1>1. a \in Nat /\ b \in Nat /\ a < TsMod /\ b < TsMod /\ TsMod \in Nat
  BY Constants DEF Timestamps
<1>2. CASE a >= b
  <2>1. (a - b) % TsMod = a - b
    BY <1>1, <1>2
  <2>2. a % TsMod = a /\ b + (a - b) = a
    BY <1>1
  <2>3. QED
    BY <1>1, <1>2, <2>1, <2>2 DEF Timestamps
<1>3. CASE a < b
  <2>1. (a - b) % TsMod = a - b + TsMod
    BY <1>1, <1>3
  <2>2. (a + TsMod) % TsMod = a /\ b + (a - b + TsMod) = a + TsMod
    BY <1>1
  <2>3. QED
    BY <1>1, <1>3, <2>1, <2>2 DEF Timestamps
<1>4. QED
  BY <1>1, <1>2, <1>3

\* The pool's state.
Pools == [buf : Nat \ {0}, pos : 0..PoolSize]

\* The place pool.Get hands out begins after all places of the buffer.
LEMMA PoolGetFresh ==
    ASSUME pool \in Pools, NEW size \in 0..PoolSize
    PROVE  LET p == PoolGet(size)
           IN  /\ p \in Pools
               /\ p.pos - size \in Nat /\ p.buf >= pool.buf
               /\ p.buf = pool.buf => p.pos - size = pool.pos
<1> DEFINE p == PoolGet(size)
<1>0. PoolSize \in Nat /\ size \in Nat /\ size <= PoolSize
  BY Constants
<1>1. pool.buf \in Nat \ {0} /\ pool.pos \in Nat /\ pool.pos <= PoolSize
  BY <1>0 DEF Pools
<1>2. CASE PoolSize - pool.pos < size
  <2>1. p = [buf |-> pool.buf + 1, pos |-> size]
    BY <1>2 DEF PoolGet
  <2>2. p.buf = pool.buf + 1 /\ p.pos = size
    BY <2>1
  <2>3. QED
    BY <1>0, <1>1, <2>1, <2>2 DEF Pools
<1>3. CASE ~(PoolSize - pool.pos < size)
  <2>1. p = [pool EXCEPT !.pos = pool.pos + size]
    BY <1>3 DEF PoolGet
  <2>2. p.buf = pool.buf /\ p.pos = pool.pos + size
    BY <2>1 DEF Pools
  <2>3. p.pos \in 0..PoolSize
    BY <1>0, <1>1, <1>3, <2>2
  <2>4. p \in Pools
    BY <2>1, <2>3, <1>1, <2>2 DEF Pools
  <2>5. QED
    BY <1>0, <1>1, <2>2, <2>4
<1>4. QED
  BY <1>2, <1>3

\* The place of an entry that starts.
PlaceOf(size) == [buf |-> PoolGet(size).buf, pos |-> PoolGet(size).pos - size]

\* f is e at the start of a message.
Started(e, f) ==
    /\ f \in Entries
    /\ f.time = e.time /\ f.delta = e.delta /\ f.len = e.len /\ f.type = e.type
    /\ f.fmt = e.fmt /\ f.exted = e.exted
    /\ f.index = 0 /\ f.remain = e.len /\ f.data = <<>> /\ f.at = PlaceOf(e.len)

\* An entry that starts a message keeps its fields and gets the pool's place.
LEMMA StartFields ==
    ASSUME pool \in Pools, NEW e \in Entries
    PROVE  Started(e, StartEntry(e))
<1> DEFINE f == StartEntry(e)
<1>1. e.len \in 0..PoolSize /\ e.len \in Nat
  BY Constants DEF Entries
<1>2. PlaceOf(e.len) \in [buf : Nat, pos : Nat]
  BY <1>1, PoolGetFresh DEF PlaceOf, Pools
<1>3. f = [e EXCEPT !.index = 0, !.remain = e.len, !.data = <<>>, !.at = PlaceOf(e.len)]
  BY DEF StartEntry, PlaceOf
<1> HIDE DEF f
<1>4. /\ f.time = e.time /\ f.delta = e.delta /\ f.len = e.len /\ f.type = e.type
      /\ f.fmt = e.fmt /\ f.exted = e.exted
      /\ f.index = 0 /\ f.remain = e.len /\ f.data = <<>> /\ f.at = PlaceOf(e.len)
  BY <1>3 DEF Entries
<1>5. <<>> \in Seq(Nat \X Nat)
  BY EmptySeq
<1>6. f \in Entries
  BY <1>1, <1>2, <1>3, <1>5 DEF Entries
<1>7. QED
  BY <1>4, <1>6 DEF f, Started

\* The entry of a chunk stream that was not seen before.
LEMMA NewEntryIsEntry ==
    NewEntry \in Entries /\ NewEntry.remain = 0 /\ NewEntry.index = 0 /\ NewEntry.len = 0
<1>1. <<>> \in Seq(Nat \X Nat)
  BY EmptySeq
<1>2. QED
  BY <1>1, Constants DEF NewEntry, Entries

\* A header that begins a message brings the entry to the message's time,
\* length and type, whatever its format.
LEMMA ReadBegins ==
    ASSUME pool \in Pools, NEW e \in Entries, e.remain = 0,
           NEW last \in Lasts \cup {Absent}, last # Absent => Timed(last) /\ Matches(e, last),
           NEW l \in Lasts, Timed(l), l.m.len \in 0..PoolSize,
           NEW c \in Csids, NEW fmt \in 0..3, Begins(last, l, fmt)
    PROVE  LET h == Header(c, fmt, l.m, l.time)
               f == ReadHeader(e, h)
           IN  /\ f \in Entries /\ Matches(f, l)
               /\ f.index = 0 /\ f.remain = l.m.len /\ f.data = <<>> /\ f.at = PlaceOf(l.m.len)
               /\ fmt = 3 => e.exted = (h.ext # Absent)
<1> DEFINE h == Header(c, fmt, l.m, l.time)
<1> DEFINE f == ReadHeader(e, h)
<1> DEFINE given == IF h.ext # Absent THEN h.ext ELSE h.time
<1> DEFINE far == h.time = ExtTs
<1> DEFINE Goal == /\ f \in Entries /\ Matches(f, l)
                   /\ f.index = 0 /\ f.remain = l.m.len /\ f.data = <<>> /\ f.at = PlaceOf(l.m.len)
                   /\ fmt = 3 => e.exted = (h.ext # Absent)
<1>0. /\ l.m \in Msgs /\ l.time \in Timestamps /\ l.delta \in Timestamps \cup {Absent}
      /\ last # Absent => last.m \in Msgs /\ last.delta \in Timestamps \cup {Absent}
  BY DEF Lasts
<1>1. /\ h.fmt = fmt /\ h.type = l.m.type /\ h.len = l.m.len /\ given = l.time
      /\ far = (l.time >= ExtTs) /\ (h.ext # Absent) = (l.time >= ExtTs)
      /\ (h.ext # Absent => h.ext = l.time) /\ far \in BOOLEAN
  BY <1>0, HeaderFields
<1>2. /\ l.m.len \in Nat /\ l.m.type \in Nat /\ l.m.ts \in Nat /\ l.m.ts \in Timestamps
      /\ l.time \in Nat /\ PoolSize \in Nat
  BY <1>0, MsgFields, Constants DEF Timestamps
<1>3. last # Absent => (last.m.ts + ((l.m.ts - last.m.ts) % TsMod)) % TsMod = l.m.ts
  BY <1>0, <1>2, Difference, MsgFields
<1>4. e.time \in Nat /\ e.delta \in Nat /\ e.len \in 0..PoolSize /\ e.type \in Nat /\ e.fmt \in 0..3
      /\ e.exted \in BOOLEAN
  BY DEF Entries
<1>9. f = LET again == IF e.exted THEN h.ext ELSE e.delta
          IN  CASE h.fmt = 0 ->
                     StartEntry([e EXCEPT !.fmt = 0, !.time = given, !.exted = far,
                                          !.len = h.len, !.type = h.type])
                [] h.fmt = 1 ->
                     StartEntry([e EXCEPT !.fmt = 1, !.time = (e.time + given) % TsMod, !.delta = given,
                                          !.exted = far, !.len = h.len, !.type = h.type])
                [] h.fmt = 2 ->
                     StartEntry([e EXCEPT !.fmt = 2, !.time = (e.time + given) % TsMod, !.delta = given,
                                          !.exted = far])
                [] h.fmt = 3 /\ e.remain = 0 ->
                     StartEntry(IF e.fmt = 0
                                THEN [e EXCEPT !.time = IF e.exted THEN h.ext ELSE e.time]
                                ELSE [e EXCEPT !.time = (e.time + again) % TsMod])
                [] OTHER -> e
  BY Zenon DEF ReadHeader
<1> HIDE DEF h, f, far, given
<1>5. ASSUME NEW g \in Entries, f = StartEntry(g), Matches(g, l)
      PROVE  /\ f \in Entries /\ Matches(f, l)
             /\ f.index = 0 /\ f.remain = l.m.len /\ f.data = <<>> /\ f.at = PlaceOf(l.m.len)
  <2>1. Started(g, f)
    BY <1>5, StartFields
  <2>2. QED
    BY <1>5, <2>1 DEF Started, Matches
<1>6. ASSUME fmt = 0 PROVE Goal
  <2> DEFINE g == [e EXCEPT !.fmt = 0, !.time = given, !.exted = far,
                            !.len = h.len, !.type = h.type]
  <2>1. f = StartEntry(g)
    BY <1>1, <1>6, <1>9
  <2>2. g.time = l.time /\ g.len = l.m.len /\ g.type = l.m.type /\ g.exted = (l.time >= ExtTs) /\ g.fmt = 0
    BY <1>1 DEF Entries
  <2>3. l.delta = Absent /\ l.time = l.m.ts
    BY <1>6 DEF Begins, Timed, Full
  <2>4. g \in Entries
    <3>1. given \in Nat /\ h.len \in 0..PoolSize /\ h.type \in Nat /\ 0 \in 0..3
      BY <1>1, <1>2, <1>6
    <3>2. \A x \in BOOLEAN : [e EXCEPT !.fmt = 0, !.time = given, !.exted = x,
                                         !.len = h.len, !.type = h.type] \in Entries
      BY <3>1 DEF Entries
    <3>3. far \in BOOLEAN
      BY <1>1
    <3>4. QED
      BY <3>2, <3>3, Zenon
  <2> HIDE DEF g
  <2>5. Matches(g, l)
    BY <2>2, <2>3 DEF Matches
  <2>6. QED
    BY <1>5, <1>6, <2>1, <2>4, <2>5
<1>7. ASSUME ~Full(last, fmt) PROVE Goal
  <2>0. fmt # 0
    BY <1>7 DEF Full
  <2>1. /\ last # Absent /\ l.delta = (l.m.ts - last.m.ts) % TsMod /\ l.delta # Absent
        /\ l.delta \in Nat /\ l.time = l.delta
    <3>1. last # Absent /\ l.delta = (l.m.ts - last.m.ts) % TsMod
      BY <1>7, <2>0 DEF Begins
    <3>2. l.delta \in Timestamps
      BY <1>0, <1>2, <3>1, Difference, MsgFields
    <3>3. QED
      BY <3>1, <3>2, Constants DEF Timed, Timestamps
  <2>2. (e.time + l.delta) % TsMod = l.m.ts
    BY <1>3, <2>1 DEF Matches
  <2>3. fmt \in {2, 3} => e.len = l.m.len /\ e.type = l.m.type
    BY <2>1 DEF Begins, Matches
  <2>4. CASE fmt = 1
    <3> DEFINE g == [e EXCEPT !.fmt = 1, !.time = (e.time + given) % TsMod, !.delta = given,
                              !.exted = far, !.len = h.len, !.type = h.type]
    <3>1. f = StartEntry(g)
      BY <1>1, <2>4, <1>9
    <3>2. /\ g.time = l.m.ts /\ g.len = l.m.len /\ g.type = l.m.type /\ g.exted = (l.time >= ExtTs)
          /\ g.fmt = 1 /\ g.delta = l.delta
      BY <1>1, <2>1, <2>2 DEF Entries
    <3>3. g \in Entries
      <4>1. /\ given \in Nat /\ (e.time + given) % TsMod \in Nat
            /\ h.len \in 0..PoolSize /\ h.type \in Nat /\ 1 \in 0..3
        BY <1>1, <1>2, <2>1, <2>2, <2>4
      <4>2. \A x \in BOOLEAN : [e EXCEPT !.fmt = 1, !.time = (e.time + given) % TsMod,
                    !.delta = given, !.exted = x, !.len = h.len, !.type = h.type] \in Entries
        BY <4>1 DEF Entries
      <4>3. far \in BOOLEAN
        BY <1>1
      <4>4. QED
        BY <4>2, <4>3, Zenon
    <3> HIDE DEF g
    <3>4. Matches(g, l)
      BY <2>1, <3>2 DEF Matches
    <3>5. QED
      BY <1>5, <2>4, <3>1, <3>3, <3>4
  <2>5. CASE fmt = 2
    <3> DEFINE g == [e EXCEPT !.fmt = 2, !.time = (e.time + given) % TsMod, !.delta = given,
                              !.exted = far]
    <3>1. f = StartEntry(g)
      BY <1>1, <2>5, <1>9
    <3>2. /\ g.time = l.m.ts /\ g.len = l.m.len /\ g.type = l.m.type /\ g.exted = (l.time >= ExtTs)
          /\ g.fmt = 2 /\ g.delta = l.delta
      BY <1>1, <2>1, <2>2, <2>3, <2>5 DEF Entries
    <3>3. g \in Entries
      <4>1. /\ given \in Nat /\ (e.time + given) % TsMod \in Nat
            /\ 2 \in 0..3
        BY <1>1, <1>2, <2>1, <2>2
      <4>2. \A x \in BOOLEAN : [e EXCEPT !.fmt = 2, !.time = (e.time + given) % TsMod,
                    !.delta = given, !.exted = x] \in Entries
        BY <4>1 DEF Entries
      <4>3. far \in BOOLEAN
        BY <1>1
      <4>4. QED
        BY <4>2, <4>3, Zenon
    <3> HIDE DEF g
    <3>4. Matches(g, l)
      BY <2>1, <3>2 DEF Matches
    <3>5. QED
      BY <1>5, <2>5, <3>1, <3>3, <3>4
  <2>6. CASE fmt = 3
    <3>1. last.delta = l.delta /\ e.exted = (l.time >= ExtTs) /\ e.fmt \in {1, 2} /\ e.delta = l.delta
      BY <2>1, <2>6 DEF Begins, Timed, Matches
    <3>2. (IF e.exted THEN h.ext ELSE e.delta) = l.delta
      BY <1>1, <2>1, <3>1
    <3> DEFINE g == [e EXCEPT !.time = (e.time + (IF e.exted THEN h.ext ELSE e.delta)) % TsMod]
    <3>3. f = StartEntry(g)
      BY <1>1, <2>6, <3>1, <1>9
    <3>4. /\ g.time = l.m.ts /\ g.len = l.m.len /\ g.type = l.m.type /\ g.exted = (l.time >= ExtTs)
          /\ g.fmt \in {1, 2} /\ g.delta = l.delta
      BY <2>2, <2>3, <2>6, <3>1, <3>2 DEF Entries
    <3>5. g \in Entries
      BY <1>2, <2>2, <3>2 DEF Entries
    <3> HIDE DEF g
    <3>6. Matches(g, l)
      BY <2>1, <3>4 DEF Matches
    <3>7. QED
      BY <1>1, <1>5, <3>1, <3>3, <3>5, <3>6
  <2>7. QED
    BY <2>0, <2>4, <2>5, <2>6
<1>8. ASSUME fmt = 3, last.delta = Absent PROVE Goal
  <2>1. /\ last # Absent /\ last.m \in Msgs /\ l.delta = Absent /\ l.time = l.m.ts /\ l.m.ts = last.m.ts
        /\ last.time = last.m.ts /\ l.m.len = last.m.len /\ l.m.type = last.m.type
    BY <1>0, <1>8 DEF Begins, Timed, Full
  <2>2. /\ e.time = l.m.ts /\ e.len = l.m.len /\ e.type = l.m.type /\ e.fmt = 0
        /\ e.exted = (l.time >= ExtTs)
    BY <1>8, <2>1 DEF Matches
  <2>3. (IF e.exted THEN h.ext ELSE e.time) = l.m.ts
    BY <1>1, <2>1, <2>2
  <2> DEFINE g == [e EXCEPT !.time = IF e.exted THEN h.ext ELSE e.time]
  <2>4. f = StartEntry(g)
    BY <1>1, <1>8, <1>9, <2>2
  <2>5. /\ g.time = l.m.ts /\ g.len = l.m.len /\ g.type = l.m.type /\ g.exted = (l.time >= ExtTs)
        /\ g.fmt = 0
    BY <2>2, <2>3 DEF Entries
  <2>6. g \in Entries
    BY <1>2, <2>3 DEF Entries
  <2> HIDE DEF g
  <2>7. Matches(g, l)
    BY <2>1, <2>5 DEF Matches
  <2>8. e.exted = (h.ext # Absent)
    BY <1>1, <2>2
  <2>9. QED
    BY <1>5, <2>4, <2>6, <2>7, <2>8
<1>10. QED
  BY <1>6, <1>7, <1>8 DEF h, f, Full

\* The length of the message an entry starts, which pool.Get is asked for.
LEMMA ReadLength ==
    ASSUME NEW e \in Entries, NEW h \in Headers, h.fmt # 3 \/ e.remain = 0
    PROVE  ReadHeader(e, h).len = IF h.fmt < 2 THEN h.len ELSE e.len
<1>1. ASSUME NEW g \in Entries \cup
                 {[x EXCEPT !.len = h.len] : x \in Entries}
      PROVE  StartEntry(g).len = g.len
  BY <1>1 DEF StartEntry, Entries
<1>2. h.fmt \in 0..3
  BY DEF Headers
<1>3. QED
  BY <1>1, <1>2 DEF ReadHeader, StartEntry, Entries

\* The first k units of the message id.
Data(id, k) == [j \in 1..k |-> <<id, j>>]

\* And the m units that follow them.
Rest(id, k, m) == [j \in 1..m |-> <<id, k + j>>]

\* A function on 1..k is a sequence of length k.
LEMMA FunctionIsSeq ==
    ASSUME NEW X, NEW k \in Nat, NEW w \in [1..k -> X]
    PROVE  w \in Seq(X) /\ Len(w) = k
<1>1. w \in Seq(X)
  OBVIOUS
<1>2. DOMAIN w = 1..Len(w) /\ Len(w) \in Nat /\ DOMAIN w = 1..k
  BY <1>1, LenProperties
<1>3. \A j \in Nat : j \in 1..Len(w) <=> j \in 1..k
  BY <1>2
<1>4. ~(Len(w) > k) /\ ~(k > Len(w))
  BY <1>2, <1>3
<1>5. QED
  BY <1>1, <1>2, <1>4

\* A body that follows on what was read makes it longer.
LEMMA DataGrows ==
    ASSUME NEW id \in Nat, NEW k \in Nat, NEW m \in Nat
    PROVE  /\ Data(id, k) \o Rest(id, k, m) = Data(id, k + m)
           /\ Data(id, k + m) \in Seq(Nat \X Nat)
<1> DEFINE new == Rest(id, k, m)
<1> DEFINE old == Data(id, k)
<1> DEFINE both == Data(id, k + m)
<1>1. new \in Seq(Nat \X Nat) /\ Len(new) = m /\ old \in Seq(Nat \X Nat) /\ Len(old) = k
      /\ both \in Seq(Nat \X Nat) /\ Len(both) = k + m
  <2>1. new \in [1..m -> Nat \X Nat] /\ old \in [1..k -> Nat \X Nat] /\ both \in [1..(k + m) -> Nat \X Nat]
    BY DEF Data, Rest
  <2>2. k + m \in Nat
    OBVIOUS
  <2> HIDE DEF new, old, both
  <2>3. QED
    BY <2>1, <2>2, FunctionIsSeq, Zenon
<1>2. /\ \A j \in 1..m : new[j] = <<id, k + j>>
      /\ \A j \in 1..k : old[j] = <<id, j>>
      /\ \A j \in 1..(k + m) : both[j] = <<id, j>>
  BY DEF Data, Rest
<1> HIDE DEF new, old, both
<1>3. /\ old \o new \in Seq(Nat \X Nat) /\ Len(old \o new) = k + m
      /\ \A i \in 1..(k + m) : (old \o new)[i] = IF i <= k THEN old[i] ELSE new[i - k]
  BY <1>1, ConcatProperties
<1>4. \A i \in 1..(k + m) : (old \o new)[i] = both[i]
  <2> SUFFICES ASSUME NEW i \in 1..(k + m) PROVE (old \o new)[i] = both[i]
    OBVIOUS
  <2>1. CASE i <= k
    <3>1. i \in 1..k
      BY <2>1
    <3>2. (old \o new)[i] = old[i]
      BY <1>3, <2>1
    <3>3. QED
      BY <1>2, <3>1, <3>2
  <2>2. CASE ~(i <= k)
    <3>1. i - k \in 1..m /\ k + (i - k) = i
      BY <2>2
    <3>2. new[i - k] = <<id, k + (i - k)>>
      BY <1>2, <3>1
    <3>3. QED
      BY <1>2, <1>3, <2>2, <3>1, <3>2
  <2>3. QED
    BY <2>1, <2>2
<1>5. old \o new = both
  BY <1>1, <1>3, <1>4, SeqEqual
<1>6. QED
  BY <1>1, <1>5 DEF new, old, both

\* What a body makes of an entry.
Filled(f, b) ==
    [f EXCEPT !.index = @ + b.size, !.remain = @ - b.size,
              !.data = @ \o [j \in 1..b.size |-> <<b.id, b.from + j>>]]

\* readChunk reads the body into the message; the message is full when nothing
\* remains of it.
LEMMA ReadBody ==
    ASSUME NEW f \in Entries, NEW l \in Lasts, Matches(f, l), NEW from \in 0..l.m.len,
           f.remain = l.m.len - from, f.index + f.remain = f.len, f.data = Data(l.m.id, from),
           NEW size \in Nat \ {0}, NEW b, b = BodyOf(l.m, from, size)
    PROVE  LET g == Filled(f, b)
           IN  /\ g \in Entries /\ g.index + g.remain = g.len /\ Matches(g, l)
               /\ g.remain = l.m.len - (from + b.size) /\ g.data = Data(l.m.id, from + b.size)
               /\ g.at = f.at /\ g.len = f.len /\ g.type = f.type
<1> DEFINE data == f.data \o [j \in 1..b.size |-> <<b.id, b.from + j>>]
<1> DEFINE g == [f EXCEPT !.index = f.index + b.size, !.remain = f.remain - b.size, !.data = data]
<1>0. l.m \in Msgs /\ l.m.len \in Nat /\ l.m.id \in Nat /\ from \in Nat /\ from <= l.m.len
  BY MsgFields DEF Lasts
<1>1. b.id = l.m.id /\ b.from = from /\ b.size \in 0..(l.m.len - from) /\ b.size \in Nat
  BY <1>0, BodyFields
<1>2. data = Data(l.m.id, from + b.size) /\ data \in Seq(Nat \X Nat)
  <2>1. [j \in 1..b.size |-> <<b.id, b.from + j>>] = Rest(l.m.id, from, b.size)
    BY <1>1 DEF Rest
  <2>2. data = Data(l.m.id, from) \o Rest(l.m.id, from, b.size)
    BY <2>1, Zenon
  <2> HIDE DEF data
  <2>3. /\ Data(l.m.id, from) \o Rest(l.m.id, from, b.size) = Data(l.m.id, from + b.size)
        /\ Data(l.m.id, from + b.size) \in Seq(Nat \X Nat)
    BY <1>0, <1>1, DataGrows
  <2>4. QED
    BY <2>2, <2>3, Zenon
<1> HIDE DEF data
<1>3. f.index \in Nat /\ f.remain \in Nat /\ f.len \in Nat
  BY Constants DEF Entries
<1>4. /\ g.index = f.index + b.size /\ g.remain = f.remain - b.size /\ g.data = data /\ g.at = f.at
      /\ g.len = f.len /\ g.type = f.type /\ g.time = f.time /\ g.exted = f.exted /\ g.fmt = f.fmt
      /\ g.delta = f.delta
  BY DEF Entries
<1>5. f.index + b.size \in Nat /\ f.remain - b.size \in Nat
  BY <1>0, <1>1, <1>3
<1>6. g \in Entries
  BY <1>2, <1>5 DEF Entries
<1> HIDE DEF g
<1>7. Matches(g, l)
  BY <1>4 DEF Matches
<1>8. /\ g.index + g.remain = g.len /\ g.remain = l.m.len - (from + b.size)
      /\ g.data = Data(l.m.id, from + b.size)
  <2>1. g.data = Data(l.m.id, from + b.size)
    BY <1>2, <1>4, Zenon
  <2>2. g.remain = l.m.len - (from + b.size)
    BY <1>0, <1>1, <1>4
  <2>3. g.index + g.remain = g.len
    BY <1>1, <1>3, <1>4
  <2>4. QED
    BY <2>1, <2>2, <2>3
<1>9. QED
  BY <1>4, <1>6, <1>7, <1>8 DEF g, data, Filled

-----------------------------------------------------------------------------
(* Reading a chunk.                                                        *)

\* The entry Conn.Read works on.
Found(e) == IF e = Absent THEN NewEntry ELSE e

\* The header of a chunk meets an entry that is ready for it.
LEMMA HeaderMeets ==
    ASSUME NEW s \in Snapshots, NEW t, Sound(s),
           NEW c \in Csids, NEW h, NEW b, ChunkOf(c, s, h, b, t),
           NEW e0, e0 # Absent => e0 \in Entries /\ e0.index + e0.remain = e0.len,
           EntryAt(e0, s.last[c], s.done[c])
    PROVE  /\ h \in Headers /\ h.kind = "hdr" /\ h.csid = c /\ Found(e0) \in Entries
           /\ ~(Found(e0).remain # 0 /\ h.fmt # 3)
<1> DEFINE l == t.last[c]
<1>1. l \in Lasts
  BY DEF ChunkOf
<1>2. PICK fmt \in 0..3 : /\ h = Header(c, fmt, l.m, l.time)
                          /\ s.done[c] # 0 => fmt = 3
  BY DEF ChunkOf
<1>3. l.m \in Msgs /\ l.time \in Timestamps
  BY <1>1 DEF Lasts
<1>4. h \in Headers /\ h.kind = "hdr" /\ h.csid = c /\ h.fmt = fmt
  BY <1>2, <1>3, HeaderFields
<1>5. Found(e0) \in Entries
  BY NewEntryIsEntry DEF Found
<1>6. s.done[c] = 0 => Found(e0).remain = 0
  BY NewEntryIsEntry DEF EntryAt, Found
<1>7. QED
  BY <1>2, <1>4, <1>5, <1>6

\* A chunk that leads from snapshot s to t takes the entry of its chunk stream
\* from s to t; the reader is in step unless bigDelta.
LEMMA ReadEntry ==
    ASSUME pool \in Pools, NEW s \in Snapshots, NEW t \in Snapshots, Sound(s), Sound(t),
           NEW c \in Csids, NEW h, NEW b, ChunkOf(c, s, h, b, t), rsize = s.size,
           NEW e0, e0 # Absent => e0 \in Entries /\ e0.index + e0.remain = e0.len,
           EntryAt(e0, s.last[c], s.done[c]), h.fmt < 2 => h.len <= PoolSize
    PROVE  LET e == Found(e0)
               f == ReadHeader(e, h)
               g == Filled(f, b)
               m == t.last[c].m
           IN  /\ h.kind = "hdr" /\ b.kind = "body" /\ h.csid = c
               /\ ~(e.remain # 0 /\ h.fmt # 3)
               /\ ~bigDelta => ~OutOfStep(e, h, b)
               /\ (h.fmt # 3 \/ e.remain = 0) <=> s.done[c] = 0
               /\ IF s.done[c] = 0 THEN f.at = PlaceOf(f.len) ELSE e0 \in Entries /\ f = e0 /\ e0.remain # 0
               /\ g \in Entries /\ g.index + g.remain = g.len /\ EntryAt(g, t.last[c], t.done[c])
               /\ g.at = f.at /\ g.len = f.len /\ f.len \in 0..PoolSize
               /\ g.remain = 0 <=> s.done[c] + b.size = m.len
               /\ g.remain = 0 => IsMessage([g EXCEPT !.index = h.csid], m)
               /\ b.val = m.val /\ g.type = m.type /\ m \in Msgs
<1> DEFINE l == t.last[c]
<1> DEFINE m == l.m
<1> DEFINE from == s.done[c]
<1> DEFINE e == Found(e0)
<1> DEFINE f == ReadHeader(e, h)
<1> DEFINE g == Filled(f, b)
<1> DEFINE all == from + b.size = m.len
<1>1. /\ l \in Lasts /\ b = BodyOf(m, from, s.size) /\ Timed(l)
      /\ t.done = [s.done EXCEPT ![c] = IF all THEN 0 ELSE from + b.size]
  <2>1. /\ l \in Lasts /\ b = BodyOf(m, from, s.size)
        /\ t.done = [s.done EXCEPT ![c] = IF all THEN 0 ELSE from + b.size]
    BY DEF ChunkOf
  <2>2. l # Absent
    BY <2>1, Constants
  <2>3. QED
    BY <2>1, <2>2 DEF Sound
<1>2. PICK fmt \in 0..3 : /\ h = Header(c, fmt, m, l.time)
                          /\ IF from = 0 THEN Begins(s.last[c], l, fmt) ELSE fmt = 3 /\ l = s.last[c]
  BY DEF ChunkOf
<1>3. /\ m \in Msgs /\ m.len \in Nat /\ m.id \in Nat /\ l.time \in Timestamps
      /\ l # Absent /\ m.ts \in Nat
  BY <1>1, MsgFields, Constants DEF Lasts
<1>4. s.last \in [Csids -> Lasts \cup {Absent}] /\ s.done \in [Csids -> Nat] /\ s.size \in Nat \ {0}
  BY Constants DEF Snapshots
<1>5. from \in Nat /\ s.last[c] \in Lasts \cup {Absent}
  BY <1>4
<1>6. from # 0 => s.last[c] = l /\ from < m.len
  BY <1>2, <1>5 DEF Sound
<1>7. from \in 0..m.len
  BY <1>3, <1>5, <1>6
<1>8. /\ h.kind = "hdr" /\ h.csid = c /\ h.fmt = fmt /\ h.len = m.len
      /\ (h.ext # Absent) = (l.time >= ExtTs) /\ (h.ext # Absent => h.ext = l.time)
  BY <1>2, <1>3, HeaderFields
<1>9. /\ b.kind = "body" /\ b.val = m.val /\ b.size \in 0..(m.len - from) /\ b.size \in Nat
      /\ b.size = IF m.len - from > s.size THEN s.size ELSE m.len - from
      /\ (from < m.len => b.size > 0)
  <2>1. m \in Msgs /\ from \in 0..m.len /\ s.size \in Nat \ {0} /\ b = BodyOf(m, from, s.size)
    BY <1>1, <1>3, <1>4, <1>7
  <2> HIDE DEF from, m
  <2>2. b.kind = "body" /\ b.val = m.val
    BY <2>1, BodyFields
  <2>3. b.size \in 0..(m.len - from) /\ b.size \in Nat
    BY <2>1, BodyFields
  <2>4. b.size = IF m.len - from > s.size THEN s.size ELSE m.len - from
    BY <2>1, BodyFields
  <2>5. from < m.len => b.size > 0
    BY <2>1, BodyFields
  <2>6. QED
    BY <2>2, <2>3, <2>4, <2>5
<1>10. e \in Entries /\ e.index + e.remain = e.len
  BY NewEntryIsEntry DEF Found
<1>11. /\ f \in Entries /\ Matches(f, l) /\ f.remain = m.len - from /\ f.index + f.remain = f.len
       /\ f.data = Data(m.id, from)
       /\ (h.fmt # 3 \/ e.remain = 0) <=> from = 0
       /\ ~(e.remain # 0 /\ h.fmt # 3)
       /\ IF from = 0 THEN f.at = PlaceOf(f.len) ELSE e0 \in Entries /\ f = e0 /\ e0.remain # 0
       /\ ~(h.fmt = 3 /\ e.remain = 0 /\ e.exted # (h.ext # Absent))
       /\ ~bigDelta => ~(h.fmt = 3 /\ e.remain # 0 /\ h.ext # Absent /\ (~e.exted \/ h.ext # e.time))
  <2>1. CASE from = 0
    <3>1. e.remain = 0 /\ (s.last[c] # Absent => Timed(s.last[c]) /\ Matches(e, s.last[c]))
      BY <2>1, NewEntryIsEntry DEF EntryAt, Found, Sound
    <3>2. Begins(s.last[c], l, fmt)
      BY <1>2, <2>1
    <3>3. /\ f \in Entries /\ Matches(f, l) /\ f.index = 0 /\ f.remain = m.len /\ f.data = <<>>
          /\ f.at = PlaceOf(m.len) /\ (fmt = 3 => e.exted = (h.ext # Absent))
      <4>1. l.m.len \in 0..PoolSize
        <5>1. CASE fmt \in {0, 1}
          BY <1>3, <1>8, <5>1, Constants
        <5>2. CASE fmt \notin {0, 1}
          <6>1. s.last[c] # Absent /\ l.m.len = s.last[c].m.len
            BY <3>2, <5>2 DEF Begins
          <6>2. e.len = l.m.len
            BY <3>1, <6>1 DEF Matches
          <6>3. QED
            BY <1>10, <6>2 DEF Entries
        <5>3. QED
          BY <5>1, <5>2
      <4>2. l \in Lasts /\ Timed(l) /\ e \in Entries /\ e.remain = 0
        BY <1>1, <1>10, <3>1
      <4>3. s.last[c] # Absent => Timed(s.last[c]) /\ Matches(e, s.last[c])
        BY <3>1
      <4> DEFINE last == s.last[c]
      <4> DEFINE k == Header(c, fmt, l.m, l.time)
      <4>4. last \in Lasts \cup {Absent} /\ fmt \in 0..3 /\ Begins(last, l, fmt) /\ pool \in Pools
        BY <1>2, <1>5, <3>2
      <4>5. last # Absent => Timed(last) /\ Matches(e, last)
        BY <4>3
      <4>6. h = k
        BY <1>2
      <4> HIDE DEF e, l, last
      <4>7. /\ ReadHeader(e, k) \in Entries /\ Matches(ReadHeader(e, k), l)
            /\ ReadHeader(e, k).index = 0 /\ ReadHeader(e, k).remain = l.m.len
            /\ ReadHeader(e, k).data = <<>> /\ ReadHeader(e, k).at = PlaceOf(l.m.len)
            /\ fmt = 3 => e.exted = (k.ext # Absent)
        BY <4>1, <4>2, <4>4, <4>5, ReadBegins
      <4>8. QED
        BY <4>6, <4>7
    <3>4. f.len = m.len
      BY <3>3 DEF Matches
    <3>5. Data(m.id, 0) = <<>>
      BY DEF Data
    <3> HIDE DEF f, e
    <3>6. QED
      BY <1>3, <1>8, <2>1, <3>1, <3>3, <3>4, <3>5
  <2>2. CASE from # 0
    <3>1. /\ e0 # Absent /\ Matches(e0, l) /\ e0.remain = m.len - from /\ e0.data = Data(m.id, from)
      BY <1>3, <1>6, <2>2 DEF EntryAt, Data
    <3>2. e = e0 /\ e0 \in Entries /\ e0.remain # 0 /\ h.fmt = 3
      BY <1>2, <1>3, <1>5, <1>6, <1>8, <2>2, <3>1 DEF Found
    <3>3. f = e0
      BY <3>2 DEF ReadHeader
    <3>4. ASSUME ~bigDelta, h.ext # Absent PROVE e0.exted /\ h.ext = e0.time
      <4>1. l.time >= ExtTs /\ h.ext = l.time
        BY <1>8, <3>4
      <4>2. l.delta = Absent \/ l.delta < ExtTs
        BY <1>5, <1>6, <2>2, <3>4 DEF Sound
      <4>3. l.delta # Absent => l.delta \in Nat
        BY <1>1, Constants DEF Lasts, Timestamps
      <4>4. l.delta = Absent
        BY <1>1, <4>1, <4>2, <4>3, Constants DEF Timed
      <4>5. l.time = m.ts
        BY <1>1, <4>4 DEF Timed
      <4>6. QED
        BY <3>1, <4>1, <4>5 DEF Matches
    <3> HIDE DEF f, e
    <3>5. QED
      BY <1>10, <2>2, <3>1, <3>2, <3>3, <3>4
  <2>3. QED
    BY <2>1, <2>2
<1>12. /\ g \in Entries /\ g.index + g.remain = g.len /\ Matches(g, l)
       /\ g.remain = m.len - (from + b.size) /\ g.data = Data(m.id, from + b.size)
       /\ g.at = f.at /\ g.len = f.len /\ g.type = f.type
  <2> HIDE DEF f
  <2>1. QED
    BY <1>1, <1>4, <1>7, <1>11, ReadBody
<1> HIDE DEF f, g, e
<1>13. ~bigDelta => ~OutOfStep(e, h, b)
  BY <1>8, <1>9, <1>11 DEF OutOfStep, f
<1>14. g.remain = 0 <=> all
  BY <1>3, <1>5, <1>9, <1>12
<1>15. EntryAt(g, l, t.done[c])
  <2>1. t.done[c] = IF all THEN 0 ELSE from + b.size
    BY <1>1, <1>4
  <2>2. ~all => from + b.size # 0
    <3> HIDE DEF from, m
    <3>1. QED
      BY <1>3, <1>7, <1>9
  <2>3. g # Absent
    BY <1>12, Constants
  <2>4. QED
    BY <1>3, <1>12, <1>14, <2>1, <2>2, <2>3 DEF EntryAt, Data
<1>16. ASSUME g.remain = 0 PROVE IsMessage([g EXCEPT !.index = h.csid], m)
  <2> DEFINE d == [g EXCEPT !.index = h.csid]
  <2>1. d.time = g.time /\ d.type = g.type /\ d.len = g.len /\ d.data = g.data
    BY <1>12 DEF Entries
  <2>2. g.data = Data(m.id, m.len)
    BY <1>12, <1>14, <1>16
  <2> HIDE DEF d
  <2>3. IsMessage(d, m)
    BY <1>12, <2>1, <2>2 DEF IsMessage, Matches, Data
  <2>4. QED
    BY <2>3 DEF d
<1>17. g.type = m.type /\ f.len \in 0..PoolSize
  BY <1>11, <1>12 DEF Matches, Entries
<1>18. QED
  BY <1>3, <1>8, <1>9, <1>11, <1>12, <1>13, <1>14, <1>15, <1>16, <1>17 DEF e, f, g

\* What readChunk makes of the chunk: the entry, the pool, and when the message
\* is full what Conn.Read does with it.
Reads(s, t, c, g) ==
    LET k == EntryOf(c)
        m == t.last[c].m
        full == g.remain = 0
        d == [g EXCEPT !.index = c]
    IN  /\ g \in Entries /\ g.index + g.remain = g.len /\ m \in Msgs
        /\ EntryAt(g, t.last[c], t.done[c])
        /\ full <=> s.done[c] + stream[2].size = m.len
        /\ entries' = [entries EXCEPT ![k] = g]
        /\ \/ g.at = PlaceOf(g.len) /\ pool' = PoolGet(g.len)
           \/ /\ entries[k] # Absent /\ entries[k].remain # 0 /\ pool' = pool
              /\ g.at = entries[k].at /\ g.len = entries[k].len
        /\ rsize' = IF full /\ m.type = SetChunkSize THEN m.val ELSE rsize
        /\ window' = IF full /\ m.type = WindowAckSize THEN m.val ELSE window
        /\ IF full THEN delivered' = Append(delivered, d) /\ IsMessage(d, m) /\ Ack(g.len)
           ELSE UNCHANGED <<delivered, ackReceived, acked>>

\* The reader stops; raced or bigDelta tells, or the next message is too long.
Stops ==
    /\ \/ readErr' \in {"invalid remain", "out of step"} /\ (raced \/ bigDelta)
       \/ readErr' = "panic" /\ stream[1].len > PoolSize
    /\ UNCHANGED <<entries, rsize, window, ackReceived, acked, pool, delivered, stream>>

\* ReadChunk, as the snapshots tell it: the reader takes the first chunk, or
\* stops.
LEMMA ReadResult ==
    ASSUME ReaderInv, pool \in Pools, NEW k \in Nat, NEW S \in [0..k -> Snapshots],
           Chain(S, k), ReaderAt(S[0]), EndsAt(k) \/ BrokenAt(k), ReadChunk
    PROVE  \/ Stops
           \/ /\ k >= 1 /\ readErr' = readErr /\ stream' = SubSeq(stream, 3, Len(stream))
              /\ \E c \in Csids, g \in Entries :
                    ChunkOf(c, S[0], stream[1], stream[2], S[1]) /\ Reads(S[0], S[1], c, g)
<1> DEFINE h == stream[1]
<1> DEFINE b == stream[2]
<1>1. Len(stream) >= 2 /\ Len(stream) \in Nat
  <2>1. Len(stream) >= 2
    BY DEF ReadChunk
  <2>2. Len(stream) \in Nat
    BY LenProperties DEF ReaderInv
  <2>3. QED
    BY <2>1, <2>2
<1>2. CASE k = 0
  <2>1. raced /\ h.kind = "hdr" /\ b.kind = "hdr"
    BY <1>1, <1>2 DEF EndsAt, BrokenAt
  <2>2. \A e : OutOfStep(e, h, b)
    BY <2>1 DEF OutOfStep
  <2> DEFINE e == Found(entries[EntryOf(h.csid)])
  <2>3. h \in Headers
    <3>1. h \in Headers \cup Bodies
      <4>1. stream \in Seq(Headers \cup Bodies)
        BY DEF ReaderInv
      <4>2. 1 \in 1..Len(stream)
        BY <1>1
      <4>3. QED
        BY <4>1, <4>2, ElementOfSeq
    <3>2. h \notin Bodies
      BY <2>1 DEF Bodies
    <3>3. QED
      BY <3>1, <3>2
  <2>4. e \in Entries
    <3>1. EntryOf(h.csid) \in DOMAIN entries
      BY <2>3, EntryInDomain DEF ReaderInv, Headers
    <3>2. QED
      BY <3>1, NewEntryIsEntry DEF ReaderInv, Found
  <2>5. e = IF entries[EntryOf(h.csid)] = Absent THEN NewEntry ELSE entries[EntryOf(h.csid)]
    BY DEF Found
  <2> HIDE DEF e
  <2>6. (h.fmt # 3 \/ e.remain = 0) /\ ~PoolHas(ReadHeader(e, h).len) => h.len > PoolSize
    <3>1. e.len \in 0..PoolSize /\ PoolSize \in Nat /\ h.len \in Nat
      BY <2>3, <2>4, Constants DEF Entries, Headers
    <3>2. QED
      BY <2>3, <2>4, <3>1, ReadLength DEF PoolHas
  <2>7. Stops
    BY <2>1, <2>2, <2>5, <2>6 DEF ReadChunk, Stops
  <2>8. QED
    BY <2>7
<1>3. CASE k # 0
  <2>1. k >= 1 /\ 1 \in 1..k /\ 0 \in 0..k /\ 1 \in 0..k /\ 2 * 1 - 1 = 1 /\ 2 * 1 = 2 /\ 1 - 1 = 0
    BY <1>3
  <2>2. /\ Sound(S[0]) /\ Sound(S[1])
        /\ \E c \in Csids : ChunkOf(c, S[1 - 1], stream[2 * 1 - 1], stream[2 * 1], S[1])
    BY <2>1 DEF Chain
  <2>3. PICK c \in Csids : ChunkOf(c, S[0], h, b, S[1])
    BY <2>1, <2>2
  <2>4. S[0] \in Snapshots /\ S[1] \in Snapshots
    BY <2>1
  <2> DEFINE e0 == entries[EntryOf(c)]
  <2> DEFINE e == Found(e0)
  <2> DEFINE f == ReadHeader(e, h)
  <2> DEFINE g == Filled(f, b)
  <2> DEFINE m == S[1].last[c].m
  <2> DEFINE new == h.fmt # 3 \/ e.remain = 0
  <2>5. /\ e0 # Absent => e0 \in Entries /\ e0.index + e0.remain = e0.len
        /\ EntryAt(e0, S[0].last[c], S[0].done[c]) /\ rsize = S[0].size
    <3>1. EntryOf(c) \in DOMAIN entries
      BY EntryInDomain DEF ReaderInv
    <3>2. QED
      BY <3>1 DEF ReaderInv, ReaderAt
  <2>a. /\ h \in Headers /\ h.kind = "hdr" /\ h.csid = c /\ e \in Entries
        /\ ~(e.remain # 0 /\ h.fmt # 3)
    <3> HIDE DEF e0, h, b
    <3>1. QED
      BY <2>2, <2>3, <2>4, <2>5, HeaderMeets
  <2>b. CASE h.fmt < 2 /\ h.len > PoolSize
    <3>1. e = IF entries[EntryOf(h.csid)] = Absent THEN NewEntry ELSE entries[EntryOf(h.csid)]
      BY <2>a DEF Found
    <3>2. h.fmt # 3 /\ ~PoolHas(f.len)
      <4> HIDE DEF h, e
      <4>1. h.fmt # 3 /\ h.len \in Nat /\ PoolSize \in Nat
        BY <2>a, <2>b, Constants DEF Headers
      <4>2. f.len = h.len
        BY <2>a, <2>b, <4>1, ReadLength
      <4>3. QED
        BY <2>b, <4>1, <4>2 DEF PoolHas
    <3> HIDE DEF e
    <3>3. Stops
      BY <2>a, <2>b, <3>1, <3>2 DEF ReadChunk, Stops
    <3>4. QED
      BY <3>3
  <2>c. SUFFICES ASSUME h.fmt < 2 => h.len <= PoolSize
                 PROVE  \/ Stops
                        \/ /\ k >= 1 /\ readErr' = readErr /\ stream' = SubSeq(stream, 3, Len(stream))
                           /\ \E d \in Csids, x \in Entries :
                                 ChunkOf(d, S[0], stream[1], stream[2], S[1]) /\ Reads(S[0], S[1], d, x)
    <3>1. h.len \in Nat /\ PoolSize \in Nat
      BY <2>a, Constants DEF Headers
    <3>2. QED
      BY <2>b, <3>1
  <2>d. new => PoolHas(f.len)
    <3> HIDE DEF h, e
    <3>1. e.len \in 0..PoolSize /\ PoolSize \in Nat
      BY <2>a, Constants DEF Entries
    <3>2. QED
      BY <2>a, <2>c, <3>1, ReadLength DEF PoolHas
  <2>6. /\ h.kind = "hdr" /\ b.kind = "body" /\ h.csid = c
        /\ ~(e.remain # 0 /\ h.fmt # 3)
        /\ ~bigDelta => ~OutOfStep(e, h, b)
        /\ new <=> S[0].done[c] = 0
        /\ IF S[0].done[c] = 0 THEN f.at = PlaceOf(f.len)
           ELSE e0 \in Entries /\ f = e0 /\ e0.remain # 0
        /\ g \in Entries /\ g.index + g.remain = g.len /\ EntryAt(g, S[1].last[c], S[1].done[c])
        /\ g.at = f.at /\ g.len = f.len /\ f.len \in 0..PoolSize
        /\ g.remain = 0 <=> S[0].done[c] + b.size = m.len
        /\ g.remain = 0 => IsMessage([g EXCEPT !.index = h.csid], m)
        /\ b.val = m.val /\ g.type = m.type /\ m \in Msgs
    <3> HIDE DEF e0, h, b
    <3>1. QED
      BY <2>2, <2>3, <2>4, <2>5, <2>c, ReadEntry
  <2>7. CASE OutOfStep(e, h, b)
    <3>1. bigDelta
      BY <2>6, <2>7
    <3>2. e = IF entries[EntryOf(h.csid)] = Absent THEN NewEntry ELSE entries[EntryOf(h.csid)]
      BY <2>6 DEF Found
    <3> HIDE DEF e
    <3>3. Stops
      BY <2>6, <2>7, <2>d, <3>1, <3>2 DEF ReadChunk, Stops
    <3>4. QED
      BY <3>3
  <2>8. CASE ~OutOfStep(e, h, b)
    <3>1. e = IF entries[EntryOf(h.csid)] = Absent THEN NewEntry ELSE entries[EntryOf(h.csid)]
      BY <2>6 DEF Found
    <3>2. /\ stream' = SubSeq(stream, 3, Len(stream))
          /\ entries' = [entries EXCEPT ![EntryOf(c)] = g]
          /\ pool' = IF new THEN PoolGet(f.len) ELSE pool
          /\ rsize' = IF g.remain = 0 /\ g.type = SetChunkSize THEN b.val ELSE rsize
          /\ window' = IF g.remain = 0 /\ g.type = WindowAckSize THEN b.val ELSE window
          /\ IF g.remain = 0 THEN delivered' = Append(delivered, [g EXCEPT !.index = c]) /\ Ack(g.len)
             ELSE UNCHANGED <<delivered, ackReceived, acked>>
          /\ readErr' = readErr
      <4> HIDE DEF e
      <4>1. QED
        BY <2>6, <2>8, <2>d, <3>1 DEF ReadChunk, Filled
    <3>3. \/ g.at = PlaceOf(g.len) /\ pool' = PoolGet(g.len)
          \/ /\ e0 # Absent /\ e0.remain # 0 /\ pool' = pool /\ g.at = e0.at /\ g.len = e0.len
      <4> HIDE DEF g, f, e0, e
      <4>1. QED
        BY <2>6, <3>2, Constants
    <3>4. Reads(S[0], S[1], c, g)
      <4> HIDE DEF g, f, e
      <4>1. QED
        BY <2>6, <3>2, <3>3 DEF Reads
    <3>5. QED
      BY <2>1, <2>3, <2>6, <3>2, <3>4
  <2>9. QED
    BY <2>7, <2>8
<1>4. QED
  BY <1>2, <1>3

\* An entry as it is returned: with the chunk stream's id.
LEMMA Returned ==
    ASSUME NEW g \in Entries, NEW c \in Csids
    PROVE  [g EXCEPT !.index = c] \in Entries
<1>1. c \in Nat
  BY Constants
<1>2. QED
  BY <1>1 DEF Entries

-----------------------------------------------------------------------------
(* The pool.                                                               *)

\* Everything handed out lies before the pool's position.
PlacedIn(p, d) ==
    /\ d.len \in Nat /\ d.at \in [buf : Nat, pos : Nat] /\ d.at.buf <= p.buf
    /\ d.at.buf = p.buf => d.at.pos + d.len <= p.pos

\* Two messages share no byte.
Apart(d, e) ==
    \/ d.at.buf # e.at.buf \/ d.len = 0 \/ e.len = 0
    \/ d.at.pos + d.len <= e.at.pos \/ e.at.pos + e.len <= d.at.pos

\* The chunk streams with a message in progress.
Unread == {k \in DOMAIN entries : entries[k] # Absent /\ entries[k].remain # 0}

\* The messages handed out and in progress lie before the end of the current
\* buffer, pairwise apart.
PoolInv ==
    /\ pool \in Pools
    /\ \A i \in 1..Len(delivered) : PlacedIn(pool, delivered[i])
    /\ \A k \in Unread : PlacedIn(pool, entries[k])
    /\ \A i, j \in 1..Len(delivered) : i = j \/ Apart(delivered[i], delivered[j])
    /\ \A k, n \in Unread : k = n \/ Apart(entries[k], entries[n])
    /\ \A i \in 1..Len(delivered), k \in Unread : Apart(delivered[i], entries[k])

\* The place of a new message is apart from all others.
LEMMA PlaceApart ==
    ASSUME pool \in Pools, NEW g \in Entries, g.at = PlaceOf(g.len), NEW p, p = PoolGet(g.len)
    PROVE  /\ p \in Pools /\ PlacedIn(p, g)
           /\ \A d : PlacedIn(pool, d) => PlacedIn(p, d) /\ Apart(d, g) /\ Apart(g, d)
<1>1. g.len \in 0..PoolSize /\ g.len \in Nat
  BY Constants DEF Entries
<1>2. /\ p \in Pools /\ p.pos - g.len \in Nat /\ p.buf >= pool.buf
      /\ p.buf = pool.buf => p.pos - g.len = pool.pos
  BY <1>1, PoolGetFresh
<1>3. /\ p.buf \in Nat /\ p.pos \in Nat /\ pool.buf \in Nat /\ pool.pos \in Nat
  BY <1>2, Constants DEF Pools
<1>4. g.at = [buf |-> p.buf, pos |-> p.pos - g.len]
  BY DEF PlaceOf
<1>5. g.at.buf = p.buf /\ g.at.pos = p.pos - g.len /\ g.at \in [buf : Nat, pos : Nat]
  BY <1>2, <1>3, <1>4
<1>6. PlacedIn(p, g)
  BY <1>1, <1>3, <1>5 DEF PlacedIn
<1>7. ASSUME NEW d, PlacedIn(pool, d)
      PROVE  PlacedIn(p, d) /\ Apart(d, g) /\ Apart(g, d)
  <2>1. /\ d.len \in Nat /\ d.at \in [buf : Nat, pos : Nat] /\ d.at.buf <= pool.buf
        /\ d.at.buf = pool.buf => d.at.pos + d.len <= pool.pos
    BY <1>7 DEF PlacedIn
  <2>2. d.at.buf \in Nat /\ d.at.pos \in Nat
    BY <2>1
  <2>3. d.at.buf = p.buf => p.buf = pool.buf /\ d.at.pos + d.len <= g.at.pos /\ g.at.pos = pool.pos
    BY <1>2, <1>3, <1>5, <2>1, <2>2
  <2>4. PlacedIn(p, d)
    BY <1>1, <1>2, <1>3, <1>5, <2>1, <2>2, <2>3 DEF PlacedIn
  <2>5. Apart(d, g) /\ Apart(g, d)
    BY <1>5, <2>3 DEF Apart
  <2>6. QED
    BY <2>4, <2>5
<1>8. QED
  BY <1>2, <1>6, <1>7

\* The reader's step keeps everything it handed out apart.
LEMMA ReadKeepsPool ==
    ASSUME ReaderInv, PoolInv, NEW s, NEW t, NEW c \in Csids, NEW g, Reads(s, t, c, g)
    PROVE  PoolInv'
<1> DEFINE k == EntryOf(c)
<1> DEFINE d == [g EXCEPT !.index = c]
<1>0. k \in DOMAIN entries
  BY EntryInDomain DEF ReaderInv
<1>1. /\ g \in Entries
      /\ entries' = [entries EXCEPT ![k] = g]
      /\ \/ g.at = PlaceOf(g.len) /\ pool' = PoolGet(g.len)
         \/ /\ k \in Unread /\ pool' = pool
            /\ g.at = entries[k].at /\ g.len = entries[k].len
      /\ IF g.remain = 0 THEN delivered' = Append(delivered, d) ELSE delivered' = delivered
  BY <1>0 DEF Reads, Unread
<1>2. d.at = g.at /\ d.len = g.len /\ d \in Entries
  <2>1. c \in Nat
    BY Constants
  <2>2. QED
    BY <1>1, <2>1 DEF Entries
<1> HIDE DEF k, d
<1>3. /\ pool' \in Pools /\ PlacedIn(pool', g)
      /\ \A x : PlacedIn(pool, x) => PlacedIn(pool', x)
      /\ \A i \in 1..Len(delivered) : Apart(delivered[i], g) /\ Apart(g, delivered[i])
      /\ \A n \in Unread : n # k => Apart(entries[n], g) /\ Apart(g, entries[n])
  <2>1. CASE g.at = PlaceOf(g.len) /\ pool' = PoolGet(g.len)
    BY <1>1, <2>1, PlaceApart DEF PoolInv
  <2>2. CASE /\ k \in Unread /\ pool' = pool
             /\ g.at = entries[k].at /\ g.len = entries[k].len
    <3>1. \A x : Apart(x, g) = Apart(x, entries[k]) /\ Apart(g, x) = Apart(entries[k], x)
      BY <2>2 DEF Apart
    <3>2. \A x, y : Apart(x, y) <=> Apart(y, x)
      BY DEF Apart
    <3>3. PlacedIn(pool, entries[k]) /\ pool \in Pools
      BY <2>2 DEF PoolInv
    <3>4. PlacedIn(pool', g)
      BY <2>2, <3>3 DEF PlacedIn
    <3>5. QED
      BY <2>2, <3>1, <3>2, <3>3, <3>4 DEF PoolInv
  <2>3. QED
    BY <1>1, <2>1, <2>2
<1>4. /\ \A n \in Unread' : n # k => n \in Unread /\ entries'[n] = entries[n]
      /\ k \in Unread' => g.remain # 0
      /\ entries'[k] = g
  BY <1>0, <1>1 DEF Unread
<1>5. /\ delivered \in Seq(Entries) /\ Len(delivered) \in Nat
  BY LenProperties DEF ReaderInv
<1>6. CASE g.remain # 0
  <2>1. delivered' = delivered
    BY <1>1, <1>6
  <2>2. QED
    BY <1>3, <1>4, <2>1 DEF PoolInv
<1>7. CASE g.remain = 0
  <2>1. k \notin Unread'
    BY <1>4, <1>7
  <2>2. delivered' = Append(delivered, d)
    BY <1>1, <1>7
  <2>3. /\ Len(delivered') = Len(delivered) + 1 /\ delivered'[Len(delivered) + 1] = d
        /\ \A i \in 1..Len(delivered) : delivered'[i] = delivered[i]
    BY <1>2, <1>5, <2>2, AppendProperties
  <2>4. \A i \in 1..Len(delivered') : i \in 1..Len(delivered) \/ (delivered'[i] = d /\ i = Len(delivered) + 1)
    BY <1>5, <2>3
  <2>5. /\ PlacedIn(pool', d)
        /\ \A x : Apart(x, d) = Apart(x, g) /\ Apart(d, x) = Apart(g, x)
    BY <1>2, <1>3 DEF PlacedIn, Apart
  <2>6. \A i \in 1..Len(delivered') : PlacedIn(pool', delivered'[i])
    BY <1>3, <2>3, <2>4, <2>5 DEF PoolInv
  <2>7. \A n \in Unread' : PlacedIn(pool', entries'[n])
    BY <1>3, <1>4, <2>1 DEF PoolInv
  <2>8. \A i, j \in 1..Len(delivered') : i = j \/ Apart(delivered'[i], delivered'[j])
    BY <1>3, <2>3, <2>4, <2>5 DEF PoolInv
  <2>9. \A n, j \in Unread' : n = j \/ Apart(entries'[n], entries'[j])
    BY <1>4, <2>1 DEF PoolInv
  <2>10. \A i \in 1..Len(delivered'), n \in Unread' : Apart(delivered'[i], entries'[n])
    BY <1>3, <1>4, <2>1, <2>3, <2>4, <2>5 DEF PoolInv
  <2>11. QED
    BY <1>3, <2>6, <2>7, <2>8, <2>9, <2>10 DEF PoolInv
<1>8. QED
  BY <1>6, <1>7

\* The pool's part of MessagesIntact.
LEMMA PoolKeepsApart ==
    ASSUME PoolInv, delivered \in Seq(Entries)
    PROVE  PoolDisjoint
<1> DEFINE live == {<<"delivered", i>> : i \in DOMAIN delivered}
                     \cup {<<"entry", k>> : k \in {j \in DOMAIN entries :
                                                    entries[j] # Absent /\ entries[j].remain # 0}}
<1> DEFINE Of(x) == IF x[1] = "entry" THEN entries[x[2]] ELSE delivered[x[2]]
<1>1. ASSUME NEW x \in live, NEW y \in live, x # y
      PROVE  Apart(Of(x), Of(y))
  <2>1. \A z \in live : \/ z[1] = "delivered" /\ z[2] \in DOMAIN delivered /\ Of(z) = delivered[z[2]]
                                              /\ z = <<"delivered", z[2]>>
                        \/ z[1] = "entry" /\ z[2] \in Unread /\ Of(z) = entries[z[2]]
                                          /\ z = <<"entry", z[2]>>
    BY DEF Unread
  <2>2. DOMAIN delivered = 1..Len(delivered)
    BY LenProperties
  <2>3. \A i \in DOMAIN delivered, k \in Unread : Apart(entries[k], delivered[i])
    BY <2>2 DEF PoolInv, Apart
  <2> HIDE DEF live, Of
  <2>4. QED
    BY <1>1, <2>1, <2>2, <2>3 DEF PoolInv
<1>2. QED
  BY <1>1 DEF PoolDisjoint, Apart

-----------------------------------------------------------------------------
(* Acknowledgements.                                                       *)

\* Among naturals there is a least.
LEMMA LeastOne ==
    ASSUME NEW D, D \subseteq Nat, D # {}
    PROVE  \E x \in D : \A y \in D : x <= y
<1>1. PICK x \in D : \A y \in D : <<y, x>> \notin OpToRel(<, Nat)
  BY NatLessThanWellFounded, WFMin
<1>2. \A y \in D : ~(y < x)
  BY <1>1 DEF OpToRel
<1>3. \A y \in D : x \in Nat /\ y \in Nat
  OBVIOUS
<1>4. \A y \in D : x <= y
  BY <1>2, <1>3
<1>5. QED
  BY <1>4

\* f[i] are the bytes of the first i messages.
Sums(f, ms) ==
    /\ f \in [0..Len(ms) -> Nat] /\ f[0] = 0
    /\ \A i \in 1..Len(ms) : f[i] = f[i - 1] + ms[i].len

\* Payload is what the sums come to: its recursive function has a value, and it is
\* this one, for otherwise there were a first place where it is not.
LEMMA PayloadIs ==
    ASSUME NEW ms, Len(ms) \in Nat, NEW f, Sums(f, ms)
    PROVE  Payload(ms) = f[Len(ms)]
<1> DEFINE n == Len(ms)
<1> DEFINE Step(g) == [i \in 0..n |-> IF i = 0 THEN 0 ELSE g[i - 1] + ms[i].len]
<1> DEFINE total == CHOOSE g : g = Step(g)
<1>1. f = Step(f)
  <2>1. \A i \in 0..n : f[i] = Step(f)[i]
    BY DEF Sums
  <2>2. f = [i \in 0..n |-> f[i]]
    BY DEF Sums
  <2>3. QED
    BY <2>1, <2>2
<1>2. total = Step(total)
  <2> HIDE DEF Step
  <2>1. \E g : g = Step(g)
    BY <1>1
  <2>2. QED
    BY <2>1
<1>3. Payload(ms) = total[n]
  BY DEF Payload
<1>4. ASSUME NEW t, t = Step(t) PROVE t[n] = f[n]
  <2>1. t[0] = 0 /\ \A i \in 1..n : t[i] = t[i - 1] + ms[i].len
    <3>1. \A i \in 0..n : Step(t)[i] = IF i = 0 THEN 0 ELSE t[i - 1] + ms[i].len
      OBVIOUS
    <3> HIDE DEF Step
    <3>2. \A i \in 0..n : t[i] = IF i = 0 THEN 0 ELSE t[i - 1] + ms[i].len
      BY <1>4, <3>1
    <3>3. QED
      BY <3>2
  <2> DEFINE D == {i \in 0..n : t[i] # f[i]}
  <2>2. CASE D = {}
    BY <2>2
  <2>3. CASE D # {}
    <3>1. PICK x \in D : \A y \in D : x <= y
      <4>1. D \subseteq Nat
        OBVIOUS
      <4> HIDE DEF D
      <4>2. QED
        BY <2>3, <4>1, LeastOne
    <3>2. x \in 0..n /\ t[x] # f[x]
      OBVIOUS
    <3>3. x # 0
      BY <2>1, <3>2 DEF Sums
    <3>4. x \in 1..n /\ x - 1 \in 0..n /\ ~(x <= x - 1)
      BY <3>2, <3>3
    <3>5. t[x - 1] = f[x - 1]
      BY <3>1, <3>4
    <3>6. QED
      BY <2>1, <3>2, <3>4, <3>5 DEF Sums
  <2>4. QED
    BY <2>2, <2>3
<1>5. QED
  <2> HIDE DEF total, Step
  <2>1. QED
    BY <1>2, <1>3, <1>4

\* What is acknowledged and counted is the sum of the lengths returned.
AckInv ==
    /\ acked \in Nat /\ ackReceived \in Nat /\ ackReceived < window
    /\ \E f : Sums(f, delivered) /\ acked + ackReceived = f[Len(delivered)]

\* A message more brings its length, acknowledged or counted.
LEMMA ReadKeepsAcks ==
    ASSUME ReaderInv, (window \in Windows \cup {InitWindow})', AckInv,
           NEW s, NEW t, NEW c \in Csids, NEW g, Reads(s, t, c, g)
    PROVE  AckInv'
<1> DEFINE d == [g EXCEPT !.index = c]
<1>1. g \in Entries /\ d \in Entries /\ d.len = g.len /\ g.len \in Nat
  <2>1. g \in Entries
    BY DEF Reads
  <2>2. d.len = g.len /\ g.len \in Nat
    BY <2>1, Constants DEF Entries
  <2>3. QED
    BY <2>1, <2>2, Returned
<1>2. window' \in Nat /\ window' > 0
  BY Constants
<1>3. delivered \in Seq(Entries) /\ Len(delivered) \in Nat
  BY LenProperties DEF ReaderInv
<1>4. PICK f : Sums(f, delivered) /\ acked + ackReceived = f[Len(delivered)]
  BY DEF AckInv
<1>5. acked \in Nat /\ ackReceived \in Nat /\ ackReceived < window
  BY DEF AckInv
<1>6. CASE g.remain # 0
  <2>1. delivered' = delivered /\ ackReceived' = ackReceived /\ acked' = acked /\ window' = window
    BY <1>6 DEF Reads
  <2>2. QED
    BY <1>4, <1>5, <2>1 DEF AckInv, Sums
<1>7. CASE g.remain = 0
  <2>1. delivered' = Append(delivered, d) /\ Ack(g.len)
    BY <1>7 DEF Reads
  <2> HIDE DEF d
  <2> DEFINE sum == ackReceived + g.len
  <2>2. IF sum >= window' THEN ackReceived' = 0 /\ acked' = acked + sum
        ELSE ackReceived' = sum /\ acked' = acked
    BY <2>1 DEF Ack
  <2>3. /\ acked' \in Nat /\ ackReceived' \in Nat /\ ackReceived' < window'
        /\ acked' + ackReceived' = (acked + ackReceived) + g.len
    BY <1>1, <1>2, <1>5, <2>2
  <2> DEFINE n == Len(delivered)
  <2>4. /\ Len(delivered') = n + 1 /\ delivered'[n + 1] = d
        /\ \A i \in 1..n : delivered'[i] = delivered[i]
    BY <1>1, <1>3, <2>1, AppendProperties
  <2>5. PICK e : e = [i \in 0..(n + 1) |-> IF i <= n THEN f[i] ELSE f[n] + g.len]
    OBVIOUS
  <2>6. f \in [0..n -> Nat] /\ f[0] = 0 /\ \A i \in 1..n : f[i] = f[i - 1] + delivered[i].len
    BY <1>4 DEF Sums
  <2> HIDE DEF n
  <2>7. n \in Nat
    BY <1>3 DEF n
  <2>8. /\ e \in [0..(n + 1) -> Nat] /\ e[0] = 0 /\ e[n + 1] = f[n] + g.len
        /\ \A i \in 0..n : e[i] = f[i]
    BY <1>1, <2>5, <2>6, <2>7
  <2>9. \A i \in 1..(n + 1) : e[i] = e[i - 1] + delivered'[i].len
    <3> SUFFICES ASSUME NEW i \in 1..(n + 1) PROVE e[i] = e[i - 1] + delivered'[i].len
      OBVIOUS
    <3>1. CASE i \in 1..n
      <4>1. i \in 0..n /\ i - 1 \in 0..n
        BY <2>7, <3>1
      <4>2. QED
        BY <2>4, <2>6, <2>8, <3>1, <4>1
    <3>2. CASE i = n + 1
      <4>1. i - 1 = n /\ n \in 0..n
        BY <2>7, <3>2
      <4>2. QED
        BY <1>1, <2>4, <2>8, <3>2, <4>1
    <3>3. QED
      BY <2>7, <3>1, <3>2
  <2>10. Sums(e, delivered')
    BY <2>4, <2>8, <2>9 DEF Sums
  <2>11. acked' + ackReceived' = e[Len(delivered')]
    BY <1>4, <2>3, <2>4, <2>8 DEF n
  <2>12. QED
    BY <2>3, <2>10, <2>11 DEF AckInv, Sums
<1>8. QED
  BY <1>6, <1>7

\* The sums account for what AckAccounts says.
LEMMA AcksAdd ==
    ASSUME AckInv, delivered \in Seq(Entries)
    PROVE  AckAccounts
<1>1. PICK f : Sums(f, delivered) /\ acked + ackReceived = f[Len(delivered)]
  BY DEF AckInv
<1>2. Len(delivered) \in Nat
  BY LenProperties
<1>3. Payload(delivered) = f[Len(delivered)]
  BY <1>1, <1>2, PayloadIs
<1>4. QED
  BY <1>1, <1>3 DEF AckInv, AckAccounts

-----------------------------------------------------------------------------
(* The reader's step.                                                      *)

\* What is left without the first two.
LEMMA DropTwo ==
    ASSUME NEW X, NEW w \in Seq(X), Len(w) >= 2
    PROVE  LET r == SubSeq(w, 3, Len(w))
           IN  /\ r \in Seq(X) /\ Len(r) = Len(w) - 2
               /\ \A j \in 1..(Len(w) - 2) : r[j] = w[j + 2]
<1> DEFINE r == SubSeq(w, 3, Len(w))
<1>1. Len(w) \in Nat
  BY LenProperties
<1>2. \A i \in 3..Len(w) : w[i] \in X
  BY <1>1, ElementOfSeq
<1>3. /\ r \in Seq(X)
      /\ Len(r) = IF 3 <= Len(w) THEN Len(w) - 3 + 1 ELSE 0
      /\ \A i \in 1..(Len(w) - 3 + 1) : r[i] = w[3 + i - 1]
  BY <1>1, <1>2, SubSeqProperties
<1> HIDE DEF r
<1>4. Len(r) = Len(w) - 2
  <2>1. \A n \in Nat : n >= 2 => (IF 3 <= n THEN n - 3 + 1 ELSE 0) = n - 2
    OBVIOUS
  <2>2. QED
    BY <1>1, <1>3, <2>1
<1>5. \A j \in 1..(Len(w) - 2) : j \in 1..(Len(w) - 3 + 1) /\ 3 + j - 1 = j + 2
  BY <1>1
<1>6. \A j \in 1..(Len(w) - 2) : r[j] = w[j + 2]
  BY <1>3, <1>5
<1>7. QED
  BY <1>3, <1>4, <1>6 DEF r

\* Without its first chunk a chain is a chain of one chunk less.
LEMMA ChainShrinks ==
    ASSUME ReaderInv, NEW k \in Nat, k >= 1, NEW S \in [0..k -> Snapshots], Chain(S, k),
           stream' = SubSeq(stream, 3, Len(stream)), UNCHANGED <<finished, bigDelta>>,
           NEW T, T = [i \in 0..(k - 1) |-> S[i + 1]]
    PROVE  /\ T \in [0..(k - 1) -> Snapshots] /\ Chain(T, k - 1)' /\ T[0] = S[1] /\ T[k - 1] = S[k]
           /\ Len(stream') = Len(stream) - 2
           /\ \A j \in 1..(Len(stream) - 2) : stream'[j] = stream[j + 2]
<1>1. Len(stream) \in Nat /\ 2 * k <= Len(stream)
  BY LenProperties DEF ReaderInv, Chain
<1>2. /\ Len(stream') = Len(stream) - 2
      /\ \A j \in 1..(Len(stream) - 2) : stream'[j] = stream[j + 2]
  <2>1. stream \in Seq(Headers \cup Bodies) /\ Len(stream) >= 2
    <3>1. Len(stream) >= 2
      BY <1>1
    <3>2. QED
      BY <3>1 DEF ReaderInv
  <2>2. QED
    BY <2>1, DropTwo
<1>3. \A i \in 0..(k - 1) : T[i] = S[i + 1] /\ i + 1 \in 0..k
  OBVIOUS
<1>4. T \in [0..(k - 1) -> Snapshots] /\ T[0] = S[1] /\ T[k - 1] = S[k]
  BY <1>3
<1>5. \A i \in 0..(k - 1) : Sound(T[i])'
  <2>1. \A i \in 0..(k - 1) : Sound(T[i])
    BY <1>3 DEF Chain
  <2>2. QED
    BY <2>1 DEF Sound
<1>6. ASSUME NEW i \in 1..(k - 1)
      PROVE  \E c \in Csids : ChunkOf(c, T[i - 1], stream[2 * i - 1], stream[2 * i], T[i])'
  <2>1. /\ i + 1 \in 1..k /\ 2 * (i + 1) - 1 = 2 * i + 1 /\ 2 * (i + 1) = 2 * i + 2
        /\ (i + 1) - 1 = i /\ i - 1 \in 0..(k - 1) /\ i \in 0..(k - 1)
    OBVIOUS
  <2>2. PICK c \in Csids : ChunkOf(c, S[i], stream[2 * i + 1], stream[2 * i + 2], S[i + 1])
    BY <2>1 DEF Chain
  <2>3. stream'[2 * i - 1] = stream[2 * i + 1] /\ stream'[2 * i] = stream[2 * i + 2]
    <3>1. /\ 2 * i - 1 \in 1..(Len(stream) - 2) /\ 2 * i \in 1..(Len(stream) - 2)
          /\ (2 * i - 1) + 2 = 2 * i + 1
      BY <1>1
    <3>2. QED
      BY <1>2, <3>1
  <2>4. T[i - 1] = S[i] /\ T[i] = S[i + 1]
    BY <1>3, <2>1
  <2>5. ChunkOf(c, T[i - 1], stream'[2 * i - 1], stream'[2 * i], T[i])
    BY <2>2, <2>3, <2>4
  <2>6. ChunkOf(c, T[i - 1], stream[2 * i - 1], stream[2 * i], T[i])'
    BY <2>5 DEF ChunkOf
  <2>7. QED
    BY <2>6
<1>7. 2 * (k - 1) <= Len(stream')
  BY <1>1, <1>2
<1>8. QED
  BY <1>2, <1>4, <1>5, <1>6, <1>7 DEF Chain

\* The entries of other chunk streams stay, so that the reader is where the
\* chunk leads to.
LEMMA ReaderFollows ==
    ASSUME OneEntryEach, ReaderInv, NEW s \in Snapshots, NEW t \in Snapshots, ReaderAt(s),
           NEW c \in Csids, ChunkOf(c, s, stream[1], stream[2], t), NEW g, Reads(s, t, c, g)
    PROVE  ReaderAt(t)'
<1> DEFINE m == t.last[c].m
<1> DEFINE all == s.done[c] + stream[2].size = m.len
<1>1. g.remain = 0 <=> all
  BY DEF Reads
<1>2. /\ t.last = [s.last EXCEPT ![c] = t.last[c]]
      /\ t.done = [s.done EXCEPT ![c] = IF all THEN 0 ELSE s.done[c] + stream[2].size]
      /\ t.size = IF all /\ m.type = SetChunkSize THEN m.val ELSE s.size
      /\ t.fin = IF all THEN s.fin + 1 ELSE s.fin
  BY DEF ChunkOf
<1>3. s.last \in [Csids -> Lasts \cup {Absent}] /\ s.done \in [Csids -> Nat]
  BY DEF Snapshots
<1>4. rsize' = t.size
  BY <1>1, <1>2 DEF ReaderAt, Reads
<1>5. Len(delivered') = t.fin
  <2>1. CASE g.remain = 0
    <3>1. delivered' = Append(delivered, [g EXCEPT !.index = c])
      BY <2>1 DEF Reads
    <3>2. g \in Entries
      BY DEF Reads
    <3>3. [g EXCEPT !.index = c] \in Entries /\ delivered \in Seq(Entries)
      BY <3>2, Returned DEF ReaderInv
    <3>4. Len(delivered') = Len(delivered) + 1
      BY <3>1, <3>3, AppendProperties
    <3>5. QED
      BY <1>1, <1>2, <2>1, <3>4 DEF ReaderAt
  <2>2. CASE g.remain # 0
    BY <1>1, <1>2, <2>2 DEF ReaderAt, Reads
  <2>3. QED
    BY <2>1, <2>2
<1>6. ASSUME NEW d \in Csids
      PROVE  EntryAt(entries'[EntryOf(d)], t.last[d], t.done[d])
  <2>1. EntryOf(d) \in DOMAIN entries /\ EntryOf(c) \in DOMAIN entries
    BY EntryInDomain DEF ReaderInv
  <2>2. entries' = [entries EXCEPT ![EntryOf(c)] = g]
    BY DEF Reads
  <2>3. CASE d = c
    <3>1. entries'[EntryOf(d)] = g
      BY <2>1, <2>2, <2>3
    <3>2. EntryAt(g, t.last[c], t.done[c])
      BY DEF Reads
    <3>3. QED
      BY <2>3, <3>1, <3>2
  <2>4. CASE d # c
    <3>1. EntryOf(d) # EntryOf(c)
      BY <2>4 DEF OneEntryEach
    <3>2. entries'[EntryOf(d)] = entries[EntryOf(d)]
      BY <2>1, <2>2, <3>1
    <3>3. t.last[d] = s.last[d] /\ t.done[d] = s.done[d]
      BY <1>2, <1>3, <2>4
    <3>4. EntryAt(entries[EntryOf(d)], s.last[d], s.done[d])
      BY DEF ReaderAt
    <3>5. QED
      BY <3>2, <3>3, <3>4
  <2>5. QED
    BY <2>3, <2>4
<1>7. (\A d \in Csids : EntryAt(entries[EntryOf(d)], t.last[d], t.done[d]))'
  BY <1>6 DEF EntryAt, Matches, Timed
<1>8. QED
  BY <1>4, <1>5, <1>7 DEF ReaderAt

\* The places of a sequence with one more element.
LEMMA LastIndex == \A n \in Nat : \A i \in 1..(n + 1) : i \in 1..n \/ i = n + 1
OBVIOUS

\* A message that is full is the one finished next.
LEMMA ReaderKeeps ==
    ASSUME ReaderInv, NEW s \in Snapshots, NEW t \in Snapshots, ReaderAt(s), Sound(t),
           NEW c \in Csids, ChunkOf(c, s, stream[1], stream[2], t), NEW g, Reads(s, t, c, g),
           stream' \in Seq(Headers \cup Bodies), readErr = "",
           UNCHANGED <<readErr, finished, raced, bigDelta>>
    PROVE  ReaderInv'
<1> DEFINE m == t.last[c].m
<1> DEFINE d == [g EXCEPT !.index = c]
<1> DEFINE all == s.done[c] + stream[2].size = m.len
<1>1. g.remain = 0 <=> all
  BY DEF Reads
<1>2. m \in Msgs /\ g \in Entries /\ g.index + g.remain = g.len
  BY DEF Reads
<1>3. (rsize \in Nat \ {0})' /\ (window \in Windows \cup {InitWindow})'
  <2>1. m.type = SetChunkSize => m.val \in Sizes
    BY <1>2, MsgFields
  <2>2. m.type = WindowAckSize => m.val \in Windows
    BY <1>2, MsgFields
  <2>3. QED
    BY <2>1, <2>2, Constants DEF ReaderInv, Reads
<1>4. /\ DOMAIN entries' = DOMAIN entries
      /\ \A k \in DOMAIN entries : entries'[k] # Absent =>
            entries'[k] \in Entries /\ entries'[k].index + entries'[k].remain = entries'[k].len
  <2>1. entries' = [entries EXCEPT ![EntryOf(c)] = g]
    BY DEF Reads
  <2>2. \A k \in DOMAIN entries : entries'[k] = IF k = EntryOf(c) THEN g ELSE entries[k]
    BY <2>1
  <2>3. QED
    BY <1>2, <2>1, <2>2 DEF ReaderInv
<1>5. delivered' \in Seq(Entries) /\ Len(delivered') <= Len(finished')
      /\ \A i \in 1..Len(delivered') : IsMessage(delivered'[i], finished'[i])
  <2>1. CASE g.remain # 0
    <3>1. delivered' = delivered
      BY <2>1 DEF Reads
    <3>2. QED
      BY <3>1 DEF ReaderInv
  <2>2. CASE g.remain = 0
    <3>1. delivered' = Append(delivered, d) /\ IsMessage(d, m)
      BY <2>2 DEF Reads
    <3>2. d \in Entries
      BY <1>2, Returned
    <3> HIDE DEF d
    <3>3. delivered \in Seq(Entries) /\ Len(delivered) \in Nat
      BY LenProperties DEF ReaderInv
    <3>4. /\ delivered' \in Seq(Entries) /\ Len(delivered') = Len(delivered) + 1
          /\ delivered'[Len(delivered) + 1] = d
          /\ \A i \in 1..Len(delivered) : delivered'[i] = delivered[i]
      BY <3>1, <3>2, <3>3, AppendProperties
    <3>5. t.fin = Len(delivered) + 1 /\ finished[t.fin] = m /\ t.fin <= Len(finished)
      BY <1>1, <2>2 DEF ChunkOf, ReaderAt, Sound
    <3>a. PICK n \in Nat : n = Len(delivered)
      BY <3>3
    <3>b. Len(delivered') = n + 1
      BY <3>4, <3>a
    <3>c. \A i \in 1..(n + 1) : i \in 1..n \/ i = n + 1
      BY LastIndex
    <3>6. \A i \in 1..Len(delivered') : i \in 1..Len(delivered) \/ i = Len(delivered) + 1
      BY <3>a, <3>b, <3>c
    <3>7. \A i \in 1..Len(delivered') : IsMessage(delivered'[i], finished[i])
      BY <3>1, <3>4, <3>5, <3>6 DEF ReaderInv
    <3>8. QED
      BY <3>4, <3>5, <3>7
  <2>3. QED
    BY <2>1, <2>2
<1>6. /\ (readErr \in {"", "invalid remain", "out of step", "panic"})'
      /\ (readErr \in {"invalid remain", "out of step"} => raced \/ bigDelta)'
      /\ (readErr = "panic" => Len(stream) >= 1 /\ stream[1].len > PoolSize)'
      /\ DOMAIN entries' = 0..63 \cap (Csids \cup {0, 1})
  BY <1>4 DEF ReaderInv
<1>7. (\A i \in 1..Len(delivered) : IsMessage(delivered[i], finished[i]))'
  BY <1>5 DEF IsMessage
<1>8. QED
  BY <1>3, <1>4, <1>5, <1>6, <1>7 DEF ReaderInv

\* The parts of StreamInv depend on these variables alone.
LEMMA StutterKeepsStream ==
    ASSUME UNCHANGED <<ours, wsize, inWork, lastHdr, half, ackBody, raced, bigDelta, finished>>,
           UNCHANGED <<entries, rsize, delivered, stream>>, StreamInv
    PROVE  StreamInv'
<1>a. PICK k \in Nat : \E S \in [0..k -> Snapshots] :
         /\ Chain(S, k) /\ ReaderAt(S[0])
         /\ (WriterAt(S[k]) /\ EndsAt(k)) \/ BrokenAt(k)
  BY DEF StreamInv
<1>1. PICK S \in [0..k -> Snapshots] :
         /\ Chain(S, k) /\ ReaderAt(S[0])
         /\ (WriterAt(S[k]) /\ EndsAt(k)) \/ BrokenAt(k)
  BY <1>a
<1>2. Chain(S, k)'
  <2>1. \A s : Sound(s) => Sound(s)'
    BY DEF Sound
  <2>2. \A c, s, h, b, t : ChunkOf(c, s, h, b, t) => ChunkOf(c, s, h, b, t)'
    BY DEF ChunkOf
  <2>3. QED
    BY <1>1, <2>1, <2>2 DEF Chain
<1>3. ReaderAt(S[0])'
  BY <1>1 DEF ReaderAt
<1>4. (WriterAt(S[k]) /\ EndsAt(k))' \/ BrokenAt(k)'
  BY <1>1 DEF WriterAt, EndsAt, BrokenAt
<1>5. QED
  BY <1>1, <1>2, <1>3, <1>4 DEF StreamInv

\* Reading keeps the reader in step with the snapshots, what it returned, the pool
\* and the acknowledgements.
LEMMA ReadStep ==
    ASSUME OneEntryEach, ReaderInv, PoolInv, AckInv, StreamInv, ReadChunk
    PROVE  StreamInv' /\ ReaderInv' /\ PoolInv' /\ AckInv'
<1>0. UNCHANGED <<ours, wsize, inWork, lastHdr, half, ackBody, count, raced, bigDelta, finished>>
  BY DEF ReadChunk, writerVars
<1>a. PICK k \in Nat : \E S \in [0..k -> Snapshots] :
         /\ Chain(S, k) /\ ReaderAt(S[0])
         /\ (WriterAt(S[k]) /\ EndsAt(k)) \/ BrokenAt(k)
  BY DEF StreamInv
<1>1. PICK S \in [0..k -> Snapshots] :
         /\ Chain(S, k) /\ ReaderAt(S[0])
         /\ (WriterAt(S[k]) /\ EndsAt(k)) \/ BrokenAt(k)
  BY <1>a
<1>2. pool \in Pools
  BY DEF PoolInv
<1>3. CASE Stops
  <2>1. UNCHANGED <<entries, rsize, window, ackReceived, acked, pool, delivered, stream>>
    BY <1>3 DEF Stops
  <2>2. StreamInv'
    BY <1>0, <1>1, <2>1, StutterKeepsStream DEF StreamInv
  <2>3. ReaderInv'
    <3>1. /\ (readErr \in {"", "invalid remain", "out of step", "panic"})'
          /\ (readErr \in {"invalid remain", "out of step"} => raced \/ bigDelta)'
          /\ (readErr = "panic" => Len(stream) >= 1 /\ stream[1].len > PoolSize)'
      <4>1. Len(stream) >= 2 /\ Len(stream) \in Nat
        BY LenProperties DEF ReadChunk, ReaderInv
      <4>2. Len(stream) >= 1
        BY <4>1
      <4>3. QED
        BY <1>0, <1>3, <2>1, <4>2 DEF Stops
    <3>2. /\ Len(delivered') <= Len(finished')
          /\ \A i \in 1..Len(delivered') : IsMessage(delivered'[i], finished'[i])
      BY <1>0, <2>1 DEF ReaderInv
    <3>3. /\ stream' \in Seq(Headers \cup Bodies) /\ rsize' \in Nat \ {0}
          /\ window' \in Windows \cup {InitWindow} /\ delivered' \in Seq(Entries)
          /\ DOMAIN entries' = 0..63 \cap (Csids \cup {0, 1})
          /\ \A n \in DOMAIN entries' : entries'[n] # Absent =>
                entries'[n] \in Entries /\ entries'[n].index + entries'[n].remain = entries'[n].len
      BY <2>1 DEF ReaderInv
    <3>4. QED
      BY <3>1, <3>2, <3>3 DEF ReaderInv, IsMessage
  <2>4. PoolInv'
    BY <2>1 DEF PoolInv, Unread, PlacedIn, Apart
  <2>5. AckInv'
    BY <2>1 DEF AckInv, Sums
  <2>6. QED
    BY <2>2, <2>3, <2>4, <2>5
<1>4. CASE ~Stops
  <2>1. k >= 1 /\ readErr' = readErr /\ stream' = SubSeq(stream, 3, Len(stream))
    BY <1>1, <1>2, <1>4, ReadResult
  <2>2. PICK c \in Csids, g \in Entries :
           ChunkOf(c, S[0], stream[1], stream[2], S[1]) /\ Reads(S[0], S[1], c, g)
    BY <1>1, <1>2, <1>4, ReadResult
  <2>3. S[0] \in Snapshots /\ S[1] \in Snapshots /\ Sound(S[1])
    BY <1>1, <2>1 DEF Chain
  <2> DEFINE T == [i \in 0..(k - 1) |-> S[i + 1]]
  <2>4. /\ T \in [0..(k - 1) -> Snapshots] /\ Chain(T, k - 1)' /\ T[0] = S[1] /\ T[k - 1] = S[k]
        /\ Len(stream') = Len(stream) - 2
        /\ \A j \in 1..(Len(stream) - 2) : stream'[j] = stream[j + 2]
    <3>1. finished' = finished /\ bigDelta' = bigDelta
      BY <1>0
    <3>2. QED
      BY <1>1, <2>1, <3>1, ChainShrinks
  <2> HIDE DEF T
  <2>5. ReaderAt(S[1])'
    BY <1>1, <2>2, <2>3, ReaderFollows
  <2>6. Len(stream) \in Nat /\ 2 * k <= Len(stream)
    BY <1>1, LenProperties DEF ReaderInv, Chain
  <2>7. (WriterAt(T[k - 1]) /\ EndsAt(k - 1))' \/ BrokenAt(k - 1)'
    <3>1. CASE WriterAt(S[k]) /\ EndsAt(k)
      <4>1. WriterAt(T[k - 1])'
        BY <1>0, <2>4, <3>1 DEF WriterAt
      <4>2. Len(stream) = 2 * k + 1 =>
               2 * (k - 1) + 1 \in 1..(Len(stream) - 2) /\ 2 * (k - 1) + 1 + 2 = 2 * k + 1
        BY <2>1, <2>6
      <4>3. Len(stream) = 2 * k + 1 => stream'[2 * (k - 1) + 1] = stream[2 * k + 1]
        BY <2>4, <4>2
      <4>4. /\ Len(stream) = 2 * k => Len(stream') = 2 * (k - 1)
            /\ Len(stream) = 2 * k + 1 => Len(stream') = 2 * (k - 1) + 1
        BY <2>4, <2>6
      <4>5. EndsAt(k - 1)'
        BY <1>0, <3>1, <4>3, <4>4 DEF EndsAt
      <4>6. QED
        BY <4>1, <4>5
    <3>2. CASE BrokenAt(k)
      <4>1. /\ 2 * (k - 1) + 1 \in 1..(Len(stream) - 2) /\ 2 * (k - 1) + 1 + 2 = 2 * k + 1
            /\ 2 * (k - 1) + 2 \in 1..(Len(stream) - 2) /\ 2 * (k - 1) + 2 + 2 = 2 * k + 2
            /\ 2 * (k - 1) + 2 <= Len(stream')
        BY <2>1, <2>4, <2>6, <3>2 DEF BrokenAt
      <4>2. /\ stream'[2 * (k - 1) + 1] = stream[2 * k + 1]
            /\ stream'[2 * (k - 1) + 2] = stream[2 * k + 2]
        BY <2>4, <4>1
      <4>3. BrokenAt(k - 1)'
        BY <1>0, <3>2, <4>1, <4>2 DEF BrokenAt
      <4>4. QED
        BY <4>3
    <3>3. QED
      BY <1>1, <3>1, <3>2
  <2>8. StreamInv'
    <3>1. k - 1 \in Nat /\ ReaderAt(T[0])'
      BY <2>1, <2>4, <2>5
    <3>2. QED
      BY <2>4, <2>7, <3>1 DEF StreamInv
  <2>9. ReaderInv'
    <3>1. stream' \in Seq(Headers \cup Bodies)
      <4>1. stream \in Seq(Headers \cup Bodies) /\ Len(stream) >= 2
        BY DEF ReaderInv, ReadChunk
      <4>2. QED
        BY <2>1, <4>1, DropTwo
    <3>2. readErr = ""
      BY DEF ReadChunk
    <3>3. QED
      BY <1>0, <1>1, <2>1, <2>2, <2>3, <3>1, <3>2, ReaderKeeps
  <2>10. PoolInv'
    BY <2>2, ReadKeepsPool
  <2>11. AckInv'
    <3>1. (window \in Windows \cup {InitWindow})'
      BY <2>9 DEF ReaderInv
    <3>2. QED
      BY <2>2, <3>1, ReadKeepsAcks
  <2>12. QED
    BY <2>8, <2>9, <2>10, <2>11
<1>5. QED
  BY <1>3, <1>4

-----------------------------------------------------------------------------
(* Writing a chunk.                                                        *)

\* A writer's step leaves the reader alone and only adds to what is on its way.
Extends ==
    /\ UNCHANGED readerVars
    /\ (raced => raced') /\ (bigDelta => bigDelta')
    /\ Len(finished) <= Len(finished')
    /\ \A i \in 1..Len(finished) : finished'[i] = finished[i]
    /\ Len(stream) <= Len(stream')
    /\ \A j \in 1..Len(stream) : stream'[j] = stream[j]

\* The chunks that are on their way remain what they were.
LEMMA ChainStays ==
    ASSUME ReaderInv, WriterInv, Extends, Len(stream') \in Nat, Len(finished') \in Nat,
           NEW k \in Nat, NEW S \in [0..k -> Snapshots], Chain(S, k)
    PROVE  Chain(S, k)'
<1>0. Len(stream) \in Nat /\ 2 * k <= Len(stream) /\ Len(finished) \in Nat
  BY LenProperties DEF ReaderInv, WriterInv, Chain
<1>1. ASSUME NEW i \in 0..k
      PROVE  Sound(S[i])'
  <2>1. Sound(S[i]) /\ S[i] \in Snapshots
    BY DEF Chain
  <2>2. S[i].fin \in Nat
    BY <2>1 DEF Snapshots
  <2>3. S[i].fin <= Len(finished')
    BY <1>0, <2>1, <2>2 DEF Sound, Extends
  <2>4. QED
    BY <2>1, <2>3 DEF Sound, Extends
<1>2. ASSUME NEW i \in 1..k
      PROVE  \E c \in Csids : ChunkOf(c, S[i - 1], stream[2 * i - 1], stream[2 * i], S[i])'
  <2> DEFINE s == S[i - 1]
  <2> DEFINE t == S[i]
  <2>1. PICK c \in Csids : ChunkOf(c, s, stream[2 * i - 1], stream[2 * i], t)
    BY DEF Chain
  <2>2. stream'[2 * i - 1] = stream[2 * i - 1] /\ stream'[2 * i] = stream[2 * i]
    <3>1. 2 * i - 1 \in 1..Len(stream) /\ 2 * i \in 1..Len(stream)
      BY <1>0
    <3>2. QED
      BY <3>1 DEF Extends
  <2>3. ChunkOf(c, s, stream'[2 * i - 1], stream'[2 * i], t)
    BY <2>1, <2>2
  <2>4. i - 1 \in 0..k /\ i \in 0..k
    OBVIOUS
  <2>5. s \in Snapshots /\ t \in Snapshots /\ Sound(t)
    BY <2>4 DEF Chain
  <2> HIDE DEF s, t
  <2>6. s.fin \in Nat /\ t.fin \in Nat /\ t.fin <= Len(finished)
    BY <2>5 DEF Snapshots, Sound
  <2>7. t.fin = s.fin + 1 => finished'[t.fin] = finished[t.fin]
    <3>1. t.fin = s.fin + 1 => t.fin \in 1..Len(finished)
      BY <1>0, <2>6
    <3>2. QED
      BY <3>1 DEF Extends
  <2>8. ChunkOf(c, s, stream[2 * i - 1], stream[2 * i], t)'
    BY <2>3, <2>7 DEF ChunkOf
  <2>9. QED
    BY <2>8 DEF s, t
<1>3. (2 * k <= Len(stream))'
  BY <1>0 DEF Extends
<1>4. QED
  BY <1>1, <1>2, <1>3 DEF Chain

\* The reader is where it was.
LEMMA ReaderStays ==
    ASSUME UNCHANGED readerVars, NEW s, ReaderAt(s)
    PROVE  ReaderAt(s)'
BY DEF ReaderAt, readerVars

\* Two headers in a row stay where they are.
LEMMA BrokenStays ==
    ASSUME ReaderInv, WriterInv, Extends, Len(stream') \in Nat, Len(finished') \in Nat,
           NEW k \in Nat, NEW S \in [0..k -> Snapshots],
           Chain(S, k), ReaderAt(S[0]), BrokenAt(k)
    PROVE  StreamInv'
<1>1. Chain(S, k)'
  BY ChainStays
<1>2. ReaderAt(S[0])'
  BY ReaderStays DEF Extends
<1>3. Len(stream) \in Nat
  BY LenProperties DEF ReaderInv
<1>4. 2 * k + 1 \in 1..Len(stream) /\ 2 * k + 2 \in 1..Len(stream)
  BY <1>3 DEF BrokenAt
<1>5. BrokenAt(k)'
  BY <1>3, <1>4 DEF BrokenAt, Extends
<1>6. QED
  BY <1>1, <1>2, <1>5 DEF StreamInv

\* The snapshot after a chunk of chunk stream c with the first chunk l.
After(s, c, l) ==
    LET b == BodyOf(l.m, s.done[c], s.size)
        all == s.done[c] + b.size = l.m.len
    IN  [last |-> [s.last EXCEPT ![c] = l],
         done |-> [s.done EXCEPT ![c] = IF all THEN 0 ELSE s.done[c] + b.size],
         size |-> IF all /\ l.m.type = SetChunkSize THEN l.m.val ELSE s.size,
         fin |-> IF all THEN s.fin + 1 ELSE s.fin]

\* The writer, at s, writes the chunk (h, b) of chunk stream c; the message is
\* finished when it was the last.
Writes(s, c, l, fmt, h, b) ==
    /\ s \in Snapshots /\ Sound(s) /\ s.fin = Len(finished) /\ finished \in Seq(Msgs)
    /\ l \in Lasts /\ Timed(l)
    /\ IF s.done[c] = 0 THEN Begins(s.last[c], l, fmt) ELSE fmt = 3 /\ l = s.last[c]
    /\ h = Header(c, fmt, l.m, l.time) /\ b = BodyOf(l.m, s.done[c], s.size)
    /\ finished' = IF s.done[c] + b.size = l.m.len THEN Append(finished, l.m) ELSE finished
    /\ bigDelta => bigDelta'
    /\ s.done[c] + b.size # l.m.len /\ ~bigDelta' => (l.delta = Absent \/ l.delta < ExtTs)

\* Then the snapshots go on.
LEMMA AfterChunk ==
    ASSUME NEW s, NEW c \in Csids, NEW l, NEW fmt \in 0..3, NEW h, NEW b, Writes(s, c, l, fmt, h, b),
           NEW t, t = After(s, c, l)
    PROVE  /\ t \in Snapshots /\ Sound(t)' /\ ChunkOf(c, s, h, b, t)'
           /\ t.fin = Len(finished')
           /\ t.last = [s.last EXCEPT ![c] = l]
           /\ t.done = [s.done EXCEPT ![c] =
                           IF s.done[c] + b.size = l.m.len THEN 0 ELSE s.done[c] + b.size]
           /\ t.size = IF s.done[c] + b.size = l.m.len /\ l.m.type = SetChunkSize
                       THEN l.m.val ELSE s.size
<1> DEFINE m == l.m
<1> DEFINE from == s.done[c]
<1> DEFINE all == from + b.size = m.len
<1>0. /\ s \in Snapshots /\ Sound(s) /\ s.fin = Len(finished) /\ finished \in Seq(Msgs)
      /\ l \in Lasts /\ Timed(l)
      /\ IF from = 0 THEN Begins(s.last[c], l, fmt) ELSE fmt = 3 /\ l = s.last[c]
      /\ h = Header(c, fmt, m, l.time) /\ b = BodyOf(m, from, s.size)
      /\ finished' = (IF all THEN Append(finished, m) ELSE finished)
      /\ bigDelta => bigDelta'
      /\ ~all /\ ~bigDelta' => (l.delta = Absent \/ l.delta < ExtTs)
  BY DEF Writes
<1>1. m \in Msgs /\ m.len \in Nat /\ (m.type = SetChunkSize => m.val \in Sizes) /\ l # Absent
  BY <1>0, MsgFields, Constants DEF Lasts
<1>2. /\ s.last \in [Csids -> Lasts \cup {Absent}] /\ s.done \in [Csids -> Nat]
      /\ s.size \in Sizes \cup {InitSize} /\ s.fin \in Nat /\ s.size \in Nat \ {0}
  BY <1>0, Constants DEF Snapshots
<1>3. from \in Nat /\ from \in 0..m.len /\ (from # 0 => from < m.len)
  <2>1. from \in Nat
    BY <1>2
  <2>2. from # 0 => from < m.len
    BY <1>0, <2>1 DEF Sound
  <2>3. QED
    BY <1>1, <2>1, <2>2
<1>4. b.size \in Nat /\ b.size <= m.len - from
  <2> HIDE DEF m, from
  <2>1. b = BodyOf(m, from, s.size)
    BY <1>0 DEF m, from
  <2>2. b.size \in 0..(m.len - from) /\ b.size \in Nat
    BY <1>1, <1>2, <1>3, <2>1, BodyFields
  <2>3. QED
    BY <1>1, <1>3, <2>2
<1>5. t = [last |-> [s.last EXCEPT ![c] = l],
           done |-> [s.done EXCEPT ![c] = IF all THEN 0 ELSE from + b.size],
           size |-> IF all /\ m.type = SetChunkSize THEN m.val ELSE s.size,
           fin |-> IF all THEN s.fin + 1 ELSE s.fin]
  BY <1>0 DEF After
<1>6. /\ t.last = [s.last EXCEPT ![c] = l]
      /\ t.done = [s.done EXCEPT ![c] = IF all THEN 0 ELSE from + b.size]
      /\ t.size = IF all /\ m.type = SetChunkSize THEN m.val ELSE s.size
      /\ t.fin = IF all THEN s.fin + 1 ELSE s.fin
  BY <1>5
<1> HIDE DEF m, from
<1>7. t \in Snapshots
  <2>1. t.last \in [Csids -> Lasts \cup {Absent}] /\ t.done \in [Csids -> Nat]
    BY <1>0, <1>2, <1>3, <1>4, <1>6
  <2>2. t.size \in Sizes \cup {InitSize} /\ t.fin \in Nat
    BY <1>1, <1>2, <1>6
  <2>3. t = [last |-> t.last, done |-> t.done, size |-> t.size, fin |-> t.fin]
    BY <1>5, <1>6
  <2>4. QED
    BY <2>1, <2>2, <2>3 DEF Snapshots
<1>8. /\ t.fin = Len(finished') /\ (all => finished'[t.fin] = m)
  <2>1. CASE all
    <3>1. finished' = Append(finished, m)
      BY <1>0, <2>1 DEF m, from
    <3>2. Len(finished') = Len(finished) + 1 /\ finished'[Len(finished) + 1] = m
      BY <1>0, <1>1, <3>1, AppendProperties
    <3>3. QED
      BY <1>0, <1>6, <2>1, <3>2
  <2>2. CASE ~all
    BY <1>0, <1>6, <2>2 DEF m, from
  <2>3. QED
    BY <2>1, <2>2
<1>9. ASSUME NEW d \in Csids
      PROVE  /\ t.last[d] # Absent => Timed(t.last[d])
             /\ t.done[d] > 0 =>
                   /\ t.last[d] # Absent /\ t.done[d] < t.last[d].m.len
                   /\ ~bigDelta' => t.last[d].delta = Absent \/ t.last[d].delta < ExtTs
  <2>1. CASE d # c
    <3>1. t.last[d] = s.last[d] /\ t.done[d] = s.done[d]
      BY <1>2, <1>6, <2>1
    <3>2. QED
      BY <1>0, <3>1 DEF Sound
  <2>2. CASE d = c
    <3>1. t.last[d] = l /\ t.done[d] = IF all THEN 0 ELSE from + b.size
      BY <1>2, <1>6, <2>2
    <3>2. ~all => from + b.size < m.len
      <4>1. \A x, y, z \in Nat : y <= z - x /\ x + y # z => x + y < z
        OBVIOUS
      <4>2. from \in Nat /\ b.size \in Nat /\ m.len \in Nat /\ b.size <= m.len - from
        BY <1>1, <1>3, <1>4
      <4>3. QED
        BY <4>1, <4>2
    <3>3. QED
      BY <1>0, <1>1, <3>1, <3>2 DEF m, from
  <2>3. QED
    BY <2>1, <2>2
<1>10. Sound(t)'
  <2>1. t.fin <= Len(finished')
    BY <1>2, <1>6, <1>8
  <2>2. QED
    BY <1>9, <2>1 DEF Sound, Timed
<1>11. ChunkOf(c, s, h, b, t)'
  <2>1. t.last[c] = l
    BY <1>2, <1>6
  <2>2. /\ b = BodyOf(l.m, s.done[c], s.size)
        /\ t.last = [s.last EXCEPT ![c] = l]
        /\ t.done = [s.done EXCEPT ![c] =
                        IF s.done[c] + b.size = l.m.len THEN 0 ELSE s.done[c] + b.size]
        /\ t.size = IF s.done[c] + b.size = l.m.len /\ l.m.type = SetChunkSize
                    THEN l.m.val ELSE s.size
        /\ t.fin = IF s.done[c] + b.size = l.m.len THEN s.fin + 1 ELSE s.fin
        /\ s.done[c] + b.size = l.m.len => finished'[t.fin] = l.m
    BY <1>0, <1>6, <1>8 DEF m, from
  <2>3. QED
    BY <1>0, <2>1, <2>2 DEF ChunkOf, m, from
<1>12. QED
  BY <1>6, <1>7, <1>8, <1>10, <1>11 DEF m, from

\* A chunk more makes the chain longer.
LEMMA ChainGrows ==
    ASSUME ReaderInv, WriterInv, Extends, Len(stream') \in Nat, Len(finished') \in Nat,
           NEW k \in Nat, NEW S \in [0..k -> Snapshots], Chain(S, k), ReaderAt(S[0]),
           NEW t \in Snapshots, Sound(t)', NEW c \in Csids, NEW h, NEW b,
           ChunkOf(c, S[k], h, b, t)', 2 * k + 2 <= Len(stream'),
           stream'[2 * k + 1] = h, stream'[2 * k + 2] = b,
           WriterAt(t)', EndsAt(k + 1)'
    PROVE  StreamInv'
<1> DEFINE T == [i \in 0..(k + 1) |-> IF i <= k THEN S[i] ELSE t]
<1>1. T \in [0..(k + 1) -> Snapshots] /\ (\A i \in 0..k : T[i] = S[i]) /\ T[k + 1] = t
  OBVIOUS
<1> HIDE DEF T
<1>2. Chain(S, k)'
  BY ChainStays
<1>3. \A i \in 0..(k + 1) : Sound(T[i])'
  <2>1. \A i \in 0..k : Sound(S[i])'
    BY <1>2 DEF Chain
  <2>2. \A i \in 0..(k + 1) : i \in 0..k \/ i = k + 1
    OBVIOUS
  <2>3. QED
    BY <1>1, <2>1, <2>2
<1>4. ASSUME NEW i \in 1..(k + 1)
      PROVE  \E d \in Csids : ChunkOf(d, T[i - 1], stream[2 * i - 1], stream[2 * i], T[i])'
  <2>1. CASE i \in 1..k
    <3>1. PICK d \in Csids : ChunkOf(d, S[i - 1], stream[2 * i - 1], stream[2 * i], S[i])'
      BY <1>2, <2>1 DEF Chain
    <3>2. T[i - 1] = S[i - 1] /\ T[i] = S[i]
      <4>1. i - 1 \in 0..k /\ i \in 0..k
        BY <2>1
      <4>2. QED
        BY <1>1, <4>1
    <3>3. QED
      BY <3>1, <3>2
  <2>2. CASE i = k + 1
    <3>1. 2 * i - 1 = 2 * k + 1 /\ 2 * i = 2 * k + 2 /\ i - 1 = k /\ k \in 0..k
      BY <2>2
    <3>2. T[i - 1] = S[k] /\ T[i] = t
      BY <1>1, <2>2, <3>1
    <3>3. stream'[2 * i - 1] = h /\ stream'[2 * i] = b
      BY <3>1
    <3>4. ChunkOf(c, T[i - 1], stream[2 * i - 1], stream[2 * i], T[i])'
      BY <3>2, <3>3
    <3>5. QED
      BY <3>4
  <2>3. QED
    BY <2>1, <2>2
<1>5. (2 * (k + 1) <= Len(stream))'
  OBVIOUS
<1>6. Chain(T, k + 1)'
  BY <1>3, <1>4, <1>5 DEF Chain
<1>7. ReaderAt(T[0])'
  <2>1. ReaderAt(S[0])'
    BY ReaderStays DEF Extends
  <2>2. T[0] = S[0]
    BY <1>1
  <2>3. QED
    BY <2>1, <2>2
<1>8. WriterAt(T[k + 1])' /\ k + 1 \in Nat
  BY <1>1
<1>9. QED
  BY <1>1, <1>6, <1>7, <1>8 DEF StreamInv

\* What is on its way after one more, and after two.
LEMMA OneMore ==
    ASSUME ReaderInv, NEW x \in Headers \cup Bodies, stream' = Append(stream, x)
    PROVE  /\ stream' \in Seq(Headers \cup Bodies)
           /\ Len(stream) \in Nat /\ Len(stream') = Len(stream) + 1 /\ Len(stream') \in Nat
           /\ stream'[Len(stream) + 1] = x
           /\ \A j \in 1..Len(stream) : stream'[j] = stream[j]
<1>1. stream \in Seq(Headers \cup Bodies)
  BY DEF ReaderInv
<1>2. Len(stream) \in Nat
  BY <1>1, LenProperties
<1>3. QED
  BY <1>1, <1>2, AppendProperties

\* A header and a body more on their way.
LEMMA TwoMore ==
    ASSUME ReaderInv, NEW x \in Headers \cup Bodies, NEW y \in Headers \cup Bodies,
           stream' = stream \o <<x, y>>
    PROVE  /\ stream' \in Seq(Headers \cup Bodies)
           /\ Len(stream) \in Nat /\ Len(stream') = Len(stream) + 2 /\ Len(stream') \in Nat
           /\ stream'[Len(stream) + 1] = x /\ stream'[Len(stream) + 2] = y
           /\ \A j \in 1..Len(stream) : stream'[j] = stream[j]
<1> DEFINE X == Headers \cup Bodies
<1> DEFINE two == <<x, y>>
<1>1. stream \in Seq(X)
  BY DEF ReaderInv
<1> HIDE DEF X
<1>2. Len(stream) \in Nat
  BY <1>1, LenProperties
<1>3. two \in Seq(X) /\ Len(two) = 2 /\ two[1] = x /\ two[2] = y
  BY DEF X
<1> HIDE DEF two
<1>4. /\ stream \o two \in Seq(X) /\ Len(stream \o two) = Len(stream) + Len(two)
      /\ \A i \in 1..(Len(stream) + Len(two)) : (stream \o two)[i] =
            IF i <= Len(stream) THEN stream[i] ELSE two[i - Len(stream)]
  BY <1>1, <1>3, ConcatProperties
<1>5. stream' = stream \o two
  BY DEF two
<1>6. Len(stream') = Len(stream) + 2 /\ Len(stream') \in Nat /\ stream' \in Seq(X)
  BY <1>2, <1>3, <1>4, <1>5
<1>7. \A j \in 1..Len(stream) : stream'[j] = stream[j]
  BY <1>2, <1>3, <1>4, <1>5
<1>8. stream'[Len(stream) + 1] = x /\ stream'[Len(stream) + 2] = y
  <2>1. /\ Len(stream) + 1 \in 1..(Len(stream) + Len(two)) /\ ~(Len(stream) + 1 <= Len(stream))
        /\ Len(stream) + 2 \in 1..(Len(stream) + Len(two)) /\ ~(Len(stream) + 2 <= Len(stream))
        /\ Len(stream) + 1 - Len(stream) = 1 /\ Len(stream) + 2 - Len(stream) = 2
    BY <1>2, <1>3
  <2>2. QED
    BY <1>3, <1>4, <1>5, <2>1
<1>9. QED
  BY <1>2, <1>6, <1>7, <1>8 DEF X

\* And what is finished after one more.
LEMMA FinishedMore ==
    ASSUME finished \in Seq(Msgs), NEW m \in Msgs,
           finished' = finished \/ finished' = Append(finished, m)
    PROVE  /\ finished' \in Seq(Msgs) /\ Len(finished') \in Nat /\ Len(finished) <= Len(finished')
           /\ \A i \in 1..Len(finished) : finished'[i] = finished[i]
<1>1. Len(finished) \in Nat
  BY LenProperties
<1>2. CASE finished' = finished
  BY <1>1, <1>2
<1>3. CASE finished' = Append(finished, m)
  <2>1. /\ finished' \in Seq(Msgs) /\ Len(finished') = Len(finished) + 1
        /\ \A i \in 1..Len(finished) : finished'[i] = finished[i]
    BY <1>3, AppendProperties
  <2>2. QED
    BY <1>1, <2>1
<1>4. QED
  BY <1>2, <1>3

\* What a writer is given is a message.
LEMMA MessageIsMsg ==
    ASSUME NEW id \in Nat, NEW m \in Messages(id)
    PROVE  m \in Msgs
<1>1. /\ Lengths \subseteq Nat /\ Times \subseteq Timestamps /\ 0 \in Timestamps
      /\ Sizes \subseteq Nat /\ Windows \subseteq Nat /\ 1 \in Nat
  BY ChunkAssumption DEF Timestamps
<1>2. m \in [id : Nat, type : {SetChunkSize, AckType, WindowAckSize, Audio, Video},
             len : Nat, ts : Timestamps, val : Nat]
  <2>1. CASE m \in [id : {id}, type : {Audio, Video}, len : Lengths, ts : Times, val : {0}]
    <3>1. m.len \in Lengths /\ m.ts \in Times
      BY <2>1
    <3>2. m.len \in Nat /\ m.ts \in Timestamps
      BY <1>1, <3>1
    <3>3. QED
      BY <2>1, <3>2
  <2>2. CASE m \in [id : {id}, type : {SetChunkSize}, len : {1}, ts : {0}, val : Sizes]
    BY <1>1, <2>2
  <2>3. CASE m \in [id : {id}, type : {WindowAckSize}, len : {1}, ts : {0}, val : Windows]
    BY <1>1, <2>3
  <2>4. QED
    BY <2>1, <2>2, <2>3 DEF Messages
<1>3. /\ m.type \notin {Audio, Video} => m.len = 1
      /\ m.type = SetChunkSize => m.val \in Sizes
      /\ m.type = WindowAckSize => m.val \in Windows
  BY DEF Messages, SetChunkSize, WindowAckSize, Audio, Video
<1>4. QED
  BY <1>2, <1>3 DEF Msgs

-----------------------------------------------------------------------------
(* The writer's steps.                                                     *)

\* What an entry of inWork is.
LEMMA WorkFields ==
    ASSUME WriterInv, NEW c \in Csids, inWork[c] # Absent
    PROVE  /\ inWork[c] \in Works /\ inWork[c].m \in Msgs /\ inWork[c].done \in Nat
           /\ inWork[c].done < inWork[c].m.len
           /\ inWork[c] = [m |-> inWork[c].m, done |-> inWork[c].done]
           /\ ours => c = CsidOf(inWork[c].m) /\ \A d \in Csids : inWork[d] # Absent => c = d
           /\ ~ours => inWork[c].done > 0
<1>1. inWork[c] \in Works
  BY DEF WriterInv
<1>2. QED
  BY <1>1 DEF WriterInv, Works

\* Conn.Write's loop: what is left of the message in progress.
Remains(c, body) ==
    LET m == inWork[c].m
        done == inWork[c].done + body.size
    IN  IF done = m.len THEN Absent ELSE [m |-> m, done |-> done]

\* A part written brings the message forward.
LEMMA AdvanceKeeps ==
    ASSUME WriterInv, NEW c \in Csids, inWork[c] # Absent,
           NEW size \in Nat \ {0}, NEW b, b = BodyOf(inWork[c].m, inWork[c].done, size), Advance(c, b)
    PROVE  /\ b \in Bodies
           /\ inWork' \in [Csids -> Works \cup {Absent}] /\ finished' \in Seq(Msgs)
           /\ \A d \in Csids : d # c => inWork'[d] = inWork[d]
           /\ inWork'[c] = Remains(c, b)
           /\ inWork'[c] # Absent =>
                 /\ inWork'[c].m = inWork[c].m /\ inWork'[c].done = inWork[c].done + b.size
                 /\ inWork'[c].done < inWork'[c].m.len /\ inWork'[c].done > 0
           /\ Len(finished') \in Nat /\ Len(finished) <= Len(finished')
           /\ \A i \in 1..Len(finished) : finished'[i] = finished[i]
<1> DEFINE m == inWork[c].m
<1> DEFINE done == inWork[c].done
<1>1. m \in Msgs /\ done \in Nat /\ done < m.len /\ m.len \in Nat
  BY WorkFields, MsgFields
<1>2. done \in 0..m.len
  BY <1>1
<1>3. /\ inWork' = [inWork EXCEPT ![c] = Remains(c, b)]
      /\ finished' = IF done + b.size = m.len THEN Append(finished, m) ELSE finished
  BY DEF Advance, Remains
<1>4. Remains(c, b) = IF done + b.size = m.len THEN Absent ELSE [m |-> m, done |-> done + b.size]
  BY DEF Remains
<1> HIDE DEF m, done
<1>5. b = BodyOf(m, done, size)
  BY DEF m, done
<1>6. b \in Bodies /\ b.size \in 0..(m.len - done) /\ b.size \in Nat
  BY <1>1, <1>2, <1>5, BodyFields
<1>7. b.size > 0
  BY <1>1, <1>2, <1>5, BodyFields
<1>8. Remains(c, b) # Absent => /\ Remains(c, b) = [m |-> m, done |-> done + b.size]
                                /\ Remains(c, b) \in Works
                                /\ Remains(c, b).m = m /\ Remains(c, b).done = done + b.size
                                /\ done + b.size < m.len /\ done + b.size > 0
  <2>1. CASE done + b.size = m.len
    BY <1>4, <2>1
  <2>2. CASE done + b.size # m.len
    <3>1. Remains(c, b) = [m |-> m, done |-> done + b.size]
      BY <1>4, <2>2
    <3>2. done + b.size \in Nat /\ done + b.size < m.len /\ done + b.size > 0
      BY <1>1, <1>6, <1>7, <2>2
    <3>3. QED
      BY <1>1, <3>1, <3>2 DEF Works
  <2>3. QED
    BY <2>1, <2>2
<1>9. inWork \in [Csids -> Works \cup {Absent}] /\ finished \in Seq(Msgs)
  BY DEF WriterInv
<1>10. /\ inWork'[c] = Remains(c, b) /\ \A d \in Csids : d # c => inWork'[d] = inWork[d]
       /\ inWork' \in [Csids -> Works \cup {Absent}]
  BY <1>3, <1>8, <1>9
<1>11. /\ finished' \in Seq(Msgs) /\ Len(finished') \in Nat /\ Len(finished) <= Len(finished')
       /\ \A i \in 1..Len(finished) : finished'[i] = finished[i]
  <2>1. finished' = finished \/ finished' = Append(finished, m)
    BY <1>3
  <2>2. QED
    BY <1>1, <1>9, <2>1, FinishedMore
<1>12. QED
  BY <1>6, <1>8, <1>10, <1>11 DEF m, done

\* Conn.Write begins with nothing written.
LEMMA WriteMessageKeeps ==
    ASSUME WriterInv, ReaderInv, NEW m \in Messages(count.msg + 1), WriteMessage(m)
    PROVE  WriterInv' /\ Extends /\ stream' \in Seq(Headers \cup Bodies)
<1>1. m \in Msgs /\ m.len \in Nat /\ (m.type = SetChunkSize => m.val \in Sizes)
  <2>1. count.msg + 1 \in Nat
    BY ChunkAssumption DEF WriterInv
  <2>2. m \in Msgs
    BY <2>1, MessageIsMsg
  <2>3. QED
    BY <2>2, MsgFields
<1>2. CsidOf(m) \in Csids
  BY Constants DEF CsidOf
<1>3. /\ ours /\ \A c \in Csids : inWork[c] = Absent
      /\ count' = [count EXCEPT !.msg = @ + 1] /\ count.msg < MaxMsgs
      /\ wsize' = IF m.type = SetChunkSize THEN m.val ELSE wsize
      /\ inWork' = IF m.len = 0 THEN inWork
                   ELSE [inWork EXCEPT ![CsidOf(m)] = [m |-> m, done |-> 0]]
      /\ UNCHANGED <<ours, lastHdr, half, ackBody, raced, bigDelta, finished, readerVars, stream>>
  BY DEF WriteMessage
<1>4. [m |-> m, done |-> 0] \in Works
  BY <1>1 DEF Works
<1>5. inWork' \in [Csids -> Works \cup {Absent}]
  BY <1>2, <1>3, <1>4 DEF WriterInv
<1>6. ASSUME NEW c \in Csids, inWork'[c] # Absent
      PROVE  m.len # 0 /\ c = CsidOf(m) /\ inWork'[c] = [m |-> m, done |-> 0]
  BY <1>2, <1>3, <1>6 DEF WriterInv
<1>7. ASSUME NEW c \in Csids, inWork'[c] # Absent
      PROVE  /\ inWork'[c].done < inWork'[c].m.len
             /\ c = CsidOf(inWork'[c].m) /\ \A d \in Csids : inWork'[d] # Absent => c = d
  <2>1. m.len # 0 /\ c = CsidOf(m) /\ inWork'[c] = [m |-> m, done |-> 0]
    BY <1>6, <1>7
  <2>2. inWork'[c].m = m /\ inWork'[c].done = 0
    BY <2>1
  <2>3. QED
    BY <1>1, <1>6, <2>1, <2>2
<1>8. count' \in [msg : 0..MaxMsgs, ack : 0..MaxAcks]
  <2>1. count \in [msg : 0..MaxMsgs, ack : 0..MaxAcks] /\ MaxMsgs \in Nat /\ MaxAcks \in Nat
    BY ChunkAssumption DEF WriterInv
  <2>2. count.msg + 1 \in 0..MaxMsgs
    BY <1>3, <2>1
  <2>3. QED
    BY <1>3, <2>1, <2>2
<1>9. wsize' \in Sizes \cup {InitSize}
  BY <1>1, <1>3 DEF WriterInv
<1>10. (\A c \in Csids : inWork[c] # Absent =>
          /\ inWork[c].done < inWork[c].m.len
          /\ ours => c = CsidOf(inWork[c].m) /\ \A d \in Csids : inWork[d] # Absent => c = d
          /\ ~ours => inWork[c].done > 0)'
  BY <1>3, <1>7 DEF CsidOf
<1>11. WriterInv'
  BY <1>3, <1>5, <1>8, <1>9, <1>10 DEF WriterInv
<1>12. Extends
  <2>1. Len(finished) \in Nat /\ Len(stream) \in Nat
    BY LenProperties DEF WriterInv, ReaderInv
  <2>2. QED
    BY <1>3, <2>1 DEF Extends
<1>13. QED
  BY <1>3, <1>11, <1>12 DEF ReaderInv

\* The header before each chunk.
LEMMA WriteHeaderKeeps ==
    ASSUME WriterInv, ReaderInv, NEW c \in Csids, WriteHeader(c)
    PROVE  /\ WriterInv' /\ Extends /\ stream' \in Seq(Headers \cup Bodies)
           /\ LET h == Header(c, IF inWork[c].done = 0 THEN 0 ELSE 3, inWork[c].m, inWork[c].m.ts)
              IN  h.kind = "hdr" /\ stream'[Len(stream) + 1] = h /\ Len(stream') = Len(stream) + 1
<1> DEFINE m == inWork[c].m
<1> DEFINE fmt == IF inWork[c].done = 0 THEN 0 ELSE 3
<1> DEFINE h == Header(c, fmt, m, m.ts)
<1>1. /\ ours /\ inWork[c] # Absent /\ "msg" \notin half
      /\ stream' = Append(stream, h)
      /\ half' = half \cup {"msg"}
      /\ raced' = (raced \/ "ack" \in half)
      /\ UNCHANGED <<ours, wsize, inWork, lastHdr, ackBody, count, bigDelta, finished, readerVars>>
  BY DEF WriteHeader
<1>2. m \in Msgs /\ m.ts \in Timestamps /\ fmt \in 0..3
  <2>1. m \in Msgs
    BY <1>1, WorkFields
  <2>2. fmt \in 0..3
    OBVIOUS
  <2> HIDE DEF m, fmt
  <2>3. QED
    BY <2>1, <2>2, MsgFields
<1> HIDE DEF m, fmt
<1>3. h \in Headers /\ h.kind = "hdr"
  BY <1>2, HeaderFields
<1> HIDE DEF h
<1>4. /\ stream' \in Seq(Headers \cup Bodies)
      /\ Len(stream) \in Nat /\ Len(stream') = Len(stream) + 1 /\ Len(stream') \in Nat
      /\ stream'[Len(stream) + 1] = h
      /\ \A j \in 1..Len(stream) : stream'[j] = stream[j]
  BY <1>1, <1>3, OneMore
<1>5. Extends
  <2>1. Len(finished) \in Nat
    BY LenProperties DEF WriterInv
  <2>2. (raced => raced') /\ (bigDelta => bigDelta')
    BY <1>1, Zenon
  <2>3. Len(stream) <= Len(stream') /\ Len(finished) <= Len(finished')
    BY <1>1, <1>4, <2>1
  <2>4. \A i \in 1..Len(finished) : finished'[i] = finished[i]
    BY <1>1
  <2>5. QED
    BY <1>1, <1>4, <2>2, <2>3, <2>4, Zenon DEF Extends
<1>6. WriterInv'
  <2>1. half' \subseteq {"msg", "ack"} /\ (half' = {"msg", "ack"} => raced') /\ ("ack" \in half' <=> "ack" \in half)
        /\ raced' \in BOOLEAN
    BY <1>1 DEF WriterInv
  <2>2. QED
    BY <1>1, <2>1 DEF WriterInv, CsidOf
<1>7. QED
  BY <1>3, <1>4, <1>5, <1>6 DEF h, m, fmt

\* The part of the message that follows it.
LEMMA WriteBodyKeeps ==
    ASSUME WriterInv, ReaderInv, NEW c \in Csids, WriteBody(c)
    PROVE  /\ WriterInv' /\ Extends /\ stream' \in Seq(Headers \cup Bodies)
           /\ stream'[Len(stream) + 1] = BodyOf(inWork[c].m, inWork[c].done, wsize)
           /\ Len(stream') = Len(stream) + 1
<1> DEFINE b == BodyOf(inWork[c].m, inWork[c].done, wsize)
<1>1. /\ ours /\ inWork[c] # Absent /\ "msg" \in half
      /\ stream' = Append(stream, b) /\ Advance(c, b)
      /\ half' = half \ {"msg"}
      /\ raced' = (raced \/ "ack" \in half)
      /\ UNCHANGED <<ours, wsize, lastHdr, ackBody, count, bigDelta, readerVars>>
  BY DEF WriteBody
<1>2. wsize \in Nat \ {0}
  BY Constants DEF WriterInv
<1>3. /\ b \in Bodies
      /\ inWork' \in [Csids -> Works \cup {Absent}] /\ finished' \in Seq(Msgs)
      /\ \A d \in Csids : d # c => inWork'[d] = inWork[d]
      /\ inWork'[c] # Absent =>
            /\ inWork'[c].m = inWork[c].m /\ inWork'[c].done = inWork[c].done + b.size
            /\ inWork'[c].done < inWork'[c].m.len /\ inWork'[c].done > 0
      /\ Len(finished') \in Nat /\ Len(finished) <= Len(finished')
      /\ \A i \in 1..Len(finished) : finished'[i] = finished[i]
  BY <1>1, <1>2, AdvanceKeeps
<1> HIDE DEF b
<1>4. /\ stream' \in Seq(Headers \cup Bodies)
      /\ Len(stream) \in Nat /\ Len(stream') = Len(stream) + 1 /\ Len(stream') \in Nat
      /\ stream'[Len(stream) + 1] = b
      /\ \A j \in 1..Len(stream) : stream'[j] = stream[j]
  BY <1>1, <1>3, OneMore
<1>5. Extends
  <2>1. (raced => raced') /\ (bigDelta => bigDelta')
    BY <1>1, Zenon
  <2>2. Len(stream) <= Len(stream')
    BY <1>4
  <2>3. QED
    BY <1>1, <1>3, <1>4, <2>1, <2>2, Zenon DEF Extends
<1>6. ASSUME NEW d \in Csids, inWork'[d] # Absent
      PROVE  /\ inWork'[d].done < inWork'[d].m.len
             /\ d = CsidOf(inWork'[d].m) /\ \A n \in Csids : inWork'[n] # Absent => d = n
  <2>1. inWork[d] # Absent
    BY <1>1, <1>3, <1>6
  <2>2. d = c
    BY <1>1, <2>1, WorkFields
  <2>3. \A n \in Csids : inWork'[n] # Absent => inWork[n] # Absent
    BY <1>1, <1>3
  <2>4. \A n \in Csids : inWork[n] # Absent => d = n
    BY <1>1, <2>1, WorkFields
  <2>5. d = CsidOf(inWork[d].m)
    BY <1>1, <2>1, WorkFields
  <2>6. QED
    BY <1>3, <1>6, <2>2, <2>3, <2>4, <2>5
<1>7. (\A d \in Csids : inWork[d] # Absent =>
          /\ inWork[d].done < inWork[d].m.len
          /\ ours => d = CsidOf(inWork[d].m) /\ \A n \in Csids : inWork[n] # Absent => d = n
          /\ ~ours => inWork[d].done > 0)'
  BY <1>1, <1>6 DEF CsidOf
<1>8. WriterInv'
  <2>1. half' \subseteq {"msg", "ack"} /\ (half' = {"msg", "ack"} => raced') /\ ("ack" \in half' <=> "ack" \in half)
        /\ raced' \in BOOLEAN
    BY <1>1 DEF WriterInv
  <2>2. QED
    BY <1>1, <1>3, <1>7, <2>1 DEF WriterInv
<1>9. QED
  BY <1>4, <1>5, <1>8 DEF b

\* An acknowledgement's header.
LEMMA AckHeaderKeeps ==
    ASSUME WriterInv, ReaderInv, AckHeader
    PROVE  /\ WriterInv' /\ Extends /\ stream' \in Seq(Headers \cup Bodies)
           /\ LET h == Header(2, 0, ackBody', 0)
              IN  h.kind = "hdr" /\ stream'[Len(stream) + 1] = h /\ Len(stream') = Len(stream) + 1
<1> DEFINE m == [id |-> 100 + count.ack, type |-> AckType, len |-> 1, ts |-> 0, val |-> 0]
<1> DEFINE h == Header(2, 0, m, 0)
<1>1. /\ ours /\ "ack" \notin half /\ count.ack < MaxAcks
      /\ count' = [count EXCEPT !.ack = @ + 1]
      /\ stream' = Append(stream, h) /\ ackBody' = m
      /\ half' = half \cup {"ack"}
      /\ raced' = (raced \/ "msg" \in half)
      /\ UNCHANGED <<ours, wsize, inWork, lastHdr, bigDelta, finished, readerVars>>
  BY DEF AckHeader
<1>2. count \in [msg : 0..MaxMsgs, ack : 0..MaxAcks] /\ MaxMsgs \in Nat /\ MaxAcks \in Nat
  BY ChunkAssumption DEF WriterInv
<1>3. m \in Msgs /\ m.type = AckType /\ m.ts = 0 /\ 0 \in Timestamps
  <2>1. 100 + count.ack \in Nat /\ 0 \in Timestamps /\ 1 \in Nat
    BY <1>2, ChunkAssumption DEF Timestamps
  <2>2. m \in [id : Nat, type : {SetChunkSize, AckType, WindowAckSize, Audio, Video},
               len : Nat, ts : Timestamps, val : Nat]
    BY <2>1
  <2>3. QED
    BY <2>1, <2>2 DEF Msgs, SetChunkSize, AckType, WindowAckSize
<1>4. count' \in [msg : 0..MaxMsgs, ack : 0..MaxAcks]
  <2>1. count.ack + 1 \in 0..MaxAcks
    BY <1>1, <1>2
  <2>2. QED
    BY <1>1, <1>2, <2>1
<1> HIDE DEF m
<1>5. h \in Headers /\ h.kind = "hdr"
  BY <1>3, Constants, HeaderFields
<1> HIDE DEF h
<1>6. /\ stream' \in Seq(Headers \cup Bodies)
      /\ Len(stream) \in Nat /\ Len(stream') = Len(stream) + 1 /\ Len(stream') \in Nat
      /\ stream'[Len(stream) + 1] = h
      /\ \A j \in 1..Len(stream) : stream'[j] = stream[j]
  BY <1>1, <1>5, OneMore
<1>7. Extends
  <2>1. Len(finished) \in Nat
    BY LenProperties DEF WriterInv
  <2>2. (raced => raced') /\ (bigDelta => bigDelta')
    BY <1>1, Zenon
  <2>3. Len(stream) <= Len(stream') /\ Len(finished) <= Len(finished')
    BY <1>1, <1>6, <2>1
  <2>4. \A i \in 1..Len(finished) : finished'[i] = finished[i]
    BY <1>1
  <2>5. QED
    BY <1>1, <1>6, <2>2, <2>3, <2>4, Zenon DEF Extends
<1>8. WriterInv'
  <2>1. half' \subseteq {"msg", "ack"} /\ (half' = {"msg", "ack"} => raced') /\ raced' \in BOOLEAN
    BY <1>1 DEF WriterInv
  <2>2. ackBody' \in Msgs /\ ackBody'.type = AckType /\ ackBody'.ts = 0
    BY <1>1, <1>3
  <2>3. QED
    BY <1>1, <1>4, <2>1, <2>2 DEF WriterInv, CsidOf
<1>9. QED
  BY <1>1, <1>5, <1>6, <1>7, <1>8 DEF h

\* And its body.
LEMMA AckBodyKeeps ==
    ASSUME WriterInv, ReaderInv, AckBody
    PROVE  /\ WriterInv' /\ Extends /\ stream' \in Seq(Headers \cup Bodies)
           /\ stream'[Len(stream) + 1] = BodyOf(ackBody, 0, wsize)
           /\ Len(stream') = Len(stream) + 1
<1> DEFINE b == BodyOf(ackBody, 0, wsize)
<1>1. /\ "ack" \in half
      /\ stream' = Append(stream, b)
      /\ finished' = Append(finished, ackBody)
      /\ half' = half \ {"ack"}
      /\ raced' = (raced \/ "msg" \in half)
      /\ UNCHANGED <<ours, wsize, inWork, lastHdr, ackBody, count, bigDelta, readerVars>>
  BY DEF AckBody
<1>2. ackBody \in Msgs /\ wsize \in Nat \ {0}
  BY <1>1, Constants DEF WriterInv
<1>3. b \in Bodies
  <2>1. 0 \in 0..ackBody.len
    BY <1>2, MsgFields
  <2>2. QED
    BY <1>2, <2>1, BodyFields
<1> HIDE DEF b
<1>4. /\ stream' \in Seq(Headers \cup Bodies)
      /\ Len(stream) \in Nat /\ Len(stream') = Len(stream) + 1 /\ Len(stream') \in Nat
      /\ stream'[Len(stream) + 1] = b
      /\ \A j \in 1..Len(stream) : stream'[j] = stream[j]
  BY <1>1, <1>3, OneMore
<1>5. /\ finished' \in Seq(Msgs) /\ Len(finished') \in Nat /\ Len(finished) <= Len(finished')
      /\ \A i \in 1..Len(finished) : finished'[i] = finished[i]
  BY <1>1, <1>2, FinishedMore DEF WriterInv
<1>6. Extends
  <2>1. (raced => raced') /\ (bigDelta => bigDelta')
    BY <1>1, Zenon
  <2>2. Len(stream) <= Len(stream')
    BY <1>4
  <2>3. QED
    BY <1>1, <1>4, <1>5, <2>1, <2>2, Zenon DEF Extends
<1>7. WriterInv'
  <2>1. half' \subseteq {"msg", "ack"} /\ "ack" \notin half' /\ (half' = {"msg", "ack"} => raced') /\ raced' \in BOOLEAN
    BY <1>1 DEF WriterInv
  <2>2. QED
    BY <1>1, <1>5, <2>1 DEF WriterInv, CsidOf
<1>8. QED
  BY <1>4, <1>6, <1>7 DEF b

\* A peer's first chunk of a message: the header and what it stands for.
StartOf(m, c, fmt) ==
    LET delta == (m.ts - lastHdr[c].m.ts) % TsMod
        full == Full(lastHdr[c], fmt)
    IN  [m |-> m, time |-> IF full THEN m.ts ELSE delta, delta |-> IF full THEN Absent ELSE delta]

\* What a first chunk says is well formed.
LEMMA StartOfFields ==
    ASSUME WriterInv, NEW m \in Msgs, NEW c \in Csids, NEW fmt \in 0..3, fmt # 0 => lastHdr[c] # Absent,
           NEW l, l = StartOf(m, c, fmt)
    PROVE  /\ l \in Lasts /\ Timed(l) /\ l.m = m
           /\ l.time = IF Full(lastHdr[c], fmt) THEN m.ts ELSE (m.ts - lastHdr[c].m.ts) % TsMod
           /\ l.delta = IF Full(lastHdr[c], fmt) THEN Absent ELSE (m.ts - lastHdr[c].m.ts) % TsMod
<1> DEFINE delta == (m.ts - lastHdr[c].m.ts) % TsMod
<1>1. m.ts \in Timestamps
  BY MsgFields
<1>2. ~Full(lastHdr[c], fmt) => delta \in Timestamps
  <2>1. fmt # 0 => lastHdr[c] \in Lasts
    BY DEF WriterInv
  <2>2. fmt # 0 => lastHdr[c].m \in Msgs
    BY <2>1 DEF Lasts
  <2>3. fmt # 0 => lastHdr[c].m.ts \in Timestamps
    BY <2>2, MsgFields
  <2>4. ~Full(lastHdr[c], fmt) => fmt # 0
    BY DEF Full
  <2>5. QED
    BY <1>1, <2>3, <2>4, Difference
<1>3. l = [m |-> m, time |-> IF Full(lastHdr[c], fmt) THEN m.ts ELSE delta, delta |-> IF Full(lastHdr[c], fmt) THEN Absent ELSE delta]
  BY DEF StartOf
<1> HIDE DEF delta
<1>4. l.m = m /\ l.time = (IF Full(lastHdr[c], fmt) THEN m.ts ELSE delta) /\ l.delta = (IF Full(lastHdr[c], fmt) THEN Absent ELSE delta)
  BY <1>3
<1>5. l \in Lasts
  BY <1>1, <1>2, <1>3 DEF Lasts
<1>6. Timed(l)
  BY <1>2, <1>4, Constants DEF Timed
<1>7. QED
  BY <1>4, <1>5, <1>6 DEF delta

\* The first chunk of a peer's message.
LEMMA PeerStartKeeps ==
    ASSUME WriterInv, ReaderInv, NEW m \in Messages(count.msg + 1), NEW c \in Csids, NEW fmt \in 0..3,
           PeerStart(m, c, fmt)
    PROVE  LET l == StartOf(m, c, fmt)
               b == BodyOf(m, 0, wsize)
           IN  /\ WriterInv' /\ Extends /\ stream' \in Seq(Headers \cup Bodies)
               /\ m \in Msgs /\ l \in Lasts /\ Timed(l)
               /\ Len(stream') = Len(stream) + 2
               /\ stream'[Len(stream) + 1] = Header(c, fmt, m, l.time)
               /\ stream'[Len(stream) + 2] = b
               /\ finished' = IF b.size = m.len THEN Append(finished, m) ELSE finished
               /\ wsize' = IF b.size = m.len /\ m.type = SetChunkSize THEN m.val ELSE wsize
               /\ lastHdr' = [lastHdr EXCEPT ![c] = l]
               /\ inWork' = [inWork EXCEPT ![c] = IF b.size = m.len THEN Absent ELSE [m |-> m, done |-> b.size]]
               /\ bigDelta' = (bigDelta \/ (l.delta # Absent /\ l.delta >= ExtTs /\ b.size # m.len))
<1> DEFINE last == lastHdr[c]
<1> DEFINE delta == (m.ts - last.m.ts) % TsMod
<1> DEFINE full == Full(last, fmt)
<1> DEFINE l == StartOf(m, c, fmt)
<1> DEFINE b == BodyOf(m, 0, wsize)
<1> DEFINE h == Header(c, fmt, m, l.time)
<1> DEFINE all == b.size = m.len
<1> DEFINE work == IF all THEN Absent ELSE [m |-> m, done |-> b.size]
<1>0. count.msg + 1 \in Nat /\ count \in [msg : 0..MaxMsgs, ack : 0..MaxAcks] /\ MaxMsgs \in Nat
  BY ChunkAssumption DEF WriterInv
<1>1. m \in Msgs /\ m.len \in Nat
  BY <1>0, MessageIsMsg, MsgFields
<1>2. /\ ~ours /\ inWork[c] = Absent /\ count.msg < MaxMsgs
      /\ fmt # 0 => last # Absent
      /\ count' = [count EXCEPT !.msg = @ + 1]
      /\ UNCHANGED <<ours, half, ackBody, raced, readerVars>>
  BY DEF PeerStart
<1>3. /\ l \in Lasts /\ Timed(l) /\ l.m = m
      /\ l.time = IF full THEN m.ts ELSE delta
      /\ l.delta = IF full THEN Absent ELSE delta
  BY <1>1, <1>2, StartOfFields
<1>4. /\ stream' = stream \o <<h, b>>
      /\ inWork' = [inWork EXCEPT ![c] = work]
      /\ finished' = IF all THEN Append(finished, m) ELSE finished
      /\ wsize' = IF all /\ m.type = SetChunkSize THEN m.val ELSE wsize
      /\ lastHdr' = [lastHdr EXCEPT ![c] = l]
      /\ bigDelta' = (bigDelta \/ (~full /\ delta >= ExtTs /\ ~all))
  <2>1. [Header(c, fmt, m, IF full THEN m.ts ELSE delta) EXCEPT !.csid = c] = h
    <3>1. l.time = IF full THEN m.ts ELSE delta
      BY <1>3
    <3> HIDE DEF l, delta, full
    <3>2. QED
      BY <3>1 DEF Header
  <2>2. [m |-> m, time |-> IF full THEN m.ts ELSE delta, delta |-> IF full THEN Absent ELSE delta] = l
    BY DEF StartOf
  <2>3. QED
    BY <2>1, <2>2, Zenon DEF PeerStart, Full
<1>5. wsize \in Nat \ {0} /\ wsize \in Sizes \cup {InitSize}
  BY Constants DEF WriterInv
<1>6. b \in Bodies /\ b.size \in Nat /\ b.size \in 0..m.len /\ (m.len # 0 => b.size > 0)
  <2>1. 0 \in 0..m.len
    BY <1>1
  <2>2. b \in Bodies /\ b.size \in Nat /\ b.size \in 0..(m.len - 0)
    BY <1>1, <1>5, <2>1, BodyFields
  <2>3. 0 < m.len => b.size > 0
    BY <1>1, <1>5, <2>1, BodyFields
  <2> HIDE DEF b
  <2>4. QED
    BY <1>1, <2>2, <2>3
<1>7. h \in Headers
  <2>1. l.time \in Timestamps
    BY <1>3 DEF Lasts
  <2> HIDE DEF l
  <2>2. QED
    BY <1>1, <2>1, HeaderFields
<1>8. l.delta # Absent <=> ~full
  <2>1. l.delta # Absent => l.delta \in Timestamps
    BY <1>3 DEF Lasts
  <2>2. ~full => l.delta \in Timestamps
    <3>1. ~full => l.delta = l.time
      BY <1>3
    <3>2. QED
      BY <1>3, <3>1 DEF Lasts
  <2> HIDE DEF l, delta, full
  <2>3. QED
    BY <1>3, <2>2, Constants
<1> HIDE DEF b, h, l, delta, full
<1>9. /\ stream' \in Seq(Headers \cup Bodies)
      /\ Len(stream) \in Nat /\ Len(stream') = Len(stream) + 2 /\ Len(stream') \in Nat
      /\ stream'[Len(stream) + 1] = h /\ stream'[Len(stream) + 2] = b
      /\ \A j \in 1..Len(stream) : stream'[j] = stream[j]
  BY <1>4, <1>6, <1>7, TwoMore
<1>10. /\ finished' \in Seq(Msgs) /\ Len(finished') \in Nat /\ Len(finished) <= Len(finished')
       /\ \A i \in 1..Len(finished) : finished'[i] = finished[i]
  <2>1. finished \in Seq(Msgs) /\ (finished' = finished \/ finished' = Append(finished, m))
    BY <1>4 DEF WriterInv
  <2>2. QED
    BY <1>1, <2>1, FinishedMore
<1>11. Extends
  <2>1. (raced => raced') /\ (bigDelta => bigDelta')
    BY <1>2, <1>4, Zenon
  <2>2. Len(stream) <= Len(stream')
    BY <1>9
  <2>3. QED
    BY <1>2, <1>9, <1>10, <2>1, <2>2, Zenon DEF Extends
<1>12. bigDelta' = (bigDelta \/ (l.delta # Absent /\ l.delta >= ExtTs /\ b.size # m.len))
  <2>1. ~full => delta = l.delta
    BY <1>3
  <2>2. (~full /\ delta >= ExtTs /\ ~all) <=> (l.delta # Absent /\ l.delta >= ExtTs /\ b.size # m.len)
    BY <1>8, <2>1
  <2>3. QED
    BY <1>4, <2>2, Zenon
<1>13. /\ inWork' \in [Csids -> Works \cup {Absent}] /\ lastHdr' \in [Csids -> Lasts \cup {Absent}]
       /\ \A d \in Csids : d # c => inWork'[d] = inWork[d]
       /\ inWork'[c] # Absent => /\ inWork'[c].done < inWork'[c].m.len /\ inWork'[c].done > 0
  <2>1. ~all => work = [m |-> m, done |-> b.size] /\ work \in Works /\ b.size < m.len /\ b.size > 0
    BY <1>1, <1>6 DEF Works
  <2>2. ~all => work.m = m /\ work.done = b.size
    BY <2>1
  <2>3. all => work = Absent
    OBVIOUS
  <2> HIDE DEF work
  <2>4. inWork' = [inWork EXCEPT ![c] = work] /\ inWork \in [Csids -> Works \cup {Absent}]
    BY <1>4 DEF WriterInv
  <2>5. inWork'[c] = work /\ work \in Works \cup {Absent}
    BY <2>1, <2>3, <2>4
  <2>6. inWork' \in [Csids -> Works \cup {Absent}] /\ \A d \in Csids : d # c => inWork'[d] = inWork[d]
    BY <2>4, <2>5
  <2>7. lastHdr' \in [Csids -> Lasts \cup {Absent}]
    BY <1>3, <1>4 DEF WriterInv
  <2>8. QED
    BY <2>1, <2>2, <2>3, <2>5, <2>6, <2>7
<1>14. WriterInv'
  <2>1. count' \in [msg : 0..MaxMsgs, ack : 0..MaxAcks]
    <3>1. count.msg + 1 \in 0..MaxMsgs
      BY <1>0, <1>2
    <3>2. QED
      BY <1>0, <1>2, <3>1
  <2>2. wsize' \in Sizes \cup {InitSize}
    <3>1. m.type = SetChunkSize => m.val \in Sizes
      BY <1>1, MsgFields
    <3>2. QED
      BY <1>4, <1>5, <3>1
  <2>3. bigDelta' \in BOOLEAN /\ half = {}
    BY <1>2, <1>4 DEF WriterInv
  <2>4. \A d \in Csids : inWork'[d] # Absent => inWork'[d].done < inWork'[d].m.len /\ inWork'[d].done > 0
    BY <1>2, <1>13 DEF WriterInv
  <2>5. \A d \in Csids : inWork'[d] # Absent => lastHdr'[d] # Absent
    <3>1. lastHdr'[c] = l /\ \A d \in Csids : d # c => lastHdr'[d] = lastHdr[d]
      BY <1>4 DEF WriterInv
    <3>2. l # Absent
      BY <1>3, Constants
    <3>3. \A d \in Csids : d # c /\ inWork[d] # Absent => lastHdr[d] # Absent
      BY <1>2 DEF WriterInv
    <3>4. QED
      BY <1>13, <3>1, <3>2, <3>3
  <2>6. QED
    BY <1>2, <1>10, <1>13, <2>1, <2>2, <2>3, <2>4, <2>5 DEF WriterInv
<1>15. QED
  BY <1>1, <1>3, <1>4, <1>9, <1>11, <1>12, <1>14 DEF l, b, h

\* A peer's chunk that goes on with a message.
LEMMA PeerContinueKeeps ==
    ASSUME WriterInv, ReaderInv, NEW c \in Csids, PeerContinue(c)
    PROVE  /\ WriterInv' /\ Extends /\ stream' \in Seq(Headers \cup Bodies)
           /\ Len(stream') = Len(stream) + 2
           /\ stream'[Len(stream) + 1] = Header(c, 3, inWork[c].m, lastHdr[c].time)
           /\ stream'[Len(stream) + 2] = BodyOf(inWork[c].m, inWork[c].done, wsize)
<1> DEFINE b == BodyOf(inWork[c].m, inWork[c].done, wsize)
<1> DEFINE h == Header(c, 3, inWork[c].m, lastHdr[c].time)
<1>1. /\ ~ours /\ inWork[c] # Absent
      /\ stream' = stream \o <<h, b>> /\ Advance(c, b)
      /\ UNCHANGED <<ours, wsize, lastHdr, half, ackBody, count, raced, bigDelta, readerVars>>
  BY DEF PeerContinue
<1>2. wsize \in Nat \ {0}
  BY Constants DEF WriterInv
<1>3. /\ b \in Bodies
      /\ inWork' \in [Csids -> Works \cup {Absent}] /\ finished' \in Seq(Msgs)
      /\ \A d \in Csids : d # c => inWork'[d] = inWork[d]
      /\ inWork'[c] # Absent =>
            /\ inWork'[c].m = inWork[c].m /\ inWork'[c].done = inWork[c].done + b.size
            /\ inWork'[c].done < inWork'[c].m.len /\ inWork'[c].done > 0
      /\ Len(finished') \in Nat /\ Len(finished) <= Len(finished')
      /\ \A i \in 1..Len(finished) : finished'[i] = finished[i]
  BY <1>1, <1>2, AdvanceKeeps
<1>4. h \in Headers
  <2>1. inWork[c].m \in Msgs
    BY <1>1, WorkFields
  <2>2. lastHdr[c] \in Lasts
    BY <1>1 DEF WriterInv
  <2>a. lastHdr[c].time \in Timestamps /\ 3 \in 0..3
    BY <2>2 DEF Lasts
  <2>3. QED
    BY <2>1, <2>a, HeaderFields
<1> HIDE DEF b, h
<1>5. /\ stream' \in Seq(Headers \cup Bodies)
      /\ Len(stream) \in Nat /\ Len(stream') = Len(stream) + 2 /\ Len(stream') \in Nat
      /\ stream'[Len(stream) + 1] = h /\ stream'[Len(stream) + 2] = b
      /\ \A j \in 1..Len(stream) : stream'[j] = stream[j]
  BY <1>1, <1>3, <1>4, TwoMore
<1>6. Extends
  <2>1. (raced => raced') /\ (bigDelta => bigDelta')
    BY <1>1, Zenon
  <2>2. Len(stream) <= Len(stream')
    BY <1>5
  <2>3. QED
    BY <1>1, <1>3, <1>5, <2>1, <2>2, Zenon DEF Extends
<1>7. WriterInv'
  <2>1. half = {}
    BY <1>1 DEF WriterInv
  <2>2. \A d \in Csids : inWork'[d] # Absent => inWork'[d].done < inWork'[d].m.len /\ inWork'[d].done > 0
    BY <1>1, <1>3 DEF WriterInv
  <2>3. QED
    BY <1>1, <1>3, <2>1, <2>2 DEF WriterInv
<1>8. QED
  BY <1>5, <1>6, <1>7 DEF h, b

-----------------------------------------------------------------------------
(* The writer's steps and the snapshots.                                   *)

\* The sizes of a message of one unit do not depend on the chunk size.
LEMMA UnitBody ==
    ASSUME NEW m \in Msgs, m.len = 1, NEW x \in Nat \ {0}, NEW y \in Nat \ {0}
    PROVE  BodyOf(m, 0, x) = BodyOf(m, 0, y) /\ BodyOf(m, 0, x).size = 1
BY DEF BodyOf

\* A message that begins is not yet on its way.
LEMMA WriteMessageStream ==
    ASSUME WriterInv, ReaderInv, NEW m \in Messages(count.msg + 1), WriteMessage(m),
           NEW k \in Nat, NEW S \in [0..k -> Snapshots], Chain(S, k), ReaderAt(S[0]),
           WriterAt(S[k]), EndsAt(k)
    PROVE  StreamInv'
<1> DEFINE s == S[k]
<1>0. WriterInv' /\ Extends /\ Len(stream') \in Nat /\ Len(finished') \in Nat
  <2>1. WriterInv' /\ Extends /\ stream' \in Seq(Headers \cup Bodies)
    BY WriteMessageKeeps
  <2>2. finished' \in Seq(Msgs)
    BY <2>1 DEF WriterInv
  <2>3. QED
    BY <2>1, <2>2, LenProperties
<1>1. /\ ours /\ (\A c \in Csids : inWork[c] = Absent)
      /\ wsize' = IF m.type = SetChunkSize THEN m.val ELSE wsize
      /\ inWork' = IF m.len = 0 THEN inWork
                   ELSE [inWork EXCEPT ![CsidOf(m)] = [m |-> m, done |-> 0]]
      /\ UNCHANGED <<ours, lastHdr, half, ackBody, raced, bigDelta, finished, readerVars, stream>>
  BY DEF WriteMessage
<1>2. m \in Msgs /\ (m.type = SetChunkSize => m.len = 1)
  <2>1. count.msg + 1 \in Nat
    BY ChunkAssumption DEF WriterInv
  <2>2. m \in Msgs
    BY <2>1, MessageIsMsg
  <2>3. QED
    BY <2>2, MsgFields
<1>3. /\ CsidOf(m) \in Csids /\ 2 \in Csids /\ (m.type = SetChunkSize => CsidOf(m) = 2)
  BY Constants DEF CsidOf, SetChunkSize, Audio, Video
<1>4. \A c \in Csids : inWork'[c] = Absent \/ (inWork'[c] = [m |-> m, done |-> 0] /\ c = CsidOf(m))
  BY <1>1, <1>3 DEF WriterInv
<1>5. m.type = SetChunkSize => inWork'[2] = [m |-> m, done |-> 0]
  BY <1>1, <1>2, <1>3 DEF WriterInv
<1>6. Absent # [m |-> m, done |-> 0]
  <2>1. [m |-> m, done |-> 0] \in Works
    BY <1>2 DEF Works
  <2>2. QED
    BY <2>1, Constants
<1>7. s.size = wsize /\ \A c \in Csids : s.done[c] = 0
  BY <1>1, <1>3 DEF WriterAt
<1>8. WriterAt(s)'
  <2>1. s.fin = Len(finished') /\ \A c \in Csids : s.last[c] # Absent => s.last[c].delta = Absent
    BY <1>1 DEF WriterAt
  <2>2. \A c \in Csids : ~(inWork'[c] # Absent /\ inWork'[c].done > 0)
    BY <1>4
  <2>3. IF inWork'[2] # Absent /\ inWork'[2].m.type = SetChunkSize THEN wsize' = inWork'[2].m.val
        ELSE s.size = wsize'
    <3>1. CASE m.type = SetChunkSize
      <4>1. inWork'[2].m = m /\ inWork'[2] # Absent /\ wsize' = m.val
        BY <1>1, <1>5, <1>6, <3>1
      <4>2. QED
        BY <3>1, <4>1
    <3>2. CASE m.type # SetChunkSize
      <4>1. wsize' = wsize
        BY <1>1, <3>2
      <4>2. inWork'[2] = Absent \/ inWork'[2].m = m
        BY <1>3, <1>4
      <4>3. QED
        BY <1>7, <3>2, <4>1, <4>2
    <3>3. QED
      BY <3>1, <3>2
  <2>4. ours' = ours
    BY <1>1
  <2> HIDE DEF s
  <2>5. QED
    BY <1>1, <1>7, <2>1, <2>2, <2>3, <2>4 DEF WriterAt
<1>9. EndsAt(k)'
  BY <1>1 DEF EndsAt
<1>10. Chain(S, k)' /\ ReaderAt(S[0])'
  BY <1>0, ChainStays, ReaderStays DEF Extends
<1>11. QED
  BY <1>8, <1>9, <1>10 DEF StreamInv

\* A header is the first half of a chunk, or the second of two headers in a row.
LEMMA WriteHeaderStream ==
    ASSUME WriterInv, ReaderInv, NEW c \in Csids, WriteHeader(c),
           NEW k \in Nat, NEW S \in [0..k -> Snapshots], Chain(S, k), ReaderAt(S[0]),
           WriterAt(S[k]), EndsAt(k)
    PROVE  StreamInv'
<1> DEFINE h == Header(c, IF inWork[c].done = 0 THEN 0 ELSE 3, inWork[c].m, inWork[c].m.ts)
<1>0. /\ Extends /\ stream' \in Seq(Headers \cup Bodies) /\ finished' = finished
      /\ h.kind = "hdr" /\ stream'[Len(stream) + 1] = h /\ Len(stream') = Len(stream) + 1
  BY WriteHeaderKeeps DEF WriteHeader
<1>1. /\ inWork[c] # Absent /\ "msg" \notin half
      /\ half' = half \cup {"msg"} /\ raced' = (raced \/ "ack" \in half)
      /\ UNCHANGED <<ours, wsize, inWork, lastHdr, ackBody, finished>>
  BY DEF WriteHeader
<1>2. Len(stream') \in Nat /\ Len(finished') \in Nat /\ Len(stream) \in Nat
  BY <1>0, LenProperties DEF WriterInv, ReaderInv
<1>3. Chain(S, k)' /\ ReaderAt(S[0])'
  BY <1>0, <1>2, ChainStays, ReaderStays DEF Extends
<1>4. CASE half = {} /\ Len(stream) = 2 * k
  <2>1. half' = {"msg"} /\ Len(stream') = 2 * k + 1 /\ stream'[2 * k + 1] = h
    BY <1>0, <1>1, <1>4
  <2>2. EndsAt(k)'
    BY <1>1, <2>1 DEF EndsAt
  <2>3. WriterAt(S[k])'
    BY <1>1 DEF WriterAt
  <2>4. QED
    BY <1>3, <2>2, <2>3 DEF StreamInv
<1>5. CASE half = {"ack"} /\ Len(stream) = 2 * k + 1 /\ stream[2 * k + 1] = Header(2, 0, ackBody, 0)
  <2>1. raced' /\ Len(stream') = 2 * k + 2 /\ stream'[2 * k + 2].kind = "hdr"
    <3>1. raced'
      BY <1>1, <1>5, Zenon
    <3>2. Len(stream) + 1 = 2 * k + 2
      BY <1>5
    <3> HIDE DEF h
    <3>3. QED
      BY <1>0, <3>1, <3>2
  <2>2. stream'[2 * k + 1] = stream[2 * k + 1]
    <3>1. 2 * k + 1 \in 1..Len(stream)
      BY <1>2, <1>5
    <3>2. QED
      BY <1>0, <3>1 DEF Extends
  <2>3. stream[2 * k + 1].kind = "hdr"
    BY <1>5 DEF Header
  <2>4. BrokenAt(k)'
    BY <2>1, <2>2, <2>3 DEF BrokenAt
  <2>5. QED
    BY <1>3, <2>4 DEF StreamInv
<1>6. QED
  BY <1>1, <1>4, <1>5 DEF EndsAt

\* The header of an acknowledgement: after it the stream ends with it, or, in the
\* middle of the message's chunk, with two headers.
LEMMA AckHeaderStream ==
    ASSUME WriterInv, ReaderInv, AckHeader,
           NEW k \in Nat, NEW S \in [0..k -> Snapshots], Chain(S, k), ReaderAt(S[0]),
           WriterAt(S[k]), EndsAt(k)
    PROVE  StreamInv'
<1> DEFINE h == Header(2, 0, ackBody', 0)
<1>0. /\ Extends /\ stream' \in Seq(Headers \cup Bodies) /\ finished' = finished
      /\ h.kind = "hdr" /\ stream'[Len(stream) + 1] = h /\ Len(stream') = Len(stream) + 1
  BY AckHeaderKeeps DEF AckHeader
<1>1. /\ "ack" \notin half
      /\ half' = half \cup {"ack"} /\ raced' = (raced \/ "msg" \in half)
      /\ UNCHANGED <<ours, wsize, inWork, lastHdr, finished>>
  BY DEF AckHeader
<1>2. Len(stream') \in Nat /\ Len(finished') \in Nat /\ Len(stream) \in Nat
  BY <1>0, LenProperties DEF WriterInv, ReaderInv
<1>3. Chain(S, k)' /\ ReaderAt(S[0])'
  BY <1>0, <1>2, ChainStays, ReaderStays DEF Extends
<1>4. CASE half = {} /\ Len(stream) = 2 * k
  <2>1. half' = {"ack"} /\ Len(stream') = 2 * k + 1 /\ stream'[2 * k + 1] = h
    BY <1>0, <1>1, <1>4
  <2>2. EndsAt(k)'
    BY <1>1, <2>1 DEF EndsAt
  <2>3. WriterAt(S[k])'
    BY <1>1 DEF WriterAt
  <2>4. QED
    BY <1>3, <2>2, <2>3 DEF StreamInv
<1>5. ASSUME half = {"msg"}, Len(stream) = 2 * k + 1,
             NEW c \in Csids, inWork[c] # Absent,
             stream[2 * k + 1] =
                Header(c, IF inWork[c].done = 0 THEN 0 ELSE 3, inWork[c].m, inWork[c].m.ts)
      PROVE  StreamInv'
  <2>1. raced' /\ Len(stream') = 2 * k + 2 /\ stream'[2 * k + 2].kind = "hdr"
    <3>1. raced'
      BY <1>1, <1>5, Zenon
    <3>2. Len(stream) + 1 = 2 * k + 2
      BY <1>5
    <3> HIDE DEF h
    <3>3. QED
      BY <1>0, <3>1, <3>2
  <2>2. stream'[2 * k + 1] = stream[2 * k + 1]
    <3>1. 2 * k + 1 \in 1..Len(stream)
      BY <1>2, <1>5
    <3>2. QED
      BY <1>0, <3>1 DEF Extends
  <2>3. stream[2 * k + 1].kind = "hdr"
    BY <1>5 DEF Header
  <2>4. BrokenAt(k)'
    BY <2>1, <2>2, <2>3 DEF BrokenAt
  <2>5. QED
    BY <1>3, <2>4 DEF StreamInv
<1>6. QED
  BY <1>1, <1>4, <1>5 DEF EndsAt

\* The second half of a chunk of the message takes the writer to the next
\* snapshot.
LEMMA WriteBodyStream ==
    ASSUME WriterInv, ReaderInv, NEW c \in Csids, WriteBody(c),
           NEW k \in Nat, NEW S \in [0..k -> Snapshots], Chain(S, k), ReaderAt(S[0]),
           WriterAt(S[k]), EndsAt(k)
    PROVE  StreamInv'
<1> DEFINE s == S[k]
<1>a. PICK m : m = inWork[c].m
  OBVIOUS
<1>b. PICK done : done = inWork[c].done
  OBVIOUS
<1>c. PICK b : b = BodyOf(m, done, wsize)
  OBVIOUS
<1> DEFINE fmt == IF done = 0 THEN 0 ELSE 3
<1> DEFINE h == Header(c, fmt, m, m.ts)
<1> DEFINE l == [m |-> m, time |-> m.ts, delta |-> Absent]
<1> DEFINE t == After(s, c, l)
<1>1. /\ ours /\ inWork[c] # Absent /\ "msg" \in half /\ Advance(c, b)
      /\ half' = half \ {"msg"}
      /\ UNCHANGED <<ours, wsize, lastHdr, ackBody, count, bigDelta, readerVars>>
  BY <1>a, <1>b, <1>c DEF WriteBody
<1>2. /\ Extends /\ stream' \in Seq(Headers \cup Bodies) /\ WriterInv'
      /\ stream'[Len(stream) + 1] = b /\ Len(stream') = Len(stream) + 1
  BY <1>a, <1>b, <1>c, WriteBodyKeeps
<1>3. Len(stream') \in Nat /\ Len(finished') \in Nat /\ Len(stream) \in Nat /\ finished \in Seq(Msgs)
  BY <1>2, LenProperties DEF WriterInv, ReaderInv
<1>4. /\ m \in Msgs /\ done \in Nat /\ done < m.len /\ c = CsidOf(m)
      /\ inWork[c] = [m |-> m, done |-> done]
      /\ \A d \in Csids : inWork[d] # Absent => c = d
  BY <1>a, <1>b, <1>1, WorkFields
<1>5. /\ m.ts \in Timestamps /\ m.len \in Nat
      /\ (m.type = SetChunkSize => m.len = 1 /\ m.val \in Sizes)
  BY <1>4, MsgFields
<1>6. half = {"msg"} /\ Len(stream) = 2 * k + 1 /\ stream[2 * k + 1] = h /\ half' = {}
  <2>1. half = {"msg"} /\ half' = {}
    BY <1>1 DEF EndsAt
  <2>2. /\ Len(stream) = 2 * k + 1
        /\ \E d \in Csids :
              /\ inWork[d] # Absent
              /\ stream[2 * k + 1] =
                    Header(d, IF inWork[d].done = 0 THEN 0 ELSE 3, inWork[d].m, inWork[d].m.ts)
    BY <2>1 DEF EndsAt
  <2>3. stream[2 * k + 1] = h
    BY <1>a, <1>b, <1>4, <2>2
  <2>4. QED
    BY <2>1, <2>2, <2>3
<1>7. s \in Snapshots /\ Sound(s) /\ s.fin = Len(finished)
  BY DEF Chain, WriterAt
<1>8. /\ s.done[c] = done
      /\ done # 0 => s.last[c].m = m
      /\ \A d \in Csids : d # c => s.done[d] = 0
      /\ \A d \in Csids : s.last[d] # Absent => s.last[d].delta = Absent
  <2>1. /\ \A d \in Csids :
              IF inWork[d] # Absent /\ inWork[d].done > 0
              THEN s.done[d] = inWork[d].done /\ s.last[d].m = inWork[d].m
              ELSE s.done[d] = 0
        /\ \A d \in Csids : s.last[d] # Absent => s.last[d].delta = Absent
    BY <1>1 DEF WriterAt
  <2>2. \A d \in Csids : d # c => s.done[d] = 0
    BY <1>4, <2>1
  <2>3. s.done[c] = done /\ (done # 0 => s.last[c].m = m)
    <3> HIDE DEF s
    <3>1. CASE done = 0
      BY <1>a, <1>b, <2>1, <3>1
    <3>2. CASE done > 0
      BY <1>a, <1>b, <1>1, <2>1, <3>2
    <3>3. QED
      BY <1>4, <3>1, <3>2
  <2>4. QED
    BY <2>1, <2>2, <2>3
<1>9. wsize \in Nat \ {0} /\ s.size \in Nat \ {0}
  BY <1>7, Constants DEF WriterInv, Snapshots
<1>10. IF m.type = SetChunkSize THEN wsize = m.val /\ done = 0 ELSE s.size = wsize
  <2>1. 2 \in Csids /\ (m.type = SetChunkSize => c = 2)
    BY <1>4, Constants DEF CsidOf, SetChunkSize, Audio, Video
  <2>2. m.type = SetChunkSize => done = 0
    BY <1>4, <1>5
  <2>3. QED
    BY <1>a, <1>1, <1>4, <2>1, <2>2 DEF WriterAt
<1>11. b = BodyOf(m, s.done[c], s.size)
  <2>1. CASE m.type = SetChunkSize
    BY <1>c, <1>4, <1>5, <1>8, <1>9, <1>10, <2>1, UnitBody
  <2>2. CASE m.type # SetChunkSize
    BY <1>c, <1>8, <1>10, <2>2
  <2>3. QED
    BY <2>1, <2>2
<1>12. l \in Lasts /\ Timed(l) /\ l.m = m /\ l.time = m.ts /\ l.delta = Absent
  BY <1>4, <1>5 DEF Lasts, Timed
<1>13. done # 0 => l = s.last[c]
  <2> SUFFICES ASSUME done # 0 PROVE l = s.last[c]
    OBVIOUS
  <2>1. s.last[c] # Absent /\ s.last[c] \in Lasts /\ Timed(s.last[c])
    <3>1. s.done[c] > 0
      BY <1>4, <1>8
    <3>2. s.last[c] # Absent /\ Timed(s.last[c])
      BY <1>7, <3>1 DEF Sound
    <3>3. QED
      BY <1>7, <3>2 DEF Snapshots
  <2>2. s.last[c].m = m /\ s.last[c].delta = Absent /\ s.last[c].time = m.ts
    BY <1>8, <2>1 DEF Timed
  <2>3. s.last[c] = [m |-> s.last[c].m, time |-> s.last[c].time, delta |-> s.last[c].delta]
    BY <2>1 DEF Lasts
  <2>4. QED
    BY <2>2, <2>3
<1>14. fmt \in 0..3 /\ (fmt = 0 <=> done = 0) /\ (done # 0 => fmt = 3)
  OBVIOUS
<1>15. finished' = (IF done + b.size = m.len THEN Append(finished, m) ELSE finished)
       /\ inWork' = [inWork EXCEPT ![c] = IF done + b.size = m.len THEN Absent
                                          ELSE [m |-> m, done |-> done + b.size]]
  BY <1>a, <1>b, <1>1 DEF Advance
<1> HIDE DEF s, fmt, h, l, t
<1>16. /\ t \in Snapshots /\ Sound(t)' /\ ChunkOf(c, s, h, b, t)'
       /\ t.fin = Len(finished')
       /\ t.last = [s.last EXCEPT ![c] = l]
       /\ t.done = [s.done EXCEPT ![c] =
                       IF s.done[c] + b.size = l.m.len THEN 0 ELSE s.done[c] + b.size]
       /\ t.size = IF s.done[c] + b.size = l.m.len /\ l.m.type = SetChunkSize
                   THEN l.m.val ELSE s.size
  <2>1. h = Header(c, fmt, l.m, l.time) /\ b = BodyOf(l.m, s.done[c], s.size)
    BY <1>11, <1>12 DEF h
  <2>2. IF s.done[c] = 0 THEN Begins(s.last[c], l, fmt) ELSE fmt = 3 /\ l = s.last[c]
    <3>1. CASE done = 0
      <4>1. Begins(s.last[c], l, fmt)
        BY <1>12, <1>14, <3>1 DEF Begins, Full
      <4>2. QED
        BY <1>8, <3>1, <4>1
    <3>2. CASE done # 0
      BY <1>8, <1>13, <1>14, <3>2
    <3>3. QED
      BY <3>1, <3>2
  <2>3. finished' = IF s.done[c] + b.size = l.m.len THEN Append(finished, l.m) ELSE finished
    BY <1>8, <1>12, <1>15
  <2>4. bigDelta => bigDelta'
    BY <1>1
  <2>5. s.done[c] + b.size # l.m.len /\ ~bigDelta' => (l.delta = Absent \/ l.delta < ExtTs)
    BY <1>12
  <2>6. t = After(s, c, l)
    BY DEF t
  <2>7. QED
    <3>1. Writes(s, c, l, fmt, h, b)
      BY <1>3, <1>7, <1>12, <2>1, <2>2, <2>3, <2>4, <2>5 DEF Writes
    <3>2. QED
      BY <1>14, <2>6, <3>1, AfterChunk
<1>17. s.last \in [Csids -> Lasts \cup {Absent}] /\ s.done \in [Csids -> Nat] /\ inWork \in [Csids -> Works \cup {Absent}]
  BY <1>7 DEF Snapshots, WriterInv
<1>18. WriterAt(t)'
  <2> DEFINE all == done + b.size = m.len
  <2>1. \A d \in Csids : d # c => inWork'[d] = Absent /\ t.done[d] = 0
    BY <1>4, <1>8, <1>15, <1>16, <1>17
  <2>2. t.last[c] = l /\ t.last[c].m = m /\ \A d \in Csids : t.last[d] # Absent => t.last[d].delta = Absent
    BY <1>8, <1>12, <1>16, <1>17
  <2>3. CASE all
    <3>1. inWork'[c] = Absent /\ t.done[c] = 0
      BY <1>8, <1>12, <1>15, <1>16, <1>17, <2>3
    <3>2. \A d \in Csids : inWork'[d] = Absent /\ t.done[d] = 0
      BY <2>1, <3>1
    <3>3. t.size = wsize' /\ 2 \in Csids
      BY <1>1, <1>8, <1>10, <1>12, <1>16, <2>3, Constants
    <3>4. QED
      BY <1>1, <1>16, <2>2, <3>2, <3>3 DEF WriterAt
  <2>4. CASE ~all
    <3>1. inWork'[c] = [m |-> m, done |-> done + b.size] /\ t.done[c] = done + b.size
      BY <1>8, <1>12, <1>15, <1>16, <1>17, <2>4
    <3>2. inWork'[c].m = m /\ inWork'[c].done = done + b.size
      BY <3>1
    <3>3. b.size \in Nat /\ (done = 0 => b.size > 0) /\ m.type # SetChunkSize
      <4>1. done \in 0..m.len
        BY <1>4, <1>5
      <4>2. b.size \in Nat
        BY <1>c, <1>4, <1>9, <4>1, BodyFields
      <4>3. done < m.len => b.size > 0
        BY <1>c, <1>4, <1>9, <4>1, BodyFields
      <4>4. b.size \in 0..(m.len - done)
        BY <1>c, <1>4, <1>9, <4>1, BodyFields
      <4>5. m.type = SetChunkSize => all
        BY <1>4, <1>5, <4>2, <4>3, <4>4
      <4>6. QED
        BY <1>4, <2>4, <4>2, <4>3, <4>5
    <3>4. \A d \in Csids : IF inWork'[d] # Absent /\ inWork'[d].done > 0
                           THEN t.done[d] = inWork'[d].done /\ t.last[d].m = inWork'[d].m
                           ELSE t.done[d] = 0
      <4>1. done + b.size > 0 /\ inWork'[c] # Absent
        <5>1. [m |-> m, done |-> done + b.size] \in Works
          BY <1>4, <3>3 DEF Works
        <5>2. QED
          BY <1>4, <3>1, <3>3, <5>1, Constants
      <4>2. QED
        BY <2>1, <2>2, <3>1, <3>2, <4>1
    <3>5. t.size = wsize' /\ 2 \in Csids /\ (inWork'[2] # Absent => inWork'[2].m.type # SetChunkSize)
      <4>1. t.size = s.size /\ 2 \in Csids
        BY <1>12, <1>16, <3>3, Constants
      <4>2. inWork'[2] # Absent => inWork'[2].m.type # SetChunkSize
        BY <2>1, <3>2, <3>3, <4>1
      <4>3. QED
        BY <1>1, <1>10, <3>3, <4>1, <4>2
    <3>6. QED
      BY <1>1, <1>16, <2>2, <3>4, <3>5 DEF WriterAt
  <2>5. QED
    BY <2>3, <2>4
<1>19. EndsAt(k + 1)'
  <2>1. Len(stream') = 2 * (k + 1)
    BY <1>2, <1>6
  <2>2. QED
    BY <1>6, <2>1 DEF EndsAt
<1>20. 2 * k + 2 <= Len(stream') /\ stream'[2 * k + 1] = h /\ stream'[2 * k + 2] = b
  <2>1. 2 * k + 1 \in 1..Len(stream) /\ Len(stream) + 1 = 2 * k + 2
    BY <1>6
  <2>2. stream'[2 * k + 1] = stream[2 * k + 1]
    BY <1>2, <2>1 DEF Extends
  <2>3. QED
    BY <1>2, <1>6, <2>1, <2>2
<1>21. ChunkOf(c, S[k], h, b, t)'
  BY <1>16 DEF s
<1>22. QED
  BY <1>2, <1>3, <1>16, <1>18, <1>19, <1>20, <1>21, ChainGrows

\* The second half of an acknowledgement's chunk: control messages take one
\* chunk, so none is half written on its chunk stream.
LEMMA AckBodyStream ==
    ASSUME WriterInv, ReaderInv, AckBody,
           NEW k \in Nat, NEW S \in [0..k -> Snapshots], Chain(S, k), ReaderAt(S[0]),
           WriterAt(S[k]), EndsAt(k)
    PROVE  StreamInv'
<1> DEFINE s == S[k]
<1>a. PICK m : m = ackBody
  OBVIOUS
<1>b. PICK b : b = BodyOf(m, 0, wsize)
  OBVIOUS
<1> DEFINE h == Header(2, 0, m, 0)
<1> DEFINE l == [m |-> m, time |-> 0, delta |-> Absent]
<1> DEFINE t == After(s, 2, l)
<1>1. /\ "ack" \in half /\ finished' = Append(finished, m) /\ half' = half \ {"ack"}
      /\ UNCHANGED <<ours, wsize, inWork, lastHdr, ackBody, count, bigDelta, readerVars>>
  BY <1>a DEF AckBody
<1>2. /\ Extends /\ stream' \in Seq(Headers \cup Bodies) /\ WriterInv'
      /\ stream'[Len(stream) + 1] = b /\ Len(stream') = Len(stream) + 1
  BY <1>a, <1>b, AckBodyKeeps
<1>3. Len(stream') \in Nat /\ Len(finished') \in Nat /\ Len(stream) \in Nat /\ finished \in Seq(Msgs)
  BY <1>2, LenProperties DEF WriterInv, ReaderInv
<1>4. m \in Msgs /\ m.type = AckType /\ m.ts = 0 /\ ours
  BY <1>a, <1>1 DEF WriterInv
<1>5. m.len = 1 /\ m.type # SetChunkSize /\ 0 \in Timestamps
  BY <1>4, MsgFields DEF Msgs, AckType, SetChunkSize, Audio, Video
<1>6. half = {"ack"} /\ Len(stream) = 2 * k + 1 /\ stream[2 * k + 1] = h /\ half' = {}
  BY <1>a, <1>1 DEF EndsAt
<1>7. s \in Snapshots /\ Sound(s) /\ s.fin = Len(finished) /\ 2 \in Csids
  BY Constants DEF Chain, WriterAt
<1>8. s.done[2] = 0 /\ (inWork[2] # Absent => inWork[2].done = 0)
  <2>1. inWork[2] # Absent => inWork[2].done = 0
    <3> SUFFICES ASSUME inWork[2] # Absent PROVE inWork[2].done = 0
      OBVIOUS
    <3>1. /\ inWork[2].m \in Msgs /\ 2 = CsidOf(inWork[2].m) /\ inWork[2].done \in Nat
          /\ inWork[2].done < inWork[2].m.len
      BY <1>4, <1>7, WorkFields
    <3>2. inWork[2].m.type \notin {Audio, Video}
      BY <3>1 DEF CsidOf
    <3>3. inWork[2].m.len = 1
      BY <3>1, <3>2 DEF Msgs
    <3>4. QED
      BY <3>1, <3>3
  <2>2. QED
    BY <1>7, <2>1 DEF WriterAt
<1>9. wsize \in Nat \ {0} /\ s.size \in Nat \ {0}
  BY <1>7, Constants DEF WriterInv, Snapshots
<1>10. b = BodyOf(m, s.done[2], s.size) /\ b.size = 1
  BY <1>b, <1>4, <1>5, <1>8, <1>9, UnitBody
<1>11. l \in Lasts /\ Timed(l) /\ l.m = m /\ l.time = 0 /\ l.delta = Absent
  BY <1>4, <1>5 DEF Lasts, Timed
<1>12. s.done[2] + b.size = l.m.len
  BY <1>5, <1>8, <1>10, <1>11
<1> HIDE DEF s, h, l, t
<1>13. /\ t \in Snapshots /\ Sound(t)' /\ ChunkOf(2, s, h, b, t)'
       /\ t.fin = Len(finished')
       /\ t.last = [s.last EXCEPT ![2] = l]
       /\ t.done = [s.done EXCEPT ![2] =
                       IF s.done[2] + b.size = l.m.len THEN 0 ELSE s.done[2] + b.size]
       /\ t.size = IF s.done[2] + b.size = l.m.len /\ l.m.type = SetChunkSize
                   THEN l.m.val ELSE s.size
  <2>1. h = Header(2, 0, l.m, l.time) /\ b = BodyOf(l.m, s.done[2], s.size)
    BY <1>10, <1>11 DEF h
  <2>2. Begins(s.last[2], l, 0)
    BY <1>11 DEF Begins, Full
  <2>3. finished' = IF s.done[2] + b.size = l.m.len THEN Append(finished, l.m) ELSE finished
    BY <1>1, <1>11, <1>12
  <2>4. Writes(s, 2, l, 0, h, b)
    BY <1>1, <1>3, <1>7, <1>8, <1>11, <1>12, <2>1, <2>2, <2>3 DEF Writes
  <2>5. t = After(s, 2, l) /\ 0 \in 0..3
    BY DEF t
  <2>6. QED
    BY <1>7, <2>4, <2>5, AfterChunk
<1>14. s.last \in [Csids -> Lasts \cup {Absent}] /\ s.done \in [Csids -> Nat]
  BY <1>7 DEF Snapshots
<1>15. WriterAt(t)'
  <2>1. t.done = [s.done EXCEPT ![2] = 0] /\ t.size = s.size
    BY <1>5, <1>11, <1>12, <1>13
  <2>2. t.done[2] = 0 /\ \A d \in Csids : d # 2 => t.done[d] = s.done[d] /\ t.last[d] = s.last[d]
    BY <1>7, <1>13, <1>14, <2>1
  <2>3. t.last[2] = l
    BY <1>7, <1>13, <1>14
  <2>4. /\ \A d \in Csids :
              IF inWork[d] # Absent /\ inWork[d].done > 0
              THEN s.done[d] = inWork[d].done /\ s.last[d].m = inWork[d].m
              ELSE s.done[d] = 0
        /\ \A d \in Csids : s.last[d] # Absent => s.last[d].delta = Absent
        /\ IF inWork[2] # Absent /\ inWork[2].m.type = SetChunkSize THEN wsize = inWork[2].m.val
           ELSE s.size = wsize
    BY <1>4 DEF WriterAt, s
  <2>5. \A d \in Csids :
           IF inWork[d] # Absent /\ inWork[d].done > 0
           THEN t.done[d] = inWork[d].done /\ t.last[d].m = inWork[d].m
           ELSE t.done[d] = 0
    <3> SUFFICES ASSUME NEW d \in Csids
                 PROVE  IF inWork[d] # Absent /\ inWork[d].done > 0
                        THEN t.done[d] = inWork[d].done /\ t.last[d].m = inWork[d].m
                        ELSE t.done[d] = 0
      OBVIOUS
    <3>1. CASE d = 2
      <4>1. ~(inWork[d] # Absent /\ inWork[d].done > 0)
        BY <1>8, <3>1
      <4>2. QED
        BY <2>2, <3>1, <4>1
    <3>2. CASE d # 2
      BY <2>2, <2>4, <3>2
    <3>3. QED
      BY <3>1, <3>2
  <2>6. \A d \in Csids : t.last[d] # Absent => t.last[d].delta = Absent
    BY <1>11, <2>2, <2>3, <2>4
  <2>7. QED
    BY <1>1, <1>4, <1>13, <2>1, <2>4, <2>5, <2>6 DEF WriterAt
<1>16. EndsAt(k + 1)'
  <2>1. Len(stream') = 2 * (k + 1)
    BY <1>2, <1>6
  <2>2. QED
    BY <1>6, <2>1 DEF EndsAt
<1>17. 2 * k + 2 <= Len(stream') /\ stream'[2 * k + 1] = h /\ stream'[2 * k + 2] = b
  <2>1. 2 * k + 1 \in 1..Len(stream) /\ Len(stream) + 1 = 2 * k + 2
    BY <1>6
  <2>2. stream'[2 * k + 1] = stream[2 * k + 1]
    BY <1>2, <2>1 DEF Extends
  <2>3. QED
    BY <1>2, <1>6, <2>1, <2>2
<1>18. ChunkOf(2, S[k], h, b, t)'
  BY <1>13 DEF s
<1>19. QED
  BY <1>2, <1>3, <1>7, <1>13, <1>15, <1>16, <1>17, <1>18, ChainGrows

\* A peer's chunk size is the one its messages told.
LEMMA PeerSize ==
    ASSUME WriterInv, ~ours, NEW s, WriterAt(s)
    PROVE  s.size = wsize /\ s.last = lastHdr
<1>1. ASSUME inWork[2] # Absent, inWork[2].m.type = SetChunkSize PROVE FALSE
  <2>1. 2 \in Csids
    BY Constants
  <2>2. /\ inWork[2].m \in Msgs /\ inWork[2].done \in Nat /\ inWork[2].done > 0
        /\ inWork[2].done < inWork[2].m.len
    BY <1>1, <2>1, WorkFields
  <2>3. inWork[2].m.len = 1
    BY <1>1, <2>2, MsgFields
  <2>4. QED
    BY <2>2, <2>3
<1>2. QED
  BY <1>1 DEF WriterAt

\* A peer starts a message.
LEMMA PeerStartStream ==
    ASSUME WriterInv, ReaderInv, NEW m \in Messages(count.msg + 1), NEW c \in Csids, NEW fmt \in 0..3,
           PeerStart(m, c, fmt),
           NEW k \in Nat, NEW S \in [0..k -> Snapshots], Chain(S, k), ReaderAt(S[0]),
           WriterAt(S[k]), EndsAt(k)
    PROVE  StreamInv'
<1> DEFINE s == S[k]
<1>a. PICK b : b = BodyOf(m, 0, wsize)
  OBVIOUS
<1>b. PICK l : l = StartOf(m, c, fmt)
  OBVIOUS
<1> DEFINE h == Header(c, fmt, m, l.time)
<1> DEFINE t == After(s, c, l)
<1>1. /\ WriterInv' /\ Extends /\ stream' \in Seq(Headers \cup Bodies)
      /\ m \in Msgs /\ l \in Lasts /\ Timed(l)
      /\ Len(stream') = Len(stream) + 2
      /\ stream'[Len(stream) + 1] = h /\ stream'[Len(stream) + 2] = b
      /\ finished' = IF b.size = m.len THEN Append(finished, m) ELSE finished
      /\ wsize' = IF b.size = m.len /\ m.type = SetChunkSize THEN m.val ELSE wsize
      /\ lastHdr' = [lastHdr EXCEPT ![c] = l]
      /\ inWork' = [inWork EXCEPT ![c] = IF b.size = m.len THEN Absent ELSE [m |-> m, done |-> b.size]]
      /\ bigDelta' = (bigDelta \/ (l.delta # Absent /\ l.delta >= ExtTs /\ b.size # m.len))
  BY <1>a, <1>b, PeerStartKeeps
<1>2. /\ ~ours /\ inWork[c] = Absent
      /\ (fmt # 0 => lastHdr[c] # Absent)
      /\ (fmt \in {2, 3} => m.len = lastHdr[c].m.len /\ m.type = lastHdr[c].m.type)
      /\ (fmt = 3 => IF Full(lastHdr[c], fmt) THEN m.ts = lastHdr[c].m.ts
                     ELSE lastHdr[c].delta = (m.ts - lastHdr[c].m.ts) % TsMod)
      /\ ours' = ours /\ half' = half
  BY DEF PeerStart, Full
<1>3. Len(stream') \in Nat /\ Len(finished') \in Nat /\ Len(stream) \in Nat /\ finished \in Seq(Msgs)
  BY <1>1, LenProperties DEF WriterInv, ReaderInv
<1>4. half = {} /\ Len(stream) = 2 * k
  BY <1>2 DEF WriterInv, EndsAt
<1>5. s \in Snapshots /\ Sound(s) /\ s.fin = Len(finished) /\ s.done[c] = 0
  BY <1>2 DEF Chain, WriterAt
<1>6. s.size = wsize /\ s.last = lastHdr
  BY <1>2, PeerSize
<1>7. /\ l.m = m /\ l.delta = IF Full(lastHdr[c], fmt) THEN Absent ELSE (m.ts - lastHdr[c].m.ts) % TsMod
  BY <1>b, <1>1, <1>2, StartOfFields
<1>8. Begins(s.last[c], l, fmt)
  BY <1>2, <1>6, <1>7 DEF Begins, Full
<1>9. b = BodyOf(m, s.done[c], s.size) /\ m.len \in Nat /\ wsize \in Nat \ {0}
  BY <1>a, <1>1, <1>5, <1>6, MsgFields, Constants DEF WriterInv
<1>10. b.size \in Nat /\ (m.len # 0 => b.size > 0) /\ b.size <= m.len
  <2>1. 0 \in 0..m.len
    BY <1>9
  <2>2. b.size \in 0..(m.len - 0) /\ b.size \in Nat
    BY <1>a, <1>1, <1>9, <2>1, BodyFields
  <2>3. 0 < m.len => b.size > 0
    BY <1>a, <1>1, <1>9, <2>1, BodyFields
  <2>4. QED
    BY <1>9, <2>2, <2>3
<1> HIDE DEF s, h, t
<1>11. s.done[c] + b.size = b.size
  BY <1>5, <1>10
<1>12. /\ t \in Snapshots /\ Sound(t)' /\ ChunkOf(c, s, h, b, t)'
       /\ t.fin = Len(finished')
       /\ t.last = [s.last EXCEPT ![c] = l]
       /\ t.done = [s.done EXCEPT ![c] =
                       IF s.done[c] + b.size = l.m.len THEN 0 ELSE s.done[c] + b.size]
       /\ t.size = IF s.done[c] + b.size = l.m.len /\ l.m.type = SetChunkSize
                   THEN l.m.val ELSE s.size
  <2>1. h = Header(c, fmt, l.m, l.time) /\ b = BodyOf(l.m, s.done[c], s.size)
    BY <1>7, <1>9 DEF h
  <2>2. finished' = IF s.done[c] + b.size = l.m.len THEN Append(finished, l.m) ELSE finished
    BY <1>1, <1>7, <1>11
  <2>3. s.done[c] + b.size # l.m.len /\ ~bigDelta' => (l.delta = Absent \/ l.delta < ExtTs)
    <3>1. l.delta # Absent => l.delta \in Nat
      BY <1>1 DEF Lasts, Timestamps
    <3>2. l.delta # Absent /\ ~(l.delta < ExtTs) => l.delta >= ExtTs
      BY <3>1, Constants
    <3>3. QED
      BY <1>1, <1>7, <1>11, <3>2, Zenon
  <2>4. bigDelta => bigDelta'
    BY <1>1, Zenon
  <2>5. Writes(s, c, l, fmt, h, b)
    BY <1>1, <1>3, <1>5, <1>8, <2>1, <2>2, <2>3, <2>4 DEF Writes
  <2>6. t = After(s, c, l)
    BY DEF t
  <2>7. QED
    BY <2>5, <2>6, AfterChunk
<1>13. s.last \in [Csids -> Lasts \cup {Absent}] /\ s.done \in [Csids -> Nat] /\ inWork \in [Csids -> Works \cup {Absent}]
  BY <1>5 DEF Snapshots, WriterInv
<1>14. WriterAt(t)'
  <2>1. t.last = lastHdr' /\ t.size = wsize' /\ t.last[c] = l
    BY <1>1, <1>6, <1>7, <1>11, <1>12, <1>13
  <2>2. \A d \in Csids :
           IF inWork[d] # Absent /\ inWork[d].done > 0
           THEN s.done[d] = inWork[d].done /\ s.last[d].m = inWork[d].m
           ELSE s.done[d] = 0
    BY DEF WriterAt, s
  <2>3. \A d \in Csids : d # c => inWork'[d] = inWork[d] /\ t.done[d] = s.done[d] /\ t.last[d] = s.last[d]
    BY <1>1, <1>12, <1>13
  <2>4. IF inWork'[c] # Absent /\ inWork'[c].done > 0
        THEN t.done[c] = inWork'[c].done /\ t.last[c].m = inWork'[c].m
        ELSE t.done[c] = 0
    <3>1. CASE b.size = m.len
      <4>1. inWork'[c] = Absent /\ t.done[c] = 0
        BY <1>1, <1>7, <1>11, <1>12, <1>13, <3>1
      <4>2. QED
        BY <4>1
    <3>2. CASE b.size # m.len
      <4>1. inWork'[c] = [m |-> m, done |-> b.size] /\ t.done[c] = b.size
        BY <1>1, <1>7, <1>11, <1>12, <1>13, <3>2
      <4>2. inWork'[c].m = m /\ inWork'[c].done = b.size /\ b.size > 0
        BY <1>9, <1>10, <3>2, <4>1
      <4>3. inWork'[c] # Absent
        <5>1. [m |-> m, done |-> b.size] \in Works
          BY <1>1, <1>10 DEF Works
        <5>2. QED
          BY <4>1, <5>1, Constants
      <4>4. QED
        BY <1>7, <2>1, <4>1, <4>2, <4>3
    <3>3. QED
      BY <3>1, <3>2
  <2>5. \A d \in Csids :
           IF inWork'[d] # Absent /\ inWork'[d].done > 0
           THEN t.done[d] = inWork'[d].done /\ t.last[d].m = inWork'[d].m
           ELSE t.done[d] = 0
    <3> SUFFICES ASSUME NEW d \in Csids
                 PROVE  IF inWork'[d] # Absent /\ inWork'[d].done > 0
                        THEN t.done[d] = inWork'[d].done /\ t.last[d].m = inWork'[d].m
                        ELSE t.done[d] = 0
      OBVIOUS
    <3>1. CASE d = c
      BY <2>4, <3>1
    <3>2. CASE d # c
      BY <2>2, <2>3, <3>2
    <3>3. QED
      BY <3>1, <3>2
  <2>6. inWork'[2] # Absent /\ inWork'[2].m.type = SetChunkSize => FALSE
    <3> SUFFICES ASSUME inWork'[2] # Absent, inWork'[2].m.type = SetChunkSize PROVE FALSE
      OBVIOUS
    <3>1. 2 \in Csids
      BY Constants
    <3>2. /\ inWork'[2].m \in Msgs /\ inWork'[2].done \in Nat /\ inWork'[2].done > 0
          /\ inWork'[2].done < inWork'[2].m.len
      <4>1. inWork'[2] \in Works
        BY <1>1, <3>1 DEF WriterInv
      <4>2. QED
        BY <1>1, <1>2, <3>1, <4>1 DEF WriterInv, Works
    <3>3. inWork'[2].m.len = 1
      BY <3>2, MsgFields
    <3>4. QED
      BY <3>2, <3>3
  <2>7. QED
    BY <1>2, <1>12, <2>1, <2>5, <2>6 DEF WriterAt
<1>15. EndsAt(k + 1)'
  <2>1. Len(stream') = 2 * (k + 1)
    BY <1>1, <1>4
  <2>2. QED
    BY <1>2, <1>4, <2>1 DEF EndsAt
<1>16. 2 * k + 2 <= Len(stream') /\ stream'[2 * k + 1] = h /\ stream'[2 * k + 2] = b
  BY <1>1, <1>4
<1>17. ChunkOf(c, S[k], h, b, t)'
  BY <1>12 DEF s
<1>18. QED
  BY <1>1, <1>3, <1>12, <1>14, <1>15, <1>16, <1>17, ChainGrows

\* A peer goes on with a message; its last first chunk stays what it was.
LEMMA PeerContinueStream ==
    ASSUME WriterInv, ReaderInv, NEW c \in Csids, PeerContinue(c),
           NEW k \in Nat, NEW S \in [0..k -> Snapshots], Chain(S, k), ReaderAt(S[0]),
           WriterAt(S[k]), EndsAt(k)
    PROVE  StreamInv'
<1> DEFINE s == S[k]
<1>a. PICK m : m = inWork[c].m
  OBVIOUS
<1>b. PICK done : done = inWork[c].done
  OBVIOUS
<1>c. PICK b : b = BodyOf(m, done, wsize)
  OBVIOUS
<1> DEFINE l == s.last[c]
<1> DEFINE h == Header(c, 3, m, l.time)
<1> DEFINE t == After(s, c, l)
<1>1. /\ ~ours /\ inWork[c] # Absent /\ Advance(c, b)
      /\ UNCHANGED <<ours, wsize, lastHdr, half, ackBody, count, raced, bigDelta, readerVars>>
  BY <1>a, <1>b, <1>c DEF PeerContinue
<1>2. m \in Msgs /\ done \in Nat /\ done > 0 /\ done < m.len /\ m.len \in Nat
  BY <1>a, <1>b, <1>1, WorkFields, MsgFields
<1>3. s \in Snapshots /\ Sound(s) /\ s.fin = Len(finished) /\ s.done[c] = done /\ l.m = m
  BY <1>a, <1>b, <1>1, <1>2 DEF Chain, WriterAt
<1>4. s.size = wsize /\ s.last = lastHdr
  BY <1>1, PeerSize
<1>5. /\ l \in Lasts /\ Timed(l) /\ (~bigDelta => l.delta = Absent \/ l.delta < ExtTs)
  <2>1. l # Absent /\ Timed(l) /\ (~bigDelta => l.delta = Absent \/ l.delta < ExtTs)
    BY <1>2, <1>3 DEF Sound
  <2>2. l \in Lasts \cup {Absent}
    BY <1>3 DEF Snapshots
  <2>3. QED
    BY <2>1, <2>2
<1>6. /\ WriterInv' /\ Extends /\ stream' \in Seq(Headers \cup Bodies)
      /\ Len(stream') = Len(stream) + 2
      /\ stream'[Len(stream) + 1] = h /\ stream'[Len(stream) + 2] = b
  <2>1. lastHdr[c] = l
    BY <1>4
  <2>2. QED
    BY <1>a, <1>b, <1>c, <1>5, <2>1, PeerContinueKeeps
<1>7. Len(stream') \in Nat /\ Len(finished') \in Nat /\ Len(stream) \in Nat /\ finished \in Seq(Msgs)
  BY <1>6, LenProperties DEF WriterInv, ReaderInv
<1>8. half = {} /\ Len(stream) = 2 * k
  BY <1>1 DEF WriterInv, EndsAt
<1>9. wsize \in Nat \ {0} /\ b = BodyOf(m, s.done[c], s.size) /\ m.type # SetChunkSize
  BY <1>c, <1>2, <1>3, <1>4, MsgFields, Constants DEF WriterInv
<1>10. b.size \in Nat
  <2>1. done \in 0..m.len
    BY <1>2
  <2>2. wsize \in Nat \ {0} /\ m \in Msgs
    BY <1>2, <1>9
  <2>3. b.size \in 0..(m.len - done) /\ b.size \in Nat
    BY <1>c, <2>1, <2>2, BodyFields
  <2>4. QED
    BY <2>3
<1>11. finished' = (IF done + b.size = m.len THEN Append(finished, m) ELSE finished)
       /\ inWork' = [inWork EXCEPT ![c] = IF done + b.size = m.len THEN Absent
                                          ELSE [m |-> m, done |-> done + b.size]]
  BY <1>a, <1>b, <1>1 DEF Advance
<1> HIDE DEF s, l, h, t
<1>12. /\ t \in Snapshots /\ Sound(t)' /\ ChunkOf(c, s, h, b, t)'
       /\ t.fin = Len(finished')
       /\ t.last = [s.last EXCEPT ![c] = l]
       /\ t.done = [s.done EXCEPT ![c] =
                       IF s.done[c] + b.size = l.m.len THEN 0 ELSE s.done[c] + b.size]
       /\ t.size = IF s.done[c] + b.size = l.m.len /\ l.m.type = SetChunkSize
                   THEN l.m.val ELSE s.size
  <2>1. h = Header(c, 3, l.m, l.time) /\ b = BodyOf(l.m, s.done[c], s.size)
    BY <1>3, <1>9 DEF h
  <2>2. finished' = IF s.done[c] + b.size = l.m.len THEN Append(finished, l.m) ELSE finished
    BY <1>3, <1>11
  <2>3. (s.done[c] + b.size # l.m.len /\ ~bigDelta' => (l.delta = Absent \/ l.delta < ExtTs))
        /\ (bigDelta => bigDelta')
    BY <1>1, <1>5
  <2>4. s.done[c] # 0 /\ l = s.last[c]
    BY <1>2, <1>3 DEF l
  <2>5. Writes(s, c, l, 3, h, b)
    BY <1>3, <1>5, <1>7, <2>1, <2>2, <2>3, <2>4 DEF Writes
  <2>6. t = After(s, c, l) /\ 3 \in 0..3
    BY DEF t
  <2>7. QED
    BY <2>5, <2>6, AfterChunk
<1>13. s.last \in [Csids -> Lasts \cup {Absent}] /\ s.done \in [Csids -> Nat] /\ inWork \in [Csids -> Works \cup {Absent}]
  BY <1>3 DEF Snapshots, WriterInv
<1>14. WriterAt(t)'
  <2>1. t.last = lastHdr' /\ t.size = wsize' /\ t.last[c] = l
    <3>1. t.last = s.last
      BY <1>12, <1>13 DEF l
    <3>2. t.size = s.size
      BY <1>3, <1>9, <1>12
    <3>3. QED
      BY <1>1, <1>4, <3>1, <3>2 DEF l
  <2>2. \A d \in Csids :
           IF inWork[d] # Absent /\ inWork[d].done > 0
           THEN s.done[d] = inWork[d].done /\ s.last[d].m = inWork[d].m
           ELSE s.done[d] = 0
    BY DEF WriterAt, s
  <2>3. \A d \in Csids : d # c => inWork'[d] = inWork[d] /\ t.done[d] = s.done[d] /\ t.last[d] = s.last[d]
    BY <1>11, <1>12, <1>13
  <2>4. IF inWork'[c] # Absent /\ inWork'[c].done > 0
        THEN t.done[c] = inWork'[c].done /\ t.last[c].m = inWork'[c].m
        ELSE t.done[c] = 0
    <3>1. CASE done + b.size = m.len
      <4>1. inWork'[c] = Absent /\ t.done[c] = 0
        BY <1>3, <1>11, <1>12, <1>13, <3>1
      <4>2. QED
        BY <4>1
    <3>2. CASE done + b.size # m.len
      <4>1. inWork'[c] = [m |-> m, done |-> done + b.size] /\ t.done[c] = done + b.size
        BY <1>3, <1>11, <1>12, <1>13, <3>2
      <4>2. inWork'[c].m = m /\ inWork'[c].done = done + b.size /\ done + b.size > 0
        BY <1>2, <1>10, <4>1
      <4>3. inWork'[c] # Absent
        <5>1. [m |-> m, done |-> done + b.size] \in Works
          BY <1>2, <1>10 DEF Works
        <5>2. QED
          BY <4>1, <5>1, Constants
      <4>4. QED
        BY <1>3, <2>1, <4>1, <4>2, <4>3
    <3>3. QED
      BY <3>1, <3>2
  <2>5. \A d \in Csids :
           IF inWork'[d] # Absent /\ inWork'[d].done > 0
           THEN t.done[d] = inWork'[d].done /\ t.last[d].m = inWork'[d].m
           ELSE t.done[d] = 0
    <3> SUFFICES ASSUME NEW d \in Csids
                 PROVE  IF inWork'[d] # Absent /\ inWork'[d].done > 0
                        THEN t.done[d] = inWork'[d].done /\ t.last[d].m = inWork'[d].m
                        ELSE t.done[d] = 0
      OBVIOUS
    <3>1. CASE d = c
      BY <2>4, <3>1
    <3>2. CASE d # c
      BY <2>2, <2>3, <3>2
    <3>3. QED
      BY <3>1, <3>2
  <2>6. t.fin = Len(finished') /\ ~ours'
    BY <1>1, <1>12
  <2>7. inWork'[2] # Absent /\ inWork'[2].m.type = SetChunkSize => FALSE
    <3> SUFFICES ASSUME inWork'[2] # Absent, inWork'[2].m.type = SetChunkSize PROVE FALSE
      OBVIOUS
    <3>1. 2 \in Csids
      BY Constants
    <3>2. /\ inWork'[2].m \in Msgs /\ inWork'[2].done \in Nat /\ inWork'[2].done > 0
          /\ inWork'[2].done < inWork'[2].m.len
      <4>1. inWork'[2] \in Works
        BY <1>6, <3>1 DEF WriterInv
      <4>2. QED
        BY <1>6, <2>6, <3>1, <4>1 DEF WriterInv, Works
    <3>3. inWork'[2].m.len = 1
      BY <3>2, MsgFields
    <3>4. QED
      BY <3>2, <3>3
  <2>8. QED
    BY <2>1, <2>5, <2>6, <2>7 DEF WriterAt
<1>15. EndsAt(k + 1)'
  <2>1. Len(stream') = 2 * (k + 1)
    BY <1>6, <1>8
  <2>2. QED
    BY <1>1, <1>8, <2>1 DEF EndsAt
<1>16. 2 * k + 2 <= Len(stream') /\ stream'[2 * k + 1] = h /\ stream'[2 * k + 2] = b
  BY <1>6, <1>8
<1>17. ChunkOf(c, S[k], h, b, t)'
  BY <1>12 DEF s
<1>18. QED
  BY <1>6, <1>7, <1>12, <1>14, <1>15, <1>16, <1>17, ChainGrows

-----------------------------------------------------------------------------
(* The theorems.                                                           *)

\* The inductive invariant.
ChunkInv == WriterInv /\ ReaderInv /\ PoolInv /\ AckInv /\ StreamInv

\* At the start there is one snapshot: nothing written, nothing read.
LEMMA ChunkStarts == ChunkInit => ChunkInv
<1> SUFFICES ASSUME ChunkInit PROVE ChunkInv
  OBVIOUS
<1>1. WriterInv
  <2>1. <<>> \in Seq(Msgs)
    BY EmptySeq
  <2>a. MaxMsgs \in Nat /\ MaxAcks \in Nat
    BY ChunkAssumption
  <2>b. 0 \in 0..MaxMsgs /\ 0 \in 0..MaxAcks
    BY <2>a
  <2>2. count \in [msg : 0..MaxMsgs, ack : 0..MaxAcks]
    BY <2>b DEF ChunkInit
  <2>3. inWork \in [Csids -> Works \cup {Absent}] /\ lastHdr \in [Csids -> Lasts \cup {Absent}]
        /\ \A c \in Csids : inWork[c] = Absent
    BY DEF ChunkInit
  <2>4. QED
    BY <2>1, <2>2, <2>3 DEF ChunkInit, WriterInv
<1>2. Len(<<>>) = 0 /\ 1..Len(<<>>) = {} /\ 0 <= 0
  BY EmptySeq
<1>3. delivered = <<>> /\ finished = <<>> /\ stream = <<>> /\ Len(delivered) = 0 /\ Len(finished) = 0 /\ Len(stream) = 0
  BY <1>2 DEF ChunkInit
<1>4. \A k \in DOMAIN entries : entries[k] = Absent
  BY DEF ChunkInit
<1>5. ReaderInv
  <2>1. stream \in Seq(Headers \cup Bodies) /\ delivered \in Seq(Entries)
    BY <1>3, EmptySeq
  <2>2. rsize \in Nat \ {0} /\ window \in Windows \cup {InitWindow}
    BY Constants DEF ChunkInit
  <2>3. DOMAIN entries = 0..63 \cap (Csids \cup {0, 1}) /\ readErr = ""
    BY DEF ChunkInit
  <2>4. Len(delivered) <= Len(finished) /\ 1..Len(delivered) = {}
    BY <1>2, <1>3
  <2>5. QED
    BY <1>4, <2>1, <2>2, <2>3, <2>4 DEF ReaderInv
<1>6. PoolInv
  <2>a. PoolSize \in Nat
    BY ChunkAssumption
  <2>b. 0 \in 0..PoolSize /\ 1 \in Nat \ {0}
    BY <2>a
  <2>1. pool \in Pools
    BY <2>b DEF ChunkInit, Pools
  <2>2. Unread = {} /\ 1..Len(delivered) = {}
    BY <1>2, <1>3, <1>4 DEF Unread
  <2>3. QED
    BY <2>1, <2>2 DEF PoolInv
<1>7. AckInv
  <2>a. InitWindow \in Nat \ {0}
    BY ChunkAssumption
  <2>b. acked = 0 /\ ackReceived = 0 /\ window = InitWindow
    BY DEF ChunkInit
  <2>1. acked = 0 /\ ackReceived = 0 /\ ackReceived < window
    BY <2>a, <2>b
  <2>2. PICK f : f = [i \in 0..0 |-> 0]
    OBVIOUS
  <2>3. f \in [0..0 -> Nat] /\ f[0] = 0
    BY <2>2
  <2>4. Sums(f, delivered)
    BY <1>2, <1>3, <2>3 DEF Sums
  <2>5. QED
    BY <1>3, <2>1, <2>3, <2>4 DEF AckInv
<1>8. StreamInv
  <2> DEFINE s == [last |-> [c \in Csids |-> Absent], done |-> [c \in Csids |-> 0], size |-> InitSize, fin |-> 0]
  <2> DEFINE S == [i \in 0..0 |-> s]
  <2>1. /\ s.last = [c \in Csids |-> Absent] /\ s.done = [c \in Csids |-> 0] /\ s.size = InitSize /\ s.fin = 0
        /\ s \in Snapshots
    BY DEF Snapshots
  <2> HIDE DEF s
  <2>2. S \in [0..0 -> Snapshots] /\ S[0] = s /\ \A i \in 0..0 : S[i] = s
    BY <2>1
  <2> HIDE DEF S
  <2>3. \A c \in Csids : s.last[c] = Absent /\ s.done[c] = 0
    BY <2>1
  <2>4. Sound(s)
    BY <1>3, <2>1, <2>3 DEF Sound
  <2>5. Chain(S, 0)
    <3>1. 1..0 = {} /\ 2 * 0 <= Len(stream)
      BY <1>3
    <3>2. QED
      BY <2>2, <2>4, <3>1 DEF Chain
  <2>6. ReaderAt(s)
    <3>1. \A c \in Csids : entries[EntryOf(c)] = Absent
      BY <1>4, EntryInDomain DEF ChunkInit
    <3>2. QED
      BY <1>3, <2>1, <2>3, <3>1 DEF ChunkInit, ReaderAt, EntryAt
  <2>7. WriterAt(s) /\ EndsAt(0)
    <3>1. \A c \in Csids : inWork[c] = Absent
      BY DEF ChunkInit
    <3>2. inWork[2] = Absent
      BY <3>1, Constants
    <3>3. s.last = lastHdr /\ s.size = wsize /\ half = {}
      BY <2>1 DEF ChunkInit
    <3>4. WriterAt(s)
      BY <1>3, <2>1, <2>3, <3>1, <3>2, <3>3 DEF WriterAt
    <3>5. EndsAt(0)
      BY <1>3, <3>3 DEF EndsAt
    <3>6. QED
      BY <3>4, <3>5
  <2>8. QED
    BY <2>2, <2>5, <2>6, <2>7 DEF StreamInv
<1>9. QED
  BY <1>1, <1>5, <1>6, <1>7, <1>8 DEF ChunkInv

\* What a writer's step has to keep.
LEMMA WriterLeaves ==
    ASSUME ReaderInv, PoolInv, AckInv, Extends, WriterInv, WriterInv',
           stream' \in Seq(Headers \cup Bodies)
    PROVE  ReaderInv' /\ PoolInv' /\ AckInv'
<1>1. UNCHANGED <<entries, rsize, window, ackReceived, acked, pool, delivered, readErr>>
  BY DEF Extends, readerVars
<1>2. PoolInv'
  BY <1>1 DEF PoolInv, Unread, PlacedIn, Apart
<1>3. AckInv'
  BY <1>1 DEF AckInv, Sums
<1>4. ReaderInv'
  <2>1. Len(delivered) \in Nat /\ Len(finished) \in Nat /\ Len(finished') \in Nat
    BY LenProperties DEF ReaderInv, WriterInv
  <2>a. Len(delivered) <= Len(finished)
    BY DEF ReaderInv
  <2>b. Len(finished) <= Len(finished')
    BY DEF Extends
  <2>2. Len(delivered') <= Len(finished')
    BY <1>1, <2>1, <2>a, <2>b
  <2>3. \A i \in 1..Len(delivered) : i \in 1..Len(finished)
    BY <2>1, <2>a
  <2>4. \A i \in 1..Len(delivered') : IsMessage(delivered'[i], finished'[i])
    BY <1>1, <2>3 DEF ReaderInv, Extends
  <2>5. /\ (readErr \in {"invalid remain", "out of step"} => raced \/ bigDelta)'
        /\ (readErr = "panic" => Len(stream) >= 1 /\ stream[1].len > PoolSize)'
    <3>1. Len(stream) \in Nat /\ Len(stream') \in Nat
      BY LenProperties DEF ReaderInv
    <3>2. Len(stream) >= 1 => Len(stream') >= 1 /\ stream'[1] = stream[1]
      BY <3>1 DEF Extends
    <3>3. QED
      BY <1>1, <3>2 DEF ReaderInv, Extends
  <2>6. /\ rsize' \in Nat \ {0}
        /\ window' \in Windows \cup {InitWindow} /\ delivered' \in Seq(Entries)
        /\ readErr' \in {"", "invalid remain", "out of step", "panic"}
        /\ DOMAIN entries' = 0..63 \cap (Csids \cup {0, 1})
        /\ \A n \in DOMAIN entries' : entries'[n] # Absent =>
              entries'[n] \in Entries /\ entries'[n].index + entries'[n].remain = entries'[n].len
    BY <1>1 DEF ReaderInv
  <2>7. QED
    BY <2>2, <2>4, <2>5, <2>6 DEF ReaderInv, IsMessage
<1>5. QED
  BY <1>2, <1>3, <1>4

\* Every step keeps the invariant.
LEMMA ChunkStep == OneEntryEach /\ ChunkInv /\ [ChunkNext]_chunkVars => ChunkInv'
<1> SUFFICES ASSUME OneEntryEach, ChunkInv, [ChunkNext]_chunkVars PROVE ChunkInv'
  OBVIOUS
<1>0. WriterInv /\ ReaderInv /\ PoolInv /\ AckInv /\ StreamInv
  BY DEF ChunkInv
<1>a. PICK k \in Nat : \E S \in [0..k -> Snapshots] :
         /\ Chain(S, k) /\ ReaderAt(S[0])
         /\ (WriterAt(S[k]) /\ EndsAt(k)) \/ BrokenAt(k)
  BY <1>0 DEF StreamInv
<1>b. PICK S \in [0..k -> Snapshots] :
         /\ Chain(S, k) /\ ReaderAt(S[0])
         /\ (WriterAt(S[k]) /\ EndsAt(k)) \/ BrokenAt(k)
  BY <1>a
<1>c. ASSUME WriterInv', Extends, stream' \in Seq(Headers \cup Bodies),
             WriterAt(S[k]) /\ EndsAt(k) => StreamInv'
      PROVE  ChunkInv'
  <2>1. ReaderInv' /\ PoolInv' /\ AckInv'
    BY <1>0, <1>c, WriterLeaves
  <2>2. Len(stream') \in Nat /\ Len(finished') \in Nat
    BY <1>c, LenProperties DEF WriterInv
  <2>3. BrokenAt(k) => StreamInv'
    BY <1>0, <1>b, <1>c, <2>2, BrokenStays
  <2>4. StreamInv'
    BY <1>b, <1>c, <2>3
  <2>5. QED
    BY <1>c, <2>1, <2>4 DEF ChunkInv
<1>1. ASSUME NEW m \in Messages(count.msg + 1), WriteMessage(m) PROVE ChunkInv'
  <2>1. WriterInv' /\ Extends /\ stream' \in Seq(Headers \cup Bodies)
    BY <1>0, <1>1, WriteMessageKeeps
  <2>2. WriterAt(S[k]) /\ EndsAt(k) => StreamInv'
    BY <1>0, <1>b, <1>1, WriteMessageStream
  <2>3. QED
    BY <1>c, <2>1, <2>2
<1>2. ASSUME NEW m \in Messages(count.msg + 1), NEW c \in {2} \cup PeerStreams, NEW fmt \in 0..3,
             PeerStart(m, c, fmt)
      PROVE  ChunkInv'
  <2>1. c \in Csids
    BY DEF Csids
  <2>2. WriterInv' /\ Extends /\ stream' \in Seq(Headers \cup Bodies)
    BY <1>0, <1>2, <2>1, PeerStartKeeps
  <2>3. WriterAt(S[k]) /\ EndsAt(k) => StreamInv'
    BY <1>0, <1>b, <1>2, <2>1, PeerStartStream
  <2>4. QED
    BY <1>c, <2>2, <2>3
<1>3. ASSUME NEW c \in Csids, WriteHeader(c) PROVE ChunkInv'
  <2>1. WriterInv' /\ Extends /\ stream' \in Seq(Headers \cup Bodies)
    BY <1>0, <1>3, WriteHeaderKeeps
  <2>2. WriterAt(S[k]) /\ EndsAt(k) => StreamInv'
    BY <1>0, <1>b, <1>3, WriteHeaderStream
  <2>3. QED
    BY <1>c, <2>1, <2>2
<1>4. ASSUME NEW c \in Csids, WriteBody(c) PROVE ChunkInv'
  <2>1. WriterInv' /\ Extends /\ stream' \in Seq(Headers \cup Bodies)
    BY <1>0, <1>4, WriteBodyKeeps
  <2>2. WriterAt(S[k]) /\ EndsAt(k) => StreamInv'
    BY <1>0, <1>b, <1>4, WriteBodyStream
  <2>3. QED
    BY <1>c, <2>1, <2>2
<1>5. ASSUME NEW c \in Csids, PeerContinue(c) PROVE ChunkInv'
  <2>1. WriterAt(S[k]) /\ EndsAt(k) => StreamInv'
    BY <1>0, <1>b, <1>5, PeerContinueStream
  <2>3. WriterInv' /\ Extends /\ stream' \in Seq(Headers \cup Bodies)
    BY <1>0, <1>5, PeerContinueKeeps
  <2>4. QED
    BY <1>c, <2>1, <2>3
<1>6. CASE AckHeader
  <2>1. WriterInv' /\ Extends /\ stream' \in Seq(Headers \cup Bodies)
    BY <1>0, <1>6, AckHeaderKeeps
  <2>2. WriterAt(S[k]) /\ EndsAt(k) => StreamInv'
    BY <1>0, <1>b, <1>6, AckHeaderStream
  <2>3. QED
    BY <1>c, <2>1, <2>2
<1>7. CASE AckBody
  <2>1. WriterInv' /\ Extends /\ stream' \in Seq(Headers \cup Bodies)
    BY <1>0, <1>7, AckBodyKeeps
  <2>2. WriterAt(S[k]) /\ EndsAt(k) => StreamInv'
    BY <1>0, <1>b, <1>7, AckBodyStream
  <2>3. QED
    BY <1>c, <2>1, <2>2
<1>8. CASE ReadChunk
  <2>1. StreamInv' /\ ReaderInv' /\ PoolInv' /\ AckInv'
    BY <1>0, <1>8, ReadStep
  <2>2. UNCHANGED <<ours, wsize, inWork, lastHdr, half, ackBody, count, raced, bigDelta, finished>>
    BY <1>8 DEF ReadChunk, writerVars
  <2>3. WriterInv'
    BY <1>0, <2>2 DEF WriterInv, CsidOf
  <2>4. QED
    BY <2>1, <2>3 DEF ChunkInv
<1>9. CASE UNCHANGED chunkVars
  <2>1. /\ UNCHANGED <<ours, wsize, inWork, lastHdr, half, ackBody, count, raced, bigDelta, finished>>
        /\ UNCHANGED <<entries, rsize, window, ackReceived, acked, pool, delivered, readErr>>
        /\ stream' = stream
    BY <1>9 DEF chunkVars, writerVars, readerVars
  <2>2. WriterInv'
    BY <1>0, <2>1 DEF WriterInv, CsidOf
  <2>3. StreamInv'
    BY <1>0, <2>1, StutterKeepsStream
  <2>4. Extends /\ stream' \in Seq(Headers \cup Bodies)
    <3>1. Len(finished) \in Nat /\ Len(stream) \in Nat
      BY <1>0, LenProperties DEF WriterInv, ReaderInv
    <3>2. Len(stream) <= Len(stream') /\ Len(finished) <= Len(finished')
          /\ (\A j \in 1..Len(stream) : stream'[j] = stream[j])
          /\ (\A i \in 1..Len(finished) : finished'[i] = finished[i])
      BY <2>1, <3>1
    <3>3. (raced => raced') /\ (bigDelta => bigDelta')
      BY <2>1, Zenon
    <3>4. Extends
      BY <2>1, <3>2, <3>3, Zenon DEF Extends, readerVars
    <3>5. QED
      BY <1>0, <2>1, <3>4 DEF ReaderInv
  <2>5. QED
    BY <1>c, <2>2, <2>3, <2>4
<1>10. QED
  BY <1>1, <1>2, <1>3, <1>4, <1>5, <1>6, <1>7, <1>8, <1>9 DEF ChunkNext

\* Type correctness holds for every writer and every length: messages, entries
\* and what is due have their types, a message that Conn.Read has begun fits a
\* buffer of the pool, and no more of it remains than it has.
THEOREM ChunkTypeCorrect == OneEntryEach => (ChunkSpec => []ChunkTypeOK)
<1>1. ChunkInv => ChunkTypeOK
  <2> SUFFICES ASSUME ChunkInv PROVE ChunkTypeOK
    OBVIOUS
  <2>1. WriterInv /\ ReaderInv /\ PoolInv /\ StreamInv
    BY DEF ChunkInv
  <2>2. rsize \in Sizes \cup {InitSize}
    <3>1. PICK k \in Nat : \E S \in [0..k -> Snapshots] : ReaderAt(S[0])
      BY <2>1 DEF StreamInv
    <3>2. PICK S \in [0..k -> Snapshots] : ReaderAt(S[0])
      BY <3>1
    <3>3. S[0] \in Snapshots
      BY <3>2
    <3>4. S[0].size \in Sizes \cup {InitSize} /\ rsize = S[0].size
      BY <3>2, <3>3 DEF Snapshots, ReaderAt
    <3>5. QED
      BY <3>4
  <2>3. pool.buf \in Nat \ {0} /\ pool.pos \in 0..PoolSize
    BY <2>1 DEF PoolInv, Pools
  <2>4. QED
    BY <2>1, <2>2, <2>3 DEF WriterInv, ReaderInv, ChunkTypeOK
<1>2. SUFFICES ASSUME OneEntryEach PROVE ChunkSpec => []ChunkTypeOK
  OBVIOUS
<1>3. ChunkInv /\ [ChunkNext]_chunkVars => ChunkInv'
  BY <1>2, ChunkStep
<1>4. QED
  BY <1>1, <1>3, ChunkStarts, PTL DEF ChunkSpec

\* As long as no acknowledgement is written in the middle of a chunk and no peer
\* splits a message with an extended time difference, Conn.Read returns the
\* messages in the order their last chunks were written, whole, with their own
\* times, types and bytes, in memory of their own, up to a message for which the
\* pool has no room.
THEOREM MessagesStayIntact == OneEntryEach => (ChunkSpec => []MessagesIntact)
<1>1. ChunkInv => MessagesIntact
  <2> SUFFICES ASSUME ChunkInv, ~raced, ~bigDelta
               PROVE  /\ readErr = "" \/ (readErr = "panic" /\ stream[1].len > PoolSize)
                      /\ PoolDisjoint
                      /\ Len(delivered) <= Len(finished)
                      /\ \A i \in DOMAIN delivered : IsMessage(delivered[i], finished[i])
    BY DEF MessagesIntact
  <2>1. ReaderInv /\ PoolInv
    BY DEF ChunkInv
  <2>2. delivered \in Seq(Entries)
    BY <2>1 DEF ReaderInv
  <2>3. DOMAIN delivered = 1..Len(delivered)
    BY <2>2, LenProperties
  <2>4. PoolDisjoint
    BY <2>1, <2>2, PoolKeepsApart
  <2>5. /\ readErr = "" \/ (readErr = "panic" /\ stream[1].len > PoolSize)
        /\ Len(delivered) <= Len(finished)
    BY <2>1 DEF ReaderInv
  <2>6. \A i \in 1..Len(delivered) : IsMessage(delivered[i], finished[i])
    BY <2>1 DEF ReaderInv
  <2>7. QED
    BY <2>3, <2>4, <2>5, <2>6
<1>2. SUFFICES ASSUME OneEntryEach PROVE ChunkSpec => []MessagesIntact
  OBVIOUS
<1>3. ChunkInv /\ [ChunkNext]_chunkVars => ChunkInv'
  BY <1>2, ChunkStep
<1>4. QED
  BY <1>1, <1>3, ChunkStarts, PTL DEF ChunkSpec

\* Every byte Conn.Read returns is acknowledged exactly once, or counts towards
\* the window in force, which is not full, whatever windows and lengths come.
THEOREM AcksAccount == OneEntryEach => (ChunkSpec => []AckAccounts)
<1>1. ChunkInv => AckAccounts
  <2> SUFFICES ASSUME ChunkInv PROVE AckAccounts
    OBVIOUS
  <2>1. AckInv /\ ReaderInv
    BY DEF ChunkInv
  <2>2. delivered \in Seq(Entries)
    BY <2>1 DEF ReaderInv
  <2>3. QED
    BY <2>1, <2>2, AcksAdd
<1>2. SUFFICES ASSUME OneEntryEach PROVE ChunkSpec => []AckAccounts
  OBVIOUS
<1>3. ChunkInv /\ [ChunkNext]_chunkVars => ChunkInv'
  BY <1>2, ChunkStep
<1>4. QED
  BY <1>1, <1>3, ChunkStarts, PTL DEF ChunkSpec
=============================================================================

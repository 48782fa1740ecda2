--------------------------- MODULE HlsSourceProofs ---------------------------
(***************************************************************************)
(* The segments, the window and the playlist of an HLS source, for every   *)
(* segment length, window size, stream and interleaving of the sender, a   *)
(* playlist handler and Close; and the source's audio clock, for every     *)
(* tick rate, tolerance, frame length and publisher.                       *)
(***************************************************************************)
EXTENDS HlsSource, AudioAlign, SequenceTheorems, TLAPS

Data == Frames \cup {Tables}
Segments == [seq : Nat, name : Nat, dur : Int, data : Seq(Data)]
Nodes == [seq : Nat, key : Nat]

\* The sender is inside SetItem.
Cutting == spc \in {"evict", "delete", "store", "push"}

\* The newest segment in the list, and the newest one in the map.
Top == IF Cutting THEN seq - 1 ELSE seq
Stored == IF spc \in {"evict", "delete", "store"} THEN seq - 1 ELSE seq

\* The list element of the h-th of the segments e.
NodeOf(e, h) == [seq |-> h, key |-> e[h].name]

\* The frames of the segments cut, and of the one being written.
CutIds == UNION {Ids(emitted[j].data) : j \in 1..Len(emitted)}
OpenIds == IF cleaned THEN {} ELSE Ids(acache) \cup (IF bts = Nil THEN {} ELSE Ids(bts))

SourceTypeOK ==
    /\ spc \in {"loop", "gone", "cut", "mux", "evict", "delete", "store", "push"}
    /\ spc \notin {"loop", "gone"} => pkt \in Frames
    /\ bts \in Seq(Data) \cup {Nil} /\ acache \in Seq(Frames)
    /\ stat.set \in BOOLEAN /\ stat.first \in Nat /\ stat.last \in Nat
    /\ seq \in Nat /\ clock \in Nat /\ now \in Nat /\ received \in 0..MaxPackets
    /\ emitted \in Seq(Segments) /\ fed \in Seq(Frames) /\ ll \in Seq(Nodes)
    /\ cleaned \in BOOLEAN

\* The list holds the newest segments, in order, MaxTSNum of them when there
\* are so many, one less while the sender replaces one.
WindowInv ==
    /\ seq = Len(emitted) /\ \A h \in 1..Len(emitted) : emitted[h].seq = h
    /\ Cutting => seq > 0 /\ item = emitted[seq]
    /\ Len(ll) <= Top
    /\ Len(ll) <= IF spc \in {"delete", "store", "push"} THEN MaxTSNum - 1 ELSE MaxTSNum
    /\ Len(ll) < Top => Len(ll) >= IF spc \in {"delete", "store", "push"} THEN MaxTSNum - 1 ELSE MaxTSNum
    /\ \A j \in 1..Len(ll) : ll[j] = NodeOf(emitted, Top - Len(ll) + j)
    /\ spc = "delete" => Len(ll) < Top /\ out = emitted[Top - Len(ll)].name

\* The map holds what the list names, and the segments that are recent enough.
MapInv ==
    ~collided =>
        /\ \A h, m \in 1..Len(emitted) : emitted[h].name = emitted[m].name => h = m
        /\ \A k \in DOMAIN lm : \E h \in 1..Stored : k = emitted[h].name /\ lm[k] = emitted[h]
        /\ \A h \in 1..Stored : h > seq - MaxTSNum => emitted[h].name \in DOMAIN lm
        /\ \A j \in 1..Len(ll) : ll[j].key \in DOMAIN lm

\* What the handler holds was in the list when it saw it; an element that is
\* still in the list has been written down before the handler goes on.
HandlerInv ==
    ~collided =>
        /\ playlist \in Seq(Segments)
        /\ \A j \in 1..Len(playlist) :
              playlist[j].seq \in 1..Top /\ playlist[j] = emitted[playlist[j].seq]
        /\ \A j \in 1..Len(playlist) - 1 : playlist[j + 1].seq = playlist[j].seq + 1
        /\ rpc \in {"visit", "next"} /\ node # Nil => node.seq \in 1..Top /\ node = NodeOf(emitted, node.seq)
        /\ rpc = "visit" /\ node # Nil /\ playlist # <<>> =>
              node.seq = playlist[Len(playlist)].seq + 1
        /\ rpc = "next" => /\ node # Nil
                           /\ (\E j \in 1..Len(ll) : ll[j] = node) =>
                                 playlist # <<>> /\ playlist[Len(playlist)].seq = node.seq

\* Frames are numbered in the order they were fed; those of a segment come
\* before those of the next, and the one in work after all of them.
SplitInv ==
    /\ CutIds \subseteq Ids(fed) /\ OpenIds \subseteq Ids(fed)
    /\ ~cleaned => Ids(fed) \subseteq CutIds \cup OpenIds
    /\ \A j, k \in 1..Len(emitted) : j < k =>
          \A a \in Ids(emitted[j].data), b \in Ids(emitted[k].data) : a < b
    /\ \A a \in CutIds, b \in OpenIds : a < b
    /\ \A h \in 1..Len(fed) : fed[h].id <= received
    /\ spc \notin {"loop", "gone"} =>
          pkt.id <= received /\ \A h \in 1..Len(fed) : fed[h].id < pkt.id
    /\ \A h, m \in 1..Len(fed) : h < m => fed[h].id < fed[m].id

\* The buffer is empty, or starts with the tables; the first frame after them
\* is the key frame that started the segment, and its timestamp is the one
\* the status has kept; the last timestamp is that of the frame fed last.
BufferInv ==
    ~cleaned =>
        /\ bts = Nil => ~stat.set /\ acache = <<>>
        /\ bts # Nil => Len(bts) >= 1 /\ bts[1] = Tables
        /\ bts # Nil /\ stat.set =>
              /\ Len(bts) >= 2 /\ bts[2].kind = "key" /\ stat.first = bts[2].ts
              /\ Len(fed) >= 1 /\ fed[Len(fed)].id \in OpenIds /\ stat.last = fed[Len(fed)].ts
        /\ bts # Nil /\ ~stat.set =>
              Len(bts) = 1 /\ acache = <<>> /\ pkt.kind = "key" /\ (Cutting \/ spc = "mux")
        /\ spc = "cut" => pkt.kind = "key"

\* The segment's last frame gives its duration.
ShapeInv ==
    \A j \in 1..Len(emitted) :
        LET d == emitted[j].data
        IN  /\ Len(d) >= 2 /\ d[1] = Tables /\ d[2].kind = "key"
            /\ emitted[j].dur >= Duration
            /\ \E h \in 1..Len(fed) :
                  /\ fed[h].id \in Ids(d) /\ \A b \in Ids(d) : b <= fed[h].id
                  /\ emitted[j].dur = fed[h].ts - d[2].ts

SourceInv ==
    SourceTypeOK /\ WindowInv /\ MapInv /\ HandlerInv /\ SplitInv /\ BufferInv /\ ShapeInv

-----------------------------------------------------------------------------
(* The frames of a buffer.                                                 *)

\* Frames and tables have natural numbers for ids, frames not 0.
LEMMA FrameFields ==
    /\ \A f \in Frames : f.id \in Nat \ {0} /\ f.kind \in FrameKinds /\ f.ts \in Nat
    /\ \A f \in Data : f.id \in Nat
    /\ Tables \in Data /\ Tables.id = 0
    /\ \A t \in Seq(Frames) : t \in Seq(Data)
<1>1. \A f \in Frames : f.id \in Nat \ {0} /\ f.kind \in FrameKinds /\ f.ts \in Nat
  BY SourceAssumption DEF Frames
<1>2. Tables \in Data /\ Tables.id = 0
  BY DEF Data, Tables
<1>3. \A f \in Data : f.id \in Nat
  BY <1>1, <1>2 DEF Data
<1>4. \A t \in Seq(Frames) : t \in Seq(Data)
  BY DEF Data
<1>5. QED
  BY <1>1, <1>2, <1>3, <1>4

LEMMA IdsEmpty == Ids(<<>>) = {} /\ Ids(<<Tables>>) = {}
<1>1. Ids(<<>>) = {}
  BY DEF Ids
<1>2. Ids(<<Tables>>) = {}
  BY FrameFields DEF Ids
<1>3. QED
  BY <1>1, <1>2

LEMMA IdsAppend ==
    ASSUME NEW t \in Seq(Data), NEW f \in Frames
    PROVE  Ids(Append(t, f)) = Ids(t) \cup {f.id}
<1>1. f.id # 0 /\ f \in Data
  BY FrameFields DEF Data
<1>2. /\ DOMAIN t = 1..Len(t) /\ DOMAIN Append(t, f) = 1..(Len(t) + 1) /\ Len(t) \in Nat
      /\ \A i \in 1..Len(t) : Append(t, f)[i] = t[i]
      /\ Append(t, f)[Len(t) + 1] = f
  BY <1>1, AppendProperties, LenProperties
<1>3. \A i \in 1..(Len(t) + 1) : i \in 1..Len(t) \/ i = Len(t) + 1
  BY <1>2
<1>4. QED
  BY <1>1, <1>2, <1>3 DEF Ids

LEMMA IdsConcat ==
    ASSUME NEW t \in Seq(Data), NEW u \in Seq(Data)
    PROVE  Ids(t \o u) = Ids(t) \cup Ids(u)
<1>1. /\ Len(t) \in Nat /\ Len(u) \in Nat
      /\ DOMAIN t = 1..Len(t) /\ DOMAIN u = 1..Len(u) /\ DOMAIN (t \o u) = 1..(Len(t) + Len(u))
      /\ \A i \in 1..(Len(t) + Len(u)) : (t \o u)[i] = IF i <= Len(t) THEN t[i] ELSE u[i - Len(t)]
  BY ConcatProperties, LenProperties
<1>2. \A i \in 1..(Len(t) + Len(u)) : i <= Len(t) \/ i - Len(t) \in 1..Len(u)
  BY <1>1
<1>3. ASSUME NEW i \in 1..Len(t) PROVE \E k \in 1..(Len(t) + Len(u)) : (t \o u)[k].id = t[i].id
  BY <1>1
<1>4. ASSUME NEW i \in 1..Len(u) PROVE \E k \in 1..(Len(t) + Len(u)) : (t \o u)[k].id = u[i].id
  <2>1. i + Len(t) \in 1..(Len(t) + Len(u)) /\ ~(i + Len(t) <= Len(t)) /\ (i + Len(t)) - Len(t) = i
    BY <1>1
  <2>2. QED
    BY <1>1, <2>1
<1>5. ASSUME NEW a \in Ids(t \o u) PROVE a \in Ids(t) \cup Ids(u)
  <2>1. PICK i \in 1..(Len(t) + Len(u)) : a = (t \o u)[i].id /\ a # 0
    BY <1>1 DEF Ids
  <2>2. CASE i <= Len(t)
    BY <1>1, <2>1, <2>2 DEF Ids
  <2>3. CASE ~(i <= Len(t))
    BY <1>1, <1>2, <2>1, <2>3 DEF Ids
  <2>4. QED
    BY <2>2, <2>3
<1>6. ASSUME NEW a \in Ids(t) \cup Ids(u) PROVE a \in Ids(t \o u)
  <2>1. CASE a \in Ids(t)
    <3>1. PICK i \in 1..Len(t) : a = t[i].id /\ a # 0
      BY <1>1, <2>1 DEF Ids
    <3>2. PICK k \in 1..(Len(t) + Len(u)) : (t \o u)[k].id = a
      BY <1>3, <3>1
    <3>3. QED
      BY <1>1, <3>1, <3>2 DEF Ids
  <2>2. CASE a \in Ids(u)
    <3>1. PICK i \in 1..Len(u) : a = u[i].id /\ a # 0
      BY <1>1, <2>2 DEF Ids
    <3>2. PICK k \in 1..(Len(t) + Len(u)) : (t \o u)[k].id = a
      BY <1>4, <3>1
    <3>3. QED
      BY <1>1, <3>1, <3>2 DEF Ids
  <2>3. QED
    BY <2>1, <2>2
<1>7. QED
  BY <1>5, <1>6

\* Every id of a buffer is one of its frames'.
LEMMA IdsOf ==
    ASSUME NEW t \in Seq(Frames)
    PROVE  /\ \A h \in 1..Len(t) : t[h].id \in Ids(t)
           /\ \A a \in Ids(t) : \E h \in 1..Len(t) : a = t[h].id
<1>1. DOMAIN t = 1..Len(t) /\ \A h \in 1..Len(t) : t[h] \in Frames
  BY LenProperties, ElementOfSeq
<1>2. \A h \in 1..Len(t) : t[h].id # 0
  BY <1>1, FrameFields
<1>3. QED
  BY <1>1, <1>2 DEF Ids

LEMMA IdsAreNat ==
    ASSUME NEW t \in Seq(Data)
    PROVE  Ids(t) \subseteq Nat
<1>1. DOMAIN t = 1..Len(t) /\ \A h \in 1..Len(t) : t[h] \in Data
  BY LenProperties, ElementOfSeq
<1>2. QED
  BY <1>1, FrameFields DEF Ids

-----------------------------------------------------------------------------
(* The steps, one part of the invariant after the other.                   *)

\* What a cut adds to the segments.
LEMMA CutFacts ==
    ASSUME SourceTypeOK, CutSegment
    PROVE  /\ bts \in Seq(Data) /\ bts \o acache \in Seq(Data) /\ bts' = <<Tables>>
           /\ item' \in Segments /\ item'.seq = seq + 1 /\ item'.data = bts \o acache
           /\ item'.dur = stat.last - stat.first
           /\ emitted' \in Seq(Segments) /\ Len(emitted) \in Nat /\ Len(emitted') = Len(emitted) + 1
           /\ \A h \in 1..Len(emitted) : emitted'[h] = emitted[h]
           /\ emitted'[Len(emitted) + 1] = item'
           /\ ~collided' => ~collided /\ \A h \in 1..Len(emitted) : emitted[h].name # item'.name
<1>1. bts \in Seq(Data) /\ bts \o acache \in Seq(Data) /\ bts' = <<Tables>>
  BY FrameFields, ConcatProperties DEF SourceTypeOK, CutSegment
<1>2. PICK d \in ClockSteps : EndSegment(bts \o acache, clock + d)
  BY DEF CutSegment
<1>3. clock + d \in Nat /\ seq + 1 \in Nat /\ durationMs \in Int
  BY SourceAssumption DEF SourceTypeOK, durationMs
<1>4. item' = [seq |-> seq + 1, name |-> clock + d, dur |-> durationMs, data |-> bts \o acache]
  BY <1>2 DEF EndSegment
<1>5. /\ item' \in Segments /\ item'.seq = seq + 1 /\ item'.data = bts \o acache
      /\ item'.dur = stat.last - stat.first
  BY <1>1, <1>3, <1>4 DEF Segments, durationMs
<1>6. emitted' = Append(emitted, item')
  BY <1>2 DEF EndSegment
<1>7. /\ emitted' \in Seq(Segments) /\ Len(emitted) \in Nat /\ Len(emitted') = Len(emitted) + 1
      /\ \A h \in 1..Len(emitted) : emitted'[h] = emitted[h]
      /\ emitted'[Len(emitted) + 1] = item'
  BY <1>5, <1>6, AppendProperties, LenProperties DEF SourceTypeOK
<1>8. DOMAIN emitted = 1..Len(emitted) /\ item'.name = clock + d
  BY <1>4, LenProperties DEF SourceTypeOK
<1>9. ~collided' => ~collided /\ \A h \in 1..Len(emitted) : emitted[h].name # item'.name
  BY <1>2, <1>8 DEF EndSegment
<1>10. QED
  BY <1>1, <1>5, <1>7, <1>9

\* What SetItem adds to the list.
LEMMA PushFacts ==
    ASSUME SourceTypeOK, WindowInv, SetItemPush
    PROVE  /\ [seq |-> item.seq, key |-> item.name] = NodeOf(emitted, seq) /\ NodeOf(emitted, seq) \in Nodes
           /\ ll' \in Seq(Nodes) /\ Len(ll) \in Nat /\ Len(ll') = Len(ll) + 1
           /\ \A j \in 1..Len(ll) : ll'[j] = ll[j]
           /\ ll'[Len(ll) + 1] = NodeOf(emitted, seq)
<1>1. seq \in 1..Len(emitted) /\ emitted[seq] \in Segments /\ item = emitted[seq] /\ item.seq = seq
  BY ElementOfSeq, LenProperties DEF SourceTypeOK, WindowInv, SetItemPush, Cutting
<1>2. [seq |-> item.seq, key |-> item.name] = NodeOf(emitted, seq) /\ NodeOf(emitted, seq) \in Nodes
  BY <1>1 DEF NodeOf, Nodes, Segments
<1>3. QED
  BY <1>2, AppendProperties, LenProperties DEF SetItemPush, SourceTypeOK

LEMMA EvictFacts ==
    ASSUME SourceTypeOK, SetItemEvict, Len(ll) = MaxTSNum
    PROVE  /\ ll' = Tail(ll) /\ out' = ll[1].key /\ spc' = "delete"
           /\ ll' \in Seq(Nodes) /\ Len(ll) \in Nat \ {0} /\ Len(ll') = Len(ll) - 1
           /\ \A j \in 1..Len(ll') : ll'[j] = ll[j + 1] /\ j + 1 \in 1..Len(ll)
<1>1. ll # <<>> /\ Len(ll) \in Nat \ {0}
  BY SourceAssumption, LenProperties, EmptySeq DEF SourceTypeOK
<1>2. ll' = Tail(ll) /\ out' = ll[1].key /\ spc' = "delete"
  BY DEF SetItemEvict
<1>3. QED
  BY <1>1, <1>2, HeadTailProperties DEF SourceTypeOK

\* The types.
LEMMA SourceTypeStep == SourceInv /\ SourceNext => SourceTypeOK'
<1> SUFFICES ASSUME SourceInv, SourceNext PROVE SourceTypeOK'
  OBVIOUS
<1> USE SourceAssumption DEF SourceInv, SourceTypeOK
<1>1. ASSUME NEW k \in FrameKinds, NEW d \in TimeSteps, SendFrame(k, d) PROVE SourceTypeOK'
  <2>1. pkt' \in Frames /\ now' \in Nat /\ received' \in 0..MaxPackets
    BY <1>1 DEF SendFrame, Frames
  <2>2. QED
    BY <1>1, <2>1 DEF SendFrame, segments
<1>2. CASE SendSkips
  BY <1>2 DEF SendSkips, sourceVars, sender, segments, input
<1>3. CASE SendEnds
  BY <1>3 DEF SendEnds, segments, input
<1>4. CASE SendPanics
  BY <1>4 DEF SendPanics, segments, input
<1>5. CASE CutFirst
  <2>1. bts' \in Seq(Data)
    BY <1>5, FrameFields DEF CutFirst
  <2>2. QED
    BY <1>5, <2>1 DEF CutFirst, segments, input
<1>6. CASE CutShort
  BY <1>6 DEF CutShort, segments, input
<1>7. CASE CutSegment
  <2>1. bts' \in Seq(Data) /\ emitted' \in Seq(Segments) /\ acache' \in Seq(Frames)
    BY <1>7, CutFacts, FrameFields DEF CutSegment
  <2>2. seq' \in Nat /\ clock' \in Nat
    <3>1. PICK d \in ClockSteps : EndSegment(bts \o acache, clock + d)
      BY <1>7 DEF CutSegment
    <3>2. clock + d \in Nat /\ seq + 1 \in Nat
      OBVIOUS
    <3>3. QED
      BY <3>1, <3>2 DEF EndSegment
  <2>3. stat'.set \in BOOLEAN /\ stat'.first \in Nat /\ stat'.last \in Nat
    BY <1>7 DEF CutSegment
  <2>4. QED
    BY <1>7, <2>1, <2>2, <2>3 DEF CutSegment, segments
<1>8. CASE SetItemEvict
  <2>1. ll' \in Seq(Nodes)
    BY <1>8, EvictFacts DEF SetItemEvict
  <2>2. QED
    BY <1>8, <2>1 DEF SetItemEvict, CacheKeeps, input
<1>9. CASE SetItemDelete
  BY <1>9 DEF SetItemDelete, CacheKeeps, input
<1>10. CASE SetItemStore
  BY <1>10 DEF SetItemStore, CacheKeeps, input
<1>11. CASE SetItemPush
  BY <1>11, PushFacts DEF SetItemPush, CacheKeeps, input
<1>12. CASE MuxFrame
  <2>1. bts' \in Seq(Data) \cup {Nil} /\ acache' \in Seq(Frames) /\ fed' \in Seq(Frames)
    <3>1. pkt \in Frames /\ pkt \in Data
      BY <1>12 DEF MuxFrame, Data
    <3>2. Append(acache, pkt) \in Seq(Frames) /\ Append(fed, pkt) \in Seq(Frames)
      BY <3>1, AppendProperties
    <3>3. bts # Nil => Append(bts, pkt) \in Seq(Data) /\ bts \o Append(acache, pkt) \in Seq(Data)
      BY <3>1, <3>2, AppendProperties, ConcatProperties, FrameFields
    <3>4. CASE bts = Nil
      BY <1>12, <3>4 DEF MuxFrame
    <3>5. <<>> \in Seq(Frames)
      OBVIOUS
    <3>6. CASE bts # Nil /\ pkt.kind \in Video
      <4>1. bts' = Append(bts, pkt) /\ acache' = acache /\ fed' = Append(fed, pkt)
        BY <1>12, <3>6 DEF MuxFrame, Video
      <4>2. QED
        BY <3>2, <3>3, <3>6, <4>1
    <3>7. CASE bts # Nil /\ pkt.kind \notin Video
      <4>1. /\ fed' = Append(fed, pkt)
            /\ \/ bts' = bts /\ acache' = Append(acache, pkt)
               \/ bts' = bts \o Append(acache, pkt) /\ acache' = <<>>
        BY <1>12, <3>7 DEF MuxFrame
      <4>2. QED
        BY <3>2, <3>3, <3>5, <3>7, <4>1
    <3>8. QED
      BY <3>4, <3>6, <3>7
  <2>2. stat'.set \in BOOLEAN /\ stat'.first \in Nat /\ stat'.last \in Nat
    <3>1. CASE bts = Nil
      BY <1>12, <3>1 DEF MuxFrame
    <3>2. CASE bts # Nil
      <4>1. pkt.ts \in Nat
        BY <1>12, FrameFields DEF MuxFrame
      <4>2. stat' = [set |-> TRUE, first |-> IF stat.set THEN stat.first ELSE pkt.ts, last |-> pkt.ts]
        BY <1>12, <3>2 DEF MuxFrame, StatUpdate
      <4>3. QED
        BY <4>1, <4>2
    <3>3. QED
      BY <3>1, <3>2
  <2>3. QED
    BY <1>12, <2>1, <2>2 DEF MuxFrame, segments, input
<1>13. CASE Takeover
  BY <1>13 DEF Takeover, sender, segments
<1>14. CASE SourceCleanup
  BY <1>14 DEF SourceCleanup, segments, input
<1>15. CASE SourceCloseFlag
  BY <1>15 DEF SourceCloseFlag, sender, segments, input
<1>16. CASE GenM3U8PlayList \/ TsRequest
  <2>1. HandlerKeeps
    BY <1>16 DEF GenM3U8PlayList, PlaylistBegin, PlaylistVisit, PlaylistNext, PlaylistDone, TsRequest
  <2>2. QED
    BY <2>1 DEF HandlerKeeps, sender, segments, input
<1>17. QED
  BY <1>1, <1>2, <1>3, <1>4, <1>5, <1>6, <1>7, <1>8, <1>9, <1>10, <1>11, <1>12, <1>13,
     <1>14, <1>15, <1>16 DEF SourceNext, SendPacket

\* Steps outside SetItem leave the segments, the list and the map alone.
Quiet ==
    /\ UNCHANGED <<seq, item, out, ll, lm, emitted, collided>>
    /\ spc' = spc \/ (~Cutting /\ ~Cutting')

LEMMA QuietSteps ==
    ASSUME SourceNext, ~CutSegment, ~SetItemEvict, ~SetItemDelete, ~SetItemStore, ~SetItemPush
    PROVE  Quiet
<1> USE DEF Quiet, Cutting
<1>1. ASSUME NEW k \in FrameKinds, NEW d \in TimeSteps, SendFrame(k, d) PROVE Quiet
  BY <1>1 DEF SendFrame, segments
<1>2. CASE SendSkips
  BY <1>2 DEF SendSkips, sourceVars, sender, segments
<1>3. CASE SendEnds
  BY <1>3 DEF SendEnds, segments
<1>4. CASE SendPanics
  BY <1>4 DEF SendPanics, segments
<1>5. CASE CutFirst
  BY <1>5 DEF CutFirst, segments
<1>6. CASE CutShort
  BY <1>6 DEF CutShort, segments
<1>7. CASE MuxFrame
  BY <1>7 DEF MuxFrame, segments
<1>8. CASE Takeover
  BY <1>8 DEF Takeover, sender, segments
<1>9. CASE SourceCleanup
  BY <1>9 DEF SourceCleanup, segments
<1>10. CASE SourceCloseFlag
  BY <1>10 DEF SourceCloseFlag, sender, segments
<1>11. CASE GenM3U8PlayList \/ TsRequest
  BY <1>11 DEF GenM3U8PlayList, PlaylistBegin, PlaylistVisit, PlaylistNext, PlaylistDone,
     TsRequest, HandlerKeeps, sender, segments
<1>12. QED
  BY <1>1, <1>2, <1>3, <1>4, <1>5, <1>6, <1>7, <1>8, <1>9, <1>10, <1>11 DEF SourceNext, SendPacket

\* The list.
LEMMA WindowStep == SourceInv /\ SourceNext => WindowInv'
<1> SUFFICES ASSUME SourceInv, SourceNext PROVE WindowInv'
  OBVIOUS
<1> USE SourceAssumption DEF SourceInv
<1>0. Len(ll) \in Nat /\ Len(emitted) \in Nat /\ seq \in Nat
  BY LenProperties DEF SourceTypeOK
<1>1. CASE Quiet
  BY <1>1 DEF Quiet, WindowInv, Top, Cutting, NodeOf
<1>2. CASE CutSegment
  <2>1. seq' = seq + 1 /\ Cutting' /\ ~Cutting /\ Top' = seq /\ Top = seq /\ ll' = ll /\ spc' = "evict"
    BY <1>0, <1>2 DEF CutSegment, EndSegment, Cutting, Top, segments
  <2>2. /\ seq' = Len(emitted') /\ \A h \in 1..Len(emitted') : emitted'[h].seq = h
        /\ seq' > 0 /\ item' = emitted'[seq']
    <3>1. Len(emitted') = seq + 1 /\ seq = Len(emitted)
      BY <1>2, CutFacts DEF WindowInv
    <3>2. emitted'[seq + 1] = item' /\ item'.seq = seq + 1
      BY <1>2, <3>1, CutFacts
    <3>3. \A h \in 1..seq : emitted'[h].seq = h
      BY <1>2, <3>1, CutFacts DEF WindowInv
    <3>4. QED
      BY <1>0, <2>1, <3>1, <3>2, <3>3
  <2>3. \A j \in 1..Len(ll) : ll[j] = NodeOf(emitted', seq - Len(ll) + j) /\ Len(ll) <= seq
    <3>1. SUFFICES ASSUME NEW j \in 1..Len(ll)
                   PROVE  ll[j] = NodeOf(emitted', seq - Len(ll) + j) /\ Len(ll) <= seq
      OBVIOUS
    <3>2. Len(ll) <= seq /\ seq - Len(ll) + j \in 1..Len(emitted)
      BY <1>0, <2>1 DEF WindowInv
    <3>3. emitted'[seq - Len(ll) + j] = emitted[seq - Len(ll) + j]
      BY <1>2, <3>2, CutFacts
    <3>4. NodeOf(emitted', seq - Len(ll) + j) = NodeOf(emitted, seq - Len(ll) + j)
      BY <2>1, <3>3 DEF NodeOf
    <3>5. QED
      BY <2>1, <3>2, <3>4 DEF WindowInv
  <2>4. QED
    <3>1. spc = "cut" /\ Len(ll) <= seq /\ (Len(ll) < seq => Len(ll) >= MaxTSNum) /\ Len(ll) <= MaxTSNum
      BY <1>2, <2>1 DEF CutSegment, WindowInv
    <3>2. QED
      BY <1>0, <2>1, <2>2, <2>3, <3>1 DEF WindowInv
<1>3. CASE SetItemEvict
  <2>1. UNCHANGED <<seq, emitted, item>> /\ Cutting /\ Cutting' /\ Top' = Top
    BY <1>3 DEF SetItemEvict, CacheKeeps, Cutting, Top
  <2>2. CASE Len(ll) = MaxTSNum
    <3>1. /\ spc' = "delete" /\ Len(ll') = MaxTSNum - 1 /\ Len(ll) \in Nat \ {0} /\ out' = ll[1].key
          /\ \A j \in 1..Len(ll') : ll'[j] = ll[j + 1] /\ j + 1 \in 1..Len(ll)
      BY <1>3, <2>2, EvictFacts
    <3>2. Top \in Nat /\ Len(ll) <= Top /\ Top = seq - 1
      BY <1>0, <1>3, <2>1 DEF WindowInv, Top, SetItemEvict
    <3>3. ASSUME NEW j \in 1..Len(ll') PROVE ll'[j] = NodeOf(emitted', Top' - Len(ll') + j)
      <4>1. ll'[j] = NodeOf(emitted, Top - Len(ll) + (j + 1))
        BY <3>1, <3>3 DEF WindowInv
      <4>2. Top - Len(ll) + (j + 1) = Top - Len(ll') + j
        BY <3>1, <3>2, <2>2
      <4>3. QED
        BY <4>1, <4>2, <2>1 DEF NodeOf
    <3>4. out' = emitted'[Top' - Len(ll')].name
      <4>1. ll[1] = NodeOf(emitted, Top - Len(ll) + 1)
        BY <3>1 DEF WindowInv
      <4>2. Top - Len(ll) + 1 = Top - Len(ll')
        BY <3>1, <3>2, <2>2
      <4>3. QED
        BY <3>1, <4>1, <4>2, <2>1 DEF NodeOf
    <3>5. QED
      BY <1>0, <2>1, <2>2, <3>1, <3>2, <3>3, <3>4 DEF WindowInv
  <2>3. CASE Len(ll) # MaxTSNum
    BY <1>0, <1>3, <2>1, <2>3 DEF WindowInv, NodeOf, SetItemEvict
  <2>4. QED
    BY <2>2, <2>3
<1>4. CASE SetItemDelete
  BY <1>0, <1>4 DEF SetItemDelete, CacheKeeps, WindowInv, NodeOf, Top, Cutting
<1>5. CASE SetItemStore
  BY <1>0, <1>5 DEF SetItemStore, CacheKeeps, WindowInv, NodeOf, Top, Cutting
<1>6. CASE SetItemPush
  <2>1. UNCHANGED <<seq, emitted>> /\ Cutting /\ ~Cutting' /\ Top' = seq /\ Top = seq - 1
    BY <1>6 DEF SetItemPush, CacheKeeps, Cutting, Top
  <2>2. Len(ll') = Len(ll) + 1 /\ \A j \in 1..Len(ll) : ll'[j] = ll[j]
    BY <1>6, PushFacts
  <2>3. ll'[Len(ll) + 1] = NodeOf(emitted, seq)
    BY <1>6, PushFacts
  <2>4. ASSUME NEW j \in 1..Len(ll') PROVE ll'[j] = NodeOf(emitted', Top' - Len(ll') + j)
    <3>1. Top' - Len(ll') + j = Top - Len(ll) + j
      BY <1>0, <2>1, <2>2
    <3>2. CASE j \in 1..Len(ll)
      BY <2>1, <2>2, <3>1, <3>2 DEF WindowInv, NodeOf
    <3>3. CASE j = Len(ll) + 1
      <4>1. Top - Len(ll) + j = seq
        BY <1>0, <2>1, <3>3
      <4>2. QED
        BY <2>1, <2>3, <3>1, <3>3, <4>1 DEF NodeOf
    <3>4. QED
      BY <1>0, <2>2, <3>2, <3>3
  <2>5. spc = "push" /\ spc' \in {"gone", "mux"}
    BY <1>6 DEF SetItemPush
  <2>6. QED
    BY <1>0, <2>1, <2>2, <2>4, <2>5 DEF WindowInv
<1>7. QED
  BY <1>1, <1>2, <1>3, <1>4, <1>5, <1>6, QuietSteps

\* The map.
LEMMA MapStep == SourceInv /\ SourceNext => MapInv'
<1> SUFFICES ASSUME SourceInv, SourceNext, ~collided' PROVE MapInv'
  BY DEF MapInv
<1> USE SourceAssumption
<1>0. Len(ll) \in Nat /\ Len(emitted) \in Nat /\ seq \in Nat /\ seq = Len(emitted)
  BY LenProperties DEF SourceInv, SourceTypeOK, WindowInv
<1>1. CASE Quiet
  BY <1>1 DEF Quiet, SourceInv, MapInv, Stored, Cutting
<1>2. CASE CutSegment
  <2>1. /\ seq' = seq + 1 /\ UNCHANGED <<ll, lm>> /\ Stored = seq /\ Stored' = seq
        /\ ~collided /\ \A h \in 1..Len(emitted) : emitted[h].name # emitted'[seq'].name
    <3>1. seq' = seq + 1 /\ UNCHANGED <<ll, lm>> /\ spc = "cut" /\ spc' = "evict"
      BY <1>2 DEF CutSegment, EndSegment, segments
    <3>2. ~collided /\ \A h \in 1..Len(emitted) : emitted[h].name # item'.name
      BY <1>2, CutFacts DEF SourceInv
    <3>3. emitted'[seq'] = item'
      BY <1>0, <1>2, <3>1, CutFacts DEF SourceInv
    <3>4. QED
      BY <1>0, <3>1, <3>2, <3>3 DEF Stored
  <2>2. Len(emitted') = seq' /\ \A h \in 1..seq : emitted'[h] = emitted[h]
    BY <1>0, <1>2, <2>1, CutFacts DEF SourceInv
  <2>3. \A h, m \in 1..Len(emitted') : emitted'[h].name = emitted'[m].name => h = m
    <3>1. SUFFICES ASSUME NEW h \in 1..seq', NEW m \in 1..seq', emitted'[h].name = emitted'[m].name
                   PROVE  h = m
      BY <2>2
    <3>2. h \in 1..seq \/ h = seq'
      BY <1>0, <2>1
    <3>3. m \in 1..seq \/ m = seq'
      BY <1>0, <2>1
    <3>4. CASE h \in 1..seq /\ m \in 1..seq
      BY <1>0, <2>1, <2>2, <3>1, <3>4 DEF SourceInv, MapInv
    <3>5. QED
      BY <1>0, <2>1, <2>2, <3>1, <3>2, <3>3, <3>4
  <2>4. \A k \in DOMAIN lm : \E h \in 1..seq : k = emitted'[h].name /\ lm[k] = emitted'[h]
    BY <2>1, <2>2 DEF SourceInv, MapInv
  <2>5. \A h \in 1..seq : h > seq' - MaxTSNum => emitted'[h].name \in DOMAIN lm
    BY <1>0, <2>1, <2>2 DEF SourceInv, MapInv
  <2>6. \A j \in 1..Len(ll) : ll[j].key \in DOMAIN lm
    BY <2>1 DEF SourceInv, MapInv
  <2>7. QED
    BY <2>1, <2>3, <2>4, <2>5, <2>6 DEF MapInv
<1>3. CASE SetItemEvict
  <2>1. UNCHANGED <<seq, emitted, lm, collided>> /\ Stored' = Stored
    BY <1>3 DEF SetItemEvict, CacheKeeps, Stored
  <2>2. CASE Len(ll) = MaxTSNum
    BY <1>3, <2>1, <2>2, EvictFacts DEF SourceInv, MapInv
  <2>3. CASE Len(ll) # MaxTSNum
    BY <1>3, <2>1, <2>3 DEF SourceInv, MapInv, SetItemEvict
  <2>4. QED
    BY <2>2, <2>3
<1>4. CASE SetItemDelete
  <2>1. /\ UNCHANGED <<seq, emitted, ll, collided>> /\ Stored' = Stored /\ Stored = seq - 1
        /\ lm' = [k \in DOMAIN lm \ {out} |-> lm[k]] /\ Top = seq - 1
    BY <1>4 DEF SetItemDelete, CacheKeeps, Stored, Top, Cutting
  <2>2. Len(ll) < Top /\ out = emitted[Top - Len(ll)].name /\ Len(ll) = MaxTSNum - 1
    <3>1. spc = "delete" /\ WindowInv
      BY <1>4 DEF SetItemDelete, SourceInv
    <3>2. Len(ll) < Top /\ out = emitted[Top - Len(ll)].name
      BY <3>1 DEF WindowInv
    <3>3. Len(ll) <= MaxTSNum - 1 /\ Len(ll) >= MaxTSNum - 1
      BY <3>1, <3>2 DEF WindowInv
    <3>4. QED
      BY <1>0, <3>2, <3>3
  <2>3. ASSUME NEW h \in 1..Stored, h > seq - MaxTSNum PROVE emitted[h].name \in DOMAIN lm \ {out}
    <3>1. h # Top - Len(ll) /\ h \in 1..Len(emitted) /\ Top - Len(ll) \in 1..Len(emitted)
      BY <1>0, <2>1, <2>2, <2>3
    <3>2. QED
      BY <2>1, <2>2, <2>3, <3>1 DEF SourceInv, MapInv
  <2>4. ASSUME NEW j \in 1..Len(ll) PROVE ll[j].key \in DOMAIN lm \ {out}
    <3>1. /\ Top - Len(ll) + j # Top - Len(ll) /\ Top - Len(ll) \in 1..Len(emitted)
          /\ Top - Len(ll) + j \in 1..Len(emitted)
      BY <1>0, <2>1, <2>2
    <3>2. ll[j].key = emitted[Top - Len(ll) + j].name
      <4>1. ll[j] = NodeOf(emitted, Top - Len(ll) + j)
        BY <2>4 DEF SourceInv, WindowInv
      <4>2. QED
        BY <4>1 DEF NodeOf
    <3>3. QED
      BY <2>1, <2>2, <2>4, <3>1, <3>2 DEF SourceInv, MapInv
  <2>5. QED
    BY <2>1, <2>3, <2>4 DEF SourceInv, MapInv
<1>5. CASE SetItemStore
  <2>1. /\ UNCHANGED <<seq, emitted, ll, collided>> /\ Stored' = seq /\ Stored = seq - 1
        /\ lm' = [k \in DOMAIN lm \cup {item.name} |-> IF k = item.name THEN item ELSE lm[k]]
    BY <1>5 DEF SetItemStore, CacheKeeps, Stored
  <2>2. seq \in 1..Len(emitted) /\ item = emitted[seq]
    BY <1>0, <1>5 DEF SetItemStore, SourceInv, WindowInv, Cutting
  <2>3. \A k \in DOMAIN lm' : \E h \in 1..seq : k = emitted[h].name /\ lm'[k] = emitted[h]
    <3>1. SUFFICES ASSUME NEW k \in DOMAIN lm'
                   PROVE  \E h \in 1..seq : k = emitted[h].name /\ lm'[k] = emitted[h]
      OBVIOUS
    <3>2. CASE k = item.name
      BY <1>0, <2>1, <2>2, <3>2
    <3>3. CASE k # item.name
      <4>1. k \in DOMAIN lm /\ lm'[k] = lm[k]
        BY <2>1, <3>1, <3>3
      <4>2. PICK h \in 1..Stored : k = emitted[h].name /\ lm[k] = emitted[h]
        BY <2>1, <4>1 DEF SourceInv, MapInv
      <4>3. QED
        BY <1>0, <2>1, <4>1, <4>2
    <3>4. QED
      BY <3>2, <3>3
  <2>4. \A h \in 1..seq : h > seq - MaxTSNum => emitted[h].name \in DOMAIN lm'
    <3>1. SUFFICES ASSUME NEW h \in 1..seq, h > seq - MaxTSNum PROVE emitted[h].name \in DOMAIN lm'
      OBVIOUS
    <3>2. h \in 1..Stored \/ h = seq
      BY <1>0, <2>1
    <3>3. QED
      BY <2>1, <2>2, <3>1, <3>2 DEF SourceInv, MapInv
  <2>5. \A j \in 1..Len(ll) : ll[j].key \in DOMAIN lm'
    BY <2>1 DEF SourceInv, MapInv
  <2>6. \A h, m \in 1..Len(emitted) : emitted[h].name = emitted[m].name => h = m
    BY <2>1 DEF SourceInv, MapInv
  <2>7. QED
    BY <2>1, <2>3, <2>4, <2>5, <2>6 DEF MapInv
<1>6. CASE SetItemPush
  <2>1. UNCHANGED <<seq, emitted, lm, collided>> /\ Stored' = seq /\ Stored = seq
    BY <1>6 DEF SetItemPush, CacheKeeps, Stored
  <2>2. seq \in 1..Len(emitted) /\ emitted[seq].name \in DOMAIN lm
    BY <1>0, <1>6, <2>1 DEF SetItemPush, SourceInv, WindowInv, MapInv, Cutting
  <2>3. /\ Len(ll') = Len(ll) + 1 /\ \A j \in 1..Len(ll) : ll'[j] = ll[j]
        /\ ll'[Len(ll) + 1].key = emitted[seq].name
    BY <1>6, PushFacts DEF SourceInv, NodeOf
  <2>4. ASSUME NEW j \in 1..Len(ll') PROVE ll'[j].key \in DOMAIN lm
    <3>1. j \in 1..Len(ll) \/ j = Len(ll) + 1
      BY <1>0, <2>3
    <3>2. QED
      BY <2>1, <2>2, <2>3, <3>1 DEF SourceInv, MapInv
  <2>5. QED
    BY <2>1, <2>4 DEF SourceInv, MapInv
<1>7. QED
  BY <1>1, <1>2, <1>3, <1>4, <1>5, <1>6, QuietSteps

\* The handler: the sender's steps keep what it holds, its own steps go on by
\* one element.
LEMMA HandlerKept ==
    ASSUME SourceInv, HandlerInv, ~collided, ~collided', UNCHANGED handler, Top' \in Nat, Top' >= Top,
           \A h \in 1..Top : emitted'[h] = emitted[h],
           \A j \in 1..Len(ll') : \/ \E i \in 1..Len(ll) : ll'[j] = ll[i]
                                  \/ ll'[j].seq > Top
    PROVE  HandlerInv'
<1>0. UNCHANGED <<rpc, node, playlist>> /\ Top \in Int
  BY SourceAssumption DEF handler, SourceInv, SourceTypeOK, Top
<1>1. /\ playlist \in Seq(Segments)
      /\ \A j \in 1..Len(playlist) - 1 : playlist[j + 1].seq = playlist[j].seq + 1
  BY DEF HandlerInv
<1>2. \A j \in 1..Len(playlist) : playlist[j].seq \in 1..Top' /\ playlist[j] = emitted'[playlist[j].seq]
  BY <1>0 DEF HandlerInv
<1>3. rpc \in {"visit", "next"} /\ node # Nil => node.seq \in 1..Top' /\ node = NodeOf(emitted', node.seq)
  BY <1>0 DEF HandlerInv, NodeOf
<1>4. rpc = "visit" /\ node # Nil /\ playlist # <<>> => node.seq = playlist[Len(playlist)].seq + 1
  BY DEF HandlerInv
<1>5. ASSUME rpc = "next", NEW j \in 1..Len(ll'), ll'[j] = node
      PROVE  playlist # <<>> /\ playlist[Len(playlist)].seq = node.seq
  <2>1. node.seq <= Top /\ node.seq \in Int
    BY <1>0, <1>5 DEF HandlerInv
  <2>2. \E i \in 1..Len(ll) : ll[i] = node
    BY <1>0, <1>5, <2>1
  <2>3. QED
    BY <1>5, <2>2 DEF HandlerInv
<1>6. rpc = "next" => node # Nil
  BY DEF HandlerInv
<1>7. QED
  BY <1>0, <1>1, <1>2, <1>3, <1>4, <1>5, <1>6 DEF HandlerInv

LEMMA HandlerStep == SourceInv /\ SourceNext => HandlerInv'
<1> SUFFICES ASSUME SourceInv, SourceNext, ~collided' PROVE HandlerInv'
  BY DEF HandlerInv
<1> USE SourceAssumption
<1>0. Len(ll) \in Nat /\ Len(emitted) \in Nat /\ seq \in Nat /\ seq = Len(emitted) /\ Top \in Nat
  BY LenProperties DEF SourceInv, SourceTypeOK, WindowInv, Top
<1>1. HandlerInv /\ MapInv /\ WindowInv /\ SourceTypeOK
  BY DEF SourceInv
<1>2. CASE Quiet /\ UNCHANGED handler
  <2>1. UNCHANGED <<ll, emitted, collided>> /\ Top' = Top
    BY <1>2 DEF Quiet, Top, Cutting
  <2>2. QED
    BY <1>0, <1>1, <1>2, <2>1, HandlerKept
<1>3. CASE CutSegment
  <2>1. Top' = Top /\ Top = seq /\ ll' = ll /\ UNCHANGED handler
    BY <1>0, <1>3 DEF CutSegment, EndSegment, Top, Cutting, segments
  <2>2. ~collided /\ \A h \in 1..Len(emitted) : emitted'[h] = emitted[h]
    BY <1>1, <1>3, CutFacts
  <2>3. QED
    BY <1>0, <1>1, <2>1, <2>2, HandlerKept
<1>4. CASE SetItemEvict
  <2>1. Top' = Top /\ UNCHANGED <<emitted, collided>> /\ UNCHANGED handler
    BY <1>4 DEF SetItemEvict, CacheKeeps, Top, Cutting
  <2>2. ASSUME NEW j \in 1..Len(ll') PROVE \E i \in 1..Len(ll) : ll'[j] = ll[i]
    <3>1. CASE Len(ll) = MaxTSNum
      BY <1>1, <1>4, <2>2, <3>1, EvictFacts
    <3>2. CASE Len(ll) # MaxTSNum
      BY <1>4, <2>2, <3>2 DEF SetItemEvict
    <3>3. QED
      BY <3>1, <3>2
  <2>3. QED
    BY <1>0, <1>1, <2>1, <2>2, HandlerKept
<1>5. CASE SetItemDelete \/ SetItemStore
  <2>1. Top' = Top /\ UNCHANGED <<emitted, collided, ll>> /\ UNCHANGED handler
    BY <1>5 DEF SetItemDelete, SetItemStore, CacheKeeps, Top, Cutting
  <2>2. QED
    BY <1>0, <1>1, <2>1, HandlerKept
<1>6. CASE SetItemPush
  <2>1. Top' = seq /\ Top = seq - 1 /\ UNCHANGED <<emitted, collided>> /\ UNCHANGED handler
    BY <1>6 DEF SetItemPush, CacheKeeps, Top, Cutting
  <2>2. /\ Len(ll') = Len(ll) + 1 /\ \A j \in 1..Len(ll) : ll'[j] = ll[j]
        /\ ll'[Len(ll) + 1].seq = seq
    BY <1>1, <1>6, PushFacts DEF NodeOf
  <2>3. ASSUME NEW j \in 1..Len(ll')
        PROVE  (\E i \in 1..Len(ll) : ll'[j] = ll[i]) \/ ll'[j].seq > Top
    <3>1. j \in 1..Len(ll) \/ j = Len(ll) + 1
      BY <1>0, <2>2
    <3>2. QED
      BY <1>0, <2>1, <2>2, <3>1
  <2>4. QED
    BY <1>0, <1>1, <2>1, <2>3, HandlerKept
<1>7. CASE GenM3U8PlayList
  <2>0. UNCHANGED <<ll, lm, emitted, collided, spc, seq>> /\ Top' = Top
    BY <1>7 DEF GenM3U8PlayList, PlaylistBegin, PlaylistVisit, PlaylistNext, PlaylistDone,
       HandlerKeeps, sender, segments, Top, Cutting
  <2>1. \A j \in 1..Len(ll) : ll[j] = NodeOf(emitted, ll[j].seq) /\ ll[j].seq = Top - Len(ll) + j
    <3>1. \A j \in 1..Len(ll) : ll[j] = NodeOf(emitted, Top - Len(ll) + j)
      BY <1>1 DEF WindowInv
    <3>2. \A h : NodeOf(emitted, h).seq = h
      BY DEF NodeOf
    <3>3. QED
      BY <3>1, <3>2
  <2>2. \A j \in 1..Len(ll) : ll[j].seq \in 1..Top
    <3>1. Top \in Nat /\ Len(ll) \in Nat /\ Len(ll) <= Top
      BY <1>0, <1>1 DEF WindowInv
    <3>2. \A j \in 1..Len(ll) : Top - Len(ll) + j \in 1..Top
      BY <3>1
    <3>3. QED
      BY <2>1, <3>2
  <2>3. DOMAIN ll = 1..Len(ll)
    BY <1>1, LenProperties DEF SourceTypeOK
  <2>4. CASE PlaylistBegin
    <3>1. rpc' = "visit" /\ playlist' = <<>> /\ node' = ElementAt(1)
      BY <2>4 DEF PlaylistBegin
    <3>2. node' # Nil => node'.seq \in 1..Top /\ node' = NodeOf(emitted, node'.seq)
      BY <2>1, <2>2, <2>3, <3>1 DEF ElementAt
    <3>3. QED
      BY <2>0, <3>1, <3>2 DEF HandlerInv
  <2>5. CASE PlaylistVisit
    <3>1. rpc = "visit" /\ rpc' = "next" /\ node # Nil /\ node' = node
      BY <2>5 DEF PlaylistVisit
    <3>2. node.seq \in 1..Top /\ node = NodeOf(emitted, node.seq) /\ node.key = emitted[node.seq].name
      BY <1>1, <2>0, <3>1 DEF HandlerInv, NodeOf
    <3>3. /\ playlist \in Seq(Segments) /\ Len(playlist) \in Nat
          /\ \A j \in 1..Len(playlist) :
                playlist[j].seq \in 1..Top /\ playlist[j] = emitted[playlist[j].seq]
          /\ \A j \in 1..Len(playlist) - 1 : playlist[j + 1].seq = playlist[j].seq + 1
          /\ playlist # <<>> => node.seq = playlist[Len(playlist)].seq + 1
      BY <1>1, <2>0, <3>1, LenProperties DEF HandlerInv
    <3>4. CASE node.key \in DOMAIN lm
      <4> DEFINE s == emitted[node.seq]
      <4>1. PICK h \in 1..Stored : node.key = emitted[h].name /\ lm[node.key] = emitted[h]
        BY <1>1, <2>0, <3>4 DEF MapInv
      <4>2. h \in 1..Len(emitted) /\ node.seq \in 1..Len(emitted)
        BY <1>0, <3>2 DEF Stored, Top
      <4>3. h = node.seq
        BY <1>1, <2>0, <3>2, <4>1, <4>2 DEF MapInv
      <4>4. playlist' = Append(playlist, s)
        BY <2>5, <3>4, <4>1, <4>3 DEF PlaylistVisit
      <4>5. s \in Segments /\ s.seq = node.seq
        BY <1>1, <4>2, ElementOfSeq DEF SourceTypeOK, WindowInv
      <4> HIDE DEF s
      <4>6. /\ playlist' \in Seq(Segments) /\ Len(playlist') = Len(playlist) + 1
            /\ \A j \in 1..Len(playlist) : playlist'[j] = playlist[j]
            /\ playlist'[Len(playlist) + 1] = s
        BY <3>3, <4>4, <4>5, AppendProperties
      <4>7. ASSUME NEW j \in 1..Len(playlist')
            PROVE  playlist'[j].seq \in 1..Top /\ playlist'[j] = emitted[playlist'[j].seq]
        <5>1. j \in 1..Len(playlist) \/ j = Len(playlist) + 1
          BY <3>3, <4>6
        <5>2. QED
          BY <3>2, <3>3, <4>5, <4>6, <5>1 DEF s
      <4>8. ASSUME NEW j \in 1..Len(playlist') - 1 PROVE playlist'[j + 1].seq = playlist'[j].seq + 1
        <5>1. CASE j = Len(playlist)
          <6>1. playlist # <<>> /\ j \in 1..Len(playlist)
            BY <3>3, <4>8, <5>1
          <6>2. QED
            BY <3>3, <4>5, <4>6, <5>1, <6>1
        <5>2. CASE j # Len(playlist)
          <6>1. j \in 1..Len(playlist) - 1 /\ j \in 1..Len(playlist) /\ j + 1 \in 1..Len(playlist)
            BY <3>3, <4>6, <4>8, <5>2
          <6>2. QED
            BY <3>3, <4>6, <6>1
        <5>3. QED
          BY <5>1, <5>2
      <4>9. playlist' # <<>> /\ playlist'[Len(playlist')].seq = node.seq
        BY <3>3, <4>5, <4>6
      <4>10. QED
        BY <2>0, <3>1, <3>2, <4>6, <4>7, <4>8, <4>9 DEF HandlerInv
    <3>5. CASE node.key \notin DOMAIN lm
      <4>1. playlist' = playlist
        BY <2>5, <3>5 DEF PlaylistVisit
      <4>2. ~(\E j \in 1..Len(ll) : ll[j] = node)
        BY <1>1, <2>0, <3>5 DEF MapInv
      <4>3. QED
        BY <2>0, <3>1, <3>2, <3>3, <4>1, <4>2 DEF HandlerInv
    <3>6. QED
      BY <3>4, <3>5
  <2>6. CASE PlaylistNext
    <3>1. rpc = "next" /\ rpc' = "visit" /\ playlist' = playlist /\ node # Nil
      BY <1>1, <2>0, <2>6 DEF PlaylistNext, HandlerInv
    <3>2. /\ playlist \in Seq(Segments)
          /\ \A j \in 1..Len(playlist) :
                playlist[j].seq \in 1..Top /\ playlist[j] = emitted[playlist[j].seq]
          /\ \A j \in 1..Len(playlist) - 1 : playlist[j + 1].seq = playlist[j].seq + 1
      BY <1>1, <2>0 DEF HandlerInv
    <3>3. CASE node' = Nil
      BY <2>0, <3>1, <3>2, <3>3 DEF HandlerInv
    <3>4. CASE node' # Nil
      <4>1. PICK i \in 1..Len(ll) : ll[i] = node /\ node' = ElementAt(1 + i)
        BY <2>3, <2>6, <3>4 DEF PlaylistNext
      <4>2. i + 1 \in 1..Len(ll) /\ node' = ll[i + 1]
        BY <1>0, <2>3, <3>4, <4>1 DEF ElementAt
      <4>3. playlist # <<>> /\ playlist[Len(playlist)].seq = node.seq
        BY <1>1, <2>0, <3>1, <4>1 DEF HandlerInv
      <4>4. node.seq = Top - Len(ll) + i /\ node'.seq = Top - Len(ll) + (i + 1)
        BY <2>1, <4>1, <4>2
      <4>5. node'.seq \in 1..Top /\ node' = NodeOf(emitted, node'.seq)
        BY <2>1, <2>2, <4>2
      <4>6. node'.seq = playlist[Len(playlist)].seq + 1
        BY <1>0, <4>3, <4>4
      <4>7. QED
        BY <2>0, <3>1, <3>2, <3>4, <4>5, <4>6 DEF HandlerInv
    <3>5. QED
      BY <3>3, <3>4
  <2>7. CASE PlaylistDone
    BY <1>1, <2>0, <2>7 DEF PlaylistDone, HandlerInv
  <2>8. QED
    BY <1>7, <2>4, <2>5, <2>6, <2>7 DEF GenM3U8PlayList
<1>8. GenM3U8PlayList \/ UNCHANGED handler
  BY DEF SourceNext, SendPacket, SendFrame, SendSkips, SendEnds, SendPanics, CutFirst, CutShort,
     CutSegment, SetItemEvict, SetItemDelete, SetItemStore, SetItemPush, CacheKeeps, MuxFrame,
     Takeover, SourceCleanup, SourceCloseFlag, TsRequest, sourceVars
<1>9. QED
  BY <1>2, <1>3, <1>4, <1>5, <1>6, <1>7, <1>8, QuietSteps

-----------------------------------------------------------------------------
(* The frames.                                                             *)

\* Steps that leave the buffers, the segments and the packet in work alone.
Frozen ==
    /\ UNCHANGED <<emitted, fed, bts, acache, cleaned, received, stat>>
    /\ cleaned \/ (pkt' = pkt /\ (Cutting \/ spc = "mux" => Cutting' \/ spc' = "mux"))
    /\ spc' = "cut" => spc = "cut"
    /\ spc' \notin {"loop", "gone"} => spc \notin {"loop", "gone"} /\ pkt' = pkt

LEMMA FrozenSteps ==
    ASSUME SourceNext, ~CutFirst, ~CutSegment, ~MuxFrame, ~SourceCleanup,
           \A k \in FrameKinds, d \in TimeSteps : ~SendFrame(k, d)
    PROVE  Frozen
<1> USE DEF Frozen, Cutting
<1>1. CASE SendSkips
  BY <1>1 DEF SendSkips, sourceVars, sender, input
<1>2. CASE SendEnds
  BY <1>2 DEF SendEnds, input
<1>3. CASE SendPanics
  BY <1>3 DEF SendPanics, input
<1>4. CASE CutShort
  BY <1>4 DEF CutShort, input
<1>5. CASE SetItemEvict
  BY <1>5 DEF SetItemEvict, CacheKeeps, input
<1>6. CASE SetItemDelete \/ SetItemStore
  BY <1>6 DEF SetItemDelete, SetItemStore, CacheKeeps, input
<1>7. CASE SetItemPush
  BY <1>7 DEF SetItemPush, CacheKeeps, input
<1>8. CASE Takeover
  BY <1>8 DEF Takeover, sender
<1>9. CASE SourceCloseFlag
  BY <1>9 DEF SourceCloseFlag, sender, input
<1>10. CASE GenM3U8PlayList \/ TsRequest
  BY <1>10 DEF GenM3U8PlayList, PlaylistBegin, PlaylistVisit, PlaylistNext, PlaylistDone,
     TsRequest, HandlerKeeps, sender, input
<1>11. QED
  BY <1>1, <1>2, <1>3, <1>4, <1>5, <1>6, <1>7, <1>8, <1>9, <1>10 DEF SourceNext, SendPacket

\* What muxing a frame adds, to the buffer or to the audio cache.
LEMMA MuxFacts ==
    ASSUME SourceTypeOK, MuxFrame, bts # Nil
    PROVE  /\ pkt \in Frames /\ bts \in Seq(Data) /\ bts' # Nil /\ Len(bts) \in Nat /\ Len(bts') \in Nat
           /\ Len(bts') >= Len(bts) /\ \A i \in 1..Len(bts) : bts'[i] = bts[i]
           /\ pkt.kind \in Video => Len(bts') = Len(bts) + 1 /\ bts'[Len(bts) + 1] = pkt
           /\ OpenIds' = OpenIds \cup {pkt.id} /\ Ids(fed') = Ids(fed) \cup {pkt.id}
           /\ Len(fed) \in Nat /\ Len(fed') = Len(fed) + 1 /\ fed'[Len(fed) + 1] = pkt
           /\ \A i \in 1..Len(fed) : fed'[i] = fed[i]
<1>0. ~cleaned /\ ~cleaned' /\ fed' = Append(fed, pkt)
  BY DEF MuxFrame
<1>1. pkt \in Frames /\ bts \in Seq(Data) /\ pkt \in Data /\ fed \in Seq(Frames) /\ fed \in Seq(Data)
  BY FrameFields DEF MuxFrame, SourceTypeOK, Data
<1>2. acache \in Seq(Frames) /\ acache \in Seq(Data) /\ Nil \notin Seq(Data)
  BY FrameFields, NilAssumption DEF SourceTypeOK, Data
<1>3. /\ Ids(fed') = Ids(fed) \cup {pkt.id}
      /\ Len(fed) \in Nat /\ Len(fed') = Len(fed) + 1 /\ fed'[Len(fed) + 1] = pkt
      /\ \A i \in 1..Len(fed) : fed'[i] = fed[i]
  BY <1>0, <1>1, IdsAppend, AppendProperties, LenProperties
<1>4. OpenIds = Ids(acache) \cup Ids(bts)
  BY <1>0 DEF OpenIds
<1>5. CASE pkt.kind \in Video
  <2>1. bts' = Append(bts, pkt) /\ acache' = acache
    BY <1>5 DEF MuxFrame, Video
  <2>2. /\ bts' \in Seq(Data) /\ Len(bts) \in Nat /\ Len(bts') = Len(bts) + 1
        /\ bts'[Len(bts) + 1] = pkt /\ \A i \in 1..Len(bts) : bts'[i] = bts[i]
    BY <1>1, <2>1, AppendProperties, LenProperties
  <2>3. OpenIds' = Ids(acache') \cup Ids(bts')
    BY <1>0, <1>2, <2>2 DEF OpenIds
  <2>4. Ids(bts') = Ids(bts) \cup {pkt.id}
    BY <1>1, <2>1, IdsAppend
  <2>5. OpenIds' = OpenIds \cup {pkt.id}
    BY <1>4, <2>1, <2>3, <2>4
  <2>6. QED
    BY <1>1, <1>2, <1>3, <2>2, <2>5
<1>6. CASE pkt.kind \notin Video
  <2>1. \/ bts' = bts /\ acache' = Append(acache, pkt)
        \/ bts' = bts \o Append(acache, pkt) /\ acache' = <<>>
    BY <1>6 DEF MuxFrame
  <2>2. Append(acache, pkt) \in Seq(Data) /\ Ids(Append(acache, pkt)) = Ids(acache) \cup {pkt.id}
    BY <1>1, <1>2, IdsAppend, AppendProperties
  <2>3. CASE bts' = bts /\ acache' = Append(acache, pkt)
    <3>1. OpenIds' = Ids(acache') \cup Ids(bts')
      BY <1>0, <2>3 DEF OpenIds
    <3>2. OpenIds' = OpenIds \cup {pkt.id}
      BY <1>4, <2>2, <2>3, <3>1
    <3>3. QED
      BY <1>1, <1>3, <1>6, <2>3, <3>2, LenProperties
  <2>4. CASE bts' = bts \o Append(acache, pkt) /\ acache' = <<>>
    <3>1. /\ bts' \in Seq(Data) /\ Len(bts) \in Nat /\ Len(bts') = Len(bts) + Len(Append(acache, pkt))
          /\ Len(Append(acache, pkt)) \in Nat /\ \A i \in 1..Len(bts) : bts'[i] = bts[i]
      BY <1>1, <2>2, <2>4, ConcatProperties, LenProperties
    <3>2. OpenIds' = Ids(acache') \cup Ids(bts')
      BY <1>0, <1>2, <3>1 DEF OpenIds
    <3>3. Ids(acache') = {} /\ Ids(bts') = Ids(bts) \cup Ids(acache) \cup {pkt.id}
      <4>1. Ids(bts \o Append(acache, pkt)) = Ids(bts) \cup Ids(Append(acache, pkt))
        BY <1>1, <2>2, IdsConcat
      <4>2. QED
        BY <2>2, <2>4, <4>1, IdsEmpty
    <3>4. OpenIds' = OpenIds \cup {pkt.id}
      BY <1>4, <3>2, <3>3
    <3>5. QED
      BY <1>1, <1>2, <1>3, <1>6, <3>1, <3>4
  <2>5. QED
    BY <2>1, <2>3, <2>4
<1>7. QED
  BY <1>5, <1>6

\* What a cut does to the frames: the open ones become the last segment's.
LEMMA CutMoves ==
    ASSUME SourceTypeOK, CutSegment
    PROVE  /\ ~cleaned /\ bts # Nil /\ OpenIds' = {} /\ bts' # Nil
           /\ Ids(emitted'[Len(emitted) + 1].data) = OpenIds
           /\ CutIds' = CutIds \cup OpenIds
<1>1. ~cleaned /\ ~cleaned' /\ bts # Nil /\ bts' = <<Tables>> /\ acache' = <<>>
  BY DEF CutSegment
<1>2. bts \in Seq(Data) /\ acache \in Seq(Data) /\ bts' \in Seq(Data) /\ Nil \notin Seq(Data)
  BY <1>1, FrameFields, NilAssumption DEF SourceTypeOK, Data
<1>3. OpenIds = Ids(acache) \cup Ids(bts)
  BY <1>1 DEF OpenIds
<1>4. OpenIds' = {} /\ bts' # Nil
  <2>1. Ids(acache') = {} /\ Ids(bts') = {} /\ bts' # Nil
    BY <1>1, <1>2, IdsEmpty
  <2>2. QED
    BY <1>1, <2>1 DEF OpenIds
<1>5. Ids(emitted'[Len(emitted) + 1].data) = OpenIds
  <2>1. emitted'[Len(emitted) + 1].data = bts \o acache
    BY CutFacts
  <2>2. Ids(bts \o acache) = Ids(bts) \cup Ids(acache)
    BY <1>2, IdsConcat
  <2>3. QED
    BY <1>3, <2>1, <2>2
<1>6. CutIds' = CutIds \cup OpenIds
  <2>1. /\ Len(emitted') = Len(emitted) + 1 /\ Len(emitted) \in Nat
        /\ \A h \in 1..Len(emitted) : emitted'[h] = emitted[h]
    BY CutFacts
  <2>2. \A j \in 1..Len(emitted') : j \in 1..Len(emitted) \/ j = Len(emitted) + 1
    BY <2>1
  <2>3. Len(emitted) + 1 \in 1..Len(emitted') /\ \A j \in 1..Len(emitted) : j \in 1..Len(emitted')
    BY <2>1
  <2>4. CutIds' = UNION {Ids(emitted'[j].data) : j \in 1..Len(emitted')}
    BY DEF CutIds, Ids
  <2>5. CutIds' \subseteq CutIds \cup OpenIds
    BY <1>5, <2>1, <2>2, <2>4 DEF CutIds
  <2>6. CutIds \subseteq CutIds'
    BY <2>1, <2>3, <2>4 DEF CutIds
  <2>7. OpenIds \subseteq CutIds'
    BY <1>5, <2>3, <2>4
  <2>8. QED
    BY <2>5, <2>6, <2>7
<1>7. QED
  BY <1>1, <1>4, <1>5, <1>6

\* The segments split the stream.
LEMMA SplitStep == SourceInv /\ SourceNext => SplitInv'
<1> SUFFICES ASSUME SourceInv, SourceNext PROVE SplitInv'
  OBVIOUS
<1>0. SourceTypeOK /\ SplitInv /\ received \in Nat /\ Len(fed) \in Nat
  BY SourceAssumption, LenProperties DEF SourceInv, SourceTypeOK
<1>00. Ids(fed) \subseteq Nat /\ CutIds \subseteq Ids(fed) /\ OpenIds \subseteq Ids(fed)
  BY <1>0, IdsAreNat, FrameFields DEF SourceTypeOK, SplitInv
<1>1. CASE Frozen
  <2>1. CutIds' = CutIds
    BY <1>1 DEF Frozen, CutIds, Ids
  <2>2. OpenIds' = OpenIds /\ Ids(fed)' = Ids(fed)
    BY <1>1 DEF Frozen, OpenIds, Ids
  <2>3. QED
    BY <1>0, <1>1, <2>1, <2>2 DEF Frozen, SplitInv
<1>2. ASSUME NEW k \in FrameKinds, NEW d \in TimeSteps, SendFrame(k, d) PROVE SplitInv'
  <2>1. UNCHANGED <<emitted, fed, bts, acache, cleaned>> /\ received' = received + 1 /\ pkt'.id = received + 1
    BY <1>2 DEF SendFrame
  <2>2. CutIds' = CutIds
    BY <2>1 DEF CutIds, Ids
  <2>3. OpenIds' = OpenIds /\ Ids(fed)' = Ids(fed)
    BY <2>1 DEF OpenIds, Ids
  <2>4. \A h \in 1..Len(fed) : fed[h].id \in Nat
    BY <1>0, ElementOfSeq, FrameFields DEF SourceTypeOK
  <2>5. \A h \in 1..Len(fed) : fed[h].id <= received' /\ fed[h].id < pkt'.id
    BY <1>0, <2>1, <2>4 DEF SplitInv
  <2>6. QED
    BY <1>0, <2>1, <2>2, <2>3, <2>5 DEF SplitInv
<1>3. CASE CutFirst
  <2>1. /\ UNCHANGED <<emitted, fed, acache, cleaned, received, pkt>> /\ bts = Nil /\ bts' = <<Tables>>
        /\ spc = "cut" /\ spc' = "mux" /\ ~cleaned
    BY <1>3 DEF CutFirst, input
  <2>2. CutIds' = CutIds
    BY <2>1 DEF CutIds, Ids
  <2>3. OpenIds' = OpenIds /\ Ids(fed)' = Ids(fed)
    BY <2>1, IdsEmpty DEF OpenIds
  <2>4. QED
    BY <1>0, <2>1, <2>2, <2>3 DEF SplitInv
<1>4. CASE CutSegment
  <2>1. UNCHANGED <<fed, received, pkt, cleaned>> /\ spc = "cut" /\ ~cleaned /\ Ids(fed)' = Ids(fed)
    BY <1>4 DEF CutSegment
  <2>2. /\ OpenIds' = {} /\ CutIds' = CutIds \cup OpenIds
        /\ Ids(emitted'[Len(emitted) + 1].data) = OpenIds
    BY <1>0, <1>4, CutMoves
  <2>3. /\ Len(emitted') = Len(emitted) + 1 /\ Len(emitted) \in Nat
        /\ \A h \in 1..Len(emitted) : emitted'[h] = emitted[h]
    BY <1>0, <1>4, CutFacts
  <2>4. ASSUME NEW j \in 1..Len(emitted'), NEW k \in 1..Len(emitted'), j < k,
               NEW a \in Ids(emitted'[j].data), NEW b \in Ids(emitted'[k].data)
        PROVE  a < b
    <3>1. j \in 1..Len(emitted) /\ emitted'[j] = emitted[j] /\ (k \in 1..Len(emitted) \/ k = Len(emitted) + 1)
      BY <2>3, <2>4
    <3>2. CASE k \in 1..Len(emitted)
      BY <1>0, <2>3, <2>4, <3>1, <3>2 DEF SplitInv
    <3>3. CASE k = Len(emitted) + 1
      <4>1. a \in CutIds
        BY <2>4, <3>1 DEF CutIds
      <4>2. b \in OpenIds
        BY <2>2, <2>4, <3>3
      <4>3. QED
        BY <1>0, <4>1, <4>2 DEF SplitInv
    <3>4. QED
      BY <3>1, <3>2, <3>3
  <2>5. CutIds' \subseteq Ids(fed) /\ Ids(fed) \subseteq CutIds' \cup OpenIds'
    BY <1>0, <2>1, <2>2 DEF SplitInv
  <2>6. \A h \in 1..Len(fed) : fed[h].id <= received
    BY <1>0 DEF SplitInv
  <2>7. pkt.id <= received /\ \A h \in 1..Len(fed) : fed[h].id < pkt.id
    BY <1>0, <2>1 DEF SplitInv
  <2>8. \A h, m \in 1..Len(fed) : h < m => fed[h].id < fed[m].id
    BY <1>0 DEF SplitInv
  <2>9. \A j, k \in 1..Len(emitted') : j < k =>
          \A a \in Ids(emitted'[j].data), b \in Ids(emitted'[k].data) : a < b
    BY <2>4
  <2>10. /\ CutIds' \subseteq Ids(fed') /\ OpenIds' \subseteq Ids(fed')
         /\ Ids(fed') \subseteq CutIds' \cup OpenIds'
         /\ \A a \in CutIds', b \in OpenIds' : a < b
    BY <2>1, <2>2, <2>5
  <2>11. /\ \A h \in 1..Len(fed') : fed'[h].id <= received'
         /\ pkt'.id <= received' /\ \A h \in 1..Len(fed') : fed'[h].id < pkt'.id
         /\ \A h, m \in 1..Len(fed') : h < m => fed'[h].id < fed'[m].id
    BY <2>1, <2>6, <2>7, <2>8
  <2>12. QED
    BY <2>9, <2>10, <2>11 DEF SplitInv
<1>5. CASE MuxFrame /\ bts # Nil
  <2>1. UNCHANGED <<emitted, received, cleaned>> /\ spc = "mux" /\ spc' = "loop" /\ ~cleaned
    BY <1>5 DEF MuxFrame, input
  <2>2. /\ pkt \in Frames /\ OpenIds' = OpenIds \cup {pkt.id} /\ Ids(fed') = Ids(fed) \cup {pkt.id}
        /\ Len(fed') = Len(fed) + 1 /\ fed'[Len(fed) + 1] = pkt
        /\ \A i \in 1..Len(fed) : fed'[i] = fed[i]
    BY <1>0, <1>5, MuxFacts
  <2>3. CutIds' = CutIds
    BY <2>1 DEF CutIds, Ids
  <2>4. pkt.id <= received /\ \A h \in 1..Len(fed) : fed[h].id < pkt.id
    BY <1>0, <2>1 DEF SplitInv
  <2>5. \A a \in Ids(fed) : a < pkt.id
    BY <1>0, <2>4, IdsOf DEF SourceTypeOK
  <2>6. \A a \in CutIds, b \in OpenIds' : a < b
    BY <1>0, <1>00, <2>2, <2>5 DEF SplitInv
  <2>7. /\ CutIds \subseteq Ids(fed') /\ OpenIds' \subseteq Ids(fed')
        /\ Ids(fed') \subseteq CutIds \cup OpenIds'
    BY <1>0, <1>00, <2>1, <2>2 DEF SplitInv
  <2>8. ASSUME NEW h \in 1..Len(fed') PROVE fed'[h].id <= received
    <3>1. h \in 1..Len(fed) \/ h = Len(fed) + 1
      BY <1>0, <2>2
    <3>2. QED
      BY <1>0, <2>2, <2>4, <3>1 DEF SplitInv
  <2>9. ASSUME NEW h \in 1..Len(fed'), NEW m \in 1..Len(fed'), h < m PROVE fed'[h].id < fed'[m].id
    <3>1. h \in 1..Len(fed) /\ (m \in 1..Len(fed) \/ m = Len(fed) + 1)
      BY <1>0, <2>2, <2>9
    <3>2. QED
      BY <1>0, <2>2, <2>4, <2>9, <3>1 DEF SplitInv
  <2>10. \A j, k \in 1..Len(emitted') : j < k =>
          \A a \in Ids(emitted'[j].data), b \in Ids(emitted'[k].data) : a < b
    BY <1>0, <2>1 DEF SplitInv
  <2>11. QED
    BY <2>1, <2>3, <2>6, <2>7, <2>8, <2>9, <2>10 DEF SplitInv
<1>6. CASE MuxFrame /\ bts = Nil
  <2>1. UNCHANGED <<emitted, fed, bts, acache, cleaned, received>> /\ spc' = "loop"
    BY <1>6 DEF MuxFrame, input
  <2>2. CutIds' = CutIds
    BY <2>1 DEF CutIds, Ids
  <2>3. OpenIds' = OpenIds /\ Ids(fed)' = Ids(fed)
    BY <2>1 DEF OpenIds, Ids
  <2>4. QED
    BY <1>0, <2>1, <2>2, <2>3 DEF SplitInv
<1>7. CASE SourceCleanup
  <2>1. UNCHANGED <<emitted, fed, received, pkt, spc>> /\ cleaned'
    BY <1>7 DEF SourceCleanup, input
  <2>2. CutIds' = CutIds
    BY <2>1 DEF CutIds, Ids
  <2>3. OpenIds' = {} /\ Ids(fed)' = Ids(fed)
    BY <2>1 DEF OpenIds, Ids
  <2>4. QED
    BY <1>0, <2>1, <2>2, <2>3 DEF SplitInv
<1>8. QED
  BY <1>1, <1>2, <1>3, <1>4, <1>5, <1>6, <1>7, FrozenSteps

\* The buffer.
LEMMA BufferStep == SourceInv /\ SourceNext => BufferInv'
<1> SUFFICES ASSUME SourceInv, SourceNext, ~cleaned' PROVE BufferInv'
  BY DEF BufferInv
<1>0. SourceTypeOK /\ BufferInv
  BY DEF SourceInv
<1>1. CASE Frozen
  <2>1. OpenIds' = OpenIds
    BY <1>1 DEF Frozen, OpenIds, Ids
  <2>2. UNCHANGED <<fed, bts, acache, cleaned, stat, pkt>>
    BY <1>1 DEF Frozen
  <2>3. bts # Nil /\ ~stat.set => Cutting' \/ spc' = "mux"
    BY <1>0, <1>1, <2>2 DEF Frozen, BufferInv
  <2>4. spc' = "cut" => pkt.kind = "key"
    BY <1>0, <1>1, <2>2 DEF Frozen, BufferInv
  <2>5. QED
    BY <1>0, <2>1, <2>2, <2>3, <2>4 DEF BufferInv
<1>2. ASSUME NEW k \in FrameKinds, NEW d \in TimeSteps, SendFrame(k, d) PROVE BufferInv'
  <2>1. /\ UNCHANGED <<fed, bts, acache, cleaned, stat>> /\ spc = "loop" /\ pkt'.kind = k
        /\ spc' = "cut" => k = "key"
    BY <1>2 DEF SendFrame
  <2>2. OpenIds' = OpenIds
    BY <2>1 DEF OpenIds, Ids
  <2>3. bts = Nil \/ stat.set
    BY <1>0, <2>1 DEF BufferInv, Cutting
  <2>4. QED
    BY <1>0, <2>1, <2>2, <2>3 DEF BufferInv
<1>3. CASE CutFirst
  <2>1. /\ UNCHANGED <<fed, acache, cleaned, stat, pkt>> /\ bts = Nil /\ bts' = <<Tables>>
        /\ spc = "cut" /\ spc' = "mux" /\ ~cleaned
    BY <1>3 DEF CutFirst
  <2>2. bts' # Nil /\ Len(bts') = 1 /\ bts'[1] = Tables
    <3>1. bts' \in Seq(Data)
      BY <2>1, FrameFields
    <3>2. QED
      BY <2>1, <3>1, NilAssumption DEF Data
  <2>3. ~stat.set /\ acache = <<>> /\ pkt.kind = "key"
    BY <1>0, <2>1 DEF BufferInv
  <2>4. QED
    BY <2>1, <2>2, <2>3 DEF BufferInv
<1>4. CASE CutSegment
  <2>1. /\ ~cleaned /\ acache' = <<>> /\ pkt' = pkt /\ bts' = <<Tables>> /\ spc = "cut" /\ spc' = "evict"
        /\ ~stat'.set
    <3>1. stat' = [stat EXCEPT !.set = FALSE]
      BY <1>4 DEF CutSegment
    <3>2. ~stat'.set
      BY <1>0, <3>1
    <3>3. QED
      BY <1>4, <3>2 DEF CutSegment
  <2>2. bts' # Nil /\ Len(bts') = 1 /\ bts'[1] = Tables
    BY <1>0, <1>4, <2>1, CutMoves
  <2>3. pkt.kind = "key"
    BY <1>0, <2>1 DEF BufferInv
  <2>4. QED
    BY <2>1, <2>2, <2>3 DEF BufferInv, Cutting
<1>5. CASE MuxFrame /\ bts # Nil
  <2>1. /\ bts' # Nil /\ Len(bts) \in Nat /\ Len(bts') >= Len(bts) /\ \A i \in 1..Len(bts) : bts'[i] = bts[i]
        /\ pkt.kind \in Video => Len(bts') = Len(bts) + 1 /\ bts'[Len(bts) + 1] = pkt
        /\ pkt.id \in OpenIds' /\ Len(fed) \in Nat /\ Len(fed') = Len(fed) + 1 /\ fed'[Len(fed')] = pkt
        /\ Len(bts') \in Nat
    BY <1>0, <1>5, MuxFacts
  <2>2. /\ stat' = [set |-> TRUE, first |-> IF stat.set THEN stat.first ELSE pkt.ts, last |-> pkt.ts]
        /\ ~cleaned /\ spc = "mux" /\ spc' = "loop"
    BY <1>5 DEF MuxFrame, StatUpdate
  <2>3. Len(bts') >= 1 /\ bts'[1] = Tables
    BY <1>0, <1>5, <2>1, <2>2 DEF BufferInv
  <2>4. Len(bts') >= 2 /\ bts'[2].kind = "key" /\ stat'.first = bts'[2].ts
    <3>1. CASE stat.set
      BY <1>0, <1>5, <2>1, <2>2, <3>1 DEF BufferInv
    <3>2. CASE ~stat.set
      <4>1. Len(bts) = 1 /\ pkt.kind = "key" /\ pkt.kind \in Video
        BY <1>0, <1>5, <2>2, <3>2 DEF BufferInv, Video
      <4>2. QED
        BY <2>1, <2>2, <3>2, <4>1
    <3>3. QED
      BY <3>1, <3>2
  <2>5. stat'.set /\ stat'.last = fed'[Len(fed')].ts /\ fed'[Len(fed')].id \in OpenIds' /\ Len(fed') >= 1
    BY <2>1, <2>2
  <2>6. QED
    BY <2>1, <2>2, <2>3, <2>4, <2>5 DEF BufferInv
<1>6. CASE MuxFrame /\ bts = Nil
  <2>1. UNCHANGED <<bts, acache, stat, cleaned>> /\ spc' = "loop"
    BY <1>6 DEF MuxFrame
  <2>2. QED
    BY <1>0, <1>6, <2>1 DEF BufferInv
<1>7. CASE SourceCleanup
  BY <1>7 DEF SourceCleanup
<1>8. QED
  BY <1>1, <1>2, <1>3, <1>4, <1>5, <1>6, <1>7, FrozenSteps

\* The shape of a segment.
LEMMA ShapeStep == SourceInv /\ SourceNext => ShapeInv'
<1> SUFFICES ASSUME SourceInv, SourceNext PROVE ShapeInv'
  OBVIOUS
<1>0. SourceTypeOK /\ BufferInv /\ SplitInv /\ ShapeInv
  BY DEF SourceInv
<1>1. CASE Frozen
  BY <1>0, <1>1 DEF Frozen, ShapeInv
<1>2. ASSUME NEW k \in FrameKinds, NEW d \in TimeSteps, SendFrame(k, d) PROVE ShapeInv'
  BY <1>0, <1>2 DEF SendFrame, ShapeInv
<1>3. CASE CutFirst \/ SourceCleanup \/ (MuxFrame /\ bts = Nil)
  <2>1. UNCHANGED <<emitted, fed>>
    BY <1>3 DEF CutFirst, SourceCleanup, MuxFrame
  <2>2. QED
    BY <1>0, <2>1 DEF ShapeInv
<1>4. CASE CutSegment
  <2> DEFINE d == bts \o acache
  <2>1. /\ Len(emitted') = Len(emitted) + 1 /\ Len(emitted) \in Nat
        /\ \A h \in 1..Len(emitted) : emitted'[h] = emitted[h]
        /\ emitted'[Len(emitted) + 1].data = d
        /\ emitted'[Len(emitted) + 1].dur = stat.last - stat.first
    BY <1>0, <1>4, CutFacts
  <2>2. fed' = fed /\ ~cleaned /\ bts # Nil /\ spc = "cut" /\ stat.last - stat.first >= Duration
    BY <1>4 DEF CutSegment, durationMs
  <2>3. stat.set
    BY <1>0, <2>2 DEF BufferInv, Cutting
  <2>4. /\ Len(bts) >= 2 /\ bts[1] = Tables /\ bts[2].kind = "key" /\ stat.first = bts[2].ts
        /\ Len(fed) >= 1 /\ fed[Len(fed)].id \in OpenIds /\ stat.last = fed[Len(fed)].ts
    BY <1>0, <2>2, <2>3 DEF BufferInv
  <2>5. Len(d) >= 2 /\ d[1] = Tables /\ d[2] = bts[2]
    <3>1. bts \in Seq(Data) /\ acache \in Seq(Data) /\ Len(bts) \in Nat /\ Len(acache) \in Nat
      BY <1>0, <2>2, FrameFields, LenProperties DEF SourceTypeOK
    <3>2. Len(d) = Len(bts) + Len(acache) /\ \A i \in 1..Len(bts) : d[i] = bts[i]
      BY <3>1, ConcatProperties
    <3>3. QED
      BY <2>4, <3>1, <3>2
  <2>6. Ids(d) = OpenIds
    BY <1>0, <1>4, <2>1, CutMoves
  <2> HIDE DEF d
  <2>7. \A b \in OpenIds : b <= fed[Len(fed)].id
    <3>1. SUFFICES ASSUME NEW b \in OpenIds PROVE b <= fed[Len(fed)].id
      OBVIOUS
    <3>2. b \in Ids(fed) /\ fed \in Seq(Frames)
      BY <1>0 DEF SplitInv, SourceTypeOK
    <3>3. PICK h \in 1..Len(fed) : b = fed[h].id
      BY <3>2, IdsOf
    <3>4. Len(fed) \in 1..Len(fed) /\ fed[h].id \in Nat /\ fed[Len(fed)].id \in Nat
      BY <2>4, <3>2, <3>3, ElementOfSeq, FrameFields, LenProperties
    <3>5. h = Len(fed) \/ h < Len(fed)
      BY <3>3, <3>4
    <3>6. QED
      BY <1>0, <3>3, <3>4, <3>5 DEF SplitInv
  <2>8. \E h \in 1..Len(fed) : /\ fed[h].id \in Ids(d) /\ \A b \in Ids(d) : b <= fed[h].id
                               /\ stat.last - stat.first = fed[h].ts - d[2].ts
    <3>1. Len(fed) \in 1..Len(fed)
      BY <1>0, <2>4, LenProperties DEF SourceTypeOK
    <3>2. QED
      BY <2>4, <2>5, <2>6, <2>7, <3>1
  <2>9. ASSUME NEW j \in 1..Len(emitted')
        PROVE  /\ Len(emitted'[j].data) >= 2 /\ emitted'[j].data[1] = Tables
               /\ emitted'[j].data[2].kind = "key" /\ emitted'[j].dur >= Duration
               /\ \E h \in 1..Len(fed) :
                     /\ fed[h].id \in Ids(emitted'[j].data)
                     /\ \A b \in Ids(emitted'[j].data) : b <= fed[h].id
                     /\ emitted'[j].dur = fed[h].ts - emitted'[j].data[2].ts
    <3>1. j \in 1..Len(emitted) \/ j = Len(emitted) + 1
      BY <2>1
    <3>2. CASE j \in 1..Len(emitted)
      BY <1>0, <2>1, <3>2 DEF ShapeInv
    <3>3. CASE j = Len(emitted) + 1
      BY <2>1, <2>2, <2>4, <2>5, <2>8, <3>3
    <3>4. QED
      BY <3>1, <3>2, <3>3
  <2>10. QED
    BY <2>2, <2>9 DEF ShapeInv
<1>5. CASE MuxFrame /\ bts # Nil
  <2>1. emitted' = emitted
    BY <1>5 DEF MuxFrame
  <2>2. Len(fed) \in Nat /\ Len(fed') = Len(fed) + 1 /\ \A i \in 1..Len(fed) : fed'[i] = fed[i]
    BY <1>0, <1>5, MuxFacts
  <2>3. \A h \in 1..Len(fed) : h \in 1..Len(fed')
    BY <2>2
  <2>4. QED
    BY <1>0, <2>1, <2>2, <2>3 DEF ShapeInv
<1>6. QED
  BY <1>1, <1>2, <1>3, <1>4, <1>5, FrozenSteps

-----------------------------------------------------------------------------
(* The invariant and what follows from it.                                 *)

LEMMA SourceInitInv == SourceInit => SourceInv
<1> SUFFICES ASSUME SourceInit PROVE SourceInv
  OBVIOUS
<1> USE DEF SourceInit
<1>0. Len(emitted) = 0 /\ Len(ll) = 0 /\ Len(fed) = 0 /\ Len(playlist) = 0 /\ ~cleaned
  OBVIOUS
<1>1. SourceTypeOK
  <2>1. acache \in Seq(Frames) /\ emitted \in Seq(Segments) /\ fed \in Seq(Frames) /\ ll \in Seq(Nodes)
    BY EmptySeq
  <2>2. stat.set \in BOOLEAN /\ stat.first \in Nat /\ stat.last \in Nat
    OBVIOUS
  <2>3. received \in 0..MaxPackets
    BY SourceAssumption
  <2>4. cleaned \in BOOLEAN
    OBVIOUS
  <2>5. QED
    BY <2>1, <2>2, <2>3, <2>4 DEF SourceTypeOK
<1>2. WindowInv
  BY <1>0, SourceAssumption DEF WindowInv, Top, Cutting
<1>3. MapInv
  BY <1>0 DEF MapInv, Stored
<1>4. HandlerInv
  BY <1>0, EmptySeq DEF HandlerInv
<1>5. SplitInv
  <2>1. CutIds = {}
    BY <1>0 DEF CutIds
  <2>2. OpenIds = {} /\ Ids(fed) = {}
    BY IdsEmpty DEF OpenIds
  <2>3. QED
    BY <1>0, <2>1, <2>2 DEF SplitInv
<1>6. BufferInv
  BY DEF BufferInv
<1>7. ShapeInv
  BY <1>0 DEF ShapeInv
<1>8. QED
  BY <1>1, <1>2, <1>3, <1>4, <1>5, <1>6, <1>7 DEF SourceInv

LEMMA SourceStutter == SourceInv /\ UNCHANGED sourceVars => SourceInv'
<1> SUFFICES ASSUME SourceInv, UNCHANGED sourceVars PROVE SourceInv'
  OBVIOUS
<1>0. /\ UNCHANGED <<spc, pkt, bts, acache, stat, seq, item, out, ll, lm, cleaned, clock, now, received>>
      /\ UNCHANGED <<rpc, node, playlist, emitted, fed, collided>>
  BY DEF sourceVars, sender, segments, input, handler
<1>1. UNCHANGED <<Top, Stored, Cutting>>
  BY <1>0 DEF Top, Stored, Cutting
<1>2. UNCHANGED CutIds
  BY <1>0 DEF CutIds, Ids
<1>3. UNCHANGED OpenIds /\ Ids(fed)' = Ids(fed)
  BY <1>0 DEF OpenIds, Ids
<1>4. SourceTypeOK' /\ WindowInv'
  BY <1>0, <1>1 DEF SourceInv, SourceTypeOK, WindowInv
<1>5. MapInv' /\ HandlerInv'
  BY <1>0, <1>1 DEF SourceInv, MapInv, HandlerInv
<1>6. SplitInv'
  BY <1>0, <1>2, <1>3 DEF SourceInv, SplitInv
<1>7. BufferInv' /\ ShapeInv'
  BY <1>0, <1>1, <1>3 DEF SourceInv, BufferInv, ShapeInv
<1>8. QED
  BY <1>4, <1>5, <1>6, <1>7 DEF SourceInv

LEMMA SourceInvariance == SourceSpec => []SourceInv
<1>1. SourceInv /\ [SourceNext]_sourceVars => SourceInv'
  <2>1. SourceInv /\ SourceNext => SourceInv'
    BY SourceTypeStep, WindowStep, MapStep, HandlerStep, SplitStep, BufferStep, ShapeStep DEF SourceInv
  <2>2. QED
    BY <2>1, SourceStutter
<1>2. QED
  BY <1>1, SourceInitInv, PTL DEF SourceSpec

\* A playlist written down while the sender replaces segments or the source is
\* closed has no gap, and what it lists is answered until MaxTSNum newer
\* segments have been cut or cleanup has taken the cache away.
THEOREM PlaylistsAreServable == SourceSpec => []PlaylistServable
<1>1. SourceInv => PlaylistServable
  <2> SUFFICES ASSUME SourceInv, ~collided PROVE PlaylistServable
    BY DEF PlaylistServable
  <2>1. HandlerInv /\ MapInv /\ SourceTypeOK /\ WindowInv
    BY DEF SourceInv
  <2>2. /\ playlist \in Seq(Segments) /\ Len(playlist) \in Nat /\ DOMAIN playlist = 1..Len(playlist)
        /\ \A j \in 1..Len(playlist) :
              playlist[j].seq \in 1..Top /\ playlist[j] = emitted[playlist[j].seq]
        /\ \A j \in 1..Len(playlist) - 1 : playlist[j + 1].seq = playlist[j].seq + 1
    BY <2>1, LenProperties DEF HandlerInv
  <2>3. ASSUME NEW j \in DOMAIN playlist, seq - playlist[j].seq < MaxTSNum, ~cleaned
        PROVE  TsAnswer(playlist[j].name) = playlist[j]
    <3>1. playlist[j].seq \in 1..Top /\ playlist[j] = emitted[playlist[j].seq]
      BY <2>2, <2>3
    <3>2. /\ playlist[j].seq \in 1..Stored /\ playlist[j].seq \in 1..Len(emitted)
          /\ playlist[j].seq > seq - MaxTSNum /\ Stored \in Int /\ Stored <= Len(emitted)
      BY <2>1, <2>3, <3>1, SourceAssumption DEF Top, Stored, Cutting, SourceTypeOK, WindowInv
    <3>3. playlist[j].name \in DOMAIN lm
      BY <2>1, <3>1, <3>2 DEF MapInv
    <3>4. PICK h \in 1..Stored : playlist[j].name = emitted[h].name /\ lm[playlist[j].name] = emitted[h]
      BY <2>1, <3>3 DEF MapInv
    <3>5. h = playlist[j].seq
      BY <2>1, <3>1, <3>2, <3>4, LenProperties DEF MapInv, SourceTypeOK
    <3>6. QED
      BY <2>3, <3>1, <3>3, <3>4, <3>5 DEF TsAnswer
  <2>4. QED
    BY <2>2, <2>3 DEF PlaylistServable
<1>2. QED
  BY <1>1, SourceInvariance, PTL

\* Every frame the sender muxed is in exactly one segment, in stream order.
THEOREM SegmentsSplit == SourceSpec => []SegmentsSplitStream
<1>1. SourceInv => SegmentsSplitStream
  <2> SUFFICES ASSUME SourceInv PROVE SegmentsSplitStream
    OBVIOUS
  <2>1. SplitInv /\ SourceTypeOK
    BY DEF SourceInv
  <2> DEFINE p == [j \in DOMAIN emitted |-> Ids(emitted[j].data)]
  <2>2. Len(emitted) \in Nat /\ DOMAIN emitted = 1..Len(emitted)
    BY <2>1, LenProperties DEF SourceTypeOK
  <2>3. p \in Seq(SUBSET Nat) /\ OpenIds \in SUBSET Nat
    <3>1. \A j \in 1..Len(emitted) : Ids(emitted[j].data) \in SUBSET Nat
      <4>1. SUFFICES ASSUME NEW j \in 1..Len(emitted) PROVE Ids(emitted[j].data) \in SUBSET Nat
        OBVIOUS
      <4>2. emitted[j].data \in Seq(Data)
        <5>1. emitted[j] \in Segments
          BY <2>1, ElementOfSeq DEF SourceTypeOK
        <5>2. QED
          BY <5>1 DEF Segments
      <4>3. QED
        BY <4>2, IdsAreNat
    <3>2. p \in Seq(SUBSET Nat)
      BY <2>2, <3>1, IsASeq
    <3>3. fed \in Seq(Data)
      BY <2>1, FrameFields DEF SourceTypeOK
    <3>4. OpenIds \in SUBSET Nat
      BY <2>1, <3>3, IdsAreNat DEF SplitInv
    <3>5. QED
      BY <3>2, <3>4
  <2>4. Len(p) = Len(emitted) /\ \A j \in 1..Len(emitted) : p[j] = Ids(emitted[j].data)
    BY <2>2, <2>3, LenProperties
  <2>5. Pieces = Append(p, OpenIds)
    BY DEF Pieces, OpenIds
  <2> HIDE DEF p
  <2>6. /\ DOMAIN Pieces = 1..Len(emitted) + 1
        /\ \A j \in 1..Len(emitted) : Pieces[j] = Ids(emitted[j].data)
        /\ Pieces[Len(emitted) + 1] = OpenIds
    BY <2>3, <2>4, <2>5, AppendProperties, LenProperties
  <2>7. \A j \in 1..Len(emitted) + 1 : j \in 1..Len(emitted) \/ j = Len(emitted) + 1
    BY <2>2
  <2>8. UNION {Pieces[j] : j \in DOMAIN Pieces} = CutIds \cup OpenIds
    <3>1. UNION {Pieces[j] : j \in DOMAIN Pieces} \subseteq CutIds \cup OpenIds
      BY <2>6, <2>7 DEF CutIds
    <3>2. CutIds \cup OpenIds \subseteq UNION {Pieces[j] : j \in DOMAIN Pieces}
      <4>1. Len(emitted) + 1 \in DOMAIN Pieces /\ \A j \in 1..Len(emitted) : j \in DOMAIN Pieces
        BY <2>2, <2>6
      <4>2. QED
        BY <2>6, <4>1 DEF CutIds
    <3>3. QED
      BY <3>1, <3>2
  <2>9. ~cleaned => CutIds \cup OpenIds = Ids(fed)
    BY <2>1 DEF SplitInv
  <2>10. ASSUME NEW j \in DOMAIN Pieces, NEW k \in DOMAIN Pieces, j < k,
                NEW a \in Pieces[j], NEW b \in Pieces[k]
         PROVE  a < b
    <3>1. j \in 1..Len(emitted) /\ a \in Ids(emitted[j].data)
      BY <2>2, <2>6, <2>10
    <3>2. a \in CutIds
      BY <3>1 DEF CutIds
    <3>3. CASE k \in 1..Len(emitted)
      BY <2>1, <2>6, <2>10, <3>1, <3>3 DEF SplitInv
    <3>4. CASE k = Len(emitted) + 1
      BY <2>1, <2>6, <2>10, <3>2, <3>4 DEF SplitInv
    <3>5. QED
      BY <2>6, <2>7, <3>3, <3>4
  <2>11. QED
    BY <2>8, <2>9, <2>10 DEF SegmentsSplitStream
<1>2. QED
  BY <1>1, SourceInvariance, PTL

\* Every segment starts with the tables and a key frame, lasts from its first
\* frame to its last, and no less than Duration.
THEOREM SegmentsHaveShape == SourceSpec => []SegmentShape
<1>1. SourceInv => SegmentShape
  <2> SUFFICES ASSUME SourceInv PROVE SegmentShape
    OBVIOUS
  <2>1. SplitInv /\ SourceTypeOK /\ ShapeInv
    BY DEF SourceInv
  <2>2. DOMAIN emitted = 1..Len(emitted) /\ DOMAIN fed = 1..Len(fed)
    BY <2>1, LenProperties DEF SourceTypeOK
  <2>3. SUFFICES ASSUME NEW j \in 1..Len(emitted), NEW d, d = emitted[j].data,
                        NEW last, last = CHOOSE a \in Ids(d) : \A b \in Ids(d) : b <= a
                 PROVE  /\ d[1] = Tables /\ d[2].kind = "key"
                        /\ emitted[j].dur = FrameOf(last).ts - d[2].ts
                        /\ emitted[j].dur >= Duration
    BY <2>2 DEF SegmentShape
  <2>4. d[1] = Tables /\ d[2].kind = "key" /\ emitted[j].dur >= Duration
    BY <2>1, <2>3 DEF ShapeInv
  <2>5. PICK h \in 1..Len(fed) : /\ fed[h].id \in Ids(d) /\ \A b \in Ids(d) : b <= fed[h].id
                                 /\ emitted[j].dur = fed[h].ts - d[2].ts
    BY <2>1, <2>3 DEF ShapeInv
  <2>6. last = fed[h].id
    <3>1. last \in Ids(d) /\ \A b \in Ids(d) : b <= last
      BY <2>3, <2>5
    <3>2. d \in Seq(Data)
      <4>1. emitted[j] \in Segments
        BY <2>1, ElementOfSeq DEF SourceTypeOK
      <4>2. QED
        BY <2>3, <4>1 DEF Segments
    <3>3. last \in Nat /\ fed[h].id \in Nat
      BY <2>5, <3>1, <3>2, IdsAreNat
    <3>4. QED
      BY <2>5, <3>1, <3>3
  <2>7. FrameOf(last) = fed[h]
    <3>1. ASSUME NEW m \in 1..Len(fed), fed[m].id = fed[h].id PROVE m = h
      <4>1. fed[h].id \in Nat
        BY <2>1, <2>5, ElementOfSeq, FrameFields DEF SourceTypeOK
      <4>2. ~(m < h) /\ ~(h < m)
        BY <2>1, <2>5, <3>1, <4>1 DEF SplitInv
      <4>3. QED
        BY <2>5, <3>1, <4>2
    <3>2. \A f \in {fed[i] : i \in DOMAIN fed} : f.id = last => f = fed[h]
      BY <2>2, <2>6, <3>1
    <3>3. fed[h] \in {fed[i] : i \in DOMAIN fed} /\ fed[h].id = last
      BY <2>2, <2>5, <2>6
    <3>4. QED
      BY <3>2, <3>3 DEF FrameOf
  <2>8. QED
    BY <2>4, <2>5, <2>7
<1>2. QED
  BY <1>1, SourceInvariance, PTL

\* The numbers of the segments in a list.
Numbers(l) == [j \in DOMAIN l |-> l[j].seq]

LEMMA NumbersFacts ==
    ASSUME NEW l \in Seq(Nodes)
    PROVE  /\ Numbers(l) \in Seq(Nat) /\ Len(Numbers(l)) = Len(l)
           /\ \A j \in 1..Len(l) : Numbers(l)[j] = l[j].seq
<1>1. Len(l) \in Nat /\ DOMAIN l = 1..Len(l) /\ \A j \in 1..Len(l) : l[j] \in Nodes
  BY LenProperties, ElementOfSeq
<1>2. \A j \in 1..Len(l) : l[j].seq \in Nat
  BY <1>1 DEF Nodes
<1>3. Numbers(l) \in Seq(Nat)
  BY <1>1, <1>2, IsASeq DEF Numbers
<1>4. QED
  BY <1>1, <1>3, LenProperties DEF Numbers

\* The list the sender updates in steps shows every reader a window that
\* slides by one: the source implements SegmentWindow.  (With a window of one
\* segment the list is empty in the middle of SetItem, which SegmentWindow
\* has only at the start; maxTSCacheNum is 3.)
THEOREM WindowImplemented ==
    ASSUME MaxTSNum > 1
    PROVE  SourceSpec => WindowSlides
<1>0. Window = Numbers(ll) /\ Window' = Numbers(ll')
  BY DEF Window, Numbers
<1>1. SourceInit => W!WindowInit
  BY DEF SourceInit, W!WindowInit, Window
<1>2. SourceInv /\ SourceInv' /\ [SourceNext]_sourceVars => [W!WindowNext]_Window
  <2> SUFFICES ASSUME SourceInv, SourceInv', SourceNext, ll' # ll PROVE W!WindowNext
    BY DEF Window, sourceVars, segments
  <2>1. SourceTypeOK /\ WindowInv /\ ll \in Seq(Nodes) /\ ll' \in Seq(Nodes)
    BY DEF SourceInv, SourceTypeOK
  <2>2. /\ Window \in Seq(Nat) /\ Len(Window) = Len(ll) /\ Len(ll) \in Nat
        /\ \A j \in 1..Len(ll) : Window[j] = ll[j].seq
    BY <1>0, <2>1, NumbersFacts, LenProperties
  <2>3. /\ Window' \in Seq(Nat) /\ Len(Window') = Len(ll') /\ Len(ll') \in Nat
        /\ \A j \in 1..Len(ll') : Window'[j] = ll'[j].seq
    BY <1>0, <2>1, NumbersFacts, LenProperties
  <2>4. CASE SetItemEvict
    <3>1. Len(ll) = MaxTSNum
      BY <2>4 DEF SetItemEvict
    <3>2. /\ Len(ll) \in Nat \ {0} /\ Len(ll') = Len(ll) - 1
          /\ \A j \in 1..Len(ll') : ll'[j] = ll[j + 1] /\ j + 1 \in 1..Len(ll)
      BY <2>1, <2>4, <3>1, EvictFacts
    <3>3. /\ Tail(Window) \in Seq(Nat) /\ Len(Tail(Window)) = Len(ll) - 1
          /\ \A j \in 1..Len(Tail(Window)) : Tail(Window)[j] = Window[j + 1]
      <4>1. Window # <<>>
        BY <2>2, <3>2
      <4>2. QED
        BY <2>2, <4>1, HeadTailProperties
    <3>4. Window' = Tail(Window)
      <4>1. \A j \in 1..Len(Window') : Window'[j] = Tail(Window)[j]
        BY <2>2, <2>3, <3>2, <3>3
      <4>2. QED
        BY <2>3, <3>2, <3>3, <4>1, SeqEqual
    <3>5. QED
      BY <2>2, <3>1, <3>4 DEF W!WindowNext, W!Evict
  <2>5. CASE SetItemPush
    <3>1. /\ Len(ll') = Len(ll) + 1 /\ \A j \in 1..Len(ll) : ll'[j] = ll[j]
          /\ ll'[Len(ll) + 1].seq = seq
      BY <2>1, <2>5, PushFacts DEF NodeOf
    <3>2. /\ Top = seq - 1 /\ seq \in Nat /\ Len(ll) <= MaxTSNum - 1
          /\ Len(ll) < Top => Len(ll) >= MaxTSNum - 1
          /\ Len(ll) <= Top
      BY <2>1, <2>5 DEF SetItemPush, WindowInv, SourceTypeOK, Top, Cutting
    <3>3. \A j \in 1..Len(ll) : Window'[j] = Window[j]
      <4>1. SUFFICES ASSUME NEW j \in 1..Len(ll) PROVE Window'[j] = Window[j]
        OBVIOUS
      <4>2. j \in 1..Len(ll') /\ ll'[j] = ll[j]
        BY <2>2, <3>1
      <4>3. QED
        BY <2>2, <2>3, <4>2
    <3>4. Window'[Len(ll) + 1] = seq
      BY <2>2, <2>3, <3>1
    <3>5. CASE Len(ll) = 0
      <4>1. seq = 1
        BY <3>2, <3>5, SourceAssumption
      <4>2. Window = <<>>
        BY <2>2, <3>5, EmptySeq
      <4>3. <<1>> \in Seq(Nat) /\ Len(<<1>>) = 1 /\ <<1>>[1] = 1
        OBVIOUS
      <4>4. Window' = <<1>>
        <5>1. \A j \in 1..Len(Window') : Window'[j] = <<1>>[j]
          BY <2>3, <3>1, <3>4, <3>5, <4>1, <4>3
        <5>2. QED
          BY <2>3, <3>1, <3>5, <4>3, <5>1, SeqEqual
      <4>5. QED
        BY <2>2, <3>2, <3>5, <4>2, <4>4, SourceAssumption DEF W!WindowNext, W!Add
    <3>6. CASE Len(ll) # 0
      <4>1. Window # <<>> /\ Len(ll) \in 1..Len(ll)
        BY <2>2, <3>6
      <4>2. Window[Len(Window)] = seq - 1
        <5>1. ll[Len(ll)] = NodeOf(emitted, Top - Len(ll) + Len(ll))
          BY <2>1, <4>1 DEF WindowInv
        <5>2. ll[Len(ll)].seq = Top - Len(ll) + Len(ll)
          BY <5>1 DEF NodeOf
        <5>3. QED
          BY <2>2, <3>2, <4>1, <5>2
      <4>3. Window' = Append(Window, seq)
        <5>1. /\ Append(Window, seq) \in Seq(Nat) /\ Len(Append(Window, seq)) = Len(ll) + 1
              /\ \A j \in 1..Len(ll) : Append(Window, seq)[j] = Window[j]
              /\ Append(Window, seq)[Len(ll) + 1] = seq
          BY <2>2, <3>2, AppendProperties
        <5>2. \A j \in 1..Len(Window') : j \in 1..Len(ll) \/ j = Len(ll) + 1
          BY <2>2, <2>3, <3>1
        <5>3. \A j \in 1..Len(Window') : Window'[j] = Append(Window, seq)[j]
          BY <3>3, <3>4, <5>1, <5>2
        <5>4. QED
          BY <2>3, <3>1, <5>1, <5>3, SeqEqual
      <4>4. QED
        <5>1. (seq - 1) + 1 = seq /\ Len(Window) < MaxTSNum
          BY <2>2, <3>2, SourceAssumption
        <5>2. QED
          BY <4>1, <4>2, <4>3, <5>1 DEF W!WindowNext, W!Add
    <3>7. QED
      BY <3>5, <3>6
  <2>6. CASE CutSegment \/ SetItemDelete \/ SetItemStore
    BY <2>6 DEF CutSegment, SetItemDelete, SetItemStore, segments
  <2>7. QED
    BY <2>4, <2>5, <2>6, QuietSteps DEF Quiet
<1>3. QED
  BY <1>1, <1>2, SourceInvariance, PTL DEF SourceSpec, WindowSlides

-----------------------------------------------------------------------------
(* The audio clock.                                                        *)

\* The numbered timestamp of a frame is a natural number.
LEMMA EstimateIsNat ==
    ASSUME NEW b \in Nat, NEW k \in Nat, NEW m \in Nat
    PROVE  b + k * m \in Nat
OBVIOUS

\* calcPtsDts keeps the type invariant and returns a timestamp within Tol of
\* the one it was given.
LEMMA CalcAudioDtsStep ==
    ASSUME NEW t \in Nat, AlignTypeOK, CalcAudioDts(t), due' \in Nat, rest' \in 0..(Den - 1)
    PROVE  AlignTypeOK' /\ AlignedIsNear'
<1> DEFINE est == frameBase + frameNum * Inc
<1>1. est \in Nat
  BY EstimateIsNat, AlignAssumption DEF AlignTypeOK
<1>2. t * Hz \in Nat
  BY AlignAssumption
<1>3. frameNum' \in Nat /\ frameBase' \in Nat /\ aligned' \in Nat /\ frameNum' <= n + 1
  <2> HIDE DEF est
  <2>1. CASE Abs(est - t * Hz) <= Tol
    BY <1>1, <1>2, <2>1 DEF CalcAudioDts, Align, AlignTypeOK, est
  <2>2. CASE ~(Abs(est - t * Hz) <= Tol)
    BY <1>1, <1>2, <2>2 DEF CalcAudioDts, Align, AlignTypeOK, est
  <2> QED BY <2>1, <2>2
<1>4. AlignTypeOK'
  BY <1>2, <1>3 DEF CalcAudioDts, AlignTypeOK
<1>5. AlignedIsNear'
  <2> HIDE DEF est
  <2>1. CASE Abs(est - t * Hz) <= Tol
    <3>1. aligned' = est /\ dts' = t * Hz
      BY <2>1 DEF CalcAudioDts, Align, est
    <3> QED BY <2>1, <3>1 DEF AlignedIsNear
  <2>2. CASE ~(Abs(est - t * Hz) <= Tol)
    <3>1. aligned' = t * Hz /\ dts' = t * Hz
      BY <2>2 DEF CalcAudioDts, Align, est
    <3> QED BY <1>2, <3>1, AlignAssumption DEF AlignedIsNear, Abs
  <2> QED BY <2>1, <2>2
<1> QED BY <1>4, <1>5

\* Two timestamps further apart than twice the tolerance keep their order when
\* each moves by no more than the tolerance.
LEMMA NearKeepsOrder ==
    ASSUME NEW a \in Nat, NEW b \in Nat, NEW c \in Nat, NEW d \in Nat,
           NEW T \in Nat,
           Abs(a - c) <= T, Abs(b - d) <= T, d - c > 2 * T
    PROVE  b > a
BY DEF Abs

AlignInv == AlignTypeOK /\ AlignedIsNear

\* The publisher's clock moves on by whole ticks, one more when the rests of
\* its period make up a tick.
LEMMA TickStep ==
    ASSUME AlignTypeOK, Tick
    PROVE  /\ rest' \in 0..(Den - 1) /\ due' \in Nat
           /\ due' = due + Inc \/ due' = due + Inc + 1
BY AlignAssumption DEF AlignTypeOK, Tick

\* Every step computes the timestamp of one more frame, or none.
LEMMA AlignStep ==
    ASSUME AlignInv, [AlignNext]_alignVars
    PROVE  AlignInv'
<1>1. CASE SteadyFrame
  <2>1. due \div Hz \in Nat
    BY AlignAssumption DEF AlignInv, AlignTypeOK
  <2> QED BY <1>1, <2>1, TickStep, CalcAudioDtsStep DEF AlignInv, SteadyFrame
<1>2. ASSUME NEW d \in Jumps, CalcAudioDts((dts \div Hz) + d), UNCHANGED <<due, rest>>
      PROVE  AlignInv'
  <2>1. (dts \div Hz) + d \in Nat
    BY AlignAssumption DEF AlignInv, AlignTypeOK
  <2>2. due' \in Nat /\ rest' \in 0..(Den - 1)
    BY <1>2 DEF AlignInv, AlignTypeOK
  <2> QED BY <1>2, <2>1, <2>2, CalcAudioDtsStep DEF AlignInv
<1>3. CASE UNCHANGED alignVars
  BY <1>3 DEF AlignInv, AlignTypeOK, AlignedIsNear, alignVars
<1> QED BY <1>1, <1>2, <1>3 DEF AlignNext, JumpyFrame

\* The first timestamp is 0, which is where the clock starts.
LEMMA AlignInitInv ==
    AlignInit => AlignInv
BY AlignAssumption DEF AlignInit, AlignInv, AlignTypeOK, AlignedIsNear, Abs

\* align keeps its state well typed, whatever timestamps a publisher sends.
THEOREM AlignTypeCorrect ==
    AlignSpec => []AlignTypeOK
<1>1. AlignInv => AlignTypeOK
  BY DEF AlignInv
<1> QED BY <1>1, AlignInitInv, AlignStep, PTL DEF AlignSpec

\* The smoothed audio time stays within the tolerance of the publisher's time,
\* for good: the error never accumulates, at any frame length.
THEOREM AlignedStaysNear ==
    AlignSpec => []AlignedIsNear
<1>1. AlignInv => AlignedIsNear
  BY DEF AlignInv
<1> QED BY <1>1, AlignInitInv, AlignStep, PTL DEF AlignSpec

\* Frames more than twice the tolerance apart keep their order.
THEOREM AlignedKeepsOrder ==
    AlignSpec => AlignedIncreases
<1>1. AlignInv /\ AlignInv' => (n' # n /\ dts' - dts > 2 * Tol => aligned' > aligned)
  <2> SUFFICES ASSUME AlignInv, AlignInv', dts' - dts > 2 * Tol
               PROVE  aligned' > aligned
    OBVIOUS
  <2>1. aligned \in Nat /\ dts \in Nat /\ aligned' \in Nat /\ dts' \in Nat /\ Tol \in Nat
    BY AlignAssumption DEF AlignInv, AlignTypeOK
  <2>2. Abs(aligned - dts) <= Tol
    BY DEF AlignInv, AlignedIsNear
  <2>3. Abs(aligned' - dts') <= Tol
    BY DEF AlignInv, AlignedIsNear
  <2> QED BY <2>1, <2>2, <2>3, NearKeepsOrder
<1>2. AlignInv /\ [AlignNext]_alignVars
        => [n' # n /\ dts' - dts > 2 * Tol => aligned' > aligned]_alignVars
  BY <1>1, AlignStep
<1> QED BY <1>2, AlignInitInv, AlignStep, PTL DEF AlignSpec, AlignedIncreases

\* Cutting to whole milliseconds takes off less than one.
LEMMA Cut ==
    ASSUME NEW x \in Nat, NEW k \in Nat \ {0}
    PROVE  /\ x \div k \in Nat
           /\ x - k < (x \div k) * k /\ (x \div k) * k <= x
OBVIOUS

\* The audio clock of a steady publisher is never early.  Late is how far the
\* next frame's number will be behind its time: at most the tolerance and one
\* millisecond, and after k frames numbered from a base at most a millisecond
\* and k ticks, one for every frame whose period was cut.  (More, when the
\* first base is 0 and not the first frame's time.)
Late == due - (aligned + Inc)

SteadyInv ==
    /\ n = 0 => frameBase = 0 /\ (steady => due = start * Hz)
    /\ (steady /\ n >= 1) =>
        /\ frameNum >= 1 /\ aligned + Inc = frameBase + frameNum * Inc
        /\ 0 <= Late /\ Late <= Tol + Hz
        /\ (frameBase # 0 \/ start <= 1) => Late <= Hz + frameNum

\* The frame that is due next: the number it gets, or the new base.
LEMMA SteadyStep ==
    ASSUME AlignTypeOK, SteadyInv, SteadyFrame
    PROVE  SteadyInv' /\ (n >= 1 => SteadyMove)
<1> DEFINE d == (due \div Hz) * Hz
<1> DEFINE est == frameBase + frameNum * Inc
<1>1. /\ n \in Nat /\ Inc \in Nat /\ Hz \in Nat \ {0} /\ Tol \in Nat /\ Hz <= Tol /\ start \in Nat
      /\ due \in Nat /\ frameNum \in Nat /\ frameBase \in Nat /\ aligned \in Nat
  BY AlignAssumption DEF AlignTypeOK
<1>2. d \in Nat /\ due - Hz < d /\ d <= due
  <2>1. due \div Hz \in Nat /\ due - Hz < d /\ d <= due
    BY <1>1, Cut
  <2> QED BY <1>1, <2>1
<1>3. est \in Nat
  BY <1>1, EstimateIsNat
<1>4. /\ n' = n + 1 /\ steady /\ steady' = steady /\ start' = start
      /\ IF Abs(est - d) <= Tol
         THEN frameNum' = frameNum + 1 /\ aligned' = est /\ frameBase' = frameBase
         ELSE frameNum' = 1 /\ frameBase' = d /\ aligned' = d
  BY Zenon DEF SteadyFrame, CalcAudioDts, Align
<1>5. due' \in Nat /\ (due' = due + Inc \/ due' = due + Inc + 1)
  BY TickStep DEF SteadyFrame
<1>6. /\ (frameNum + 1) * Inc = frameNum * Inc + Inc /\ 1 * Inc = Inc /\ frameNum * Inc \in Nat
      /\ 0 * Inc = 0
  BY <1>1
<1>7. est + Inc = frameBase + (frameNum + 1) * Inc
  BY <1>1, <1>6
<1>8. /\ est <= due
      /\ (frameBase # 0 \/ start <= 1) => due - est <= Hz + frameNum
      /\ n >= 1 => est = aligned + Inc /\ due - est <= Tol + Hz
  <2>1. CASE n = 0
    <3>1. frameNum = 0 /\ frameBase = 0 /\ due = start * Hz
      BY <1>1, <1>4, <2>1 DEF SteadyInv, AlignTypeOK
    <3>2. est = 0
      BY <1>6, <3>1
    <3>3. start <= 1 => start * Hz <= Hz
      BY <1>1
    <3> HIDE DEF est
    <3> QED BY <1>1, <2>1, <3>1, <3>2, <3>3
  <2>2. CASE n >= 1
    <3>1. /\ aligned + Inc = est /\ 0 <= Late /\ Late <= Tol + Hz
          /\ (frameBase # 0 \/ start <= 1) => Late <= Hz + frameNum
      BY <1>4, <2>2, Zenon DEF SteadyInv
    <3>2. Late = due - est
      BY <3>1 DEF Late
    <3> HIDE DEF est
    <3> QED BY <1>1, <1>3, <3>1, <3>2
  <2> QED BY <1>1, <2>1, <2>2
<1> HIDE DEF est, d
<1>9. CASE Abs(est - d) <= Tol
  <2>1. frameNum' = frameNum + 1 /\ aligned' = est /\ frameBase' = frameBase
    BY <1>4, <1>9
  <2>2. d - est <= Tol
    BY <1>1, <1>2, <1>3, <1>9 DEF Abs
  <2> DEFINE late == due' - (est + Inc)
  <2>a. Late' = late
    BY <2>1 DEF Late
  <2>b. late = due - est \/ late = due - est + 1
    <3>1. due \in Nat /\ due' \in Nat /\ est \in Nat /\ (due' = due + Inc \/ due' = due + Inc + 1)
      BY <1>1, <1>3, <1>5
    <3>2. CASE due' = due + Inc
      BY <3>1, <3>2, AlignAssumption
    <3>3. CASE due' = due + Inc + 1
      BY <3>1, <3>3, AlignAssumption
    <3> QED BY <3>1, <3>2, <3>3
  <2> HIDE DEF late
  <2>3. 0 <= Late' /\ Late' <= Tol + Hz
    BY <1>1, <1>2, <1>3, <1>8, <2>a, <2>b, <2>2
  <2>4. (frameBase' # 0 \/ start' <= 1) => Late' <= Hz + frameNum'
    <3>1. SUFFICES ASSUME frameBase # 0 \/ start <= 1 PROVE Late' <= Hz + (frameNum + 1)
      BY <1>4, <2>1
    <3>2. due - est <= Hz + frameNum
      BY <1>8, <3>1
    <3> QED BY <1>1, <1>3, <2>a, <2>b, <3>2
  <2>5. aligned' + Inc = frameBase' + frameNum' * Inc
    BY <1>7, <2>1
  <2>6. n' # 0 /\ frameNum' >= 1
    BY <1>1, <1>4, <2>1
  <2>7. SteadyInv'
    BY <2>3, <2>4, <2>5, <2>6, Zenon DEF SteadyInv
  <2>8. n >= 1 => SteadyMove
    BY <1>8, <2>1 DEF SteadyMove
  <2> QED BY <2>7, <2>8
<1>10. CASE ~(Abs(est - d) <= Tol)
  <2>1. frameNum' = 1 /\ aligned' = d /\ frameBase' = d
    BY <1>4, <1>10
  <2>2. d - est > Tol
    BY <1>1, <1>2, <1>3, <1>8, <1>10 DEF Abs
  <2> DEFINE late == due' - (d + Inc)
  <2>a. Late' = late
    BY <2>1 DEF Late
  <2>b. late = due - d \/ late = due - d + 1
    <3>1. due \in Nat /\ due' \in Nat /\ d \in Nat /\ (due' = due + Inc \/ due' = due + Inc + 1)
      BY <1>1, <1>2, <1>5
    <3>2. CASE due' = due + Inc
      BY <3>1, <3>2, AlignAssumption
    <3>3. CASE due' = due + Inc + 1
      BY <3>1, <3>3, AlignAssumption
    <3> QED BY <3>1, <3>2, <3>3
  <2> HIDE DEF late
  <2>3. 0 <= Late' /\ Late' <= Hz
    BY <1>1, <1>2, <2>a, <2>b
  <2>4. Late' \in Int /\ Late' <= Tol + Hz /\ Late' <= Hz + frameNum'
    BY <1>1, <1>2, <2>1, <2>a, <2>b, <2>3
  <2>5. aligned' + Inc = frameBase' + frameNum' * Inc
    BY <1>6, <2>1
  <2>6. n' # 0 /\ frameNum' >= 1
    BY <1>1, <1>4, <2>1
  <2>7. SteadyInv'
    BY <2>3, <2>4, <2>5, <2>6, Zenon DEF SteadyInv
  <2>8. ASSUME n >= 1 PROVE SteadyMove
    <3>1. aligned' - aligned - Inc \in (Tol + 1)..(Tol + Hz)
      BY <1>1, <1>2, <1>3, <1>8, <2>1, <2>2, <2>8
    <3>2. frameNum > Tol - Hz \/ (frameBase = 0 /\ start > 1)
      BY <1>1, <1>2, <1>3, <1>8, <2>2
    <3> QED BY <3>1, <3>2 DEF SteadyMove
  <2> QED BY <2>7, <2>8
<1> QED BY <1>9, <1>10

\* Whatever the sample rate: the clock of a steady publisher's audio never goes
\* back, and it takes more than Tol - Hz frames of cut periods until it jumps.
THEOREM SteadyJumpsRarely ==
    AlignSpec => SteadyRarelyJumps
<1> DEFINE Rarely == steady /\ n >= 1 /\ n' # n => SteadyMove
<1>1. AlignInit => SteadyInv
  <2> SUFFICES ASSUME AlignInit PROVE SteadyInv
    OBVIOUS
  <2>1. n = 0 /\ frameBase = 0 /\ due = start * Hz
    BY Zenon DEF AlignInit
  <2>2. ~(n >= 1)
    BY <2>1
  <2> QED BY <2>1, <2>2, Zenon DEF SteadyInv
<1>2. AlignTypeOK /\ SteadyInv /\ [AlignNext]_alignVars => SteadyInv' /\ [Rarely]_alignVars
  <2> SUFFICES ASSUME AlignTypeOK, SteadyInv, [AlignNext]_alignVars
               PROVE  SteadyInv' /\ [Rarely]_alignVars
    OBVIOUS
  <2>1. CASE SteadyFrame
    BY <2>1, SteadyStep
  <2>2. CASE JumpyFrame
    <3>1. n' # 0 /\ steady' = steady /\ ~steady
      BY <2>2 DEF JumpyFrame, CalcAudioDts, AlignTypeOK
    <3> QED BY <3>1, Zenon DEF SteadyInv
  <2>3. CASE UNCHANGED alignVars
    BY <2>3 DEF SteadyInv, Late, alignVars
  <2> QED BY <2>1, <2>2, <2>3 DEF AlignNext
<1> QED BY <1>1, <1>2, AlignTypeCorrect, PTL DEF AlignSpec, SteadyRarelyJumps
=============================================================================

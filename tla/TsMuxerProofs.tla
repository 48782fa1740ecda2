--------------------------- MODULE TsMuxerProofs ---------------------------
(***************************************************************************)
(* The counters of the transport stream and the packets of a frame, for    *)
(* every length of frames, every clock and any number of frames and        *)
(* tables.                                                                 *)
(***************************************************************************)
EXTENDS TsMuxer, SequenceTheorems, TLAPS

-----------------------------------------------------------------------------
(* The counters.                                                           *)

\* The PIDs of the tables.
Tabular == {"pat", "pmt"}

\* Video and audio step their counter before they use it, the tables after;
\* so the last counter shown is the one kept, or the one before it.
CounterInv ==
    /\ cc \in [Pids -> 0..16] /\ shown \in [Pids -> Int]
    /\ \A p \in Pids \ Tabular : cc[p] <= 15 /\ shown[p] \in {-1, cc[p]}
    /\ \A p \in Tabular : shown[p] \in {-1, cc[p] - 1}

\* The counter a packet of a frame shows is kept.
LEMMA FrameCounter ==
    ASSUME CounterInv, MuxPacket
    PROVE  LET pid == IF frame.video THEN "video" ELSE "audio"
           IN  /\ cc' = [cc EXCEPT ![pid] = NextCc(cc[pid])]
               /\ shown' = [shown EXCEPT ![pid] = NextCc(cc[pid]) % 16]
BY Zenon DEF MuxPacket

\* Every step keeps the relation.
LEMMA CounterStep == CounterInv /\ [MuxNext]_muxVars => CounterInv'
<1> SUFFICES ASSUME CounterInv, [MuxNext]_muxVars PROVE CounterInv'
  OBVIOUS
<1> USE DEF CounterInv, Pids, Tabular
<1>1. CASE UNCHANGED <<cc, shown>>
  BY <1>1
<1>2. CASE MuxPacket
  <2>1. ASSUME NEW c \in 0..15 PROVE NextCc(c) \in 0..15 /\ NextCc(c) % 16 = NextCc(c)
    BY DEF NextCc
  <2>2. QED
    BY <1>2, <2>1, FrameCounter
<1>3. CASE Tables
  BY <1>3 DEF Tables
<1>4. ASSUME NEW f, StartFrame(f) PROVE CounterInv'
  BY <1>1, <1>4 DEF StartFrame
<1> HIDE DEF CounterInv
<1>5. QED
  BY <1>1, <1>2, <1>3, <1>4, Zenon DEF MuxNext, muxVars

\* A receiver sees no loss on any PID: the four counters, stepped at different
\* places of Mux, PAT and PMT, follow one another modulo 16.
THEOREM NoLossIsSeen == MuxSpec => CountersFollow
<1>1. MuxInit => CounterInv
  BY DEF MuxInit, CounterInv, Pids, Tabular
<1> DEFINE Follows ==
       \A p \in Pids :
          /\ shown[p] # -1
          /\ IF p \in {"pat", "pmt"} THEN tables' # tables
             ELSE left > 0 /\ p = (IF frame.video THEN "video" ELSE "audio")
          => shown'[p] = (shown[p] + 1) % 16
<1>2. CounterInv /\ [MuxNext]_muxVars => [Follows]_muxVars
  <2> SUFFICES ASSUME CounterInv, MuxNext PROVE Follows
    OBVIOUS
  <2> USE DEF CounterInv, Pids, Tabular
  <2>1. CASE MuxPacket
    <3>1. tables' = tables
      BY <2>1, Zenon DEF MuxPacket
    <3>2. ASSUME NEW c \in 0..15 PROVE NextCc(c) % 16 = (c + 1) % 16
      BY DEF NextCc
    <3>3. QED
      BY <2>1, <3>1, <3>2, FrameCounter
  <2>2. CASE Tables
    <3>1. left = 0
      BY <2>2 DEF Tables
    <3>2. ASSUME NEW p \in Tabular, shown[p] # -1 PROVE shown'[p] = (shown[p] + 1) % 16
      <4>1. shown'[p] = IF cc[p] > 15 THEN 0 ELSE cc[p]
        BY <2>2 DEF Tables
      <4>2. shown[p] = cc[p] - 1 /\ cc[p] \in 0..16
        BY <3>2
      <4>3. QED
        BY <4>1, <4>2
    <3>3. QED
      BY <3>1, <3>2
  <2>3. ASSUME NEW f, StartFrame(f) PROVE Follows
    BY <2>3 DEF StartFrame
  <2> HIDE DEF Follows
  <2>4. QED
    BY <2>1, <2>2, <2>3, Zenon DEF MuxNext
<1>3. QED
  BY <1>1, <1>2, CounterStep, PTL DEF MuxSpec, CountersFollow

-----------------------------------------------------------------------------
(* The packets.                                                            *)

\* The first n cells of the frame's PES header and data.
Whole(n) ==
    [j \in 1..n |-> IF j <= pes.len THEN <<"pes", j - 1>> ELSE <<"data", j - pes.len - 1>>]

\* What a cell may hold.
CellSet == {"pcr", "flags", "stuffing", "length", "pes", "data"} \X Int

\* The PES header goes out in the first packet; what is left is the rest of the
\* frame; what was received is the part that went out.
MuxInv ==
    /\ frame \in [video : BOOLEAN, key : BOOLEAN, len : Nat, dts : Nat, pts : Nat]
    /\ first \in BOOLEAN /\ frames \in Nat
    /\ tsPacket \in [4..187 -> CellSet]
    /\ pes.len \in {0, 14, 19} /\ wBytes \in 0..frame.len
    /\ left > 0 => frames > 0
    /\ frames > 0 => pes = PesHeader(frame)
    /\ IF first THEN pesIndex = 0 /\ wBytes = 0 ELSE pesIndex = pes.len
    /\ left = pes.len + frame.len - pesIndex - wBytes
    /\ ~SmallKey => received = Whole(pesIndex + wBytes)

\* p is what a packet holds from a cell on.
Taken(p, S, cells, from) ==
    /\ p \in Seq(S) /\ Len(p) = 188 - from
    /\ \A j \in 1..(188 - from) : p[j] = cells[from + j - 1]

\* What a receiver takes for payload, when the adaptation field ends before from.
LEMMA PayloadCells ==
    ASSUME NEW S, NEW cells, \A j \in 4..187 : cells[j] \in S,
           NEW adapted \in BOOLEAN, NEW from \in 4..188,
           adapted => cells[4] = LengthCell(from - 5), ~adapted => from = 4
    PROVE  Taken(PayloadFrom(cells, adapted), S, cells, from)
<1> DEFINE s == [j \in 1..184 |-> cells[j + 3]]
<1> DEFINE t == SubSeq(s, from - 3, 184)
<1>1. PayloadFrom(cells, adapted) = t
  <2>1. (IF adapted THEN 5 + cells[4][2] ELSE 4) = from
    BY DEF LengthCell
  <2>2. QED
    BY <2>1, Zenon DEF PayloadFrom, DataLen
<1>2. ASSUME NEW j \in 1..184 PROVE s[j] = cells[j + 3] /\ s[j] \in S
  OBVIOUS
<1> HIDE DEF s
<1>3. /\ t \in Seq(S) /\ Len(t) = IF from - 3 <= 184 THEN 184 - (from - 3) + 1 ELSE 0
      /\ \A j \in 1..(184 - (from - 3) + 1) : t[j] = s[from - 3 + j - 1]
  <2>1. \A i \in (from - 3)..184 : s[i] \in S
    BY <1>2
  <2>2. from - 3 \in Int /\ 184 \in Int
    OBVIOUS
  <2>3. QED
    BY <2>1, <2>2, SubSeqProperties
<1> HIDE DEF t
<1>4. Len(t) = 188 - from
  BY <1>3
<1>5. ASSUME NEW j \in 1..(188 - from) PROVE t[j] = cells[from + j - 1]
  <2>1. t[j] = s[from - 3 + j - 1]
    BY <1>3
  <2>2. from - 3 + j - 1 \in 1..184 /\ (from - 3 + j - 1) + 3 = from + j - 1
    OBVIOUS
  <2>3. QED
    BY <1>2, <2>1, <2>2
<1>6. QED
  BY <1>1, <1>3, <1>4, <1>5 DEF Taken

\* A byte wraps.
LEMMA Byte ==
    ASSUME NEW x \in Int
    PROVE  /\ x % 256 \in 0..255
           /\ 0 <= x /\ x < 256 => x % 256 = x
           /\ 256 <= x /\ x < 512 => x % 256 = x - 256
           /\ -256 <= x /\ x < 0 => x % 256 = x + 256
OBVIOUS

\* n cells of a kind, numbered from k, are at i, and the others are as before.
Copied(new, cells, i, kind, k, n) ==
    /\ new \in [4..187 -> CellSet]
    /\ \A j \in 4..187 : new[j] =
          IF i <= j /\ j < i + n THEN <<kind, k + (j - i)>> ELSE cells[j]

\* Copy writes where it says.
LEMMA CopyCells ==
    ASSUME NEW cells \in [4..187 -> CellSet], NEW i \in Int, NEW k \in Int, NEW n \in Nat,
           NEW kind \in {"pes", "data"}
    PROVE  Copied(Copy(cells, i, kind, k, n), cells, i, kind, k, n)
<1>1. \A j \in 4..187 : Copy(cells, i, kind, k, n)[j] =
         IF i <= j /\ j < i + n THEN <<kind, k + (j - i)>> ELSE cells[j]
  BY DEF Copy
<1>2. \A j \in 4..187 : <<kind, k + (j - i)>> \in CellSet
  BY DEF CellSet
<1>3. QED
  BY <1>1, <1>2, Zenon DEF Copy, Copied

\* The field with the clock has a length of seven.
LEMMA PcrCells ==
    ASSUME NEW cells \in [4..187 -> CellSet]
    PROVE  WithPcr(cells) \in [4..187 -> CellSet] /\ WithPcr(cells)[4] = LengthCell(7)
BY DEF WithPcr, LengthCell, Flags, Pcr, CellSet

\* The stuffing field's length is in its first cell; behind the clock it leaves
\* the length of the clock's field.
LEMMA AdaptationCells ==
    ASSUME NEW cells \in [4..187 -> CellSet], NEW i \in {4, 12}, NEW n \in Nat
    PROVE  /\ AdaptationBufInit(cells, i, n) \in [4..187 -> CellSet]
           /\ AdaptationBufInit(cells, i, n)[4] =
                 IF i = 4 THEN LengthCell((n - 1) % 256) ELSE cells[4]
<1>1. \A v \in Int : LengthCell(v) \in CellSet
  BY Zenon DEF LengthCell, CellSet
<1>2. Flags \in CellSet /\ Stuffing \in CellSet /\ (n - 1) % 256 \in Int
  BY DEF Flags, Stuffing, CellSet
<1>3. LengthCell((n - 1) % 256) \in CellSet
  BY <1>1, <1>2
<1> HIDE DEF CellSet
<1>4. QED
  BY <1>2, <1>3 DEF AdaptationBufInit

\* What one round of Mux's loop takes of the header and of the data; the
\* packet's data end where the packet ends.
LEMMA PacketEffect ==
    ASSUME MuxInv, MuxPacket
    PROVE  \E data \in 0..(frame.len - wBytes) :
             LET header == IF first THEN pes.len ELSE 0
             IN  /\ tsPacket' \in [4..187 -> CellSet]
                 /\ pesIndex' = pesIndex + header /\ wBytes' = wBytes + data
                 /\ left' = left - header - data
                 /\ ~SmallKey =>
                      \E new \in Seq(CellSet) :
                        /\ received' = received \o new /\ Len(new) = header + data
                        /\ \A j \in 1..(header + data) : new[j] =
                              IF j <= header THEN <<"pes", j - 1>>
                              ELSE <<"data", wBytes + (j - header - 1)>>
<1> DEFINE pcr == first /\ frame.key
<1> DEFINE i0 == IF pcr THEN 12 ELSE 4
<1> DEFINE used == IF first THEN i0 - 4 ELSE 0
<1> DEFINE short == left < DataLen
<1> DEFINE remain == (DataLen - left - used) % 256
<1> DEFINE base == IF pcr THEN WithPcr(tsPacket) ELSE tsPacket
<1> DEFINE padded == IF short THEN AdaptationBufInit(base, i0, remain) ELSE base
<1> DEFINE i1 == IF short THEN (i0 + remain) % 256 ELSE i0
<1> DEFINE header == IF first /\ i1 < PacketLen THEN Least(PacketLen - i1, pes.len) ELSE 0
<1> DEFINE headed == Copy(padded, i1, "pes", pesIndex, header)
<1> DEFINE i2 == i1 + header
<1> DEFINE room == ((IF short THEN left ELSE DataLen - used) - header) % 256
<1> DEFINE data == IF i2 < PacketLen THEN Least(PacketLen - i2, room) ELSE 0
<1> DEFINE cells == Copy(headed, i2, "data", wBytes, data)
<1> DEFINE adapted == pcr \/ short
<1>1. /\ tsPacket' = cells
      /\ pesIndex' = pesIndex + header /\ wBytes' = wBytes + data
      /\ left' = left - header - data
      /\ received' = received \o PayloadFrom(cells, adapted)
  BY Zenon DEF MuxPacket
<1>2. /\ left \in Nat \ {0} /\ first \in BOOLEAN /\ frame.key \in BOOLEAN /\ frame.len \in Nat
      /\ pes.len \in {14, 19} /\ pesIndex = (IF first THEN 0 ELSE pes.len)
      /\ wBytes \in 0..frame.len
      /\ left = (IF first THEN pes.len + frame.len ELSE frame.len - wBytes)
      /\ first => wBytes = 0
  <2>1. frames > 0 /\ left > 0 /\ pes = PesHeader(frame)
    BY Zenon DEF MuxPacket, MuxInv
  <2>2. pes.len \in {14, 19}
    BY <2>1 DEF PesHeader
  <2>3. QED
    BY <2>1, <2>2 DEF MuxInv
<1> DEFINE h == IF first THEN pes.len ELSE 0
<1> HIDE DEF pcr, i0, used, short, remain, base, padded, i1, header, headed, i2, room, data,
             cells, adapted, h
<1>3. /\ i0 \in {4, 12} /\ used = i0 - 4 /\ (pcr <=> i0 = 12)
      /\ h \in Nat /\ h <= left /\ h <= 19
      /\ (pcr => first /\ frame.key) /\ h = (IF first THEN pes.len ELSE 0)
      /\ left - h = frame.len - wBytes
  BY <1>2 DEF pcr, i0, used, h
<1>4. /\ i1 \in 4..187 /\ remain \in 0..255
      /\ (short => i1 = 188 - left /\ left < 184 /\ remain = (184 - left - used) % 256)
      /\ (~short => i1 = i0 /\ left >= 184)
  <2>1. remain = (184 - left - used) % 256
    BY DEF remain, DataLen
  <2>2. short <=> left < 184
    BY DEF short, DataLen
  <2>3. left \in Nat /\ left > 0 /\ (i0 = 4 \/ i0 = 12) /\ used = i0 - 4
    BY <1>2, <1>3
  <2>4. remain \in 0..255
    <3>1. 184 - left - used \in Int
      BY <1>2, <1>3
    <3>2. QED
      BY <2>1, <3>1, Byte
  <2>5. CASE short
    <3>1. i1 = (i0 + remain) % 256
      BY <2>5 DEF i1
    <3>2. /\ left \in 1..183 /\ 184 - left - used \in -256..255 /\ i0 + remain \in Int
          /\ 188 - left \in 5..187
      BY <2>3, <2>2, <2>4, <2>5
    <3>3. i0 + remain = 188 - left \/ i0 + remain = 188 - left + 256
      BY <2>3, <2>1, <3>2, Byte
    <3>4. i1 = 188 - left
      BY <3>1, <3>2, <3>3, Byte
    <3>5. QED
      BY <2>1, <2>4, <2>5, <3>2, <3>4
  <2>6. CASE ~short
    <3>1. i1 = i0
      BY <2>6 DEF i1
    <3>2. QED
      BY <2>3, <2>2, <2>4, <2>6, <3>1
  <2>7. QED
    BY <2>5, <2>6
<1>5. header = h /\ i2 = i1 + h /\ i1 + h <= 188
  <2>1. i1 + h <= 188
    BY <1>2, <1>3, <1>4
  <2>2. header = IF first /\ i1 < 188
                 THEN (IF 188 - i1 <= pes.len THEN 188 - i1 ELSE pes.len) ELSE 0
    BY DEF header, PacketLen, Least
  <2>3. header = h
    BY <1>2, <1>3, <1>4, <2>1, <2>2
  <2>4. QED
    BY <2>1, <2>3 DEF i2
<1>6. data = 188 - i1 - h /\ data \in 0..(frame.len - wBytes)
  <2>1. room = 188 - i1 - h
    <3>1. room = ((IF short THEN left ELSE 184 - used) - h) % 256
      BY <1>5 DEF room, DataLen
    <3>2. (IF short THEN left ELSE 184 - used) = 188 - i1
      BY <1>2, <1>3, <1>4
    <3>3. 188 - i1 - h \in 0..184
      BY <1>3, <1>4, <1>5
    <3>4. QED
      BY <3>1, <3>2, <3>3, Byte
  <2>2. data = IF i2 < 188 THEN (IF 188 - i2 <= room THEN 188 - i2 ELSE room) ELSE 0
    BY DEF data, PacketLen, Least
  <2>3. data = 188 - i1 - h
    BY <1>3, <1>4, <1>5, <2>1, <2>2
  <2>4. QED
    BY <1>2, <1>3, <1>4, <1>5, <2>3
<1>7. /\ padded \in [4..187 -> CellSet]
      /\ padded[4] = IF ~short THEN base[4]
                     ELSE IF i0 = 4 THEN LengthCell((remain - 1) % 256) ELSE base[4]
      /\ pcr => base[4] = LengthCell(7)
  <2>1. tsPacket \in [4..187 -> CellSet]
    BY DEF MuxInv
  <2>2. base \in [4..187 -> CellSet] /\ (pcr => base[4] = LengthCell(7))
    BY <2>1, PcrCells DEF base
  <2>3. AdaptationBufInit(base, i0, remain) \in [4..187 -> CellSet]
        /\ AdaptationBufInit(base, i0, remain)[4] =
              IF i0 = 4 THEN LengthCell((remain - 1) % 256) ELSE base[4]
    <3>1. i0 \in {4, 12} /\ remain \in Nat
      BY <1>3, <1>4
    <3>2. QED
      BY <2>2, <3>1, AdaptationCells, Zenon
  <2>4. QED
    BY <2>2, <2>3 DEF padded
<1>8. /\ cells \in [4..187 -> CellSet]
      /\ i1 > 4 => cells[4] = padded[4]
      /\ \A j \in i1..187 : cells[j] =
            IF j < i1 + h THEN <<"pes", j - i1>> ELSE <<"data", wBytes + (j - i1 - h)>>
  <2>1. /\ i1 \in Int /\ i2 \in Int /\ pesIndex \in Int /\ wBytes \in Int
        /\ h \in Nat /\ data \in Nat
        /\ (h # 0 => pesIndex = 0) /\ i2 = i1 + h /\ i2 + data = 188
    <3>1. pesIndex \in Int /\ wBytes \in Int /\ (h # 0 => pesIndex = 0)
      BY <1>2, <1>3
    <3>2. i1 \in Int /\ h \in Nat
      BY <1>3, <1>4
    <3>3. data = 188 - i1 - h /\ data \in Nat
      BY <1>2, <1>6, <3>2
    <3>4. QED
      BY <1>5, <3>1, <3>2, <3>3
  <2>2. headed = Copy(padded, i1, "pes", pesIndex, h)
    BY <1>5 DEF headed
  <2>3. /\ headed \in [4..187 -> CellSet]
        /\ \A j \in 4..187 : headed[j] =
              IF i1 <= j /\ j < i1 + h THEN <<"pes", pesIndex + (j - i1)>> ELSE padded[j]
    <3>1. /\ padded \in [4..187 -> CellSet] /\ "pes" \in {"pes", "data"}
          /\ i1 \in Int /\ pesIndex \in Int /\ h \in Nat
      BY <1>7, <2>1
    <3>2. Copied(Copy(padded, i1, "pes", pesIndex, h), padded, i1, "pes", pesIndex, h)
      BY <3>1, CopyCells
    <3>3. QED
      BY <2>2, <3>2, Zenon DEF Copied
  <2>4. /\ cells \in [4..187 -> CellSet]
        /\ \A j \in 4..187 : cells[j] =
              IF i2 <= j /\ j < i2 + data THEN <<"data", wBytes + (j - i2)>> ELSE headed[j]
    <3>1. /\ headed \in [4..187 -> CellSet] /\ "data" \in {"pes", "data"}
          /\ i2 \in Int /\ wBytes \in Int /\ data \in Nat
      BY <2>1, <2>3
    <3>2. Copied(Copy(headed, i2, "data", wBytes, data), headed, i2, "data", wBytes, data)
      BY <3>1, CopyCells
    <3>3. QED
      BY <3>2, Zenon DEF Copied, cells
  <2>5. ASSUME i1 > 4 PROVE cells[4] = padded[4]
    <3>1. ~(i1 <= 4) /\ ~(i2 <= 4) /\ 4 \in 4..187
      BY <2>1, <2>5
    <3>2. headed[4] = padded[4]
      BY <2>3, <3>1, Zenon
    <3>3. cells[4] = headed[4]
      BY <2>4, <3>1, Zenon
    <3>4. QED
      BY <3>2, <3>3
  <2>6. ASSUME NEW j \in i1..187
        PROVE  cells[j] = IF j < i1 + h THEN <<"pes", j - i1>> ELSE <<"data", wBytes + (j - i1 - h)>>
    <3>1. j \in 4..187 /\ i1 <= j
      BY <1>4
    <3>2. CASE j < i1 + h
      <4>1. cells[j] = headed[j]
        <5>1. ~(i2 <= j)
          BY <2>1, <3>1, <3>2
        <5>2. QED
          BY <2>4, <3>1, <5>1, Zenon
      <4>2. headed[j] = <<"pes", pesIndex + (j - i1)>>
        BY <2>3, <3>1, <3>2, Zenon
      <4>3. pesIndex + (j - i1) = j - i1
        BY <2>1, <3>1, <3>2
      <4>4. QED
        BY <3>2, <4>1, <4>2, <4>3
    <3>3. CASE ~(j < i1 + h)
      <4>1. i2 <= j /\ j < i2 + data /\ j - i2 = j - i1 - h
        BY <2>1, <3>1, <3>3
      <4>2. cells[j] = <<"data", wBytes + (j - i2)>>
        BY <2>4, <3>1, <4>1, Zenon
      <4>3. QED
        BY <3>3, <4>1, <4>2
    <3>4. QED
      BY <3>2, <3>3
  <2>7. QED
    BY <2>4, <2>5, <2>6
<1>9. ASSUME ~SmallKey
      PROVE  (adapted => cells[4] = LengthCell(i1 - 5)) /\ (~adapted => i1 = 4)
  <2>1. CASE ~adapted
    BY <1>3, <1>4, <2>1 DEF adapted
  <2>2. CASE pcr
    <3>1. short => left = 176
      BY <1>2, <1>3, <1>4, <1>9, <2>2 DEF SmallKey, DataLen
    <3>2. i1 = 12 /\ i0 = 12
      BY <1>3, <1>4, <2>2, <3>1
    <3>3. padded[4] = LengthCell(7)
      BY <1>7, <2>2, <3>2
    <3>4. cells[4] = LengthCell(7)
      BY <1>8, <3>2, <3>3
    <3>5. i1 - 5 = 7 /\ adapted
      BY <2>2, <3>2 DEF adapted
    <3>6. QED
      BY <3>4, <3>5
  <2>3. CASE short /\ ~pcr
    <3>1. i0 = 4 /\ used = 0 /\ left \in 1..183 /\ i1 = 188 - left
      <4>1. left < 184 /\ left \in Nat /\ left > 0
        BY <1>2, <1>4, <2>3
      <4>2. QED
        BY <1>3, <1>4, <2>3, <4>1
    <3>2. (remain - 1) % 256 = i1 - 5 /\ i1 > 4
      <4>1. remain = (184 - left) % 256 /\ 184 - left \in 1..183
        BY <1>4, <2>3, <3>1
      <4>2. remain = 184 - left
        BY <4>1, Byte
      <4>3. remain - 1 \in 0..255 /\ remain - 1 = i1 - 5
        BY <3>1, <4>1, <4>2
      <4>4. QED
        BY <3>1, <4>3, Byte
    <3>3. padded[4] = LengthCell(i1 - 5)
      BY <1>7, <2>3, <3>1, <3>2
    <3>4. QED
      BY <1>8, <2>3, <3>2, <3>3 DEF adapted
  <2>4. QED
    BY <2>1, <2>2, <2>3 DEF adapted
<1> DEFINE new == PayloadFrom(cells, adapted)
<1>10. ASSUME ~SmallKey
       PROVE  /\ new \in Seq(CellSet) /\ Len(new) = h + data
              /\ \A j \in 1..(h + data) : new[j] =
                    IF j <= h THEN <<"pes", j - 1>> ELSE <<"data", wBytes + (j - h - 1)>>
  <2>1. adapted \in BOOLEAN /\ i1 \in 4..188 /\ \A j \in 4..187 : cells[j] \in CellSet
    BY <1>4, <1>8 DEF adapted
  <2>2. /\ new \in Seq(CellSet) /\ Len(new) = 188 - i1
        /\ \A j \in 1..(188 - i1) : new[j] = cells[i1 + j - 1]
    <3>1. (adapted => cells[4] = LengthCell(i1 - 5)) /\ (~adapted => i1 = 4)
      BY <1>9, <1>10
    <3>2. QED
      <4>1. Taken(new, CellSet, cells, i1)
        BY <2>1, <3>1, PayloadCells
      <4>2. QED
        BY <4>1 DEF Taken
  <2> HIDE DEF new
  <2>3. h + data = 188 - i1
    BY <1>3, <1>4, <1>6
  <2>4. ASSUME NEW j \in 1..(188 - i1)
        PROVE  new[j] = IF j <= h THEN <<"pes", j - 1>> ELSE <<"data", wBytes + (j - h - 1)>>
    <3>1. i1 + j - 1 \in i1..187 /\ (i1 + j - 1) - i1 = j - 1 /\ (i1 + j - 1) - i1 - h = j - h - 1
          /\ (i1 + j - 1 < i1 + h <=> j <= h)
      BY <1>3, <1>4
    <3>2. new[j] = cells[i1 + j - 1]
      BY <2>2
    <3>3. QED
      BY <1>8, <3>1, <3>2
  <2>5. QED
    BY <2>2, <2>3, <2>4
<1> HIDE DEF new
<1>11. received' = received \o new
  BY <1>1 DEF new
<1> SUFFICES /\ tsPacket' \in [4..187 -> CellSet]
             /\ pesIndex' = pesIndex + h /\ wBytes' = wBytes + data
             /\ left' = left - h - data
             /\ ~SmallKey =>
                   /\ new \in Seq(CellSet) /\ received' = received \o new /\ Len(new) = h + data
                   /\ \A j \in 1..(h + data) : new[j] =
                         IF j <= h THEN <<"pes", j - 1>> ELSE <<"data", wBytes + (j - h - 1)>>
  BY <1>6, Zenon DEF h
<1>12. QED
  BY <1>1, <1>5, <1>8, <1>10, <1>11, Zenon

-----------------------------------------------------------------------------
(* The frame.                                                              *)

\* One turn of the clock.
LEMMA Turn ==
    ASSUME NEW m \in Nat \ {0}, NEW x \in Int
    PROVE  (x - m) % m = x % m
<1>1. PICK q \in Int, r \in 0..(m - 1) : x = m * q + r /\ x % m = r
  <2>1. x = m * (x \div m) + (x % m) /\ x \div m \in Int /\ x % m \in 0..(m - 1)
    OBVIOUS
  <2>2. QED
    BY <2>1, Zenon
<1>2. PICK p \in Int, t \in 0..(m - 1) : x - m = m * p + t /\ (x - m) % m = t
  <2>1. x - m = m * ((x - m) \div m) + ((x - m) % m) /\ (x - m) \div m \in Int
        /\ (x - m) % m \in 0..(m - 1)
    OBVIOUS
  <2>2. QED
    BY <2>1, Zenon
<1>3. m * (q - 1 - p) = t - r
  BY <1>1, <1>2
<1>4. q - 1 - p = 0
  <2>1. ASSUME NEW d \in Int, d >= 1 PROVE m * d >= m
    BY <2>1
  <2>2. ASSUME NEW d \in Int, d <= -1 PROVE m * d <= -m
    BY <2>2
  <2>3. QED
    BY <1>3, <2>1, <2>2
<1>5. QED
  BY <1>1, <1>2, <1>3, <1>4

\* writeTs is at most one tick late.
LEMMA StampNear ==
    ASSUME NEW ts \in Nat
    PROVE  WriteStamp(ts) \in {ts % ClockMod, (ts + 1) % ClockMod}
<1>1. CASE ts > ClockMod - 1
  <2>1. WriteStamp(ts) = (ts - (ClockMod - 1)) % ClockMod
    BY <1>1 DEF WriteStamp
  <2>2. ts - (ClockMod - 1) = (ts + 1) - ClockMod /\ ts + 1 \in Int
    BY MuxAssumption
  <2>3. ((ts + 1) - ClockMod) % ClockMod = (ts + 1) % ClockMod
    BY <2>2, Turn, MuxAssumption, Zenon
  <2>4. QED
    BY <2>1, <2>2, <2>3
<1>2. CASE ~(ts > ClockMod - 1)
  BY <1>2 DEF WriteStamp
<1>3. QED
  BY <1>1, <1>2

\* What was received grows by what was sent.
LEMMA WholeGrows ==
    ASSUME NEW n \in Nat, NEW m \in Nat, NEW new \in Seq(CellSet), Len(new) = m, pes.len \in Nat,
           \A j \in 1..m : new[j] =
              IF n + j <= pes.len THEN <<"pes", n + j - 1>> ELSE <<"data", n + j - pes.len - 1>>
    PROVE  Whole(n) \o new = Whole(n + m)
<1>1. ASSUME NEW k \in Nat PROVE Whole(k) \in Seq(CellSet) /\ Len(Whole(k)) = k
  <2>1. Whole(k) \in [1..k -> CellSet]
    BY DEF Whole, CellSet
  <2> DEFINE w == Whole(k)
  <2> HIDE DEF w
  <2>2. w \in [1..k -> CellSet]
    BY <2>1 DEF w
  <2>3. w \in Seq(CellSet)
    BY <2>2
  <2>4. DOMAIN w = 1..Len(w) /\ Len(w) \in Nat /\ DOMAIN w = 1..k
    BY <2>2, <2>3, LenProperties
  <2>5. Len(w) = k
    <3>1. \A j \in Nat : j \in 1..Len(w) <=> j \in 1..k
      BY <2>4
    <3>2. ~(Len(w) > k) /\ ~(k > Len(w))
      BY <2>4, <3>1
    <3>3. Len(w) \in Nat
      BY <2>4
    <3>4. QED
      BY <3>2, <3>3
  <2>6. QED
    BY <2>3, <2>5 DEF w
<1>2. /\ Whole(n) \o new \in Seq(CellSet) /\ Len(Whole(n) \o new) = n + m
      /\ \A i \in 1..(n + m) : (Whole(n) \o new)[i] =
            IF i <= n THEN Whole(n)[i] ELSE new[i - n]
  <2> DEFINE w == Whole(n)
  <2> HIDE DEF w
  <2>1. w \in Seq(CellSet) /\ Len(w) = n
    BY <1>1 DEF w
  <2>2. /\ w \o new \in Seq(CellSet) /\ Len(w \o new) = Len(w) + Len(new)
        /\ \A i \in 1..(Len(w) + Len(new)) : (w \o new)[i] =
              IF i <= Len(w) THEN w[i] ELSE new[i - Len(w)]
    BY <2>1, ConcatProperties, Zenon
  <2>3. QED
    BY <2>1, <2>2 DEF w
<1>3. ASSUME NEW i \in 1..(n + m) PROVE (Whole(n) \o new)[i] = Whole(n + m)[i]
  <2>1. CASE i <= n
    <3>1. (Whole(n) \o new)[i] = Whole(n)[i]
      BY <1>2, <2>1
    <3>2. Whole(n)[i] = Whole(n + m)[i]
      BY <2>1 DEF Whole
    <3>3. QED
      BY <3>1, <3>2
  <2>2. CASE ~(i <= n)
    <3> DEFINE j == i - n
    <3>1. j \in 1..m /\ n + j = i /\ n + j - 1 = i - 1 /\ n + j - pes.len - 1 = i - pes.len - 1
      BY <2>2
    <3>2. (Whole(n) \o new)[i] = new[j]
      BY <1>2, <2>2
    <3> HIDE DEF j
    <3>3. new[j] = IF n + j <= pes.len THEN <<"pes", n + j - 1>>
                   ELSE <<"data", n + j - pes.len - 1>>
      BY <3>1
    <3>4. new[j] = IF i <= pes.len THEN <<"pes", i - 1>> ELSE <<"data", i - pes.len - 1>>
      BY <3>1, <3>3, Zenon
    <3>5. Whole(n + m)[i] = IF i <= pes.len THEN <<"pes", i - 1>> ELSE <<"data", i - pes.len - 1>>
      BY DEF Whole
    <3>6. QED
      BY <3>2, <3>4, <3>5, Zenon
  <2>3. QED
    BY <2>1, <2>2, Zenon
<1>4. n + m \in Nat
  OBVIOUS
<1>5. QED
  BY <1>1, <1>2, <1>3, <1>4, SeqEqual, Zenon

\* Before the first frame nothing was received.
LEMMA MuxInitInv == MuxInit => MuxInv
<1> SUFFICES ASSUME MuxInit PROVE MuxInv
  OBVIOUS
<1>1. Stuffing \in CellSet
  BY DEF Stuffing, CellSet
<1>2. tsPacket \in [4..187 -> CellSet]
  BY <1>1 DEF MuxInit, PacketLen
<1>3. received = Whole(pesIndex + wBytes)
  BY DEF MuxInit, Whole
<1>4. QED
  BY <1>2, <1>3 DEF MuxInit, MuxInv

\* Every step keeps the invariant.
LEMMA MuxStep == MuxInv /\ [MuxNext]_muxVars => MuxInv'
<1> SUFFICES ASSUME MuxInv, [MuxNext]_muxVars PROVE MuxInv'
  OBVIOUS
<1>1. CASE UNCHANGED <<tsPacket, frame, pes, first, wBytes, pesIndex, left, received, frames>>
  BY <1>1 DEF MuxInv, Whole, SmallKey
<1>2. ASSUME NEW f \in [video : BOOLEAN, key : BOOLEAN, len : Nat, dts : Nat, pts : Nat], StartFrame(f)
      PROVE  MuxInv'
  <2>1. PesHeader(f).len \in {14, 19}
    BY DEF PesHeader
  <2>2. received' = Whole(0)'
    BY <1>2 DEF StartFrame, Whole
  <2>3. pesIndex' = 0 /\ wBytes' = 0
    BY <1>2 DEF StartFrame
  <2>4. received' = Whole(pesIndex + wBytes)'
    BY <2>2, <2>3
  <2>5. /\ frame' = f /\ pes' = PesHeader(f) /\ first' = TRUE /\ frames' = frames + 1
        /\ tsPacket' = tsPacket /\ left' = f.len + PesHeader(f).len
    BY <1>2 DEF StartFrame
  <2>6. f.len \in Nat /\ frames \in Nat /\ tsPacket \in [4..187 -> CellSet]
    BY DEF MuxInv
  <2>7. /\ left' = pes'.len + frame'.len - pesIndex' - wBytes' /\ wBytes' \in 0..frame'.len
        /\ frames' \in Nat /\ frames' > 0
    <3>1. pes'.len \in Nat /\ frame'.len \in Nat /\ left' = frame'.len + pes'.len
      BY <2>1, <2>5, <2>6
    <3>2. QED
      BY <2>3, <2>5, <2>6, <3>1
  <2>8. pes'.len \in {0, 14, 19} /\ pes' = PesHeader(frame')
    BY <2>1, <2>5
  <2>9. QED
    BY <2>3, <2>4, <2>5, <2>6, <2>7, <2>8 DEF MuxInv, PesHeader
<1>3. CASE MuxPacket
  <2> DEFINE h == IF first THEN pes.len ELSE 0
  <2>1. PICK data \in 0..(frame.len - wBytes) :
             /\ tsPacket' \in [4..187 -> CellSet]
             /\ pesIndex' = pesIndex + h /\ wBytes' = wBytes + data
             /\ left' = left - h - data
             /\ ~SmallKey =>
                  \E new \in Seq(CellSet) :
                    /\ received' = received \o new /\ Len(new) = h + data
                    /\ \A j \in 1..(h + data) : new[j] =
                          IF j <= h THEN <<"pes", j - 1>> ELSE <<"data", wBytes + (j - h - 1)>>
    BY <1>3, PacketEffect, Zenon
  <2>2. UNCHANGED <<frame, pes, frames>> /\ first' = FALSE
    BY <1>3, Zenon DEF MuxPacket
  <2>3. /\ pes.len \in Nat /\ frame.len \in Nat /\ wBytes \in 0..frame.len /\ h \in Nat
        /\ pesIndex = (IF first THEN 0 ELSE pes.len) /\ (first => wBytes = 0) /\ first \in BOOLEAN
        /\ left = pes.len + frame.len - pesIndex - wBytes
        /\ pesIndex + h = pes.len
    BY DEF MuxInv
  <2>4. ASSUME ~SmallKey PROVE received' = Whole(pes.len + (wBytes + data))
    <3>1. received = Whole(pesIndex + wBytes)
      BY <2>4 DEF MuxInv
    <3>2. PICK new \in Seq(CellSet) :
             /\ received' = received \o new /\ Len(new) = h + data
             /\ \A j \in 1..(h + data) : new[j] =
                   IF j <= h THEN <<"pes", j - 1>> ELSE <<"data", wBytes + (j - h - 1)>>
      BY <2>1, <2>4, Zenon
    <3> DEFINE n == pesIndex + wBytes
    <3> DEFINE m == h + data
    <3>3. n \in Nat /\ m \in Nat /\ n + m = pes.len + (wBytes + data) /\ data \in Nat
      BY <2>3
    <3>4. ASSUME NEW j \in 1..m
          PROVE  new[j] = IF n + j <= pes.len THEN <<"pes", n + j - 1>>
                          ELSE <<"data", n + j - pes.len - 1>>
      <4>1. CASE first
        BY <2>3, <3>2, <4>1
      <4>2. CASE ~first
        <5>1. h = 0 /\ n = pes.len + wBytes /\ wBytes \in Nat
              /\ pes.len \in Nat /\ j \in Nat /\ j > 0
          BY <2>3, <3>3, <4>2
        <5> HIDE DEF h, n
        <5>2. ~(n + j <= pes.len) /\ ~(j <= h) /\ n + j - pes.len - 1 = wBytes + (j - h - 1)
          BY <5>1
        <5>3. QED
          BY <3>2, <5>2, Zenon DEF h
      <4>3. QED
        BY <4>1, <4>2
    <3> HIDE DEF n, m
    <3>5. Len(new) = m /\ pes.len \in Nat
      BY <2>3, <3>2 DEF m
    <3>6. Whole(n) \o new = Whole(n + m)
      BY <3>3, <3>4, <3>5, WholeGrows, Zenon
    <3>7. QED
      BY <3>1, <3>2, <3>3, <3>6, Zenon DEF n
  <2>5. received' = Whole(pes.len + (wBytes + data)) => received' = Whole(pesIndex + wBytes)'
    <3>1. (pesIndex + wBytes)' = pes.len + (wBytes + data)
      BY <2>1, <2>3
    <3>2. QED
      BY <2>2, <3>1 DEF Whole
  <2>6. SmallKey' <=> SmallKey
    BY <2>2 DEF SmallKey
  <2>7. pesIndex' = pes'.len /\ wBytes' \in 0..frame'.len
        /\ left' = pes'.len + frame'.len - pesIndex' - wBytes' /\ (left' > 0 => frames' > 0)
    <3>1. frames > 0
      BY <1>3, Zenon DEF MuxPacket, MuxInv
    <3>2. pesIndex' = pes.len /\ wBytes' = wBytes + data /\ wBytes' \in 0..frame.len
          /\ left' = left - h - data
      <4> HIDE DEF h
      <4>1. pesIndex' = pesIndex + h /\ wBytes' = wBytes + data /\ left' = left - h - data
        BY <2>1
      <4>2. data \in 0..(frame.len - wBytes)
        OBVIOUS
      <4>3. QED
        BY <2>3, <4>1, <4>2
    <3>3. left' = pes.len + frame.len - pes.len - wBytes'
      BY <2>3, <3>2
    <3>4. QED
      BY <2>2, <3>1, <3>2, <3>3
  <2>8. QED
    BY <2>1, <2>2, <2>4, <2>5, <2>6, <2>7, Zenon DEF MuxInv
<1>4. CASE Tables
  BY <1>1, <1>4 DEF Tables
<1>5. ASSUME NEW l \in FrameLens, NEW d \in Stamps, NEW ct \in {0, 1},
             NEW video \in BOOLEAN, NEW key \in BOOLEAN,
             StartFrame([video |-> video, key |-> key, len |-> l, dts |-> d, pts |-> d + ct])
      PROVE  MuxInv'
  <2>1. [video |-> video, key |-> key, len |-> l, dts |-> d, pts |-> d + ct]
          \in [video : BOOLEAN, key : BOOLEAN, len : Nat, dts : Nat, pts : Nat]
    BY MuxAssumption
  <2>2. QED
    BY <1>2, <1>5, <2>1
<1>6. QED
  BY <1>1, <1>3, <1>4, <1>5, Zenon DEF MuxNext, muxVars

\* The packets Mux writes for a frame hold its PES header and its data once, in
\* order and with nothing else, for every length but that of a small key frame;
\* its stamps are at most one tick late.
THEOREM FramesAreReceived == MuxSpec => []FrameIsReceived
<1>1. MuxInv => FrameIsReceived
  <2> SUFFICES ASSUME MuxInv, frames > 0
               PROVE  /\ left <= 0 /\ ~SmallKey => left = 0 /\ received = Whole(pes.len + frame.len)
                      /\ pes.pts \in {frame.pts % ClockMod, (frame.pts + 1) % ClockMod}
                      /\ pes.dts \in {frame.dts % ClockMod, (frame.dts + 1) % ClockMod}
    BY DEF FrameIsReceived, Whole
  <2>1. left <= 0 => left = 0 /\ pesIndex + wBytes = pes.len + frame.len
    <3>1. pes.len \in {14, 19}
      BY DEF MuxInv, PesHeader
    <3>2. QED
      BY <3>1 DEF MuxInv
  <2>2. pes.pts = WriteStamp(frame.pts) /\ pes.dts = WriteStamp(frame.dts)
        /\ frame.pts \in Nat /\ frame.dts \in Nat
    BY DEF MuxInv, PesHeader
  <2>3. QED
    BY <2>1, <2>2, StampNear DEF MuxInv
<1>2. QED
  BY <1>1, MuxInitInv, MuxStep, PTL DEF MuxSpec

\* The bounds of the model's counters.
LEMMA BoundsStep ==
    ASSUME MuxInv, frames \in 0..MaxFrame, tables \in 0..MaxTables, [MuxNext]_muxVars
    PROVE  frames' \in 0..MaxFrame /\ tables' \in 0..MaxTables
<1>1. MaxFrame \in Nat /\ MaxTables \in Nat
  BY MuxAssumption
<1>2. CASE UNCHANGED <<frames, tables>>
  BY <1>2
<1>3. CASE MuxPacket
  BY <1>3, Zenon DEF MuxPacket
<1>4. CASE Tables
  BY <1>1, <1>4 DEF Tables
<1>5. ASSUME NEW f, StartFrame(f) PROVE frames' \in 0..MaxFrame /\ tables' \in 0..MaxTables
  BY <1>1, <1>5 DEF StartFrame
<1>6. QED
  BY <1>2, <1>3, <1>4, <1>5, Zenon DEF MuxNext, muxVars

\* Mux never takes more from a frame's data or from its PES header than they have
\* (a slice of p.Data would panic), and the counters stay in their range.
THEOREM MuxTypeCorrect == MuxSpec => []MuxTypeOK
<1> DEFINE Bounds == frames \in 0..MaxFrame /\ tables \in 0..MaxTables
<1>1. CounterInv /\ MuxInv /\ Bounds => MuxTypeOK
  <2> SUFFICES ASSUME CounterInv, MuxInv, Bounds PROVE MuxTypeOK
    OBVIOUS
  <2>1. pes.len \in Nat /\ frame.len \in Nat /\ wBytes \in 0..frame.len
    BY DEF MuxInv
  <2>2. pesIndex \in 0..pes.len
    BY <2>1 DEF MuxInv
  <2>3. left \in Int
    BY <2>1, <2>2 DEF MuxInv
  <2>4. first \in BOOLEAN
    BY DEF MuxInv
  <2>5. QED
    BY <2>1, <2>2, <2>3, <2>4 DEF MuxTypeOK, CounterInv
<1>2. MuxInit => CounterInv /\ Bounds
  BY MuxAssumption DEF MuxInit, CounterInv, Pids, Tabular
<1>3. MuxInv /\ Bounds /\ [MuxNext]_muxVars => Bounds'
  BY BoundsStep
<1> HIDE DEF Bounds
<1>4. QED
  BY <1>1, <1>2, <1>3, MuxInitInv, MuxStep, CounterStep, PTL DEF MuxSpec
=============================================================================

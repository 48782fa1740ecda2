------------------------------ MODULE TsMuxer ------------------------------
(***************************************************************************)
(* The MPEG-TS muxer of the HLS segments (container/ts/muxer.go).  A frame *)
(* with its PES header is cut into packets of PacketLen cells; the numbers *)
(* of the code are bytes and wrap.  tsPacket is one buffer used for every  *)
(* packet, so a cell that is not written keeps what was there.  A receiver *)
(* takes from a packet what lies behind its adaptation field.              *)
(***************************************************************************)
EXTENDS Integers, Sequences

CONSTANTS FrameLens,  \* lengths of the frames' data
          Stamps,     \* their decoding times, in ticks
          ClockMod,   \* the clock of the format wraps here: 2^33
          MaxFrame,   \* bound: frames muxed
          MaxTables   \* bound: PAT and PMT written

ASSUME MuxAssumption ==
    /\ FrameLens \subseteq Nat /\ Stamps \subseteq Nat
    /\ ClockMod \in Nat \ {0} /\ MaxFrame \in Nat /\ MaxTables \in Nat

PacketLen == 188
DataLen == 184

\* Cells of a packet that are neither header nor frame.
Pcr == <<"pcr", 0>>
Flags == <<"flags", 0>>
Stuffing == <<"stuffing", 0>>
LengthCell(v) == <<"length", v>>

VARIABLES
    cc,        \* videoCc, audioCc, patCc and pmtCc
    tsPacket,  \* cells 4..187 of the buffer
    frame,     \* the frame: video, key, its data length, pts and dts
    pes,       \* its PES header: length and the two stamps
    first, wBytes, pesIndex, left,  \* Mux's locals; left is packetBytesLen
    received,  \* what a receiver has of the frame
    shown,     \* per PID: the counter of the last packet on it
    frames, tables

muxVars == <<cc, tsPacket, frame, pes, first, wBytes, pesIndex, left, received, shown, frames, tables>>

Pids == {"video", "audio", "pat", "pmt"}

MuxInit ==
    /\ cc = [p \in Pids |-> 0]
    /\ tsPacket = [i \in 4..(PacketLen - 1) |-> Stuffing]
    /\ frame = [video |-> FALSE, key |-> FALSE, len |-> 0, dts |-> 0, pts |-> 0]
    /\ pes = [len |-> 0, pts |-> 0, dts |-> 0]
    /\ first = TRUE /\ wBytes = 0 /\ pesIndex = 0 /\ left = 0
    /\ received = <<>> /\ shown = [p \in Pids |-> -1]
    /\ frames = 0 /\ tables = 0

\* writeTs: a stamp past the largest is brought back by one tick too few, and
\* cut to the field.
WriteStamp(ts) == (IF ts > ClockMod - 1 THEN ts - (ClockMod - 1) ELSE ts) % ClockMod

\* pesHeader.packet: the decoding time is there when it differs.
PesHeader(f) ==
    [len |-> IF f.video /\ f.pts # f.dts THEN 19 ELSE 14,
     pts |-> WriteStamp(f.pts), dts |-> WriteStamp(f.dts)]

\* Mux begins.
StartFrame(f) ==
    /\ left = 0 /\ frames < MaxFrame
    /\ frames' = frames + 1
    /\ frame' = f /\ pes' = PesHeader(f)
    /\ left' = f.len + PesHeader(f).len
    /\ first' = TRUE /\ wBytes' = 0 /\ pesIndex' = 0 /\ received' = <<>>
    /\ UNCHANGED <<cc, tsPacket, shown, tables>>

\* Mutant: the counter is reset one packet late.
NextCc_Late(c) == IF c + 1 > 16 THEN 0 ELSE c + 1

\* The counters of video and audio are stepped before use.
NextCc(c) == IF c + 1 > 15 THEN 0 ELSE c + 1

\* cells[i], cells[i + 1]... overwritten with n cells of a kind, from number k.
Copy(cells, i, kind, k, n) ==
    [j \in DOMAIN cells |-> IF j \in i..(i + n - 1) THEN <<kind, k + (j - i)>> ELSE cells[j]]

\* writePcr, with the field's length and flags before it.
WithPcr(cells) ==
    [j \in DOMAIN cells |-> CASE j = 4 -> LengthCell(7) [] j = 5 -> Flags
                              [] j \in 6..11 -> Pcr [] OTHER -> cells[j]]

\* Mutant: the field's length counts its own cell.
AdaptationBufInit_CountsItself(cells, i, remain) ==
    [j \in DOMAIN cells |->
        IF j = i THEN LengthCell(remain) ELSE IF remain # 1 /\ j > i THEN Stuffing ELSE cells[j]]

\* adaptationBufInit, at cell i.
AdaptationBufInit(cells, i, remain) ==
    [j \in DOMAIN cells |->
        IF j = i THEN LengthCell((remain - 1) % 256)
        ELSE IF remain # 1 /\ j = i + 1 THEN Flags
        ELSE IF remain # 1 /\ j > i + 1 THEN Stuffing
        ELSE cells[j]]

Least(a, b) == IF a <= b THEN a ELSE b

\* What a receiver takes for payload.
PayloadFrom(cells, adapted) ==
    LET from == IF adapted THEN 5 + cells[4][2] ELSE 4
    IN  SubSeq([j \in 1..DataLen |-> cells[j + 3]], from - 3, DataLen)

\* One round of Mux's loop: a packet.
MuxPacket ==
    /\ left > 0
    /\ LET pid == IF frame.video THEN "video" ELSE "audio"
           c == NextCc(cc[pid])
           pcr == first /\ frame.key
           i0 == IF pcr THEN 12 ELSE 4
           used == IF first THEN i0 - 4 ELSE 0
           short == left < DataLen
           remain == (DataLen - left - used) % 256
           base == IF pcr THEN WithPcr(tsPacket) ELSE tsPacket
           padded == IF short THEN AdaptationBufInit(base, i0, remain) ELSE base
           i1 == IF short THEN (i0 + remain) % 256 ELSE i0
           header == IF first /\ i1 < PacketLen THEN Least(PacketLen - i1, pes.len) ELSE 0
           headed == Copy(padded, i1, "pes", pesIndex, header)
           i2 == i1 + header
           room == ((IF short THEN left ELSE DataLen - used) - header) % 256
           data == IF i2 < PacketLen THEN Least(PacketLen - i2, room) ELSE 0
           cells == Copy(headed, i2, "data", wBytes, data)
       IN  /\ cc' = [cc EXCEPT ![pid] = c]
           /\ shown' = [shown EXCEPT ![pid] = c % 16]
           /\ tsPacket' = cells
           /\ pesIndex' = pesIndex + header /\ wBytes' = wBytes + data
           /\ left' = left - header - data
           /\ received' = received \o PayloadFrom(cells, pcr \/ short)
    /\ first' = FALSE
    /\ UNCHANGED <<frame, pes, frames, tables>>

\* PAT and PMT: their counters are stepped after use.
Tables ==
    /\ left = 0 /\ tables < MaxTables
    /\ tables' = tables + 1
    /\ LET Use(p) == IF cc[p] > 15 THEN 0 ELSE cc[p]
       IN  /\ shown' = [shown EXCEPT !["pat"] = Use("pat"), !["pmt"] = Use("pmt")]
           /\ cc' = [cc EXCEPT !["pat"] = Use("pat") + 1, !["pmt"] = Use("pmt") + 1]
    /\ UNCHANGED <<tsPacket, frame, pes, first, wBytes, pesIndex, left, received, frames>>

MuxNext ==
    \/ \E l \in FrameLens, d \in Stamps, ct \in {0, 1}, video, key \in BOOLEAN :
          /\ (key => video) /\ (~video => ct = 0)
          /\ StartFrame([video |-> video, key |-> key, len |-> l, dts |-> d, pts |-> d + ct])
    \/ MuxPacket \/ Tables

MuxSpec == MuxInit /\ [][MuxNext]_muxVars

-----------------------------------------------------------------------------
(* Properties.                                                             *)

\* Type correctness: the counters stay in their range, and no more is taken
\* from the frame than it has (a slice of p.Data would panic).
MuxTypeOK ==
    /\ cc \in [Pids -> 0..16] /\ left \in Int /\ wBytes \in 0..frame.len
    /\ pesIndex \in 0..pes.len /\ first \in BOOLEAN
    /\ frames \in 0..MaxFrame /\ tables \in 0..MaxTables

\* A key frame that fits into its first packet, but not exactly: the stuffing
\* goes behind a field whose length does not count it.
SmallKey == frame.key /\ frame.len + pes.len < DataLen /\ frame.len + pes.len # DataLen - 8

\* The packets of a frame hold its PES header and its data, once and in order,
\* and nothing else, but for small key frames; its stamps are its times within
\* the clock's range, at most one tick late.
FrameIsReceived ==
    /\ left <= 0 /\ frames > 0 /\ ~SmallKey =>
          /\ left = 0
          /\ received = [j \in 1..(pes.len + frame.len) |->
                           IF j <= pes.len THEN <<"pes", j - 1>> ELSE <<"data", j - pes.len - 1>>]
    /\ frames > 0 =>
          /\ pes.pts \in {frame.pts % ClockMod, (frame.pts + 1) % ClockMod}
          /\ pes.dts \in {frame.dts % ClockMod, (frame.dts + 1) % ClockMod}

\* The counter of every packet follows the one before it on the same PID,
\* through frames, tables and the wrap: a receiver sees no loss.
CountersFollow ==
    [][\A p \in Pids :
          /\ shown[p] # -1
          /\ IF p \in {"pat", "pmt"} THEN tables' # tables
             ELSE left > 0 /\ p = (IF frame.video THEN "video" ELSE "audio")
          => shown'[p] = (shown[p] + 1) % 16]_muxVars
=============================================================================

---------------------------- MODULE PacketQueue ----------------------------
(***************************************************************************)
(* The bounded packet queue between a room's transfer goroutines and one   *)
(* slow consumer.  The code has it three times:                            *)
(*   "rtmp"  VirWriter  (protocol/rtmp/rtmp.go),                           *)
(*   "hls"   Source     (protocol/hls/source.go), and "kept", the same     *)
(*           under the setting hls_keep_after_end,                         *)
(*   "flv"   FLVWriter  (protocol/httpflv/writer.go).                      *)
(* Its goroutines are the producers (the transfer goroutines that call     *)
(* Write, and in it DropPacket: at a takeover the old one is still inside  *)
(* its callback when the new one begins), the sender (SendPacket) and the  *)
(* callers of Close.  A step is one operation on the channel, or one access *)
(* to the flag closed.  The channel is Go's: a receive takes what is left  *)
(* after a close, a send on a closed channel and a second close panic.     *)
(***************************************************************************)
EXTENDS Integers, Sequences, FiniteSets

CONSTANTS Variants,      \* the kinds of writer there are
          Producers,     \* transfer goroutines that this writer was handed to
          MaxQueueNum,   \* the channel's capacity: 1024 (512 for hls)
          DropMargin,    \* Write drops at MaxQueueNum - DropMargin: 24
          DropLeave,     \* DropPacket's loop runs MaxQueueNum - DropLeave times: 84
          AudioMargin,   \* 2
          VideoMargin,   \* 10
          Closers,       \* goroutines that call Close
          Kinds,         \* kinds of packets that are written
          MaxWrites,     \* bound: calls of Write
          None

ASSUME QueueAssumption ==
    /\ Variants \subseteq {"rtmp", "hls", "kept", "flv"}
    /\ MaxQueueNum \in Nat /\ DropMargin \in Nat /\ DropLeave \in Nat
    /\ AudioMargin \in Nat /\ VideoMargin \in Nat /\ MaxWrites \in Nat
    /\ 0 < AudioMargin /\ AudioMargin <= VideoMargin
    /\ VideoMargin < DropMargin /\ DropMargin < DropLeave
    /\ DropLeave < MaxQueueNum
    /\ IsFiniteSet(Producers) /\ None \notin Producers

\* What DropPacket tells apart: "key" is a video key frame or sequence header,
\* "inter" any other video packet, "meta" neither audio nor video.
ASSUME KindsAssumption == Kinds \subseteq {"audio", "key", "inter", "meta"}

Packets == [id : 1..MaxWrites, kind : Kinds]

ASSUME NoneAssumption == None \notin Packets

VARIABLES
    variant,    \* which of the writers this queue belongs to
    q,          \* packetQueue, the channel's buffer
    chanClosed, \* the channel is closed
    closed,     \* the writer's flag
    prod,       \* each producer's control point
    tmp,        \* the packet its Write got, or tmpPkt in DropPacket
    i,          \* its loop counter in DropPacket
    removed,    \* producers whose Write returned an error: the hub has removed the writer
    sender,     \* the sender's control point
    hold,       \* the packet the sender is writing to its connection
    cpc,        \* control point of each closer
    crashed,    \* a second close of the channel ended the process
    count,      \* number of calls of Write so far
    out,        \* history: the packets sent, in order
    refused,    \* history: packets that Write gave up to make room
    dropped,    \* history: packets that DropPacket took out for good
    taken,      \* history: receives by others since a producer's DropPacket began
    overlapped  \* history: a Close found the flag unset while another was closing

chan == <<q, chanClosed>>
hist == <<out, refused, dropped>>
vars == <<variant, chan, closed, prod, tmp, i, removed, sender, hold, cpc,
          crashed, count, hist, taken, overlapped>>

Hls == variant \in {"hls", "kept"}
HighWater == MaxQueueNum - DropMargin

\* Mutant: the loop goes once around the whole channel.
Rounds_All == MaxQueueNum
Rounds == MaxQueueNum - DropLeave

Dropping == {"recv", "audio", "put", "trim", "extra", "last"}

\* The state has its types, and DropPacket goes no more rounds than it should.
TypeOK ==
    /\ variant \in Variants
    /\ q \in Seq(Packets)
    /\ chanClosed \in BOOLEAN /\ closed \in BOOLEAN
    /\ crashed \in BOOLEAN
    /\ prod \in [Producers -> {"idle", "test", "push"} \cup Dropping]
    /\ tmp \in [Producers -> Packets \cup {None}]
    /\ i \in [Producers -> 0..Rounds]
    /\ removed \subseteq Producers
    /\ sender \in {"loop", "recv", "writing", "dead", "stopped"}
    /\ hold \in Packets \cup {None}
    /\ cpc \in [Closers -> {"idle", "close", "flag"}]
    /\ count \in 0..MaxWrites
    /\ out \in Seq(Packets)
    /\ refused \subseteq Packets
    /\ dropped \subseteq Packets
    /\ taken \in [Producers -> Nat]
    /\ overlapped \in BOOLEAN

\* Where the sender goes on: the hls source looks at its flag before a receive.
Ready == IF Hls THEN "loop" ELSE "recv"

\* NewFLVWriter sets the flag when it cannot write the file header.
Init ==
    /\ variant \in Variants
    /\ q = <<>> /\ chanClosed = FALSE
    /\ closed \in IF variant = "flv" THEN BOOLEAN ELSE {FALSE}
    /\ prod = [p \in Producers |-> "idle"]
    /\ tmp = [p \in Producers |-> None]
    /\ i = [p \in Producers |-> 0]
    /\ removed = {}
    /\ sender = Ready /\ hold = None
    /\ cpc = [c \in Closers |-> "idle"]
    /\ crashed = FALSE
    /\ count = 0
    /\ out = <<>> /\ refused = {} /\ dropped = {}
    /\ taken = [p \in Producers |-> 0]
    /\ overlapped = FALSE

-----------------------------------------------------------------------------
(* A producer: Write.                                                      *)

Keep == UNCHANGED <<variant, chanClosed, closed, sender, hold, cpc, crashed,
                    out, overlapped>>

Goto(p, l) == prod' = [prod EXCEPT ![p] = l]
Puts(p, pkt) == tmp' = [tmp EXCEPT ![p] = pkt]

\* Write(p) on a writer whose flag is set fails, and the hub removes it.
WriteClosed(p) ==
    /\ prod[p] = "idle" /\ p \notin removed
    /\ closed
    /\ removed' = removed \cup {p}
    /\ UNCHANGED <<q, prod, tmp, i, count, refused, dropped, taken>>
    /\ Keep

WriteBegin(p, k) ==
    /\ prod[p] = "idle" /\ p \notin removed
    /\ ~closed
    /\ count < MaxWrites
    /\ count' = count + 1
    /\ Puts(p, [id |-> count + 1, kind |-> k])
    /\ Goto(p, "test")
    /\ UNCHANGED <<q, i, removed, refused, dropped, taken>>
    /\ Keep

\* Mutant: the margin is forgotten.
WriteTest_NoMargin(p) ==
    /\ prod[p] = "test"
    /\ IF Len(q) >= MaxQueueNum
       THEN Goto(p, "recv") /\ refused' = refused \cup {tmp[p]} /\ Puts(p, None)
       ELSE Goto(p, "push") /\ UNCHANGED <<refused, tmp>>
    /\ UNCHANGED <<q, i, removed, count, dropped, taken>>
    /\ Keep

\* The test of len: at the high-water mark packets are dropped, and the packet
\* given to Write is not queued at all.
WriteTest(p) ==
    /\ prod[p] = "test"
    /\ IF Len(q) >= HighWater
       THEN Goto(p, "recv") /\ refused' = refused \cup {tmp[p]} /\ Puts(p, None)
       ELSE Goto(p, "push") /\ UNCHANGED <<refused, tmp>>
    /\ UNCHANGED <<q, i, removed, count, dropped, taken>>
    /\ Keep

\* The send.  A panic is recovered in Write and returned as an error; the hls
\* source tests its flag once more and then returns without an error.
WritePush(p) ==
    /\ prod[p] = "push"
    /\ IF Hls /\ closed THEN UNCHANGED <<q, removed>>
       ELSE IF chanClosed THEN removed' = removed \cup {p} /\ UNCHANGED q
       ELSE Len(q) < MaxQueueNum /\ q' = Append(q, tmp[p]) /\ UNCHANGED removed
    /\ Goto(p, "idle") /\ Puts(p, None)
    /\ UNCHANGED <<i, count, refused, dropped, taken>>
    /\ Keep

-----------------------------------------------------------------------------
(* A producer: DropPacket, called by Write.                                *)

\* A receive, by producer p or by the sender (None), as seen by the others.
TakenBy(p) ==
    taken' = [x \in Producers |-> IF x # p /\ prod[x] \in Dropping THEN taken[x] + 1 ELSE taken[x]]

EndRound(p) == Goto(p, "recv") /\ i' = [i EXCEPT ![p] = @ + 1]

\* What the loop does next with a packet of kind k.
Handle(k) ==
    CASE k = "audio" -> IF variant = "flv" THEN "put" ELSE "audio"
      [] k = "key" -> "put"
      [] OTHER -> "trim"

\* The head of the loop.  The receive blocks on an empty open channel.
\* Metadata is neither audio nor video: it is gone; other video than key
\* frames and sequence headers is gone, too.
DropRecv(p) ==
    /\ prod[p] = "recv" /\ i[p] < Rounds
    /\ q # <<>>
    /\ q' = Tail(q)
    /\ Puts(p, IF Head(q).kind \in {"audio", "key"} THEN Head(q) ELSE None)
    /\ dropped' = IF Head(q).kind \in {"audio", "key"} THEN dropped ELSE dropped \cup {Head(q)}
    /\ IF Head(q).kind = "meta" THEN EndRound(p)
       ELSE Goto(p, Handle(Head(q).kind)) /\ UNCHANGED i
    /\ TakenBy(p)
    /\ UNCHANGED <<removed, count, refused>>
    /\ Keep

\* The receive from a closed, drained channel: ok is false, a round of nothing.
DropRecvClosed(p) ==
    /\ prod[p] = "recv" /\ i[p] < Rounds
    /\ q = <<>> /\ chanClosed
    /\ EndRound(p)
    /\ UNCHANGED <<q, tmp, removed, count, refused, dropped, taken>>
    /\ Keep

DropEnds(p) ==
    /\ Goto(p, "idle") /\ Puts(p, None)
    /\ i' = [i EXCEPT ![p] = 0]
    /\ taken' = [taken EXCEPT ![p] = 0]

DropDone(p) ==
    /\ prod[p] = "recv" /\ i[p] = Rounds
    /\ DropEnds(p)
    /\ UNCHANGED <<q, removed, count, refused, dropped>>
    /\ Keep

\* Mutant: only key frames are put back.
DropAudio_NotKept(p) ==
    /\ prod[p] = "audio"
    /\ Goto(p, "trim") /\ dropped' = dropped \cup {tmp[p]} /\ Puts(p, None)
    /\ UNCHANGED <<q, i, removed, count, refused, taken>>
    /\ Keep

\* Audio is put back at the tail, unless (rtmp, hls) the channel is full but
\* for AudioMargin: then it is gone, and with it the next packet.
DropAudio(p) ==
    /\ prod[p] = "audio"
    /\ IF Len(q) > MaxQueueNum - AudioMargin
       THEN Goto(p, "extra") /\ dropped' = dropped \cup {tmp[p]} /\ Puts(p, None)
       ELSE Goto(p, "put") /\ UNCHANGED <<dropped, tmp>>
    /\ UNCHANGED <<q, i, removed, count, refused, taken>>
    /\ Keep

\* Mutant: the packet put back is also left at the head.
DropPut_Doubles(p) ==
    /\ prod[p] = "put" /\ ~chanClosed
    /\ Len(q) < MaxQueueNum - 1 /\ q' = <<tmp[p]>> \o Append(q, tmp[p]) /\ Puts(p, None)
    /\ IF tmp[p].kind = "audio" THEN EndRound(p) ELSE Goto(p, "trim") /\ UNCHANGED i
    /\ UNCHANGED <<removed, count, refused, dropped, taken>>
    /\ Keep

\* The send that puts a packet back.
DropPut(p) ==
    /\ prod[p] = "put" /\ ~chanClosed
    /\ Len(q) < MaxQueueNum /\ q' = Append(q, tmp[p]) /\ Puts(p, None)
    /\ IF tmp[p].kind = "audio" THEN EndRound(p) ELSE Goto(p, "trim") /\ UNCHANGED i
    /\ UNCHANGED <<removed, count, refused, dropped, taken>>
    /\ Keep

\* It panics once the channel is closed: Write recovers and returns the error.
DropPanics(p) ==
    /\ prod[p] = "put" /\ chanClosed
    /\ dropped' = dropped \cup {tmp[p]}
    /\ removed' = removed \cup {p}
    /\ DropEnds(p)
    /\ UNCHANGED <<q, count, refused>>
    /\ Keep

\* After video: len > MaxQueueNum - VideoMargin and one more packet goes.
DropTrim(p) ==
    /\ prod[p] = "trim"
    /\ IF Len(q) > MaxQueueNum - VideoMargin THEN Goto(p, "extra") /\ UNCHANGED i
       ELSE IF variant = "flv" THEN Goto(p, "last") /\ UNCHANGED i
       ELSE EndRound(p)
    /\ UNCHANGED <<q, tmp, removed, count, refused, dropped, taken>>
    /\ Keep

\* A receive whose result is not looked at.  The flv writer makes it at the
\* end of every round with video, "drop other packet".
DropExtra(p) ==
    /\ prod[p] \in {"extra", "last"}
    /\ \/ q # <<>> /\ q' = Tail(q) /\ dropped' = dropped \cup {Head(q)} /\ TakenBy(p)
       \/ q = <<>> /\ chanClosed /\ UNCHANGED <<q, dropped, taken>>
    /\ IF variant = "flv" /\ prod[p] = "extra" THEN Goto(p, "last") /\ UNCHANGED i
       ELSE EndRound(p)
    /\ UNCHANGED <<tmp, removed, count, refused>>
    /\ Keep

DropPacket(p) ==
    \/ DropRecv(p) \/ DropRecvClosed(p) \/ DropDone(p) \/ DropAudio(p)
    \/ DropPut(p) \/ DropPanics(p) \/ DropTrim(p) \/ DropExtra(p)

Write(p) ==
    \/ WriteClosed(p) \/ (\E k \in Kinds : WriteBegin(p, k)) \/ WriteTest(p) \/ WritePush(p)
    \/ DropPacket(p)

-----------------------------------------------------------------------------
(* The sender: SendPacket.                                                 *)

SenderKeeps ==
    UNCHANGED <<variant, chanClosed, prod, tmp, i, removed, cpc, crashed,
                count, refused, dropped, overlapped>>

\* The hls source looks at its flag ...
SendTest ==
    /\ sender = "loop"
    /\ ~closed
    /\ sender' = "recv"
    /\ UNCHANGED <<q, hold, closed, out, taken>>
    /\ SenderKeeps

\* ... and the receive is a step of its own.
SendRecv ==
    /\ sender = "recv"
    /\ q # <<>>
    /\ hold' = Head(q) /\ q' = Tail(q)
    /\ sender' = "writing"
    /\ TakenBy(None)
    /\ UNCHANGED <<closed, out>>
    /\ SenderKeeps

SendDone ==
    /\ sender = "writing"
    /\ out' = Append(out, hold)
    /\ hold' = None
    /\ sender' = Ready
    /\ UNCHANGED <<q, closed, taken>>
    /\ SenderKeeps

\* The write to the connection fails (for hls the demuxer, for flv also the
\* decoding of metadata): the flag is set, the channel stays open and nobody
\* receives.
SendFails ==
    /\ sender = "writing"
    /\ sender' = "dead" /\ hold' = None
    /\ closed' = TRUE
    /\ UNCHANGED <<q, out, taken>>
    /\ SenderKeeps

\* hls: SendPacket recovers a panic of the parsers and muxers and returns
\* without an error, so that not even the flag is set.
SendPanics ==
    /\ sender = "writing" /\ Hls
    /\ sender' = "dead" /\ hold' = None
    /\ UNCHANGED <<q, closed, out, taken>>
    /\ SenderKeeps

\* The channel is closed and drained, or (hls) the flag is set.
SendStops ==
    /\ \/ sender = "recv" /\ q = <<>> /\ chanClosed
       \/ sender = "loop" /\ closed
    /\ sender' = "stopped"
    /\ closed' = IF variant = "rtmp" THEN closed ELSE TRUE
    /\ UNCHANGED <<q, hold, out, taken>>
    /\ SenderKeeps

SendPacket == SendTest \/ SendRecv \/ SendDone \/ SendFails \/ SendPanics \/ SendStops

-----------------------------------------------------------------------------
(* Close, called by the connection's Check goroutine, closeInter and the   *)
(* sweeper.  Test, close of the channel and setting of the flag are three  *)
(* steps under no lock.                                                    *)

CloserKeeps ==
    UNCHANGED <<variant, q, prod, tmp, i, removed, sender, hold, count,
                hist, taken>>

\* Another call has found the flag unset and not set it yet.
Closing(c) == \E d \in Closers \ {c} : cpc[d] \in {"close", "flag"}

\* Mutants: the channel is never closed; the flag is not tested.
CloseTest_OnlyFlag(c) ==
    /\ cpc[c] = "idle"
    /\ cpc' = [cpc EXCEPT ![c] = "flag"]
    /\ UNCHANGED <<chanClosed, closed, crashed, overlapped>>
    /\ CloserKeeps

CloseTest_NoTest(c) ==
    /\ cpc[c] = "idle"
    /\ cpc' = [cpc EXCEPT ![c] = "close"]
    /\ overlapped' = (overlapped \/ Closing(c))
    /\ UNCHANGED <<chanClosed, closed, crashed>>
    /\ CloserKeeps

\* A call that finds the flag set changes nothing.
CloseTest(c) ==
    /\ cpc[c] = "idle"
    /\ ~closed
    /\ cpc' = [cpc EXCEPT ![c] = IF variant = "kept" THEN "flag" ELSE "close"]
    /\ overlapped' = (overlapped \/ Closing(c))
    /\ UNCHANGED <<chanClosed, closed, crashed>>
    /\ CloserKeeps

CloseChan(c) ==
    /\ cpc[c] = "close"
    /\ crashed' = chanClosed
    /\ chanClosed' = TRUE
    /\ cpc' = [cpc EXCEPT ![c] = "flag"]
    /\ UNCHANGED <<closed, overlapped>>
    /\ CloserKeeps

CloseFlag(c) ==
    /\ cpc[c] = "flag"
    /\ closed' = TRUE
    /\ cpc' = [cpc EXCEPT ![c] = "idle"]
    /\ UNCHANGED <<chanClosed, crashed, overlapped>>
    /\ CloserKeeps

Close(c) == CloseTest(c) \/ CloseChan(c) \/ CloseFlag(c)

-----------------------------------------------------------------------------
Next ==
    /\ ~crashed
    /\ \/ \E p \in Producers : Write(p)
       \/ SendPacket
       \/ \E c \in Closers : Close(c)

Spec == Init /\ [][Next]_vars

\* Producer p waits in a receive that nobody will answer.
Stalled(p) ==
    /\ prod[p] \in {"recv", "extra", "last"}
    /\ prod[p] = "recv" => i[p] < Rounds
    /\ q = <<>> /\ ~chanClosed

\* A producer runs while it can.  A stalled writer sends nothing, so its
\* Alive() turns false and the sweeper calls Close; a call of Close goes on.
Fairness ==
    /\ \A p \in Producers : WF_vars(Write(p))
    /\ \A c \in Closers : /\ WF_vars((\E p \in Producers : Stalled(p)) /\ CloseTest(c))
                          /\ WF_vars(CloseChan(c) \/ CloseFlag(c))

FairSpec == Spec /\ Fairness

-----------------------------------------------------------------------------
(* Properties.                                                             *)

\* The queue passes the mark at which Write drops by at most one packet for
\* every producer but one, whose test and send others may come between.
QueueBound == Len(q) <= HighWater + Cardinality(Producers) - 1

\* So few producers that the len tests inside DropPacket are never true: up to
\* 15 with the code's margins.
Few == Cardinality(Producers) <= DropMargin - VideoMargin + 1

\* DropPacket of the rtmp and hls writers puts back what its comments promise:
\* as long as the channel is open it takes no audio packet, key frame or
\* sequence header out for good.  (The flv writer's extra receive may.)
DropKeepsAudioAndKeys ==
    (variant # "flv" /\ ~chanClosed /\ Few) =>
        \A pkt \in dropped : pkt.kind \notin {"audio", "key"}

\* DropPacket can stall the whole room, but only when others, the sender and
\* the drop loops of other producers together, took more than DropLeave -
\* DropMargin packets (60) while it ran.  (Each round of the flv writer's loop
\* may take two.)
StallNeedsDrain ==
    \A p \in Producers :
        (variant # "flv" /\ Stalled(p)) => taken[p] > DropLeave - DropMargin

\* A producer that will send: it has passed the test, or holds a packet that
\* it took out.
Ahead == {p \in Producers : prod[p] \in {"push", "audio", "put"}}

\* What makes the three inductive: every producer that will send has its place
\* below the bound.
ProducerInv ==
    /\ \A p \in Producers :
          /\ prod[p] \in {"test", "push", "audio", "put"} => tmp[p] \in Packets
          /\ prod[p] \in {"audio", "put"} => tmp[p].kind \in {"audio", "key"}
          /\ prod[p] \in Dropping \ {"recv"} => i[p] < Rounds
          /\ prod[p] = "last" => variant = "flv"
    /\ sender = "writing" => hold \in Packets

RoomInv == Len(q) + Cardinality(Ahead) <= HighWater + Cardinality(Producers) - 1

\* A round of the loop takes one packet out of the channel at most, or two of
\* more than the mark; the rest of what is missing others took.
Drained(p) ==
    (variant # "flv" /\ ~chanClosed) =>
        /\ prod[p] = "recv" => Len(q) + taken[p] >= HighWater - i[p]
        /\ prod[p] \in {"audio", "put", "trim"} => Len(q) + 1 + taken[p] >= HighWater - i[p]
        /\ prod[p] = "extra" => Len(q) + taken[p] >= HighWater - i[p]

DrainInv == \A p \in Producers : Drained(p)

AllPlaces ==
    [j \in 1..(Len(q) + Len(out)) |->
       IF j <= Len(q) THEN q[j] ELSE out[j - Len(q)]]

\* No packet is sent twice, and none is sent that is still queued or was
\* dropped, through all the taking out and putting back of DropPacket.
SentOnce ==
    /\ \A j, l \in DOMAIN AllPlaces : AllPlaces[j] = AllPlaces[l] => j = l
    /\ \A j \in DOMAIN AllPlaces :
         AllPlaces[j] \notin ({hold} \cup {tmp[p] : p \in Producers} \cup refused \cup dropped)

\* The second close of the channel, which ends the process, needs two calls of
\* Close that overlap: one that tests the flag while the other has tested it
\* and not set it.  Calls after one another, a sender that sets the flag in
\* between or a producer at work never lead to it.
PanicNeedsOverlap == crashed => overlapped

\* The flag is set on an open channel: the sender's connection has failed, or
\* hls_keep_after_end is set.
LeftOpen == closed /\ ~chanClosed /\ (sender = "dead" \/ variant = "kept")

\* A call of Write returns, except on a writer that is left open: then Close
\* does not close the channel, and a stalled producer stays stalled.
WriteReturns ==
    \A p \in Producers :
        (prod[p] # "idle") ~> (prod[p] = "idle" \/ LeftOpen \/ crashed)

\* "dont't drop sps config and dont't drop key frame" (rtmp.go, DropPacket):
\* no key frame or sequence header is lost to make room.
KeyFramesSurvive ==
    ~chanClosed => \A pkt \in refused \cup dropped : pkt.kind # "key"
=============================================================================

------------------------- MODULE PacketQueueProofs -------------------------
(***************************************************************************)
(* The bounds of the packet queue, for every capacity, all margins in the  *)
(* code's order and any number of producers, writes and callers of Close.  *)
(***************************************************************************)
EXTENDS PacketQueue, SequenceTheorems, FiniteSetTheorems, TLAPS

QInv == TypeOK /\ ProducerInv /\ RoomInv

\* Receiving from a channel that is not empty.
LEMMA HeadTail ==
    \A s \in Seq(Packets) : s # <<>> =>
        /\ Head(s) \in Packets
        /\ Tail(s) \in Seq(Packets)
        /\ Len(s) \in Nat
        /\ Len(Tail(s)) = Len(s) - 1
BY HeadTailProperties

Points == {"idle", "test", "push"} \cup Dropping

\* Moving a producer's control point, counter and packet keeps their types.
LEMMA PointType ==
    ASSUME prod \in [Producers -> Points], NEW p \in Producers, NEW l \in Points, Goto(p, l)
    PROVE  prod' \in [Producers -> Points]
BY DEF Goto

LEMMA RoundType ==
    ASSUME prod \in [Producers -> Points], i \in [Producers -> 0..Rounds],
           NEW p \in Producers, i[p] < Rounds, EndRound(p)
    PROVE  prod' \in [Producers -> Points] /\ i' \in [Producers -> 0..Rounds]
<1>1. Rounds \in Int
  BY QueueAssumption DEF Rounds
<1>2. i[p] + 1 \in 0..Rounds
  BY <1>1
<1>3. QED
  BY <1>2 DEF EndRound, Goto, Points, Dropping

LEMMA TakenType ==
    ASSUME taken \in [Producers -> Nat], NEW p, TakenBy(p)
    PROVE  taken' \in [Producers -> Nat]
BY DEF TakenBy

\* Every step keeps the types.
LEMMA TypeStep == TypeOK /\ ProducerInv /\ Next => TypeOK'
<1> SUFFICES ASSUME TypeOK, ProducerInv, Next PROVE TypeOK'
  OBVIOUS
<1>a. prod \in [Producers -> Points] /\ i \in [Producers -> 0..Rounds] /\ taken \in [Producers -> Nat]
  BY DEF TypeOK, Points
<1>b. 0 \in 0..Rounds
  BY QueueAssumption DEF Rounds
<1> USE DEF TypeOK, ProducerInv, Dropping, chan, hist
<1>1. ASSUME NEW p \in Producers, WriteClosed(p) PROVE TypeOK'
  BY <1>1 DEF WriteClosed, Keep, Goto, Puts, EndRound, DropEnds, TakenBy
<1>2. ASSUME NEW p \in Producers, NEW k \in Kinds, WriteBegin(p, k) PROVE TypeOK'
  <2>1. count' \in 0..MaxWrites /\ tmp' \in [Producers -> Packets \cup {None}]
    BY <1>2, QueueAssumption DEF WriteBegin, Puts, Packets
  <2>2. prod' \in [Producers -> Points]
    BY <1>2, <1>a, PointType DEF WriteBegin, Points
  <2>3. QED
    BY <1>2, <2>1, <2>2 DEF WriteBegin, Keep, Points
<1>3. ASSUME NEW p \in Producers, WriteTest(p) PROVE TypeOK'
  <2>1. prod' \in [Producers -> Points]
    BY <1>3, <1>a, PointType DEF WriteTest, Points
  <2>2. tmp' \in [Producers -> Packets \cup {None}] /\ refused' \subseteq Packets
    BY <1>3 DEF WriteTest, Puts
  <2>3. QED
    BY <1>3, <2>1, <2>2 DEF WriteTest, Keep, Points
<1>4. ASSUME NEW p \in Producers, WritePush(p) PROVE TypeOK'
  <2>1. tmp[p] \in Packets
    BY <1>4 DEF WritePush
  <2>2. Append(q, tmp[p]) \in Seq(Packets) /\ (q' = q \/ q' = Append(q, tmp[p]))
    BY <1>4, <2>1, AppendProperties DEF WritePush
  <2>3. prod' \in [Producers -> Points]
    BY <1>4, <1>a, PointType DEF WritePush, Points
  <2>4. QED
    BY <1>4, <2>2, <2>3 DEF WritePush, Keep, Puts, Points
<1>5. ASSUME NEW p \in Producers, DropRecv(p) PROVE TypeOK'
  <2>1. q' \in Seq(Packets) /\ Head(q) \in Packets
    BY <1>5, HeadTail DEF DropRecv
  <2>2. Handle(Head(q).kind) \in {"audio", "put", "trim"}
    BY DEF Handle
  <2>3. prod' \in [Producers -> Points] /\ i' \in [Producers -> 0..Rounds]
    BY <1>5, <1>a, <2>2, RoundType, PointType DEF DropRecv, Points
  <2>4. taken' \in [Producers -> Nat]
    BY <1>5, <1>a, TakenType DEF DropRecv
  <2>5. tmp' \in [Producers -> Packets \cup {None}] /\ dropped' \subseteq Packets
    BY <1>5, <2>1 DEF DropRecv, Puts
  <2>6. QED
    BY <1>5, <2>1, <2>3, <2>4, <2>5 DEF DropRecv, Keep, Points
<1>6. ASSUME NEW p \in Producers, DropRecvClosed(p) PROVE TypeOK'
  <2>1. prod' \in [Producers -> Points] /\ i' \in [Producers -> 0..Rounds]
    BY <1>6, <1>a, RoundType DEF DropRecvClosed
  <2>2. QED
    BY <1>6, <2>1 DEF DropRecvClosed, Keep, Points
<1>7. ASSUME NEW p \in Producers, DropDone(p) PROVE TypeOK'
  BY <1>7, <1>b DEF DropDone, Keep, Goto, Puts, DropEnds
<1>8. ASSUME NEW p \in Producers, DropAudio(p) PROVE TypeOK'
  <2>1. prod' \in [Producers -> Points]
    BY <1>8, <1>a, PointType DEF DropAudio, Points
  <2>2. tmp' \in [Producers -> Packets \cup {None}] /\ dropped' \subseteq Packets
    BY <1>8 DEF DropAudio, Puts
  <2>3. QED
    BY <1>8, <2>1, <2>2 DEF DropAudio, Keep, Points
<1>9. ASSUME NEW p \in Producers, DropPut(p) PROVE TypeOK'
  <2>1. q' \in Seq(Packets)
    BY <1>9, AppendProperties DEF DropPut
  <2>2. i[p] < Rounds
    BY <1>9 DEF DropPut
  <2>3. prod' \in [Producers -> Points] /\ i' \in [Producers -> 0..Rounds]
    BY <1>9, <1>a, <2>2, RoundType, PointType DEF DropPut, Points
  <2>4. tmp' \in [Producers -> Packets \cup {None}]
    BY <1>9 DEF DropPut, Puts
  <2>5. QED
    BY <1>9, <2>1, <2>3, <2>4 DEF DropPut, Keep, Points
<1>10. ASSUME NEW p \in Producers, DropPanics(p) PROVE TypeOK'
  BY <1>10, <1>b DEF DropPanics, Keep, Goto, Puts, DropEnds
<1>11. ASSUME NEW p \in Producers, DropTrim(p) PROVE TypeOK'
  <2>1. i[p] < Rounds
    BY <1>11 DEF DropTrim
  <2>2. prod' \in [Producers -> Points] /\ i' \in [Producers -> 0..Rounds]
    BY <1>11, <1>a, <2>1, RoundType, PointType DEF DropTrim, Points
  <2>3. QED
    BY <1>11, <2>2 DEF DropTrim, Keep, Points
<1>12. ASSUME NEW p \in Producers, DropExtra(p) PROVE TypeOK'
  <2>1. q' \in Seq(Packets) /\ dropped' \subseteq Packets
    BY <1>12, HeadTail DEF DropExtra
  <2>2. taken' \in [Producers -> Nat]
    BY <1>12, <1>a, TakenType DEF DropExtra
  <2>3. i[p] < Rounds
    BY <1>12 DEF DropExtra
  <2>4. prod' \in [Producers -> Points] /\ i' \in [Producers -> 0..Rounds]
    BY <1>12, <1>a, <2>3, RoundType, PointType DEF DropExtra, Points
  <2>5. QED
    BY <1>12, <2>1, <2>2, <2>4 DEF DropExtra, Keep, Points
<1>13. ASSUME SendTest PROVE TypeOK'
  BY <1>13 DEF SendTest, SenderKeeps, TakenBy
<1>14. ASSUME SendRecv PROVE TypeOK'
  <2>1. taken' \in [Producers -> Nat]
    BY <1>14, <1>a, TakenType DEF SendRecv
  <2>2. QED
    BY <1>14, <2>1, HeadTail DEF SendRecv, SenderKeeps
<1>15. ASSUME SendDone PROVE TypeOK'
  BY <1>15, AppendProperties DEF SendDone, SenderKeeps, Ready
<1>16. ASSUME SendFails PROVE TypeOK'
  BY <1>16 DEF SendFails, SenderKeeps, TakenBy
<1>17. ASSUME SendPanics PROVE TypeOK'
  BY <1>17 DEF SendPanics, SenderKeeps, TakenBy
<1>18. ASSUME SendStops PROVE TypeOK'
  <2>1. closed' \in BOOLEAN
    BY <1>18 DEF SendStops
  <2>2. QED
    BY <1>18, <2>1 DEF SendStops, SenderKeeps
<1>19. ASSUME NEW c \in Closers, CloseTest(c) PROVE TypeOK'
  <2>1. overlapped' \in BOOLEAN
    BY <1>19 DEF CloseTest
  <2>2. QED
    BY <1>19, <2>1 DEF CloseTest, CloserKeeps
<1>20. ASSUME NEW c \in Closers, CloseChan(c) PROVE TypeOK'
  BY <1>20 DEF CloseChan, CloserKeeps
<1>21. ASSUME NEW c \in Closers, CloseFlag(c) PROVE TypeOK'
  BY <1>21 DEF CloseFlag, CloserKeeps
<1>22. QED
  BY <1>1, <1>2, <1>3, <1>4, <1>5, <1>6, <1>7, <1>8, <1>9, <1>10, <1>11, <1>12, <1>13, <1>14, <1>15, <1>16, <1>17, <1>18, <1>19, <1>20, <1>21
     DEF Next, Write, DropPacket, SendPacket, Close

\* Every step keeps what a producer holds at each control point.
LEMMA ProducerStep == TypeOK /\ ProducerInv /\ Next => ProducerInv'
<1> SUFFICES ASSUME TypeOK, ProducerInv, Next PROVE ProducerInv'
  OBVIOUS
<1> USE QueueAssumption, NoneAssumption DEF TypeOK, ProducerInv, Dropping, chan, hist
<1>1. ASSUME NEW p \in Producers, WriteClosed(p) PROVE ProducerInv'
  BY <1>1 DEF WriteClosed, Keep, Goto, Puts, EndRound, DropEnds, TakenBy
<1>2. ASSUME NEW p \in Producers, NEW k \in Kinds, WriteBegin(p, k) PROVE ProducerInv'
  BY <1>2 DEF WriteBegin, Keep, Goto, Puts, Packets
<1>3. ASSUME NEW p \in Producers, WriteTest(p) PROVE ProducerInv'
  BY <1>3 DEF WriteTest, Keep, Goto, Puts, EndRound, DropEnds, TakenBy
<1>4. ASSUME NEW p \in Producers, WritePush(p) PROVE ProducerInv'
  BY <1>4 DEF WritePush, Keep, Goto, Puts, EndRound, DropEnds, TakenBy
<1>5. ASSUME NEW p \in Producers, DropRecv(p) PROVE ProducerInv'
  <2>1. Head(q) \in Packets
    BY <1>5, HeadTail DEF DropRecv
  <2>2. QED
    BY <1>5, <2>1 DEF DropRecv, Keep, Goto, Puts, EndRound, Handle
<1>6. ASSUME NEW p \in Producers, DropRecvClosed(p) PROVE ProducerInv'
  BY <1>6 DEF DropRecvClosed, Keep, Goto, Puts, EndRound, DropEnds, TakenBy
<1>7. ASSUME NEW p \in Producers, DropDone(p) PROVE ProducerInv'
  BY <1>7 DEF DropDone, Keep, Goto, Puts, EndRound, DropEnds, TakenBy
<1>8. ASSUME NEW p \in Producers, DropAudio(p) PROVE ProducerInv'
  BY <1>8 DEF DropAudio, Keep, Goto, Puts, EndRound, DropEnds, TakenBy
<1>9. ASSUME NEW p \in Producers, DropPut(p) PROVE ProducerInv'
  BY <1>9 DEF DropPut, Keep, Goto, Puts, EndRound, DropEnds, TakenBy
<1>10. ASSUME NEW p \in Producers, DropPanics(p) PROVE ProducerInv'
  BY <1>10 DEF DropPanics, Keep, Goto, Puts, EndRound, DropEnds, TakenBy
<1>11. ASSUME NEW p \in Producers, DropTrim(p) PROVE ProducerInv'
  BY <1>11 DEF DropTrim, Keep, Goto, Puts, EndRound, DropEnds, TakenBy
<1>12. ASSUME NEW p \in Producers, DropExtra(p) PROVE ProducerInv'
  BY <1>12 DEF DropExtra, Keep, Goto, Puts, EndRound, DropEnds, TakenBy
<1>13. ASSUME SendTest PROVE ProducerInv'
  BY <1>13 DEF SendTest, SenderKeeps, TakenBy
<1>14. ASSUME SendRecv PROVE ProducerInv'
  BY <1>14, HeadTail DEF SendRecv, SenderKeeps
<1>15. ASSUME SendDone PROVE ProducerInv'
  BY <1>15 DEF SendDone, SenderKeeps, Ready
<1>16. ASSUME SendFails PROVE ProducerInv'
  BY <1>16 DEF SendFails, SenderKeeps, TakenBy
<1>17. ASSUME SendPanics PROVE ProducerInv'
  BY <1>17 DEF SendPanics, SenderKeeps, TakenBy
<1>18. ASSUME SendStops PROVE ProducerInv'
  BY <1>18 DEF SendStops, SenderKeeps, TakenBy
<1>19. ASSUME NEW c \in Closers, CloseTest(c) PROVE ProducerInv'
  BY <1>19 DEF CloseTest, CloserKeeps
<1>20. ASSUME NEW c \in Closers, CloseChan(c) PROVE ProducerInv'
  BY <1>20 DEF CloseChan, CloserKeeps
<1>21. ASSUME NEW c \in Closers, CloseFlag(c) PROVE ProducerInv'
  BY <1>21 DEF CloseFlag, CloserKeeps
<1>22. QED
  BY <1>1, <1>2, <1>3, <1>4, <1>5, <1>6, <1>7, <1>8, <1>9, <1>10, <1>11, <1>12, <1>13, <1>14, <1>15, <1>16, <1>17, <1>18, <1>19, <1>20, <1>21
     DEF Next, Write, DropPacket, SendPacket, Close

-----------------------------------------------------------------------------
(* Room for everyone who will send.                                        *)

Sending == {"push", "audio", "put"}

\* How a producer's move changes the number of those who will send.
LEMMA AheadCount ==
    ASSUME prod \in [Producers -> Points], NEW p \in Producers, NEW l \in Points, Goto(p, l)
    PROVE  /\ Cardinality(Ahead) \in Nat /\ Cardinality(Ahead') \in Nat
           /\ Cardinality(Producers) \in Nat
           /\ Cardinality(Ahead') <= Cardinality(Producers)
           /\ (prod[p] \in Sending /\ l \notin Sending) => Cardinality(Ahead') = Cardinality(Ahead) - 1
           /\ (prod[p] \notin Sending /\ l \in Sending) => Cardinality(Ahead') = Cardinality(Ahead) + 1
           /\ ((prod[p] \in Sending) <=> (l \in Sending)) => Cardinality(Ahead') = Cardinality(Ahead)
<1>1. IsFiniteSet(Producers)
  BY QueueAssumption
<1>2. Ahead \subseteq Producers /\ Ahead' \subseteq Producers
  BY DEF Ahead
<1>3. IsFiniteSet(Ahead) /\ IsFiniteSet(Ahead') /\ Cardinality(Ahead') <= Cardinality(Producers)
  BY <1>1, <1>2, FS_Subset
<1>4. Cardinality(Ahead) \in Nat /\ Cardinality(Ahead') \in Nat /\ Cardinality(Producers) \in Nat
  BY <1>1, <1>3, FS_CardinalityType
<1>5. ASSUME prod[p] \in Sending, l \notin Sending PROVE Cardinality(Ahead') = Cardinality(Ahead) - 1
  <2>1. Ahead' = Ahead \ {p} /\ p \in Ahead
    BY <1>5 DEF Ahead, Goto, Sending
  <2>2. QED
    BY <1>3, <2>1, FS_RemoveElement
<1>6. ASSUME prod[p] \notin Sending, l \in Sending PROVE Cardinality(Ahead') = Cardinality(Ahead) + 1
  <2>1. Ahead' = Ahead \cup {p} /\ p \notin Ahead
    BY <1>6 DEF Ahead, Goto, Sending
  <2>2. QED
    BY <1>3, <2>1, FS_AddElement
<1>7. ASSUME (prod[p] \in Sending) <=> (l \in Sending) PROVE Cardinality(Ahead') = Cardinality(Ahead)
  BY <1>7 DEF Ahead, Goto, Sending
<1>8. QED
  BY <1>3, <1>4, <1>5, <1>6, <1>7

\* Every step leaves room: the test of Write makes it, a receive that may be
\* put back frees its own.
LEMMA RoomStep == TypeOK /\ ProducerInv /\ RoomInv /\ Next => RoomInv'
<1> SUFFICES ASSUME TypeOK, ProducerInv, RoomInv, Next PROVE RoomInv'
  OBVIOUS
<1>a. /\ prod \in [Producers -> Points] /\ q \in Seq(Packets)
      /\ Len(q) \in Nat /\ HighWater \in Nat
  BY QueueAssumption, LenProperties DEF TypeOK, Points, HighWater
<1>b. Len(q) + Cardinality(Ahead) <= HighWater + Cardinality(Producers) - 1
  BY DEF RoomInv
<1> USE DEF RoomInv
<1>1. ASSUME NEW p \in Producers, WriteClosed(p) PROVE RoomInv'
  <2>1. q' = q /\ prod' = prod
    BY <1>1 DEF WriteClosed, Keep
  <2>2. QED
    BY <2>1 DEF Ahead
<1>2. ASSUME NEW p \in Producers, NEW k \in Kinds, WriteBegin(p, k) PROVE RoomInv'
  <2>1. q' = q /\ Goto(p, "test") /\ prod[p] \notin Sending
    BY <1>2 DEF WriteBegin, Sending
  <2>2. QED
    BY <1>a, <1>b, <2>1, AheadCount DEF Points, Sending
<1>3. ASSUME NEW p \in Producers, WriteTest(p) PROVE RoomInv'
  <2>1. q' = q /\ prod[p] \notin Sending
    BY <1>3 DEF WriteTest, Sending
  <2>2. CASE Goto(p, "recv")
    BY <1>a, <1>b, <2>1, <2>2, AheadCount DEF Points, Dropping, Sending
  <2>3. CASE Goto(p, "push") /\ ~(Len(q) >= HighWater)
    <3>1. Cardinality(Ahead') \in Nat /\ Cardinality(Producers) \in Nat /\ Cardinality(Ahead') <= Cardinality(Producers)
      BY <1>a, <2>3, AheadCount DEF Points
    <3>2. Len(q) <= HighWater - 1
      BY <1>a, <2>3
    <3>3. QED
      BY <1>a, <2>1, <3>1, <3>2
  <2>4. QED
    BY <1>3, <2>2, <2>3 DEF WriteTest
<1>4. ASSUME NEW p \in Producers, WritePush(p) PROVE RoomInv'
  <2>1. Goto(p, "idle") /\ prod[p] \in Sending /\ "idle" \notin Sending
    BY <1>4 DEF WritePush, Sending
  <2>2. Cardinality(Ahead') = Cardinality(Ahead) - 1 /\ Cardinality(Ahead) \in Nat /\ Cardinality(Producers) \in Nat
    BY <1>a, <2>1, AheadCount DEF Points
  <2>3. tmp[p] \in Packets
    BY <1>4 DEF WritePush, ProducerInv
  <2>4. Len(q') = Len(q) \/ Len(q') = Len(q) + 1
    BY <1>4, <1>a, <2>3, AppendProperties DEF WritePush
  <2>5. QED
    BY <1>a, <1>b, <2>2, <2>4
<1>5. ASSUME NEW p \in Producers, DropRecv(p) PROVE RoomInv'
  <2>1. Len(q') = Len(q) - 1
    BY <1>5, <1>a, HeadTail DEF DropRecv
  <2>2. Handle(Head(q).kind) \in Points
    BY DEF Handle, Points, Dropping
  <2>3. \E l \in Points : Goto(p, l)
    BY <1>5, <2>2 DEF DropRecv, EndRound, Points, Dropping
  <2>4. prod[p] \notin Sending
    BY <1>5 DEF DropRecv, Sending
  <2>5. Cardinality(Ahead') <= Cardinality(Ahead) + 1 /\ Cardinality(Ahead) \in Nat /\ Cardinality(Ahead') \in Nat /\ Cardinality(Producers) \in Nat
    BY <1>a, <2>3, <2>4, AheadCount
  <2>6. QED
    BY <1>a, <1>b, <2>1, <2>5
<1>6. ASSUME NEW p \in Producers, DropRecvClosed(p) PROVE RoomInv'
  <2>1. q' = q /\ Goto(p, "recv") /\ prod[p] \notin Sending /\ "recv" \notin Sending
    BY <1>6 DEF DropRecvClosed, EndRound, Sending
  <2>2. QED
    BY <1>a, <1>b, <2>1, AheadCount DEF Points, Dropping
<1>7. ASSUME NEW p \in Producers, DropDone(p) PROVE RoomInv'
  <2>1. q' = q /\ Goto(p, "idle") /\ prod[p] \notin Sending /\ "idle" \notin Sending
    BY <1>7 DEF DropDone, DropEnds, Sending
  <2>2. QED
    BY <1>a, <1>b, <2>1, AheadCount DEF Points
<1>8. ASSUME NEW p \in Producers, DropAudio(p) PROVE RoomInv'
  <2>1. q' = q /\ prod[p] \in Sending /\ (Goto(p, "extra") \/ Goto(p, "put"))
    BY <1>8 DEF DropAudio, Sending
  <2>2. Cardinality(Ahead') <= Cardinality(Ahead) /\ Cardinality(Ahead) \in Nat /\ Cardinality(Ahead') \in Nat /\ Cardinality(Producers) \in Nat
    BY <1>a, <2>1, AheadCount DEF Points, Dropping, Sending
  <2>3. QED
    BY <1>a, <1>b, <2>1, <2>2
<1>9. ASSUME NEW p \in Producers, DropPut(p) PROVE RoomInv'
  <2>1. prod[p] \in Sending /\ (Goto(p, "recv") \/ Goto(p, "trim")) /\ tmp[p] \in Packets
    BY <1>9 DEF DropPut, EndRound, Sending, ProducerInv
  <2>2. Cardinality(Ahead') = Cardinality(Ahead) - 1 /\ Cardinality(Ahead) \in Nat /\ Cardinality(Producers) \in Nat
    BY <1>a, <2>1, AheadCount DEF Points, Dropping, Sending
  <2>3. Len(q') = Len(q) + 1
    BY <1>9, <1>a, <2>1, AppendProperties DEF DropPut
  <2>4. QED
    BY <1>a, <1>b, <2>2, <2>3
<1>10. ASSUME NEW p \in Producers, DropPanics(p) PROVE RoomInv'
  <2>1. q' = q /\ Goto(p, "idle") /\ prod[p] \in Sending /\ "idle" \notin Sending
    BY <1>10 DEF DropPanics, DropEnds, Sending
  <2>2. Cardinality(Ahead') = Cardinality(Ahead) - 1 /\ Cardinality(Ahead) \in Nat /\ Cardinality(Producers) \in Nat
    BY <1>a, <2>1, AheadCount DEF Points
  <2>3. QED
    BY <1>a, <1>b, <2>1, <2>2
<1>11. ASSUME NEW p \in Producers, DropTrim(p) PROVE RoomInv'
  <2>1. q' = q /\ prod[p] \notin Sending /\ (Goto(p, "extra") \/ Goto(p, "last") \/ Goto(p, "recv"))
    BY <1>11 DEF DropTrim, EndRound, Sending
  <2>2. QED
    BY <1>a, <1>b, <2>1, AheadCount DEF Points, Dropping, Sending
<1>12. ASSUME NEW p \in Producers, DropExtra(p) PROVE RoomInv'
  <2>1. prod[p] \notin Sending /\ (Goto(p, "last") \/ Goto(p, "recv"))
    BY <1>12 DEF DropExtra, EndRound, Sending
  <2>2. Cardinality(Ahead') = Cardinality(Ahead) /\ Cardinality(Ahead) \in Nat /\ Cardinality(Producers) \in Nat
    BY <1>a, <2>1, AheadCount DEF Points, Dropping, Sending
  <2>3. Len(q') = Len(q) \/ Len(q') = Len(q) - 1
    BY <1>12, <1>a, HeadTail DEF DropExtra
  <2>4. QED
    BY <1>a, <1>b, <2>2, <2>3
<1>13. ASSUME SendTest PROVE RoomInv'
  <2>1. q' = q /\ prod' = prod
    BY <1>13 DEF SendTest, SenderKeeps
  <2>2. QED
    BY <2>1 DEF Ahead
<1>14. ASSUME SendRecv PROVE RoomInv'
  <2>1. Len(q') = Len(q) - 1 /\ prod' = prod
    BY <1>14, <1>a, HeadTail DEF SendRecv, SenderKeeps
  <2>2. Ahead' = Ahead
    BY <2>1 DEF Ahead
  <2>3. Ahead \subseteq Producers
    BY DEF Ahead
  <2>4. Cardinality(Ahead) \in Nat /\ Cardinality(Producers) \in Nat
    BY <2>3, QueueAssumption, FS_Subset, FS_CardinalityType
  <2>5. QED
    BY <1>a, <1>b, <2>1, <2>2, <2>4
<1>15. ASSUME SendDone PROVE RoomInv'
  <2>1. q' = q /\ prod' = prod
    BY <1>15 DEF SendDone, SenderKeeps
  <2>2. QED
    BY <2>1 DEF Ahead
<1>16. ASSUME SendFails PROVE RoomInv'
  <2>1. q' = q /\ prod' = prod
    BY <1>16 DEF SendFails, SenderKeeps
  <2>2. QED
    BY <2>1 DEF Ahead
<1>17. ASSUME SendPanics PROVE RoomInv'
  <2>1. q' = q /\ prod' = prod
    BY <1>17 DEF SendPanics, SenderKeeps
  <2>2. QED
    BY <2>1 DEF Ahead
<1>18. ASSUME SendStops PROVE RoomInv'
  <2>1. q' = q /\ prod' = prod
    BY <1>18 DEF SendStops, SenderKeeps
  <2>2. QED
    BY <2>1 DEF Ahead
<1>19. ASSUME NEW c \in Closers, CloseTest(c) PROVE RoomInv'
  <2>1. q' = q /\ prod' = prod
    BY <1>19 DEF CloseTest, CloserKeeps
  <2>2. QED
    BY <2>1 DEF Ahead
<1>20. ASSUME NEW c \in Closers, CloseChan(c) PROVE RoomInv'
  <2>1. q' = q /\ prod' = prod
    BY <1>20 DEF CloseChan, CloserKeeps
  <2>2. QED
    BY <2>1 DEF Ahead
<1>21. ASSUME NEW c \in Closers, CloseFlag(c) PROVE RoomInv'
  <2>1. q' = q /\ prod' = prod
    BY <1>21 DEF CloseFlag, CloserKeeps
  <2>2. QED
    BY <2>1 DEF Ahead
<1>22. QED
  BY <1>1, <1>2, <1>3, <1>4, <1>5, <1>6, <1>7, <1>8, <1>9, <1>10, <1>11, <1>12, <1>13, <1>14, <1>15, <1>16, <1>17, <1>18, <1>19, <1>20, <1>21
     DEF Next, Write, DropPacket, SendPacket, Close

\* The invariant holds at the start and every step keeps it.
LEMMA QInvariance == Spec => []QInv
<1>1. Init => QInv
  <2> SUFFICES ASSUME Init PROVE QInv
    OBVIOUS
  <2> USE QueueAssumption DEF Init
  <2>1. q \in Seq(Packets) /\ Len(q) = 0 /\ out \in Seq(Packets)
    BY EmptySeq
  <2>2. 0 \in 0..Rounds /\ 0 \in 0..MaxWrites /\ HighWater \in Nat /\ HighWater >= 1
    BY DEF Rounds, HighWater
  <2>3. closed \in BOOLEAN
    OBVIOUS
  <2>4. TypeOK
    BY <2>1, <2>2, <2>3 DEF TypeOK, Dropping, Ready
  <2>5. ProducerInv
    BY DEF ProducerInv, Dropping, Ready
  <2>6. Ahead = {}
    BY DEF Ahead
  <2>7. Cardinality(Ahead) = 0 /\ Cardinality(Producers) \in Nat
    BY <2>6, FS_EmptySet, FS_CardinalityType
  <2>8. RoomInv
    BY <2>1, <2>2, <2>7 DEF RoomInv
  <2>9. QED
    BY <2>4, <2>5, <2>8 DEF QInv
<1>2. QInv /\ [Next]_vars => QInv'
  <2> SUFFICES ASSUME QInv, [Next]_vars PROVE QInv'
    OBVIOUS
  <2>1. CASE Next
    BY <2>1, TypeStep, ProducerStep, RoomStep DEF QInv
  <2>2. CASE UNCHANGED vars
    BY <2>2 DEF vars, chan, hist, QInv, TypeOK, ProducerInv, RoomInv, Ahead
  <2>3. QED
    BY <2>1, <2>2
<1>3. QED
  BY <1>1, <1>2, PTL DEF Spec

\* The room that is left bounds the channel.
LEMMA RoomBounds ==
    QInv => /\ QueueBound
            /\ Len(q) \in Nat /\ HighWater \in Nat /\ Cardinality(Producers) \in Nat
<1> SUFFICES ASSUME QInv
             PROVE  /\ QueueBound
                    /\ Len(q) \in Nat /\ HighWater \in Nat /\ Cardinality(Producers) \in Nat
  OBVIOUS
<1>1. Ahead \subseteq Producers
  BY DEF Ahead
<1>2. Cardinality(Ahead) \in Nat /\ Cardinality(Producers) \in Nat
  BY <1>1, QueueAssumption, FS_Subset, FS_CardinalityType
<1>3. Len(q) \in Nat /\ HighWater \in Nat
  BY QueueAssumption, LenProperties DEF QInv, TypeOK, HighWater
<1>4. QED
  BY <1>2, <1>3 DEF QInv, RoomInv, QueueBound

\* The types of the queue and of every goroutine's locals.
THEOREM TypeCorrect == Spec => []TypeOK
BY QInvariance, PTL DEF QInv

\* However many transfer goroutines a takeover leaves at work on one writer,
\* its queue passes the mark at which Write drops by less than their number.
THEOREM Bounded == Spec => []QueueBound
<1>1. QInv => QueueBound
  BY RoomBounds
<1>2. QED
  BY <1>1, QInvariance, PTL

-----------------------------------------------------------------------------
(* What DropPacket takes out.                                              *)

\* Every step accounts for the packets that left the channel.
LEMMA DrainStep == QInv /\ DrainInv /\ Next => DrainInv'
<1> SUFFICES ASSUME QInv, DrainInv, Next PROVE \A p \in Producers : Drained(p)'
  BY DEF DrainInv, Drained
<1>a. /\ prod \in [Producers -> Points] /\ i \in [Producers -> 0..Rounds]
      /\ taken \in [Producers -> Nat] /\ tmp \in [Producers -> Packets \cup {None}]
      /\ q \in Seq(Packets) /\ Len(q) \in Nat /\ \A p \in Producers : Drained(p)
      /\ ProducerInv
  BY LenProperties DEF QInv, TypeOK, DrainInv, Drained, Points
<1>b. HighWater \in Nat /\ Rounds \in Nat /\ VideoMargin < DropMargin /\ HighWater = MaxQueueNum - DropMargin
      /\ AudioMargin <= VideoMargin /\ MaxQueueNum \in Nat /\ DropMargin \in Nat /\ VideoMargin \in Nat /\ AudioMargin \in Nat
  BY QueueAssumption DEF HighWater, Rounds
<1> USE <1>a, <1>b DEF Drained, Dropping
<1>1. ASSUME NEW p \in Producers, WriteClosed(p) PROVE \A x \in Producers : Drained(x)'
  BY <1>1 DEF WriteClosed, Keep, Goto, EndRound, DropEnds
<1>2. ASSUME NEW p \in Producers, NEW k \in Kinds, WriteBegin(p, k) PROVE \A x \in Producers : Drained(x)'
  BY <1>2 DEF WriteBegin, Keep, Goto, EndRound, DropEnds
<1>3. ASSUME NEW p \in Producers, WriteTest(p) PROVE \A x \in Producers : Drained(x)'
  BY <1>3 DEF WriteTest, Keep, Goto, EndRound, DropEnds
<1>4. ASSUME NEW p \in Producers, WritePush(p) PROVE \A x \in Producers : Drained(x)'
  <2>1. Len(q') >= Len(q) /\ Len(q') \in Nat
    BY <1>4, AppendProperties DEF WritePush, ProducerInv
  <2>2. QED
    BY <1>4, <2>1 DEF WritePush, Keep, Goto
<1>5. ASSUME NEW p \in Producers, DropRecv(p) PROVE \A x \in Producers : Drained(x)'
  <2>1. Len(q') = Len(q) - 1 /\ Len(q') \in Nat
    BY <1>5, HeadTail, LenProperties DEF DropRecv
  <2>2. ASSUME NEW x \in Producers, x # p PROVE Drained(x)'
    BY <1>5, <2>1, <2>2 DEF DropRecv, Keep, Goto, EndRound, TakenBy
  <2>3. taken'[p] = taken[p]
    BY <1>5 DEF DropRecv, TakenBy
  <2>4. Handle(Head(q).kind) \in {"audio", "put", "trim"}
    BY DEF Handle
  <2>5. Drained(p)'
    BY <1>5, <2>1, <2>3, <2>4 DEF DropRecv, Keep, Goto, EndRound
  <2>6. QED
    BY <2>2, <2>5
<1>6. ASSUME NEW p \in Producers, DropRecvClosed(p) PROVE \A x \in Producers : Drained(x)'
  BY <1>6 DEF DropRecvClosed, Keep, Goto, EndRound, DropEnds
<1>7. ASSUME NEW p \in Producers, DropDone(p) PROVE \A x \in Producers : Drained(x)'
  BY <1>7 DEF DropDone, Keep, Goto, EndRound, DropEnds
<1>8. ASSUME NEW p \in Producers, DropAudio(p) PROVE \A x \in Producers : Drained(x)'
  BY <1>8 DEF DropAudio, Keep, Goto, EndRound, DropEnds
<1>9. ASSUME NEW p \in Producers, DropPut(p) PROVE \A x \in Producers : Drained(x)'
  <2>1. Len(q') = Len(q) + 1
    BY <1>9, AppendProperties DEF DropPut, ProducerInv
  <2>2. ASSUME NEW x \in Producers, x # p PROVE Drained(x)'
    <3>1. prod'[x] = prod[x] /\ i'[x] = i[x] /\ taken' = taken /\ variant' = variant /\ chanClosed' = chanClosed
      BY <1>9, <2>2 DEF DropPut, Keep, Goto, EndRound
    <3>2. QED
      BY <2>1, <3>1
  <2>3. Drained(p)'
    <3>1. taken' = taken /\ variant' = variant /\ chanClosed' = chanClosed /\ prod[p] = "put"
      BY <1>9 DEF DropPut, Keep
    <3>2. \/ prod'[p] = "trim" /\ i' = i
          \/ prod'[p] = "recv" /\ i'[p] = i[p] + 1
      BY <1>9 DEF DropPut, Goto, EndRound
    <3>3. QED
      BY <2>1, <3>1, <3>2
  <2>4. QED
    BY <2>2, <2>3
<1>10. ASSUME NEW p \in Producers, DropPanics(p) PROVE \A x \in Producers : Drained(x)'
  BY <1>10 DEF DropPanics, Keep, Goto, EndRound, DropEnds
<1>11. ASSUME NEW p \in Producers, DropTrim(p) PROVE \A x \in Producers : Drained(x)'
  BY <1>11 DEF DropTrim, Keep, Goto, EndRound, DropEnds
<1>12. ASSUME NEW p \in Producers, DropExtra(p) PROVE \A x \in Producers : Drained(x)'
  <2>1. CASE q # <<>> /\ q' = Tail(q) /\ TakenBy(p)
    <3>1. Len(q') = Len(q) - 1 /\ Len(q') \in Nat
      BY <2>1, HeadTail, LenProperties
    <3>2. ASSUME NEW x \in Producers, x # p PROVE Drained(x)'
      <4>1. prod'[x] = prod[x] /\ i'[x] = i[x] /\ variant' = variant /\ chanClosed' = chanClosed
        BY <1>12, <3>2 DEF DropExtra, Keep, Goto, EndRound
      <4>2. prod[x] \in Dropping => taken'[x] = taken[x] + 1
        BY <2>1, <3>2 DEF TakenBy
      <4>3. QED
        BY <3>1, <4>1, <4>2
    <3>3. taken'[p] = taken[p]
      BY <2>1 DEF TakenBy
    <3>4. Drained(p)'
      BY <1>12, <3>1, <3>3 DEF DropExtra, Keep, Goto, EndRound, ProducerInv
    <3>5. QED
      BY <3>2, <3>4
  <2>2. CASE chanClosed
    BY <1>12, <2>2 DEF DropExtra, Keep
  <2>3. QED
    BY <1>12, <2>1, <2>2 DEF DropExtra
<1>13. ASSUME SendTest PROVE \A x \in Producers : Drained(x)'
  BY <1>13 DEF SendTest, SenderKeeps, TakenBy
<1>14. ASSUME SendRecv PROVE \A x \in Producers : Drained(x)'
  <2>1. Len(q') = Len(q) - 1 /\ Len(q') \in Nat
    BY <1>14, HeadTail, LenProperties DEF SendRecv
  <2>2. QED
    BY <1>14, <2>1, QueueAssumption DEF SendRecv, SenderKeeps, TakenBy
<1>15. ASSUME SendDone PROVE \A x \in Producers : Drained(x)'
  BY <1>15 DEF SendDone, SenderKeeps, TakenBy
<1>16. ASSUME SendFails PROVE \A x \in Producers : Drained(x)'
  BY <1>16 DEF SendFails, SenderKeeps, TakenBy
<1>17. ASSUME SendPanics PROVE \A x \in Producers : Drained(x)'
  BY <1>17 DEF SendPanics, SenderKeeps, TakenBy
<1>18. ASSUME SendStops PROVE \A x \in Producers : Drained(x)'
  BY <1>18 DEF SendStops, SenderKeeps, TakenBy
<1>19. ASSUME NEW c \in Closers, CloseTest(c) PROVE \A x \in Producers : Drained(x)'
  BY <1>19 DEF CloseTest, CloserKeeps, hist
<1>20. ASSUME NEW c \in Closers, CloseChan(c) PROVE \A x \in Producers : Drained(x)'
  BY <1>20 DEF CloseChan, CloserKeeps, hist
<1>21. ASSUME NEW c \in Closers, CloseFlag(c) PROVE \A x \in Producers : Drained(x)'
  BY <1>21 DEF CloseFlag, CloserKeeps, hist
<1>22. QED
  BY <1>1, <1>2, <1>3, <1>4, <1>5, <1>6, <1>7, <1>8, <1>9, <1>10, <1>11, <1>12, <1>13, <1>14, <1>15, <1>16, <1>17, <1>18, <1>19, <1>20, <1>21
     DEF Next, Write, DropPacket, SendPacket, Close

\* Every step that takes audio or a key frame out puts it back, or finds the
\* channel closed: with few producers the len tests of DropPacket are false.
KeepInv ==
    (variant # "flv" /\ Few) =>
        /\ \A p \in Producers : prod[p] \notin {"extra", "last"}
        /\ ~chanClosed => \A pkt \in dropped : pkt.kind \notin {"audio", "key"}

\* With few producers no test finds the channel as full as it asks for.
LEMMA FewBound == QInv /\ Few => Len(q) <= MaxQueueNum - VideoMargin /\ Len(q) <= MaxQueueNum - AudioMargin /\ Len(q) \in Nat
<1> SUFFICES ASSUME QInv, Few
             PROVE  Len(q) <= MaxQueueNum - VideoMargin /\ Len(q) <= MaxQueueNum - AudioMargin /\ Len(q) \in Nat
  OBVIOUS
<1>1. Len(q) <= HighWater + Cardinality(Producers) - 1 /\ Len(q) \in Nat /\ Cardinality(Producers) \in Nat
  BY RoomBounds DEF QueueBound
<1>2. Cardinality(Producers) <= DropMargin - VideoMargin + 1
  BY DEF Few
<1>3. QED
  BY <1>1, <1>2, QueueAssumption DEF HighWater

LEMMA KeepStep == QInv /\ KeepInv /\ [Next]_vars => KeepInv'
<1> SUFFICES ASSUME QInv, KeepInv, [Next]_vars, variant' # "flv", Few
             PROVE  /\ \A p \in Producers : prod'[p] \notin {"extra", "last"}
                    /\ ~chanClosed' => \A pkt \in dropped' : pkt.kind \notin {"audio", "key"}
  BY DEF KeepInv, Few
<1>a. /\ prod \in [Producers -> Points] /\ ProducerInv /\ q \in Seq(Packets)
      /\ Kinds \subseteq {"audio", "key", "inter", "meta"}
  BY KindsAssumption DEF QInv, TypeOK, Points
<1>b. ~(Len(q) > MaxQueueNum - VideoMargin) /\ ~(Len(q) > MaxQueueNum - AudioMargin)
  BY FewBound, QueueAssumption
<1>c. variant' = variant
  BY DEF Next, Write, DropPacket, WriteClosed, WriteBegin, WriteTest, WritePush,
         DropRecv, DropRecvClosed, DropDone, DropAudio, DropPut, DropPanics, DropTrim, DropExtra, Keep,
         SendPacket, SendTest, SendRecv, SendDone, SendFails, SendPanics, SendStops, SenderKeeps,
         Close, CloseTest, CloseChan, CloseFlag, CloserKeeps, vars
<1>d. /\ \A p \in Producers : prod[p] \notin {"extra", "last"}
      /\ ~chanClosed => \A pkt \in dropped : pkt.kind \notin {"audio", "key"}
  BY <1>c DEF KeepInv
<1> USE <1>a, <1>c, <1>d
<1>1. CASE prod' = prod /\ dropped' = dropped /\ (chanClosed => chanClosed')
  BY <1>1
<1>2. ASSUME NEW p \in Producers, NEW l, Goto(p, l), l \notin {"extra", "last"},
             dropped' = dropped, chanClosed' = chanClosed
      PROVE  /\ \A x \in Producers : prod'[x] \notin {"extra", "last"}
             /\ ~chanClosed' => \A pkt \in dropped' : pkt.kind \notin {"audio", "key"}
  BY <1>2 DEF Goto
<1>3. ASSUME NEW p \in Producers, DropRecv(p)
      PROVE  /\ \A x \in Producers : prod'[x] \notin {"extra", "last"}
             /\ ~chanClosed' => \A pkt \in dropped' : pkt.kind \notin {"audio", "key"}
  <2>1. Handle(Head(q).kind) \notin {"extra", "last"}
    BY DEF Handle
  <2>2. \A x \in Producers : prod'[x] \notin {"extra", "last"}
    BY <1>3, <2>1 DEF DropRecv, Goto, EndRound
  <2>3. QED
    BY <1>3, <2>2 DEF DropRecv, Keep
<1>4. ASSUME NEW p \in Producers, DropPanics(p)
      PROVE  /\ \A x \in Producers : prod'[x] \notin {"extra", "last"}
             /\ ~chanClosed' => \A pkt \in dropped' : pkt.kind \notin {"audio", "key"}
  BY <1>4 DEF DropPanics, DropEnds, Goto, Keep
<1>5. ASSUME NEW p \in Producers, Write(p)
      PROVE  /\ \A x \in Producers : prod'[x] \notin {"extra", "last"}
             /\ ~chanClosed' => \A pkt \in dropped' : pkt.kind \notin {"audio", "key"}
  <2>1. CASE WriteClosed(p)
    BY <1>1, <2>1 DEF WriteClosed, Keep
  <2>2. ASSUME NEW k \in Kinds, WriteBegin(p, k)
        PROVE  Goto(p, "test") /\ dropped' = dropped /\ chanClosed' = chanClosed
    BY <2>2 DEF WriteBegin, Keep
  <2>3. CASE WriteTest(p)
    BY <1>2, <2>3 DEF WriteTest, Keep
  <2>4. CASE WritePush(p)
    BY <1>2, <2>4 DEF WritePush, Keep
  <2>5. CASE DropRecvClosed(p)
    BY <1>2, <2>5 DEF DropRecvClosed, EndRound, Keep
  <2>6. CASE DropDone(p)
    BY <1>2, <2>6 DEF DropDone, DropEnds, Keep
  <2>7. CASE DropAudio(p)
    BY <1>b, <1>2, <2>7 DEF DropAudio, Keep
  <2>8. CASE DropPut(p)
    BY <1>2, <2>8 DEF DropPut, EndRound, Keep
  <2>9. CASE DropTrim(p)
    BY <1>b, <1>2, <2>9 DEF DropTrim, EndRound, Keep
  <2>10. CASE DropExtra(p)
    BY <2>10 DEF DropExtra
  <2>11. QED
    BY <1>2, <1>3, <1>4, <1>5, <2>1, <2>2, <2>3, <2>4, <2>5, <2>6, <2>7, <2>8, <2>9, <2>10
       DEF Write, DropPacket
<1>6. CASE SendPacket
  BY <1>1, <1>6 DEF SendPacket, SendTest, SendRecv, SendDone, SendFails, SendPanics,
     SendStops, SenderKeeps
<1>7. ASSUME NEW c \in Closers, Close(c) PROVE prod' = prod /\ dropped' = dropped /\ (chanClosed => chanClosed')
  BY <1>7 DEF Close, CloseTest, CloseChan, CloseFlag, CloserKeeps, hist
<1>8. CASE UNCHANGED vars
  BY <1>1, <1>8 DEF vars, chan, hist
<1>9. QED
  BY <1>1, <1>5, <1>6, <1>7, <1>8 DEF Next

\* For the rtmp and hls writers a call of DropPacket stalls only if others, the
\* sender or the drop loops of other transfer goroutines, took more than
\* DropLeave - DropMargin packets while it ran.
THEOREM StallBound == Spec => []StallNeedsDrain
<1>1. Init => DrainInv
  BY DEF Init, DrainInv, Drained
<1>2. QInv /\ DrainInv /\ [Next]_vars => DrainInv'
  <2> SUFFICES ASSUME QInv, DrainInv, [Next]_vars PROVE DrainInv'
    OBVIOUS
  <2>1. CASE Next
    BY <2>1, DrainStep
  <2>2. CASE UNCHANGED vars
    BY <2>2 DEF vars, chan, hist, DrainInv, Drained
  <2>3. QED
    BY <2>1, <2>2
<1>3. QInv /\ DrainInv => StallNeedsDrain
  BY QueueAssumption, EmptySeq
     DEF QInv, TypeOK, ProducerInv, DrainInv, Drained, StallNeedsDrain, Stalled, HighWater, Rounds, Dropping
<1>4. QED
  BY <1>1, <1>2, <1>3, QInvariance, PTL DEF Spec

\* The rtmp and hls writers' DropPacket loses no audio packet, key frame or
\* sequence header that was queued while the channel is open, for every number
\* of producers for which the margins suffice.
THEOREM DropKeeps == Spec => []DropKeepsAudioAndKeys
<1>1. Init => KeepInv
  BY DEF Init, KeepInv
<1>2. KeepInv => DropKeepsAudioAndKeys
  BY DEF KeepInv, DropKeepsAudioAndKeys
<1>3. QED
  BY <1>1, <1>2, KeepStep, QInvariance, PTL DEF Spec

-----------------------------------------------------------------------------
(* No packet in two places.                                                *)

\* The packets of a channel or of the consumer's stream, and that none is
\* there twice.
In(s) == {s[j] : j \in 1..Len(s)}
Unique(s) == \A j, l \in 1..Len(s) : s[j] = s[l] => j = l

\* Where a packet can be: in the channel, sent, in the hands of a producer or
\* of the sender, or gone.
Gone == refused \cup dropped
Placed == In(q) \cup In(out) \cup Gone

\* Every packet that Write was given is in one place only.  SentOnce alone is
\* not inductive: a packet in tmp may go back to the channel, the one in hold
\* to the stream, so these too must be nowhere else.
PlaceInv ==
    /\ Unique(q) /\ Unique(out)
    /\ In(q) \cap In(out) = {} /\ (In(q) \cup In(out)) \cap Gone = {}
    /\ \A x \in Placed : x.id <= count
    /\ \A p \in Producers : tmp[p] # None => tmp[p] \notin Placed /\ tmp[p] # hold /\ tmp[p].id <= count
    /\ \A p, r \in Producers : (tmp[p] = tmp[r] /\ tmp[p] # None) => p = r
    /\ hold # None => hold \notin Placed /\ hold.id <= count

\* A receive splits the channel's packets into the first and the others.
LEMMA ReceiveUnique ==
    ASSUME NEW s \in Seq(Packets), s # <<>>, Unique(s)
    PROVE  /\ Head(s) \in In(s) /\ Head(s) \notin In(Tail(s))
           /\ In(Tail(s)) \subseteq In(s) /\ Unique(Tail(s)) /\ Head(s) \in Packets
<1> USE DEF In, Unique
<1>1. /\ Len(s) \in Nat \ {0} /\ Len(Tail(s)) = Len(s) - 1 /\ Head(s) = s[1]
      /\ \A j \in 1..Len(Tail(s)) : j + 1 \in 1..Len(s) /\ Tail(s)[j] = s[j + 1]
  BY HeadTailProperties, EmptySeq
<1>2. Head(s) \in In(s) /\ In(Tail(s)) \subseteq In(s)
  BY <1>1
<1>3. Head(s) \notin In(Tail(s)) /\ Unique(Tail(s))
  BY <1>1
<1>4. QED
  BY <1>2, <1>3, HeadTail

\* A send adds one packet.
LEMMA SendUnique ==
    ASSUME NEW s \in Seq(Packets), NEW p \in Packets, Unique(s), p \notin In(s)
    PROVE  In(Append(s, p)) = In(s) \cup {p} /\ Unique(Append(s, p))
<1>1. /\ Len(s) \in Nat /\ Len(Append(s, p)) = Len(s) + 1
      /\ \A j \in 1..Len(s) : Append(s, p)[j] = s[j]
      /\ Append(s, p)[Len(s) + 1] = p
  BY AppendProperties, LenProperties
<1>2. \A j \in 1..(Len(s) + 1) : j \in 1..Len(s) \/ j = Len(s) + 1
  BY <1>1
<1>3. In(Append(s, p)) = In(s) \cup {p}
  BY <1>1, <1>2 DEF In
<1>4. Unique(Append(s, p))
  BY <1>1, <1>2 DEF Unique, In
<1>5. QED
  BY <1>3, <1>4

\* Nothing moves.
LEMMA StayPlaced == PlaceInv /\ UNCHANGED <<q, out, hold, tmp, refused, dropped, count>> => PlaceInv'
BY DEF PlaceInv, Placed, Gone

\* A producer's packet goes to the channel.
LEMMA SentPlaced ==
    ASSUME QInv, PlaceInv, NEW p \in Producers, tmp[p] \in Packets,
           UNCHANGED <<out, hold, refused, dropped, count>>,
           tmp' = [tmp EXCEPT ![p] = None], q' = Append(q, tmp[p])
    PROVE  PlaceInv'
<1>a. PlaceInv /\ tmp \in [Producers -> Packets \cup {None}] /\ q \in Seq(Packets) /\ tmp[p] # None
  BY NoneAssumption DEF QInv, TypeOK
<1>1. tmp[p] \notin Placed /\ tmp[p] # hold /\ tmp[p].id <= count
  BY <1>a DEF PlaceInv
<1>2. In(q') = In(q) \cup {tmp[p]} /\ Unique(q')
  BY <1>a, <1>1, SendUnique DEF PlaceInv, Placed
<1>3. Placed' = Placed \cup {tmp[p]} /\ Gone' = Gone
  BY <1>2 DEF Placed, Gone
<1>4. QED
  BY <1>a, <1>1, <1>2, <1>3 DEF PlaceInv, Placed

\* Every step moves a packet from one place to another.
LEMMA PlaceStep == QInv /\ PlaceInv /\ Next => PlaceInv'
<1> SUFFICES ASSUME QInv, PlaceInv, Next PROVE PlaceInv'
  OBVIOUS
<1>a. /\ PlaceInv /\ tmp \in [Producers -> Packets \cup {None}]
      /\ q \in Seq(Packets) /\ out \in Seq(Packets) /\ None \notin Packets
  BY NoneAssumption DEF QInv, TypeOK
<1> USE NoneAssumption DEF PlaceInv, Placed, Gone
<1>1. ASSUME NEW p \in Producers, WriteClosed(p) PROVE PlaceInv'
  <2>1. UNCHANGED <<q, out, hold, tmp, refused, dropped, count>>
    BY <1>1 DEF WriteClosed, Keep
  <2>2. QED
    BY <2>1, StayPlaced
<1>2. ASSUME NEW p \in Producers, NEW k \in Kinds, WriteBegin(p, k) PROVE PlaceInv'
  <2>1. tmp' = [tmp EXCEPT ![p] = [id |-> count + 1, kind |-> k]] /\ count' = count + 1
    BY <1>2 DEF WriteBegin, Puts
  <2>2. UNCHANGED <<q, out, hold, refused, dropped>>
    BY <1>2 DEF WriteBegin, Keep
  <2>3. Placed \subseteq Packets
    BY ElementOfSeq DEF QInv, TypeOK, Placed, In, Gone
  <2>4. \A x \in Packets : x.id \in Int
    BY DEF Packets
  <2>5. count \in Int /\ (hold # None => hold \in Packets) /\ \A r \in Producers : tmp[r] # None => tmp[r] \in Packets
    BY DEF QInv, TypeOK
  <2>6. \A x \in Placed : x.id < count + 1
    BY <2>3, <2>4, <2>5
  <2>7. /\ hold # None => hold.id < count + 1
        /\ \A r \in Producers : tmp[r] # None => tmp[r].id < count + 1
    BY <2>4, <2>5
  <2>8. Placed' = Placed
    BY <2>2
  <2>9. \A x \in Placed : x.id <= count' /\ x # [id |-> count + 1, kind |-> k]
    BY <2>1, <2>3, <2>4, <2>5, <2>6
  <2>10. hold' # None => hold' \notin Placed' /\ hold'.id <= count' /\ hold' # [id |-> count + 1, kind |-> k]
    BY <2>1, <2>2, <2>4, <2>5, <2>7, <2>8
  <2>11. \A r \in Producers : tmp[r] # None => tmp[r].id <= count' /\ tmp[r] # [id |-> count + 1, kind |-> k]
    BY <2>1, <2>4, <2>5, <2>7
  <2>12. QED
    BY <1>a, <2>1, <2>2, <2>5, <2>8, <2>9, <2>10, <2>11
<1>3. ASSUME NEW p \in Producers, WriteTest(p) PROVE PlaceInv'
  <2>1. UNCHANGED <<q, out, hold, dropped, count>>
    BY <1>3 DEF WriteTest, Keep
  <2>2. CASE UNCHANGED <<tmp, refused>>
    BY <2>1, <2>2, StayPlaced
  <2>3. CASE tmp' = [tmp EXCEPT ![p] = None] /\ refused' = refused \cup {tmp[p]}
    <3>1. tmp[p] # None
      BY <1>3 DEF WriteTest, QInv, ProducerInv
    <3>2. Placed' = Placed \cup {tmp[p]} /\ Gone' = Gone \cup {tmp[p]}
      BY <2>1, <2>3
    <3>3. QED
      BY <1>a, <2>1, <2>3, <3>1, <3>2
  <2>4. QED
    BY <1>3, <2>2, <2>3 DEF WriteTest, Puts
<1>4. ASSUME NEW p \in Producers, WritePush(p) PROVE PlaceInv'
  <2>1. UNCHANGED <<out, hold, refused, dropped, count>> /\ tmp' = [tmp EXCEPT ![p] = None]
    BY <1>4 DEF WritePush, Puts, Keep
  <2>2. tmp[p] \in Packets /\ tmp[p] # None
    BY <1>4 DEF WritePush, QInv, ProducerInv
  <2>3. CASE q' = q
    BY <1>a, <2>1, <2>3
  <2>4. CASE q' = Append(q, tmp[p])
    BY <1>a, <2>1, <2>2, <2>4, SentPlaced
  <2>5. QED
    BY <1>4, <2>3, <2>4 DEF WritePush
<1>5. ASSUME NEW p \in Producers, DropRecv(p) PROVE PlaceInv'
  <2>1. UNCHANGED <<out, hold, refused, count>> /\ q # <<>> /\ q' = Tail(q)
    BY <1>5 DEF DropRecv, Keep
  <2>2. /\ Head(q) \in In(q) /\ Head(q) \notin In(q')
        /\ In(q') \subseteq In(q) /\ Unique(q') /\ Head(q) \in Packets
    BY <1>a, <2>1, ReceiveUnique
  <2>3. CASE tmp' = [tmp EXCEPT ![p] = Head(q)] /\ dropped' = dropped
    <3>1. Placed' \subseteq Placed /\ Head(q) \in Placed /\ Head(q) \notin Placed' /\ Gone' = Gone
      BY <1>a, <2>1, <2>2, <2>3
    <3>2. /\ hold # Head(q) /\ \A r \in Producers : tmp[r] # Head(q)
          /\ Head(q).id <= count /\ Head(q) # None
      BY <1>a, <2>2, <3>1
    <3>3. QED
      BY <1>a, <2>1, <2>2, <2>3, <3>1, <3>2
  <2>4. CASE tmp' = [tmp EXCEPT ![p] = None] /\ dropped' = dropped \cup {Head(q)}
    <3>1. Placed' \subseteq Placed /\ Gone' = Gone \cup {Head(q)}
      BY <2>1, <2>2, <2>4
    <3>2. In(q') \cap Gone' = {} /\ In(out') \cap Gone' = {} /\ In(q') \cap In(out') = {}
      BY <1>a, <2>1, <2>2, <3>1
    <3>3. QED
      BY <1>a, <2>1, <2>2, <2>4, <3>1, <3>2
  <2>5. QED
    BY <1>5, <2>3, <2>4 DEF DropRecv, Puts
<1>6. ASSUME NEW p \in Producers, DropRecvClosed(p) PROVE PlaceInv'
  <2>1. UNCHANGED <<q, out, hold, tmp, refused, dropped, count>>
    BY <1>6 DEF DropRecvClosed, Keep
  <2>2. QED
    BY <2>1, StayPlaced
<1>7. ASSUME NEW p \in Producers, DropDone(p) PROVE PlaceInv'
  <2>1. UNCHANGED <<q, out, hold, refused, dropped, count>> /\ tmp' = [tmp EXCEPT ![p] = None]
    BY <1>7 DEF DropDone, DropEnds, Puts, Keep
  <2>2. QED
    BY <1>a, <2>1
<1>8. ASSUME NEW p \in Producers, DropAudio(p) PROVE PlaceInv'
  <2>1. UNCHANGED <<q, out, hold, refused, count>>
    BY <1>8 DEF DropAudio, Keep
  <2>2. CASE UNCHANGED <<tmp, dropped>>
    BY <2>1, <2>2, StayPlaced
  <2>3. CASE tmp' = [tmp EXCEPT ![p] = None] /\ dropped' = dropped \cup {tmp[p]}
    <3>1. tmp[p] # None
      BY <1>8 DEF DropAudio, QInv, ProducerInv
    <3>2. Placed' = Placed \cup {tmp[p]} /\ Gone' = Gone \cup {tmp[p]}
      BY <2>1, <2>3
    <3>3. QED
      BY <1>a, <2>1, <2>3, <3>1, <3>2
  <2>4. QED
    BY <1>8, <2>2, <2>3 DEF DropAudio, Puts
<1>9. ASSUME NEW p \in Producers, DropPut(p) PROVE PlaceInv'
  <2>1. UNCHANGED <<out, hold, refused, dropped, count>> /\ tmp' = [tmp EXCEPT ![p] = None]
    BY <1>9 DEF DropPut, Puts, Keep
  <2>2. tmp[p] \in Packets /\ tmp[p] # None /\ q' = Append(q, tmp[p])
    BY <1>9 DEF DropPut, QInv, ProducerInv
  <2>3. QED
    BY <2>1, <2>2, SentPlaced
<1>10. ASSUME NEW p \in Producers, DropPanics(p) PROVE PlaceInv'
  <2>1. UNCHANGED <<q, out, hold, refused, count>> /\ tmp' = [tmp EXCEPT ![p] = None]
    BY <1>10 DEF DropPanics, DropEnds, Puts, Keep
  <2>2. tmp[p] # None /\ dropped' = dropped \cup {tmp[p]}
    BY <1>10 DEF DropPanics, QInv, ProducerInv
  <2>3. Placed' = Placed \cup {tmp[p]} /\ Gone' = Gone \cup {tmp[p]}
    BY <2>1, <2>2
  <2>4. QED
    BY <1>a, <2>1, <2>2, <2>3
<1>11. ASSUME NEW p \in Producers, DropTrim(p) PROVE PlaceInv'
  <2>1. UNCHANGED <<q, out, hold, tmp, refused, dropped, count>>
    BY <1>11 DEF DropTrim, Keep
  <2>2. QED
    BY <2>1, StayPlaced
<1>12. ASSUME NEW p \in Producers, DropExtra(p) PROVE PlaceInv'
  <2>1. UNCHANGED <<out, hold, refused, count, tmp>>
    BY <1>12 DEF DropExtra, Keep
  <2>2. CASE UNCHANGED <<q, dropped>>
    BY <2>1, <2>2, StayPlaced
  <2>3. CASE q # <<>> /\ q' = Tail(q) /\ dropped' = dropped \cup {Head(q)}
    <3>1. /\ Head(q) \in In(q) /\ Head(q) \notin In(q')
          /\ In(q') \subseteq In(q) /\ Unique(q')
      BY <1>a, <2>3, ReceiveUnique
    <3>2. Placed' \subseteq Placed /\ Gone' = Gone \cup {Head(q)}
      BY <2>1, <2>3, <3>1
    <3>3. In(q') \cap Gone' = {} /\ In(out') \cap Gone' = {} /\ In(q') \cap In(out') = {}
      BY <1>a, <2>1, <3>1, <3>2
    <3>4. QED
      BY <1>a, <2>1, <3>1, <3>2, <3>3
  <2>4. QED
    BY <1>12, <2>2, <2>3 DEF DropExtra
<1>13. ASSUME SendTest PROVE PlaceInv'
  <2>1. UNCHANGED <<q, out, hold, tmp, refused, dropped, count>>
    BY <1>13 DEF SendTest, SenderKeeps
  <2>2. QED
    BY <2>1, StayPlaced
<1>14. ASSUME SendRecv PROVE PlaceInv'
  <2>1. UNCHANGED <<out, tmp, refused, dropped, count>> /\ q # <<>> /\ q' = Tail(q) /\ hold' = Head(q)
    BY <1>14 DEF SendRecv, SenderKeeps
  <2>2. /\ Head(q) \in In(q) /\ Head(q) \notin In(q')
        /\ In(q') \subseteq In(q) /\ Unique(q') /\ Head(q) \in Packets
    BY <1>a, <2>1, ReceiveUnique
  <2>3. Placed' \subseteq Placed /\ Head(q) \in Placed /\ Head(q) \notin Placed' /\ Gone' = Gone
    BY <1>a, <2>1, <2>2
  <2>4. (\A r \in Producers : tmp[r] # None => tmp[r] # Head(q)) /\ Head(q).id <= count
    BY <1>a, <2>2, <2>3
  <2>5. QED
    BY <1>a, <2>1, <2>2, <2>3, <2>4
<1>15. ASSUME SendDone PROVE PlaceInv'
  <2>1. UNCHANGED <<q, tmp, refused, dropped, count>> /\ out' = Append(out, hold) /\ hold' = None
    BY <1>15 DEF SendDone, SenderKeeps
  <2>2. hold \in Packets /\ hold # None
    BY <1>15 DEF SendDone, QInv, ProducerInv
  <2>3. hold \notin Placed /\ hold.id <= count
    BY <1>a, <2>2
  <2>4. In(out') = In(out) \cup {hold} /\ Unique(out')
    BY <1>a, <2>1, <2>2, <2>3, SendUnique
  <2>5. Placed' = Placed \cup {hold} /\ Gone' = Gone
    BY <2>1, <2>4
  <2>6. QED
    BY <1>a, <2>1, <2>2, <2>3, <2>4, <2>5
<1>16. ASSUME SendFails PROVE PlaceInv'
  <2>1. UNCHANGED <<q, out, tmp, refused, dropped, count>> /\ hold' = None
    BY <1>16 DEF SendFails, SenderKeeps
  <2>2. QED
    BY <1>a, <2>1
<1>17. ASSUME SendPanics PROVE PlaceInv'
  <2>1. UNCHANGED <<q, out, tmp, refused, dropped, count>> /\ hold' = None
    BY <1>17 DEF SendPanics, SenderKeeps
  <2>2. QED
    BY <1>a, <2>1
<1>18. ASSUME SendStops PROVE PlaceInv'
  <2>1. UNCHANGED <<q, out, hold, tmp, refused, dropped, count>>
    BY <1>18 DEF SendStops, SenderKeeps
  <2>2. QED
    BY <2>1, StayPlaced
<1>19. ASSUME NEW c \in Closers, CloseTest(c) PROVE PlaceInv'
  <2>1. UNCHANGED <<q, out, hold, tmp, refused, dropped, count>>
    BY <1>19 DEF CloseTest, CloserKeeps, hist
  <2>2. QED
    BY <2>1, StayPlaced
<1>20. ASSUME NEW c \in Closers, CloseChan(c) PROVE PlaceInv'
  <2>1. UNCHANGED <<q, out, hold, tmp, refused, dropped, count>>
    BY <1>20 DEF CloseChan, CloserKeeps, hist
  <2>2. QED
    BY <2>1, StayPlaced
<1>21. ASSUME NEW c \in Closers, CloseFlag(c) PROVE PlaceInv'
  <2>1. UNCHANGED <<q, out, hold, tmp, refused, dropped, count>>
    BY <1>21 DEF CloseFlag, CloserKeeps, hist
  <2>2. QED
    BY <2>1, StayPlaced
<1>22. QED
  BY <1>1, <1>2, <1>3, <1>4, <1>5, <1>6, <1>7, <1>8, <1>9, <1>10, <1>11, <1>12, <1>13, <1>14, <1>15, <1>16, <1>17, <1>18, <1>19, <1>20, <1>21
     DEF Next, Write, DropPacket, SendPacket, Close

\* No packet reaches the consumer twice, and none that was given up does.
THEOREM SentAtMostOnce == Spec => []SentOnce
<1>1. Init => PlaceInv
  BY EmptySeq, NoneAssumption DEF Init, PlaceInv, Unique, In, Gone, Placed
<1>2. QInv /\ PlaceInv /\ [Next]_vars => PlaceInv'
  <2> SUFFICES ASSUME QInv, PlaceInv, [Next]_vars PROVE PlaceInv'
    OBVIOUS
  <2>1. CASE Next
    BY <2>1, PlaceStep
  <2>2. CASE UNCHANGED vars
    BY <2>2, StayPlaced DEF vars, chan, hist
  <2>3. QED
    BY <2>1, <2>2
<1>3. QInv /\ PlaceInv => SentOnce
  <2> SUFFICES ASSUME QInv, PlaceInv PROVE SentOnce
    OBVIOUS
  <2>1. Len(q) \in Nat /\ Len(out) \in Nat
    BY LenProperties DEF QInv, TypeOK
  <2>2. /\ \A j \in 1..Len(q) : q[j] \in In(q) /\ q[j] \in Packets
        /\ \A j \in 1..Len(out) : out[j] \in In(out) /\ out[j] \in Packets
    BY ElementOfSeq DEF QInv, TypeOK, In
  <2>3. \A j \in DOMAIN AllPlaces :
          \/ j \in 1..Len(q) /\ AllPlaces[j] = q[j]
          \/ /\ j - Len(q) \in 1..Len(out) /\ ~(j <= Len(q)) /\ j \in Int
             /\ AllPlaces[j] = out[j - Len(q)]
    BY <2>1 DEF AllPlaces
  <2>4. ASSUME NEW j \in DOMAIN AllPlaces, NEW l \in DOMAIN AllPlaces,
               AllPlaces[j] = AllPlaces[l]
        PROVE  j = l
    BY <2>1, <2>2, <2>3, <2>4 DEF PlaceInv, Unique
  <2>5. ASSUME NEW j \in DOMAIN AllPlaces
        PROVE  AllPlaces[j] \notin ({hold} \cup {tmp[p] : p \in Producers} \cup refused \cup dropped)
    <3>1. AllPlaces[j] \in In(q) \cup In(out) /\ AllPlaces[j] \in Packets
      BY <2>2, <2>3
    <3>2. AllPlaces[j] \in Placed /\ AllPlaces[j] \notin Gone /\ AllPlaces[j] # None
      BY <3>1, NoneAssumption DEF PlaceInv, Placed
    <3>3. QED
      BY <3>2 DEF PlaceInv, Gone
  <2>6. QED
    BY <2>4, <2>5 DEF SentOnce
<1>4. QED
  BY <1>1, <1>2, <1>3, QInvariance, PTL DEF Spec

-----------------------------------------------------------------------------
(* Close.                                                                  *)

\* As long as no call of Close tested the flag while another had tested and not
\* set it, at most one is under way, and the one that is about to close the
\* channel finds it open: whoever closed it before has set the flag since.
CloseInv ==
    ~overlapped =>
        /\ ~crashed
        /\ \A c, d \in Closers : (cpc[c] # "idle" /\ cpc[d] # "idle") => c = d
        /\ chanClosed => closed \/ \E c \in Closers : cpc[c] = "flag"
        /\ \A c \in Closers : cpc[c] = "close" => ~chanClosed

\* Every step keeps it; only Close touches the channel's end.
LEMMA CloseStep == TypeOK /\ CloseInv /\ [Next]_vars => CloseInv'
<1> SUFFICES ASSUME TypeOK, CloseInv, [Next]_vars PROVE CloseInv'
  OBVIOUS
<1>1. CASE /\ cpc' = cpc /\ chanClosed' = chanClosed /\ crashed' = crashed
           /\ (closed => closed') /\ overlapped' = overlapped
  BY <1>1 DEF CloseInv
<1>2. ASSUME NEW c \in Closers, CloseTest(c) PROVE CloseInv'
  <2> SUFFICES ASSUME ~overlapped' PROVE CloseInv'
    BY DEF CloseInv
  <2>1. ~overlapped /\ ~Closing(c)
    BY <1>2 DEF CloseTest
  <2>2. \A d \in Closers : d # c => cpc[d] = "idle"
    BY <2>1 DEF Closing, TypeOK
  <2>3. cpc[c] = "idle" /\ ~closed /\ UNCHANGED <<chanClosed, closed, crashed>>
    BY <1>2 DEF CloseTest
  <2>4. ~chanClosed /\ ~crashed
    BY <2>1, <2>2, <2>3 DEF CloseInv
  <2>5. \A d \in Closers : d # c => cpc'[d] = "idle"
    BY <1>2, <2>2 DEF CloseTest, TypeOK
  <2>6. QED
    BY <2>3, <2>4, <2>5 DEF CloseInv
<1>3. ASSUME NEW c \in Closers, CloseChan(c) PROVE CloseInv'
  BY <1>3 DEF CloseChan, CloseInv, TypeOK
<1>4. ASSUME NEW c \in Closers, CloseFlag(c) PROVE CloseInv'
  BY <1>4 DEF CloseFlag, CloseInv, TypeOK
<1>5. QED
  <2>1. ASSUME NEW p \in Producers, Write(p) PROVE CloseInv'
    BY <1>1, <2>1
       DEF Write, DropPacket, WriteClosed, WriteBegin, WriteTest, WritePush, DropRecv,
           DropRecvClosed, DropDone, DropPanics, DropAudio, DropPut, DropTrim, DropExtra, Keep
  <2>2. CASE SendPacket
    BY <1>1, <2>2 DEF SendPacket, SendTest, SendRecv, SendDone, SendFails, SendPanics,
       SendStops, SenderKeeps
  <2>3. CASE UNCHANGED vars
    BY <1>1, <2>3 DEF vars, chan
  <2>4. QED
    BY <1>2, <1>3, <1>4, <2>1, <2>2, <2>3 DEF Next, Close

\* Any number of goroutines may call Close: the channel is closed a second time,
\* which ends the process, only after two calls have overlapped.
THEOREM ClosedAtMostOnce == Spec => []PanicNeedsOverlap
<1>1. Init => CloseInv
  BY DEF Init, CloseInv
<1>2. CloseInv => PanicNeedsOverlap
  BY DEF CloseInv, PanicNeedsOverlap
<1>3. QInv => TypeOK
  BY DEF QInv
<1>4. QED
  BY <1>1, <1>2, <1>3, CloseStep, QInvariance, PTL DEF Spec
=============================================================================

------------------------------ MODULE GopCache ------------------------------
(***************************************************************************)
(* The packet cache of a Stream (protocol/rtmp/cache): three slots for     *)
(* metadata and sequence headers and a ring of GopNum groups of pictures.  *)
(* The transfer goroutine writes every packet of the publisher to it and   *)
(* sends it to a writer on the writer's first visit.                       *)
(***************************************************************************)
EXTENDS Integers, Sequences

CONSTANTS GopNum,     \* the setting gop_num; with 0 every access to the ring panics
          MaxGOPCap,  \* packets one group can hold: 1024
          Ids,        \* identities of packets
          None        \* nil

\* What Cache.Write and GopCache.Write tell apart.  "bare" packets have no
\* parsed header; "audio" is any audio that is not an AAC sequence header.
Kinds == {"meta", "aseq", "audio", "bareaudio", "vseq", "key", "inter", "barevideo"}
Packets == [id : Ids, kind : Kinds]
OfKind(K) == {p \in Packets : p.kind \in K}

ASSUME CacheAssumption ==
    /\ GopNum \in Nat \ {0}
    /\ MaxGOPCap \in Nat \ {0}
    /\ None \notin Packets /\ None \notin Seq(Packets)

VARIABLES metadata, videoSeq, audioSeq,  \* the SpecialCaches; None: not full
          start, num, nextindex, gops,   \* the GopCache
          panicked,                      \* a write ended the process
          replay                         \* history: what a Send sent, until the next write

special == <<metadata, videoSeq, audioSeq>>
ring == <<start, num, nextindex, gops>>
vars == <<special, ring, panicked, replay>>

Slots == 0..(GopNum - 1)

\* The state has its types, with the ring's indices inside the array.
TypeOK ==
    /\ {metadata, videoSeq, audioSeq} \subseteq Packets \cup {None}
    /\ start \in BOOLEAN
    /\ num \in 0..GopNum
    /\ nextindex \in Slots
    /\ gops \in [Slots -> Seq(Packets) \cup {None}]
    /\ panicked \in BOOLEAN

Init ==
    /\ metadata = None /\ videoSeq = None /\ audioSeq = None
    /\ start = FALSE /\ num = 0 /\ nextindex = 0
    /\ gops = [j \in Slots |-> None]
    /\ panicked = FALSE
    /\ replay = <<>>

-----------------------------------------------------------------------------
\* array.write: a full group refuses the packet, and nobody looks at the error.
ArrayWrite(g, p) == IF Len(g) >= MaxGOPCap THEN g ELSE Append(g, p)

Panic == panicked' = TRUE /\ UNCHANGED <<special, ring, replay>>

\* Cache.Write puts the newest metadata and sequence headers into their slots.
WriteSpecial(p) ==
    /\ \/ p.kind = "meta" /\ metadata' = p /\ UNCHANGED <<videoSeq, audioSeq>>
       \/ p.kind = "vseq" /\ videoSeq' = p /\ UNCHANGED <<metadata, audioSeq>>
       \/ p.kind = "aseq" /\ audioSeq' = p /\ UNCHANGED <<metadata, videoSeq>>
    /\ replay' = <<>>
    /\ UNCHANGED <<ring, panicked>>

\* writeToArray with startNew: a key frame takes the next slot of the ring.
StartGop(p) ==
    /\ p.kind = "key"
    /\ start' = TRUE
    /\ num' = IF gops[nextindex] = None THEN num + 1 ELSE num
    /\ gops' = [gops EXCEPT ![nextindex] = <<p>>]
    /\ nextindex' = (nextindex + 1) % GopNum
    /\ replay' = <<>>
    /\ UNCHANGED <<special, panicked>>

\* The slot writeToArray takes for a packet that continues a group.
GrowSlot == (nextindex + 1) % GopNum

GrowGop(p) ==
    /\ p.kind \in {"inter", "bareaudio"}
    /\ start
    /\ gops[GrowSlot] # None
    /\ gops' = [gops EXCEPT ![GrowSlot] = ArrayWrite(@, p)]
    /\ replay' = <<>>
    /\ UNCHANGED <<special, start, num, nextindex, panicked>>

\* A nil group: ginc.write dereferences it.
GrowGopPanics(p) ==
    /\ p.kind \in {"inter", "bareaudio"}
    /\ start
    /\ gops[GrowSlot] = None
    /\ Panic

\* Packets that Cache.Write returns early for, or that precede any key frame.
WriteIgnored(p) ==
    /\ \/ p.kind \in {"audio", "barevideo"}
       \/ p.kind \in {"inter", "bareaudio"} /\ ~start
    /\ UNCHANGED vars

Write(p) ==
    \/ WriteSpecial(p) \/ StartGop(p)
    \/ GrowGop(p) \/ GrowGopPanics(p) \/ WriteIgnored(p)

\* Mutant: the groups are sent from the slot after the oldest on.
SendIndex_Shifted(j) == (nextindex + j) % GopNum

\* sendTo: the slot of the j-th group that is sent.
SendIndex(j) ==
    LET index == ((nextindex + 1) % GopNum) - num + j
    IN  IF index < 0 THEN index + GopNum ELSE index

Groups == [j \in 1..num |-> gops[SendIndex(j)]]

\* Cache.Send to a writer that accepts everything; one that fails is removed
\* by the caller, and the cache does not change.
Send ==
    /\ \A j \in 1..num : gops[SendIndex(j)] # None
    /\ replay' = <<metadata, videoSeq, audioSeq, Groups>>
    /\ UNCHANGED <<special, ring, panicked>>

\* A nil group: g.send dereferences it.
SendPanics ==
    /\ \E j \in 1..num : gops[SendIndex(j)] = None
    /\ Panic

Next ==
    /\ ~panicked
    /\ \/ \E p \in Packets : Write(p)
       \/ Send
       \/ SendPanics

Spec == Init /\ [][Next]_vars

-----------------------------------------------------------------------------
(* Properties.                                                             *)

\* The ring as a window of the newest GopNum groups.
W == INSTANCE GopWindow
    WITH N <- GopNum, Cap <- MaxGOPCap,
         meta <- metadata, vseq <- videoSeq, aseq <- audioSeq, window <- Groups,
         Metas <- OfKind({"meta"}), VideoSeqs <- OfKind({"vseq"}),
         AudioSeqs <- OfKind({"aseq"}), KeyFrames <- OfKind({"key"}),
         Others <- OfKind({"inter", "bareaudio"})

\* With gop_num 1 and 2 every player that joins is sent the newest metadata and
\* sequence headers and the newest groups, in order and without a gap: the
\* index arithmetic of writeToArray and sendTo implements the window.
ImplementsWindow == W!WSpec

\* No packet sequence of the publisher and no joining player makes the cache
\* panic (README.md offers gop_num as a number of groups, without a limit).
CacheNeverPanics == ~panicked

\* The ring is filled in order: num counts the allocated groups, they are the
\* first num slots, no slot is used again before all of them are in use, and
\* packets are taken (start) exactly when there is a group for them.
RingInv ==
    /\ \A j \in Slots : gops[j] # None <=> j < num
    /\ num < GopNum => nextindex = num
    /\ start <=> num > 0
    /\ \A j \in Slots : gops[j] # None => gops[j] # <<>> /\ gops[j][1].kind = "key"
=============================================================================

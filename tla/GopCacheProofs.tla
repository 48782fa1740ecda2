--------------------------- MODULE GopCacheProofs ---------------------------
(***************************************************************************)
(* Proofs about GopCache: the ring is filled in order for every gop_num,   *)
(* and for gop_num 1 and 2 the cache never panics and implements the       *)
(* window of the newest groups, for every set of packets and every         *)
(* capacity of a group.                                                    *)
(***************************************************************************)
EXTENDS GopCache, SequenceTheorems, TLAPS

\* The successor of a slot in the ring, without the modulo.
LEMMA NextSlot ==
    ASSUME NEW a \in Slots
    PROVE  /\ (a + 1) % GopNum \in Slots
           /\ a + 1 < GopNum => (a + 1) % GopNum = a + 1
           /\ a + 1 = GopNum => (a + 1) % GopNum = 0
  <1>1. GopNum \in Nat /\ GopNum > 0 /\ a \in Nat /\ a < GopNum
    BY CacheAssumption DEF Slots
  <1>2. CASE a + 1 < GopNum
    BY <1>1, <1>2 DEF Slots
  <1>3. CASE a + 1 = GopNum
    BY <1>1, <1>3 DEF Slots
  <1> QED BY <1>1, <1>2, <1>3

\* A packet is appended to a group or dropped, and the group stays a group.
LEMMA ArrayWriteGroup ==
    ASSUME NEW g \in Seq(Packets), NEW p \in Packets, g # <<>>
    PROVE  /\ ArrayWrite(g, p) \in Seq(Packets)
           /\ ArrayWrite(g, p) # <<>>
           /\ ArrayWrite(g, p)[1] = g[1]
  BY DEF ArrayWrite

IInv == TypeOK /\ RingInv

\* The empty cache satisfies the invariant.
LEMMA InitInv == Init => IInv
  <1> SUFFICES ASSUME Init PROVE IInv
    OBVIOUS
  <1>1. GopNum \in Nat /\ GopNum > 0
    BY CacheAssumption
  <1>2. TypeOK
    <2>1. 0 \in Slots /\ 0 \in 0..GopNum
      BY <1>1 DEF Slots
    <2>2. gops \in [Slots -> Seq(Packets) \cup {None}]
      BY DEF Init
    <2>3. {metadata, videoSeq, audioSeq} \subseteq Packets \cup {None}
      BY DEF Init
    <2> QED BY <2>1, <2>2, <2>3 DEF Init, TypeOK
  <1>3. RingInv
    BY <1>1 DEF Init, RingInv, Slots
  <1> QED BY <1>2, <1>3 DEF IInv

\* A key frame takes the next slot: the one case in which the ring moves.
LEMMA StartGopInv ==
    ASSUME IInv, NEW p \in Packets, StartGop(p)
    PROVE  IInv'
  <1>1. /\ GopNum \in Nat /\ GopNum > 0
        /\ None \notin Packets /\ None \notin Seq(Packets)
    BY CacheAssumption
  <1>2. nextindex \in Slots /\ nextindex \in Nat /\ nextindex < GopNum /\ num \in 0..GopNum
    BY <1>1 DEF IInv, TypeOK, Slots
  <1>3. <<p>> \in Seq(Packets) /\ <<p>> # <<>> /\ <<p>>[1] = p /\ <<p>> # None
    <2>1. <<p>> \in Seq(Packets)
      OBVIOUS
    <2>2. Len(<<p>>) = 1 /\ Len(<<>>) = 0 /\ <<p>>[1] = p
      OBVIOUS
    <2> QED BY <1>1, <2>1, <2>2
  <1>4. /\ gops' \in [Slots -> Seq(Packets) \cup {None}]
        /\ gops'[nextindex] = <<p>>
        /\ \A j \in Slots : j # nextindex => gops'[j] = gops[j]
    BY <1>2, <1>3 DEF IInv, TypeOK, StartGop
  <1>5. num' \in 0..GopNum /\ num' > 0
    <2>1. CASE gops[nextindex] = None
      BY <1>1, <1>2, <2>1 DEF IInv, RingInv, StartGop, Slots
    <2>2. CASE gops[nextindex] # None
      BY <1>1, <1>2, <2>2 DEF IInv, RingInv, StartGop, Slots
    <2> QED BY <2>1, <2>2
  <1>6. nextindex' \in Slots
    BY <1>2, NextSlot DEF StartGop
  <1>7. TypeOK'
    BY <1>4, <1>5, <1>6 DEF IInv, TypeOK, StartGop, special
  <1>8. \A j \in Slots : gops'[j] # None <=> j < num'
    BY <1>1, <1>2, <1>3, <1>4 DEF IInv, RingInv, StartGop, Slots
  <1>9. num' < GopNum => nextindex' = num'
    BY <1>1, <1>2, <1>5, NextSlot DEF IInv, RingInv, StartGop, Slots
  <1>10. \A j \in Slots : gops'[j] # None => gops'[j] # <<>> /\ gops'[j][1].kind = "key"
    BY <1>3, <1>4 DEF IInv, RingInv, StartGop
  <1>11. start' <=> num' > 0
    BY <1>5 DEF StartGop
  <1>12. RingInv'
    BY <1>8, <1>9, <1>10, <1>11 DEF RingInv
  <1> QED BY <1>7, <1>12 DEF IInv

\* A packet that continues a group changes that group alone.
LEMMA GrowGopInv ==
    ASSUME IInv, NEW p \in Packets, GrowGop(p)
    PROVE  IInv'
  <1>1. /\ GopNum \in Nat /\ GopNum > 0
        /\ None \notin Packets /\ None \notin Seq(Packets)
    BY CacheAssumption
  <1>2. GrowSlot \in Slots
    BY NextSlot DEF IInv, TypeOK, GrowSlot
  <1>3. gops[GrowSlot] \in Seq(Packets) /\ gops[GrowSlot] # <<>> /\ gops[GrowSlot][1].kind = "key"
    BY <1>2 DEF IInv, TypeOK, RingInv, GrowGop
  <1> DEFINE g == ArrayWrite(gops[GrowSlot], p)
  <1>4. g \in Seq(Packets) /\ g # <<>> /\ g[1].kind = "key" /\ g # None
    BY <1>1, <1>3, ArrayWriteGroup
  <1>5. gops' = [gops EXCEPT ![GrowSlot] = g]
    BY DEF GrowGop
  <1> HIDE DEF g
  <1>6. /\ gops' \in [Slots -> Seq(Packets) \cup {None}]
        /\ gops'[GrowSlot] = g
        /\ \A j \in Slots : j # GrowSlot => gops'[j] = gops[j]
    BY <1>2, <1>4, <1>5 DEF IInv, TypeOK
  <1>7. TypeOK'
    BY <1>6 DEF IInv, TypeOK, GrowGop, special
  <1>8. \A j \in Slots : gops'[j] # None <=> gops[j] # None
    BY <1>2, <1>4, <1>6 DEF GrowGop
  <1>9. \A j \in Slots : gops'[j] # None => gops'[j] # <<>> /\ gops'[j][1].kind = "key"
    BY <1>4, <1>6 DEF IInv, RingInv
  <1>10. RingInv'
    BY <1>8, <1>9 DEF IInv, RingInv, GrowGop
  <1> QED BY <1>7, <1>10 DEF IInv

\* Every step preserves the invariant.
LEMMA NextInv == IInv /\ [Next]_vars => IInv'
  <1> SUFFICES ASSUME IInv, [Next]_vars PROVE IInv'
    OBVIOUS
  <1>1. ASSUME NEW p \in Packets, WriteSpecial(p) PROVE IInv'
    BY <1>1 DEF IInv, TypeOK, RingInv, WriteSpecial, ring
  <1>2. ASSUME NEW p \in Packets, StartGop(p) PROVE IInv'
    BY <1>2, StartGopInv
  <1>3. ASSUME NEW p \in Packets, GrowGop(p) PROVE IInv'
    BY <1>3, GrowGopInv
  <1>4. CASE Panic
    BY <1>4 DEF IInv, TypeOK, RingInv, Panic, special, ring
  <1>5. CASE UNCHANGED vars
    BY <1>5 DEF IInv, TypeOK, RingInv, vars, special, ring
  <1>6. CASE Send
    BY <1>6 DEF IInv, TypeOK, RingInv, Send, special, ring
  <1> QED
    BY <1>1, <1>2, <1>3, <1>4, <1>5, <1>6
    DEF Next, Write, GrowGopPanics, WriteIgnored, SendPanics

\* The ring is well typed and filled in order, for every gop_num.
THEOREM RingFilled == Spec => [](TypeOK /\ RingInv)
  <1>1. IInv => TypeOK /\ RingInv
    BY DEF IInv
  <1> QED BY <1>1, InitInv, NextInv, PTL DEF Spec

-----------------------------------------------------------------------------
(* gop_num 1 and 2: what the ring holds, read from the oldest group on.     *)

Few == GopNum \in {1, 2}

GroupsForm ==
    /\ nextindex \in Slots /\ GrowSlot \in Slots
    /\ num \in {0, 1, 2} /\ num <= GopNum
    /\ num = 0 => Groups = <<>>
    /\ num = 1 => Groups = <<gops[GrowSlot]>>
    /\ num = 2 => Groups = <<gops[nextindex], gops[GrowSlot]>> /\ GrowSlot # nextindex
    /\ \A j \in 1..num : gops[SendIndex(j)] # None
    /\ num > 0 => gops[GrowSlot] # None

\* The slot that packets go to is the newest one, and sendTo ends with it.
LEMMA GroupsFormed == Few /\ IInv => GroupsForm
  <1> SUFFICES ASSUME Few, IInv PROVE GroupsForm
    OBVIOUS
  <1>1. /\ num \in 0..GopNum /\ nextindex \in Slots
        /\ \A j \in Slots : gops[j] # None <=> j < num
        /\ num < GopNum => nextindex = num
    BY DEF IInv, TypeOK, RingInv
  <1>2. Groups = [j \in 1..num |-> gops[SendIndex(j)]]
    BY DEF Groups
  <1>3. CASE GopNum = 1
    <2>1. Slots = {0} /\ nextindex = 0 /\ GrowSlot = 0 /\ num \in {0, 1}
      BY <1>1, <1>3 DEF Slots, GrowSlot
    <2>2. num = 1 => SendIndex(1) = 0 /\ gops[0] # None
      BY <1>1, <1>3, <2>1 DEF SendIndex
    <2>3. num = 0 => Groups = <<>>
      BY <1>2
    <2>4. num = 1 => Groups = <<gops[0]>>
      BY <1>2, <2>2
    <2> QED BY <1>3, <2>1, <2>2, <2>3, <2>4 DEF GroupsForm
  <1>4. CASE GopNum = 2
    <2>1. Slots = {0, 1} /\ nextindex \in {0, 1} /\ GrowSlot = 1 - nextindex /\ num \in {0, 1, 2}
      BY <1>1, <1>4 DEF Slots, GrowSlot
    <2>2. num = 1 => nextindex = 1 /\ SendIndex(1) = 0 /\ gops[0] # None
      BY <1>1, <1>4, <2>1 DEF SendIndex
    <2>3. num = 2 => /\ SendIndex(1) = nextindex /\ SendIndex(2) = GrowSlot
                     /\ gops[0] # None /\ gops[1] # None
      BY <1>1, <1>4, <2>1 DEF SendIndex
    <2>4. num = 0 => Groups = <<>>
      BY <1>2
    <2>5. num = 1 => Groups = <<gops[0]>>
      BY <1>2, <2>2
    <2>6. num = 2 => Groups = <<gops[nextindex], gops[GrowSlot]>>
      BY <1>2, <2>3
    <2>7. \A j \in 1..num : gops[SendIndex(j)] # None
      BY <2>1, <2>2, <2>3
    <2>8. GrowSlot \in {0, 1} /\ GrowSlot # nextindex
      BY <2>1
    <2>9. num > 0 => gops[GrowSlot] # None
      BY <2>1, <2>2, <2>3
    <2> QED BY <1>4, <2>1, <2>2, <2>4, <2>5, <2>6, <2>7, <2>8, <2>9 DEF GroupsForm
  <1> QED BY <1>3, <1>4 DEF Few

\* With gop_num 1 or 2 neither a write nor a send dereferences a nil group.
THEOREM NoPanic == GopNum \in {1, 2} => (Spec => []CacheNeverPanics)
  <1> SUFFICES ASSUME GopNum \in {1, 2} PROVE Spec => []CacheNeverPanics
    OBVIOUS
  <1>1. Init => CacheNeverPanics
    BY DEF Init, CacheNeverPanics
  <1>2. IInv /\ CacheNeverPanics /\ [Next]_vars => CacheNeverPanics'
    <2> SUFFICES ASSUME IInv, CacheNeverPanics, [Next]_vars PROVE CacheNeverPanics'
      OBVIOUS
    <2>1. GroupsForm /\ (start => num > 0)
      BY GroupsFormed DEF Few, IInv, RingInv
    <2>2. ~ \E p \in Packets : GrowGopPanics(p)
      BY <2>1 DEF GroupsForm, GrowGopPanics
    <2>3. ~SendPanics
      BY <2>1 DEF GroupsForm, SendPanics
    <2>4. panicked' = panicked
      BY <2>2, <2>3
      DEF Next, Write, WriteSpecial, StartGop, GrowGop, WriteIgnored, Send, vars
    <2> QED BY <2>4 DEF CacheNeverPanics
  <1> QED BY <1>1, <1>2, InitInv, NextInv, PTL DEF Spec

-----------------------------------------------------------------------------
(* Refinement: every step of the cache is a step of the window.            *)

\* The sequence operations of the window on at most two groups.
LEMMA ShortSequences ==
    ASSUME NEW x, NEW y
    PROVE  /\ Len(<<>>) = 0 /\ Len(<<x>>) = 1 /\ Len(<<x, y>>) = 2
           /\ Append(<<>>, x) = <<x>> /\ Append(<<x>>, y) = <<x, y>>
           /\ Tail(<<x>>) = <<>> /\ Tail(<<x, y>>) = <<y>>
  <1>1. Len(<<>>) = 0 /\ Len(<<x>>) = 1 /\ Len(<<x, y>>) = 2
    OBVIOUS
  <1>2. Append(<<>>, x) = <<x>>
    OBVIOUS
  <1>3. Append(<<x>>, y) = <<x, y>>
    <2> DEFINE S == {x, y}
               s == Append(<<x>>, y)
               t == <<x, y>>
    <2>1. x \in S /\ y \in S /\ <<x>> \in Seq(S) /\ t \in Seq(S)
      OBVIOUS
    <2>2. s \in Seq(S) /\ Len(s) = 2 /\ s[1] = x /\ s[2] = y
      BY <2>1, AppendProperties
    <2>3. Len(t) = 2 /\ t[1] = x /\ t[2] = y
      OBVIOUS
    <2> HIDE DEF S, s, t
    <2>4. Len(s) = Len(t) /\ \A i \in 1..Len(s) : s[i] = t[i]
      BY <2>2, <2>3
    <2>5. s = t
      BY <2>1, <2>2, <2>4, SeqEqual
    <2> QED BY <2>5 DEF s, t
  <1>4. Tail(<<x>>) = <<>>
    OBVIOUS
  <1>5. Tail(<<x, y>>) = <<y>>
    OBVIOUS
  <1> QED BY <1>1, <1>2, <1>3, <1>4, <1>5

\* A key frame leaves the window shifted by one group.
LEMMA StartGopWindow ==
    ASSUME Few, IInv, IInv', GroupsForm, GroupsForm', NEW p \in Packets, StartGop(p)
    PROVE  W!PutKey(p)
  <1>1. Slots = 0..(GopNum - 1) /\ GopNum \in {1, 2}
    BY DEF Slots, Few
  <1>2. nextindex' = GrowSlot /\ GrowSlot' = nextindex
    BY <1>1 DEF GroupsForm, StartGop, GrowSlot
  <1>3. gops'[nextindex] = <<p>> /\ (GrowSlot # nextindex => gops'[GrowSlot] = gops[GrowSlot])
    BY DEF GroupsForm, StartGop, IInv, TypeOK
  <1>4. /\ num = 0 => num' = 1
        /\ num = GopNum => num' = num
        /\ num = 1 /\ GopNum = 2 => num' = 2
    BY <1>1 DEF GroupsForm, StartGop, IInv, RingInv
  <1> DEFINE old == IF Len(Groups) < GopNum THEN Groups ELSE Tail(Groups)
  <1>5. Groups' = Append(old, <<p>>)
    <2>1. CASE num = 0
      <3>1. Groups' = <<<<p>>>>
        BY <1>2, <1>3, <1>4, <2>1 DEF GroupsForm
      <3>2. old = <<>>
        BY <1>1, <2>1, ShortSequences DEF GroupsForm
      <3> QED BY <3>1, <3>2, ShortSequences
    <2>2. CASE num = 1 /\ GopNum = 1
      <3>1. Groups' = <<<<p>>>>
        BY <1>2, <1>3, <1>4, <2>2 DEF GroupsForm
      <3>2. Groups = <<gops[GrowSlot]>>
        BY <2>2 DEF GroupsForm
      <3>3. Len(Groups) = 1 /\ Tail(Groups) = <<>>
        BY <3>2, ShortSequences
      <3>4. old = <<>>
        BY <2>2, <3>3
      <3> QED BY <3>1, <3>4, ShortSequences
    <2>3. CASE num = 1 /\ GopNum = 2
      <3>0. GrowSlot # nextindex
        BY <1>2, <1>4, <2>3 DEF GroupsForm
      <3>1. Groups' = <<gops[GrowSlot], <<p>>>>
        BY <1>2, <1>3, <1>4, <2>3, <3>0 DEF GroupsForm
      <3>2. old = <<gops[GrowSlot]>>
        BY <2>3, ShortSequences DEF GroupsForm
      <3> QED BY <3>1, <3>2, ShortSequences
    <2>4. CASE num = 2
      <3>1. GopNum = 2 /\ num' = 2
        BY <1>1, <1>4, <2>4 DEF GroupsForm
      <3>2. Groups' = <<gops[GrowSlot], <<p>>>>
        BY <1>2, <1>3, <2>4, <3>1 DEF GroupsForm
      <3>3. Groups = <<gops[nextindex], gops[GrowSlot]>>
        BY <2>4 DEF GroupsForm
      <3>4. Len(Groups) = 2 /\ Tail(Groups) = <<gops[GrowSlot]>>
        BY <3>3, ShortSequences
      <3>5. old = <<gops[GrowSlot]>>
        BY <3>1, <3>4
      <3> QED BY <3>2, <3>5, ShortSequences
    <2> QED BY <1>1, <2>1, <2>2, <2>3, <2>4 DEF GroupsForm
  <1> QED BY <1>5 DEF W!PutKey, StartGop, special

\* Any other packet goes to the newest group of the window.
LEMMA GrowGopWindow ==
    ASSUME Few, IInv, IInv', GroupsForm, GroupsForm', NEW p \in Packets, GrowGop(p)
    PROVE  W!PutOther(p)
  <1>1. Slots = 0..(GopNum - 1) /\ GopNum \in {1, 2}
    BY DEF Slots, Few
  <1>2. nextindex' = nextindex /\ GrowSlot' = GrowSlot /\ num' = num /\ num \in {1, 2}
    BY DEF GroupsForm, GrowGop, GrowSlot, IInv, RingInv
  <1> DEFINE g == gops[GrowSlot]
             h == ArrayWrite(g, p)
  <1>3. /\ gops'[GrowSlot] = h
        /\ \A j \in Slots : j # GrowSlot => gops'[j] = gops[j]
    BY DEF GroupsForm, GrowGop, IInv, TypeOK
  <1>4. g \in Seq(Packets) /\ MaxGOPCap \in Nat
    BY CacheAssumption DEF GroupsForm, GrowGop, IInv, TypeOK
  <1>5. h = IF Len(g) < MaxGOPCap THEN Append(g, p) ELSE g
    BY <1>4 DEF ArrayWrite
  <1> HIDE DEF g, h
  <1>6. /\ Groups # <<>>
        /\ Groups' = [Groups EXCEPT ![Len(Groups)] = h]
        /\ Groups[Len(Groups)] = g
    <2>1. CASE num = 1
      <3>1. Groups = <<g>> /\ Groups' = <<h>>
        BY <1>2, <1>3, <2>1 DEF GroupsForm, g
      <3> QED BY <3>1
    <2>2. CASE num = 2
      <3>1. /\ Groups = <<gops[nextindex], g>>
            /\ Groups' = <<gops[nextindex], h>>
        BY <1>2, <1>3, <2>2 DEF GroupsForm, g
      <3> QED BY <3>1
    <2> QED BY <1>2, <2>1, <2>2
  <1>7. Groups' = [Groups EXCEPT ![Len(Groups)] = IF Len(@) < MaxGOPCap THEN Append(@, p) ELSE @]
    BY <1>5, <1>6
  <1> QED BY <1>6, <1>7 DEF W!PutOther, GrowGop, special

\* A step that leaves the ring alone leaves the window alone.
LEMMA SameRing == UNCHANGED ring => UNCHANGED Groups
  BY DEF ring, Groups, SendIndex

\* With gop_num 1 or 2 the ring implements the window of the newest groups.
THEOREM Refinement == GopNum \in {1, 2} => (Spec => ImplementsWindow)
  <1> SUFFICES ASSUME GopNum \in {1, 2} PROVE Spec => W!WSpec
    BY DEF ImplementsWindow
  <1>1. Few
    BY DEF Few
  <1>2. IInv => GroupsForm
    BY <1>1, GroupsFormed
  <1>3. Init => W!WInit
    <2> SUFFICES ASSUME Init PROVE W!WInit
      OBVIOUS
    <2>1. Groups = <<>>
      BY <1>2, InitInv DEF GroupsForm, Init
    <2> QED BY <2>1 DEF Init, W!WInit
  <1>4. IInv /\ IInv' /\ GroupsForm /\ GroupsForm' /\ [Next]_vars => [W!WNext]_(W!wvars)
    <2> SUFFICES ASSUME IInv, IInv', GroupsForm, GroupsForm', [Next]_vars
                 PROVE  [W!WNext]_(W!wvars)
      OBVIOUS
    <2>1. ASSUME NEW p \in Packets, WriteSpecial(p) PROVE W!WNext
      <3>1. UNCHANGED Groups
        BY <2>1, SameRing DEF WriteSpecial
      <3> QED BY <2>1, <3>1
              DEF WriteSpecial, W!WNext, W!PutMeta, W!PutVideoSeq, W!PutAudioSeq, OfKind
    <2>2. ASSUME NEW p \in Packets, StartGop(p) PROVE W!WNext
      <3>1. W!PutKey(p) /\ p \in OfKind({"key"})
        BY <1>1, <2>2, StartGopWindow DEF OfKind, StartGop
      <3> QED BY <3>1 DEF W!WNext
    <2>3. ASSUME NEW p \in Packets, GrowGop(p) PROVE W!WNext
      <3>1. W!PutOther(p) /\ p \in OfKind({"inter", "bareaudio"})
        BY <1>1, <2>3, GrowGopWindow DEF OfKind, GrowGop
      <3> QED BY <3>1 DEF W!WNext
    <2>4. CASE Send
      BY <2>4, SameRing DEF Send, special, W!WNext, W!Join
    <2>5. CASE Panic
      BY <2>5, SameRing DEF Panic, special, W!wvars
    <2>6. CASE UNCHANGED vars
      BY <2>6, SameRing DEF vars, special, W!wvars
    <2> QED
      BY <2>1, <2>2, <2>3, <2>4, <2>5, <2>6
      DEF Next, Write, GrowGopPanics, WriteIgnored, SendPanics
  <1> QED BY <1>2, <1>3, <1>4, InitInv, NextInv, PTL DEF Spec, W!WSpec
=============================================================================

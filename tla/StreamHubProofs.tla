-------------------------- MODULE StreamHubProofs --------------------------
(***************************************************************************)
(* Type correctness of the hub and RoomIsolation, for every set of         *)
(* connections and keys and every interleaving; NoLeakedPublisher,         *)
(* WritersReachable, RemovalIsSafe and GaplessDelivery likewise, for the   *)
(* keys on which nobody has acted on an outdated finding.                  *)
(***************************************************************************)
EXTENDS StreamHub, TLAPS

IInv == TypeOK /\ LocalsDefined /\ SameKey /\ RoomIsolation

-----------------------------------------------------------------------------
\* What the three ways of closing writers do to the tables: closed grows by
\* registered writers, the tables only shrink.
ClosesOnly ==
    /\ closed' \subseteq Conns /\ closed \subseteq closed'
    /\ crashed' \in BOOLEAN
    /\ ws' \in [Conns -> SUBSET Writers]
    /\ \A t \in Conns : ws'[t] \subseteq ws[t]

\* closeInter closes registered writers and only removes entries.
LEMMA CloseInterEffect ==
    ASSUME TypeOK, NEW s \in Conns, CloseInter(s)
    PROVE  ClosesOnly
<1> USE DEF TypeOK, CloseInter, ClosesOnly, Conns
<1>1. CASE ClosedTwice(ws[s])
  BY <1>1
<1>2. CASE ~ClosedTwice(ws[s])
  <2>1. \A t \in Conns : ws'[t] = IF t = s THEN ws[s] \cap Archivers ELSE ws[t]
    BY <1>2
  <2>2. QED
    BY <1>2, <2>1
<1>3. QED
  BY <1>1, <1>2

\* The sweeper closes registered writers and only removes entries.
LEMMA SweepWritersEffect ==
    ASSUME TypeOK, LocalsDefined, SweepWriters
    PROVE  ClosesOnly
<1> USE DEF TypeOK, LocalsDefined, ClosesOnly, Conns
<1>1. sweep.s \in Conns
  BY DEF SweepWriters
<1>2. PICK dead \in SUBSET ws[sweep.s] :
         \/ crashed' = TRUE /\ UNCHANGED <<closed, ws>>
         \/ /\ closed' = closed \cup dead
            /\ ws' = [ws EXCEPT ![sweep.s] = @ \ dead]
            /\ UNCHANGED crashed
  BY <1>1 DEF SweepWriters
<1>3. CASE UNCHANGED <<closed, ws>>
  BY <1>2, <1>3
<1>4. CASE ws' = [ws EXCEPT ![sweep.s] = @ \ dead] /\ closed' = closed \cup dead
  <2>1. \A t \in Conns : ws'[t] = IF t = sweep.s THEN ws[t] \ dead ELSE ws[t]
    BY <1>1, <1>4
  <2>2. dead \subseteq Writers
    BY <1>1
  <2>3. QED
    BY <1>2, <1>4, <2>1, <2>2
<1>5. QED
  BY <1>2, <1>3, <1>4

\* The sweeper stays at its key and its Stream.
LEMMA SweepWritersLocals ==
    ASSUME TypeOK, SweepWriters
    PROVE  /\ sweep' \in [pc : {"idle", "writers", "delete"}, key : Keys \cup {None},
                         s : Conns \cup {None}, n : 0..1]
           /\ sweep'.s = sweep.s /\ sweep'.key = sweep.key
<1>1. CASE sweep' = sweep
  BY <1>1 DEF TypeOK
<1>2. CASE \E m \in 0..1 : sweep' = [sweep EXCEPT !.pc = "delete", !.n = m]
  BY <1>2 DEF TypeOK
<1>3. sweep.n \in 0..1
  BY DEF TypeOK
<1>4. PICK dead \in SUBSET (IF isStart[sweep.s] THEN ws[sweep.s] ELSE {}) :
         IF ClosedTwice(dead) THEN UNCHANGED sweep
         ELSE sweep' = [sweep EXCEPT !.pc = "delete",
                          !.n = IF ws[sweep.s] \ dead = {} THEN @ ELSE 1]
  BY DEF SweepWriters
<1>5. CASE ws[sweep.s] \ dead = {}
  BY <1>1, <1>2, <1>3, <1>4, <1>5
<1>6. CASE ws[sweep.s] \ dead # {}
  <2>1. sweep' = sweep \/ sweep' = [sweep EXCEPT !.pc = "delete", !.n = 1]
    BY <1>4, <1>6
  <2>2. 1 \in 0..1
    OBVIOUS
  <2>3. QED
    BY <1>1, <1>2, <2>1, <2>2
<1>7. QED
  BY <1>5, <1>6

\* The API's delete closes registered writers and only removes entries.
LEMMA ApiCloseEffect ==
    ASSUME TypeOK, LocalsDefined, ApiClose
    PROVE  ClosesOnly
<1>1. api.s \in Conns
  BY DEF ApiClose, LocalsDefined
<1>2. CASE CloseInter(api.s)
  BY <1>1, <1>2, CloseInterEffect
<1>3. CASE ~CloseInter(api.s)
  <2> USE DEF TypeOK, ClosesOnly, Conns
  <2>1. PICK done \in SUBSET ws[api.s] :
          /\ closed' = closed \cup done
          /\ ws' = [ws EXCEPT ![api.s] = @ \ (done \ Archivers)]
          /\ UNCHANGED crashed
    BY <1>1, <1>3 DEF ApiClose
  <2>2. QED
    BY <1>1, <2>1
<1>4. QED
  BY <1>2, <1>3

-----------------------------------------------------------------------------
\* Every step keeps the types.
LEMMA TypeStep == TypeOK /\ LocalsDefined /\ Next => TypeOK'
<1> SUFFICES ASSUME TypeOK /\ LocalsDefined, Next PROVE TypeOK'
  OBVIOUS
<1>0. cur \in [Conns -> Conns \cup {None}] /\ ws \in [Conns -> SUBSET Writers]
  BY DEF TypeOK
<1> USE HubAssumption DEF TypeOK, LocalsDefined, ClosesOnly, Conns, HandlerPc,
      Registering, Running, shared, locals, rest, others, history, Acts, Enters
<1>1. ASSUME NEW r \in Readers, ReaderLoad(r) PROVE TypeOK'
  BY <1>1 DEF ReaderLoad, Goto
<1>2. ASSUME NEW r \in Readers, ReaderCreate(r) PROVE TypeOK'
  BY <1>2 DEF ReaderCreate, Goto
<1>3. ASSUME NEW r \in Readers, ReaderStop(r) PROVE TypeOK'
  BY <1>3 DEF ReaderStop, Goto, StopReader
<1>4. ASSUME NEW r \in Readers, ReaderClear(r) PROVE TypeOK'
  <2>1. \E l \in {"add", "copy"} : pc' = [pc EXCEPT ![r] = l]
    BY <1>4 DEF ReaderClear, Goto
  <2>2. pc' \in [Conns -> HandlerPc]
    BY <1>4, <2>1
  <2>3. todo' \in [Readers -> SUBSET Writers]
    BY <1>4 DEF ReaderClear
  <2>4. QED
    BY <1>4, <2>1, <2>2, <2>3 DEF ReaderClear, Goto
<1>5. ASSUME NEW r \in Readers, NEW w \in Writers, CopyPick(r, w) PROVE TypeOK'
  BY <1>5 DEF CopyPick, Goto
<1>6. ASSUME NEW r \in Readers, CopyMove(r) PROVE TypeOK'
  <2>1. at[r] \in Writers /\ cur[r] \in Conns
    BY <1>6 DEF CopyMove
  <2>2. ws' \in [Conns -> SUBSET Writers]
    <3> HIDE HubAssumption DEF TypeOK, LocalsDefined
    <3>1. ws' = [[ws EXCEPT ![cur[r]] = @ \ {at[r]}] EXCEPT ![r] = @ \cup {at[r]}]
      BY <1>6 DEF CopyMove
    <3>2. [ws EXCEPT ![cur[r]] = @ \ {at[r]}] \in [Conns -> SUBSET Writers]
      BY <1>0, <2>1
    <3> QED
      BY <2>1, <3>1, <3>2
  <2>3. QED
    BY <1>6, <2>2 DEF CopyMove, Goto
<1>7. ASSUME NEW r \in Readers, CopyStore(r) PROVE TypeOK'
  BY <1>7 DEF CopyStore, Goto
<1>8. ASSUME NEW r \in Readers, AddReader(r) PROVE TypeOK'
  BY <1>8 DEF AddReader, Goto
<1>9. ASSUME NEW r \in Readers, TransStart(r) PROVE TypeOK'
  BY <1>9 DEF TransStart, Goto
<1>10. ASSUME NEW r \in Readers, TransTop(r) PROVE TypeOK'
  <2>1. cur[r] \in Conns
    BY <1>10 DEF TransTop
  <2>2. /\ closed' \subseteq Conns /\ crashed' \in BOOLEAN
          /\ ws' \in [Conns -> SUBSET Writers]
    BY <1>10, <2>1, CloseInterEffect DEF TransTop
  <2>3. \E l \in {"read", "done"} : pc' = [pc EXCEPT ![r] = l]
    BY <1>10 DEF TransTop, Goto, Finish
  <2>4. pc' \in [Conns -> HandlerPc]
    BY <1>10, <2>3
  <2>5. cur' = cur \/ cur' = [cur EXCEPT ![r] = None]
    BY <1>10 DEF TransTop, Finish
  <2>6. cur' \in [Conns -> Conns \cup {None}]
    <3> HIDE HubAssumption DEF TypeOK, LocalsDefined
    <3> QED BY <1>0, <2>5
  <2>7. QED
    BY <1>10, <2>1, <2>2, <2>3, <2>4, <2>5, <2>6 DEF TransTop
<1>11. ASSUME NEW r \in Readers, TransRead(r) PROVE TypeOK'
  BY <1>11 DEF TransRead, Goto
<1>12. ASSUME NEW r \in Readers, TransReadError(r) PROVE TypeOK'
  <2>1. cur[r] \in Conns
    BY <1>12 DEF TransReadError
  <2>2. /\ closed' \subseteq Conns /\ crashed' \in BOOLEAN
          /\ ws' \in [Conns -> SUBSET Writers]
    BY <1>12, <2>1, CloseInterEffect DEF TransReadError
  <2>3. QED
    BY <1>12, <2>1, <2>2 DEF TransReadError, Goto
<1>12b. ASSUME NEW r \in Readers, TransReadBad(r) PROVE TypeOK'
  <2>1. cur[r] \in Conns
    BY <1>12b DEF TransReadBad
  <2>2. /\ closed' \subseteq Conns /\ crashed' \in BOOLEAN
          /\ ws' \in [Conns -> SUBSET Writers]
    BY <1>12b, <2>1, CloseInterEffect DEF TransReadBad
  <2>3. QED
    BY <1>12b, <2>1, <2>2 DEF TransReadBad, Goto
<1>13. ASSUME NEW r \in Readers, TransEnding(r) PROVE TypeOK'
  BY <1>13 DEF TransEnding, Goto, Finish
<1>14. ASSUME NEW r \in Readers, NEW w \in Writers, RangePick(r, w) PROVE TypeOK'
  BY <1>14 DEF RangePick, Goto
<1>15. ASSUME NEW r \in Readers, WriteFails(r) PROVE TypeOK'
  BY <1>15 DEF WriteFails, Goto
<1>16. ASSUME NEW r \in Readers, WriteSucceeds(r) PROVE TypeOK'
  <2>1. at[r] \in Writers /\ pkt[r][1] \in Readers /\ pkt[r][2] \in Nat
    BY <1>16 DEF WriteSucceeds
  <2>2. seen' \in [Readers -> [Writers -> Nat]]
    BY <1>16, <2>1 DEF WriteSucceeds
  <2>3. init' \in [Conns -> SUBSET Writers]
    BY <1>16, <2>1 DEF WriteSucceeds
  <2>4. QED
    BY <1>16, <2>1, <2>2, <2>3 DEF WriteSucceeds, Goto
<1>17. ASSUME NEW r \in Readers, RangeEnd(r) PROVE TypeOK'
  BY <1>17 DEF RangeEnd, Goto, NoPkt
<1>18. ASSUME NEW w \in Writers, WriterLoad(w) PROVE TypeOK'
  BY <1>18 DEF WriterLoad, Goto
<1>19. ASSUME NEW w \in Writers, WriterCreate(w) PROVE TypeOK'
  BY <1>19 DEF WriterCreate, Goto, Finish
<1>20. ASSUME NEW w \in Writers, AddWriter(w) PROVE TypeOK'
  BY <1>20 DEF AddWriter, Goto, Finish
<1>21. ASSUME NEW k \in Keys, SweepVisit(k) PROVE TypeOK'
  BY <1>21 DEF SweepVisit
<1>22. ASSUME SweepWriters PROVE TypeOK'
  <2>1. /\ closed' \subseteq Conns /\ crashed' \in BOOLEAN
          /\ ws' \in [Conns -> SUBSET Writers]
    BY <1>22, SweepWritersEffect
  <2>2. sweep' \in [pc : {"idle", "writers", "delete"}, key : Keys \cup {None},
                     s : Conns \cup {None}, n : 0..1]
    BY <1>22, SweepWritersLocals
  <2>3. QED
    BY <1>22, <2>1, <2>2 DEF SweepWriters
<1>23. ASSUME SweepDelete PROVE TypeOK'
  <2>1. sweep.key \in Keys
    BY <1>23 DEF SweepDelete, LocalsDefined
  <2>2. streams' \in [Keys -> Conns \cup {None}]
    BY <1>23, <2>1 DEF SweepDelete
  <2>3. sweep' \in [pc : {"idle", "writers", "delete"}, key : Keys \cup {None},
                     s : Conns \cup {None}, n : 0..1]
    BY <1>23 DEF SweepDelete, Idle
  <2>4. stale' \subseteq Keys /\ joined' \in BOOLEAN
    BY <1>23, <2>1 DEF SweepDelete
  <2>5. QED
    BY <1>23, <2>2, <2>3, <2>4 DEF SweepDelete
<1>24. ASSUME NEW k \in Keys, ApiLoad(k) PROVE TypeOK'
  BY <1>24 DEF ApiLoad
<1>25. ASSUME ApiStop PROVE TypeOK'
  <2>1. closed' \subseteq Conns
    BY <1>25 DEF ApiStop, StopReader
  <2>2. QED
    BY <1>25, <2>1 DEF ApiStop
<1>26. ASSUME ApiClear PROVE TypeOK'
  BY <1>26 DEF ApiClear
<1>27. ASSUME ApiClose PROVE TypeOK'
  <2>1. /\ closed' \subseteq Conns /\ crashed' \in BOOLEAN
          /\ ws' \in [Conns -> SUBSET Writers]
    BY <1>27, ApiCloseEffect
  <2>2. api' \in [pc : {"idle", "stop", "clear", "close"}, key : Keys \cup {None},
                   s : Conns \cup {None}, n : 0..MaxDeletes]
    BY <1>27 DEF ApiClose, Idle
  <2>3. QED
    BY <1>27, <2>1, <2>2 DEF ApiClose
<1>28. ASSUME NEW x \in Conns, Disconnect(x) PROVE TypeOK'
  BY <1>28 DEF Disconnect
<1>29. QED
  BY <1>1, <1>2, <1>3, <1>4, <1>5, <1>6, <1>7, <1>8, <1>9, <1>10, <1>11, <1>12, <1>12b, <1>13,
     <1>14, <1>15, <1>16, <1>17, <1>18, <1>19, <1>20, <1>21, <1>22, <1>23, <1>24,
     <1>25, <1>26, <1>27, <1>28
     DEF Next, HandleReader, Transfer, HandleWriter, CheckAlive, HandleDelete

\* Every step leaves the locals defined that the next one uses.
LEMMA LocalsStep == TypeOK /\ LocalsDefined /\ Next => LocalsDefined'
<1> SUFFICES ASSUME TypeOK /\ LocalsDefined, Next PROVE LocalsDefined'
  OBVIOUS
<1> USE HubAssumption DEF TypeOK, LocalsDefined, Conns, HandlerPc, Registering,
      Running, shared, locals, rest, others, history, Acts, Enters
<1>1. ASSUME NEW r \in Readers, ReaderLoad(r) PROVE LocalsDefined'
  BY <1>1 DEF ReaderLoad, Goto
<1>2. ASSUME NEW r \in Readers, ReaderCreate(r) PROVE LocalsDefined'
  BY <1>2 DEF ReaderCreate, Goto
<1>3. ASSUME NEW r \in Readers, ReaderStop(r) PROVE LocalsDefined'
  BY <1>3 DEF ReaderStop, Goto, StopReader
<1>4. ASSUME NEW r \in Readers, ReaderClear(r) PROVE LocalsDefined'
  <2>1. cur[r] \in Conns
    BY <1>4 DEF ReaderClear
  <2>2. pc'[r] \in {"add", "copy"} /\ \A x \in Conns \ {r} : pc'[x] = pc[x]
    BY <1>4 DEF ReaderClear, Goto
  <2>3. QED
    BY <1>4, <2>1, <2>2 DEF ReaderClear
<1>5. ASSUME NEW r \in Readers, NEW w \in Writers, CopyPick(r, w) PROVE LocalsDefined'
  BY <1>5 DEF CopyPick, Goto
<1>6. ASSUME NEW r \in Readers, CopyMove(r) PROVE LocalsDefined'
  BY <1>6 DEF CopyMove, Goto
<1>7. ASSUME NEW r \in Readers, CopyStore(r) PROVE LocalsDefined'
  BY <1>7 DEF CopyStore, Goto
<1>8. ASSUME NEW r \in Readers, AddReader(r) PROVE LocalsDefined'
  BY <1>8 DEF AddReader, Goto
<1>9. ASSUME NEW r \in Readers, TransStart(r) PROVE LocalsDefined'
  BY <1>9 DEF TransStart, Goto
<1>10. ASSUME NEW r \in Readers, TransTop(r) PROVE LocalsDefined'
  <2>1. cur[r] \in Conns
    BY <1>10 DEF TransTop
  <2>2. \A x \in Conns \ {r} : pc'[x] = pc[x] /\ cur'[x] = cur[x]
    BY <1>10 DEF TransTop, Goto, Finish
  <2>3. (pc'[r] = "read" /\ cur' = cur) \/ pc'[r] = "done"
    BY <1>10 DEF TransTop, Goto, Finish
  <2>4. QED
    BY <1>10, <2>1, <2>2, <2>3 DEF TransTop
<1>11. ASSUME NEW r \in Readers, TransRead(r) PROVE LocalsDefined'
  BY <1>11 DEF TransRead, Goto
<1>12. ASSUME NEW r \in Readers, TransReadError(r) PROVE LocalsDefined'
  BY <1>12 DEF TransReadError, Goto
<1>12b. ASSUME NEW r \in Readers, TransReadBad(r) PROVE LocalsDefined'
  BY <1>12b DEF TransReadBad, Goto
<1>13. ASSUME NEW r \in Readers, TransEnding(r) PROVE LocalsDefined'
  BY <1>13 DEF TransEnding, Goto, Finish
<1>14. ASSUME NEW r \in Readers, NEW w \in Writers, RangePick(r, w) PROVE LocalsDefined'
  BY <1>14 DEF RangePick, Goto
<1>15. ASSUME NEW r \in Readers, WriteFails(r) PROVE LocalsDefined'
  BY <1>15 DEF WriteFails, Goto
<1>16. ASSUME NEW r \in Readers, WriteSucceeds(r) PROVE LocalsDefined'
  <2>1. pc'[r] = "range" /\ pkt' = pkt /\ pkt[r][1] \in Readers
    BY <1>16 DEF WriteSucceeds, Goto
  <2>2. \A x \in Conns \ {r} : pc'[x] = pc[x]
    BY <1>16 DEF WriteSucceeds, Goto
  <2>3. \A x \in Readers \ {r} : at'[x] = at[x]
    BY <1>16 DEF WriteSucceeds
  <2>4. cur' = cur /\ cur[r] \in Conns /\ sweep' = sweep /\ api' = api
    BY <1>16 DEF WriteSucceeds
  <2>5. QED
    BY <2>1, <2>2, <2>3, <2>4
<1>17. ASSUME NEW r \in Readers, RangeEnd(r) PROVE LocalsDefined'
  BY <1>17 DEF RangeEnd, Goto, NoPkt
<1>18. ASSUME NEW w \in Writers, WriterLoad(w) PROVE LocalsDefined'
  BY <1>18 DEF WriterLoad, Goto
<1>19. ASSUME NEW w \in Writers, WriterCreate(w) PROVE LocalsDefined'
  BY <1>19 DEF WriterCreate, Goto, Finish
<1>20. ASSUME NEW w \in Writers, AddWriter(w) PROVE LocalsDefined'
  BY <1>20 DEF AddWriter, Goto, Finish
<1>21. ASSUME NEW k \in Keys, SweepVisit(k) PROVE LocalsDefined'
  BY <1>21 DEF SweepVisit
<1>22. ASSUME SweepWriters PROVE LocalsDefined'
  <2>1. sweep'.s = sweep.s /\ sweep'.key = sweep.key /\ sweep.pc # "idle"
    BY <1>22, SweepWritersLocals DEF SweepWriters
  <2>2. QED
    BY <1>22, <2>1 DEF SweepWriters
<1>23. ASSUME SweepDelete PROVE LocalsDefined'
  BY <1>23 DEF SweepDelete, Idle
<1>24. ASSUME NEW k \in Keys, ApiLoad(k) PROVE LocalsDefined'
  BY <1>24 DEF ApiLoad
<1>25. ASSUME ApiStop PROVE LocalsDefined'
  BY <1>25 DEF ApiStop, StopReader
<1>26. ASSUME ApiClear PROVE LocalsDefined'
  BY <1>26 DEF ApiClear
<1>27. ASSUME ApiClose PROVE LocalsDefined'
  BY <1>27 DEF ApiClose, Idle
<1>28. ASSUME NEW x \in Conns, Disconnect(x) PROVE LocalsDefined'
  BY <1>28 DEF Disconnect
<1>29. QED
  BY <1>1, <1>2, <1>3, <1>4, <1>5, <1>6, <1>7, <1>8, <1>9, <1>10, <1>11, <1>12, <1>12b, <1>13,
     <1>14, <1>15, <1>16, <1>17, <1>18, <1>19, <1>20, <1>21, <1>22, <1>23, <1>24,
     <1>25, <1>26, <1>27, <1>28
     DEF Next, HandleReader, Transfer, HandleWriter, CheckAlive, HandleDelete

\* What a goroutine reaches through its Stream has the goroutine's key.
LEMMA LinkedKeys ==
    ASSUME SameKey, NEW x \in Conns, cur[x] \in Conns
    PROVE  /\ KeyOf[cur[x]] = KeyOf[x]
           /\ \A w \in ws[cur[x]] : KeyOf[w] = KeyOf[x]
           /\ rd[cur[x]] # None => KeyOf[rd[cur[x]]] = KeyOf[x]
<1>1. cur[x] # None
  BY HubAssumption
<1>2. KeyOf[cur[x]] = KeyOf[x]
  BY <1>1 DEF SameKey
<1>3. QED
  BY <1>2 DEF SameKey

\* Every step links only what has the same key.
LEMMA KeyStep == TypeOK /\ LocalsDefined /\ SameKey /\ Next => SameKey'
<1> SUFFICES ASSUME TypeOK /\ LocalsDefined /\ SameKey, Next PROVE SameKey'
  OBVIOUS
<1>0. ASSUME NEW x \in Conns, cur[x] \in Conns
      PROVE  /\ KeyOf[cur[x]] = KeyOf[x]
             /\ \A w \in ws[cur[x]] : KeyOf[w] = KeyOf[x]
             /\ rd[cur[x]] # None => KeyOf[rd[cur[x]]] = KeyOf[x]
  BY <1>0, LinkedKeys
<1> USE HubAssumption DEF TypeOK, LocalsDefined, SameKey, ClosesOnly, Conns, HandlerPc,
      Registering, Running, shared, locals, rest, others, history, Acts, Enters
<1>1. ASSUME NEW r \in Readers, ReaderLoad(r) PROVE SameKey'
  BY <1>1 DEF ReaderLoad, Goto
<1>2. ASSUME NEW r \in Readers, ReaderCreate(r) PROVE SameKey'
  BY <1>2 DEF ReaderCreate, Goto
<1>3. ASSUME NEW r \in Readers, ReaderStop(r) PROVE SameKey'
  BY <1>3 DEF ReaderStop, Goto, StopReader
<1>4. ASSUME NEW r \in Readers, ReaderClear(r) PROVE SameKey'
  BY <1>4 DEF ReaderClear, Goto
<1>5. ASSUME NEW r \in Readers, NEW w \in Writers, CopyPick(r, w) PROVE SameKey'
  <2>1. w \in ws[cur[r]] /\ cur[r] \in Conns
    BY <1>5 DEF CopyPick
  <2>2. KeyOf[w] = KeyOf[r]
    <3> HIDE HubAssumption DEF TypeOK, LocalsDefined, SameKey
    <3> QED BY <1>0, <2>1
  <2>3. \A x \in Readers : at'[x] = IF x = r THEN w ELSE at[x]
    BY <1>5 DEF CopyPick
  <2>4. QED
    BY <1>5, <2>1, <2>2, <2>3 DEF CopyPick, Goto
<1>6. ASSUME NEW r \in Readers, CopyMove(r) PROVE SameKey'
  <2>1. at[r] \in Writers /\ KeyOf[at[r]] = KeyOf[r]
    BY <1>6 DEF CopyMove
  <2>2. \A s \in Conns : ws'[s] \subseteq ws[s] \cup (IF s = r THEN {at[r]} ELSE {})
    BY <1>6, <2>1 DEF CopyMove
  <2>3. \A s \in Conns : \A w \in ws'[s] : KeyOf[w] = KeyOf[s]
    BY <1>6, <2>1, <2>2
  <2>4. \A x \in Readers : at'[x] # None => at'[x] = at[x]
    BY <1>6 DEF CopyMove
  <2>5. streams' = streams /\ rd' = rd /\ cur' = cur /\ pkt' = pkt
    BY <1>6 DEF CopyMove
  <2>6. QED
    BY <2>1, <2>2, <2>3, <2>4, <2>5
<1>7. ASSUME NEW r \in Readers, CopyStore(r) PROVE SameKey'
  BY <1>7 DEF CopyStore, Goto
<1>8. ASSUME NEW r \in Readers, AddReader(r) PROVE SameKey'
  <2>1. cur[r] \in Conns
    BY <1>8 DEF AddReader
  <2>2. KeyOf[cur[r]] = KeyOf[r]
    <3> HIDE HubAssumption DEF TypeOK, LocalsDefined, SameKey
    <3> QED BY <1>0, <2>1
  <2>3. \A s \in Conns : rd'[s] = IF s = cur[r] THEN r ELSE rd[s]
    BY <1>8, <2>1 DEF AddReader
  <2>4. QED
    BY <1>8, <2>1, <2>2, <2>3 DEF AddReader, Goto
<1>9. ASSUME NEW r \in Readers, TransStart(r) PROVE SameKey'
  BY <1>9 DEF TransStart, Goto
<1>10. ASSUME NEW r \in Readers, TransTop(r) PROVE SameKey'
  <2>1. cur[r] \in Conns
    BY <1>10 DEF TransTop
  <2>2. \A s \in Conns : ws'[s] \subseteq ws[s]
    BY <1>10, <2>1, CloseInterEffect DEF TransTop
  <2>3. \A x \in Conns : cur'[x] = cur[x] \/ cur'[x] = None
    BY <1>10 DEF TransTop, Finish
  <2>4. QED
    BY <1>10, <2>1, <2>2, <2>3 DEF TransTop, Goto
<1>11. ASSUME NEW r \in Readers, TransRead(r) PROVE SameKey'
  <2>1. cur[r] \in Conns /\ rd[cur[r]] \in Readers
    BY <1>11 DEF TransRead
  <2>2. KeyOf[rd[cur[r]]] = KeyOf[r]
    <3>1. rd[cur[r]] # None
      BY <2>1
    <3> HIDE HubAssumption DEF TypeOK, LocalsDefined, SameKey
    <3> QED BY <1>0, <2>1, <3>1
  <2>3. \A x \in Readers : pkt'[x] = IF x = r THEN <<rd[cur[r]], sent[rd[cur[r]]] + 1>> ELSE pkt[x]
    BY <1>11 DEF TransRead
  <2>4. \A x \in Readers : pkt'[x][1] = IF x = r THEN rd[cur[r]] ELSE pkt[x][1]
    BY <1>11, <2>3
  <2>5. QED
    BY <1>11, <2>1, <2>2, <2>3, <2>4 DEF TransRead, Goto
<1>12. ASSUME NEW r \in Readers, TransReadError(r) PROVE SameKey'
  <2>1. cur[r] \in Conns
    BY <1>12 DEF TransReadError
  <2>2. \A s \in Conns : ws'[s] \subseteq ws[s]
    BY <1>12, <2>1, CloseInterEffect DEF TransReadError
  <2>3. QED
    BY <1>12, <2>1, <2>2 DEF TransReadError, Goto
<1>12b. ASSUME NEW r \in Readers, TransReadBad(r) PROVE SameKey'
  <2>1. cur[r] \in Conns
    BY <1>12b DEF TransReadBad
  <2>2. \A s \in Conns : ws'[s] \subseteq ws[s]
    BY <1>12b, <2>1, CloseInterEffect DEF TransReadBad
  <2>3. QED
    BY <1>12b, <2>1, <2>2 DEF TransReadBad, Goto
<1>13. ASSUME NEW r \in Readers, TransEnding(r) PROVE SameKey'
  BY <1>13 DEF TransEnding, Goto, Finish
<1>14. ASSUME NEW r \in Readers, NEW w \in Writers, RangePick(r, w) PROVE SameKey'
  <2>1. w \in ws[cur[r]] /\ cur[r] \in Conns
    BY <1>14 DEF RangePick
  <2>2. KeyOf[w] = KeyOf[r]
    <3> HIDE HubAssumption DEF TypeOK, LocalsDefined, SameKey
    <3> QED BY <1>0, <2>1
  <2>3. \A x \in Readers : at'[x] = IF x = r THEN w ELSE at[x]
    BY <1>14 DEF RangePick
  <2>4. QED
    BY <1>14, <2>1, <2>2, <2>3 DEF RangePick, Goto
<1>15. ASSUME NEW r \in Readers, WriteFails(r) PROVE SameKey'
  BY <1>15 DEF WriteFails, Goto
<1>16. ASSUME NEW r \in Readers, WriteSucceeds(r) PROVE SameKey'
  BY <1>16 DEF WriteSucceeds, Goto
<1>17. ASSUME NEW r \in Readers, RangeEnd(r) PROVE SameKey'
  BY <1>17 DEF RangeEnd, Goto, NoPkt
<1>18. ASSUME NEW w \in Writers, WriterLoad(w) PROVE SameKey'
  BY <1>18 DEF WriterLoad, Goto
<1>19. ASSUME NEW w \in Writers, WriterCreate(w) PROVE SameKey'
  BY <1>19 DEF WriterCreate, Goto, Finish
<1>20. ASSUME NEW w \in Writers, AddWriter(w) PROVE SameKey'
  BY <1>20 DEF AddWriter, Goto, Finish
<1>21. ASSUME NEW k \in Keys, SweepVisit(k) PROVE SameKey'
  BY <1>21 DEF SweepVisit
<1>22. ASSUME SweepWriters PROVE SameKey'
  <2>1. \A s \in Conns : ws'[s] \subseteq ws[s]
    BY <1>22, SweepWritersEffect
  <2>2. QED
    BY <1>22, <2>1 DEF SweepWriters
<1>23. ASSUME SweepDelete PROVE SameKey'
  BY <1>23 DEF SweepDelete, Idle
<1>24. ASSUME NEW k \in Keys, ApiLoad(k) PROVE SameKey'
  BY <1>24 DEF ApiLoad
<1>25. ASSUME ApiStop PROVE SameKey'
  BY <1>25 DEF ApiStop, StopReader
<1>26. ASSUME ApiClear PROVE SameKey'
  BY <1>26 DEF ApiClear
<1>27. ASSUME ApiClose PROVE SameKey'
  <2>1. \A s \in Conns : ws'[s] \subseteq ws[s]
    BY <1>27, ApiCloseEffect
  <2>2. QED
    BY <1>27, <2>1 DEF ApiClose
<1>28. ASSUME NEW x \in Conns, Disconnect(x) PROVE SameKey'
  BY <1>28 DEF Disconnect
<1>29. QED
  BY <1>1, <1>2, <1>3, <1>4, <1>5, <1>6, <1>7, <1>8, <1>9, <1>10, <1>11, <1>12, <1>12b, <1>13,
     <1>14, <1>15, <1>16, <1>17, <1>18, <1>19, <1>20, <1>21, <1>22, <1>23, <1>24,
     <1>25, <1>26, <1>27, <1>28
     DEF Next, HandleReader, Transfer, HandleWriter, CheckAlive, HandleDelete

-----------------------------------------------------------------------------
\* WriteSucceeds is the one action that hands a packet over.
LEMMA SeenSteps ==
    ASSUME [Next]_vars
    PROVE  seen' = seen \/ \E r \in Readers : WriteSucceeds(r)
<1> USE DEF shared, locals, rest, others, history, Acts, Enters
<1>1. ASSUME NEW r \in Readers, HandleReader(r) PROVE seen' = seen
  BY <1>1 DEF HandleReader, ReaderLoad, ReaderCreate, ReaderStop, ReaderClear,
     CopyPick, CopyMove, CopyStore, AddReader
<1>2. ASSUME NEW r \in Readers, Transfer(r) \/ TransReadBad(r)
      PROVE  seen' = seen \/ WriteSucceeds(r)
  BY <1>2 DEF Transfer, TransStart, TransTop, TransRead, TransReadError, TransReadBad,
     TransEnding, RangePick, WriteFails, RangeEnd
<1>3. ASSUME NEW w \in Writers, HandleWriter(w) PROVE seen' = seen
  BY <1>3 DEF HandleWriter, WriterLoad, WriterCreate, AddWriter
<1>4. ASSUME CheckAlive PROVE seen' = seen
  BY <1>4 DEF CheckAlive, SweepVisit, SweepWriters, SweepDelete
<1>5. ASSUME HandleDelete PROVE seen' = seen
  BY <1>5 DEF HandleDelete, ApiLoad, ApiStop, ApiClear, ApiClose
<1>6. ASSUME NEW x \in Conns, Disconnect(x) PROVE seen' = seen
  BY <1>6 DEF Disconnect
<1>7. QED
  BY <1>1, <1>2, <1>3, <1>4, <1>5, <1>6 DEF Next, vars

\* A step hands a packet over only inside a room: WriteSucceeds is the one
\* action that does, and its packet and its writer have its goroutine's key.
LEMMA IsolationStep ==
    TypeOK /\ LocalsDefined /\ SameKey /\ RoomIsolation /\ [Next]_vars
        => RoomIsolation'
<1> SUFFICES ASSUME TypeOK, LocalsDefined, SameKey, RoomIsolation, [Next]_vars
             PROVE  RoomIsolation'
  OBVIOUS
<1> USE DEF RoomIsolation
<1>1. CASE seen' = seen
  BY <1>1
<1>2. ASSUME NEW r \in Readers, WriteSucceeds(r) PROVE RoomIsolation'
  <2>1. pkt[r][1] \in Readers /\ at[r] \in Writers
    BY <1>2 DEF WriteSucceeds, LocalsDefined
  <2>2. KeyOf[pkt[r][1]] = KeyOf[at[r]]
    BY <2>1, HubAssumption DEF SameKey, Conns
  <2>3. \A q \in Readers, w \in Writers :
          seen'[q][w] = seen[q][w] \/ (q = pkt[r][1] /\ w = at[r])
    BY <1>2, <2>1 DEF WriteSucceeds, TypeOK
  <2>4. QED
    BY <2>2, <2>3
<1>3. QED
  BY <1>1, <1>2, SeenSteps

\* The invariant holds at the start.
LEMMA InitInv == Init => IInv
<1> SUFFICES ASSUME Init PROVE IInv
  OBVIOUS
<1> USE HubAssumption DEF Init, Conns, Idle, NoPkt
<1>1. TypeOK
  <2>1. sent \in [Readers -> 0..MaxPkts] /\ seen \in [Readers -> [Writers -> Nat]]
    OBVIOUS
  <2>2. pkt \in [Readers -> (Readers \cup {None}) \X Nat]
    OBVIOUS
  <2>3. /\ sweep \in [pc : {"idle", "writers", "delete"}, key : Keys \cup {None},
                      s : Conns \cup {None}, n : 0..1]
        /\ api \in [pc : {"idle", "stop", "clear", "close"}, key : Keys \cup {None},
                    s : Conns \cup {None}, n : 0..MaxDeletes]
    OBVIOUS
  <2>4. pc \in [Conns -> HandlerPc]
    BY DEF HandlerPc
  <2>5. QED
    BY <2>1, <2>2, <2>3, <2>4 DEF TypeOK
<1>2. LocalsDefined
  BY DEF LocalsDefined, Registering, Running
<1>3. SameKey
  BY DEF SameKey
<1>4. RoomIsolation
  BY DEF RoomIsolation
<1>5. QED
  BY <1>1, <1>2, <1>3, <1>4 DEF IInv

\* Every step keeps the invariant.
LEMMA NextInv == IInv /\ [Next]_vars => IInv'
<1> SUFFICES ASSUME IInv, [Next]_vars PROVE IInv'
  OBVIOUS
<1>1. RoomIsolation'
  BY IsolationStep DEF IInv
<1>2. CASE Next
  BY <1>1, <1>2, TypeStep, LocalsStep, KeyStep DEF IInv
<1>3. CASE UNCHANGED vars
  BY <1>1, <1>3 DEF IInv, TypeOK, LocalsDefined, SameKey,
     vars, shared, locals, rest, others, history
<1>4. QED
  BY <1>2, <1>3

\* The inductive invariant holds in every reachable state.
THEOREM Invariance == Spec => []IInv
BY InitInv, NextInv, PTL DEF Spec

\* Type correctness of the hub's tables and of every goroutine's locals.
THEOREM TypeCorrect == Spec => []TypeOK
BY Invariance, PTL DEF IInv

\* No packet of one room is ever handed to a writer of another one, for any
\* number of publishers, players and rooms and any interleaving.
THEOREM Isolation == Spec => []RoomIsolation
BY Invariance, PTL DEF IInv
-----------------------------------------------------------------------------
(* The keys on which nobody has acted on an outdated finding.              *)

\* A publisher in a Stream, and a handler that has stored none yet.
Active == {"start"} \cup Running
Unborn == {"new", "create", "stop", "clear", "copy", "move"}
Copying == {"copy", "move"}

\* A Stream that its handler has not stored yet is known to nobody else, and
\* a handler that found none has none.
Fresh ==
    /\ \A x \in Conns : pc[x] = "create" => cur[x] = None
    /\ \A x \in Conns :
          (pc[x] \in {"new", "create"} \/ (x \in Readers /\ pc[x] \in Unborn)) =>
              /\ rd[x] = None
              /\ \A k \in Keys : streams[k] # x
              /\ \A y \in Conns : cur[y] # x

\* A registered writer's handler has ended, and so has that of a writer in hand.
Registered ==
    /\ \A s \in Conns : \A w \in ws[s] : pc[w] = "done"
    /\ \A r \in Readers : pc[r] \in {"move", "write"} => pc[at[r]] = "done"
    /\ \A r \in Readers : pc[r] = "write" => at[r] \notin todo[r]

\* A Stream has one publisher for good.
OneReader ==
    \A r \in Readers : (KeyOf[r] \notin stale /\ pc[r] \in Active) => rd[cur[r]] = r

\* A running publisher's Stream is started until somebody who stops it has
\* closed the publisher.
Started ==
    /\ \A r \in Readers \ closed :
          (KeyOf[r] \notin stale /\ pc[r] \in Running) => isStart[cur[r]]
    /\ \A r \in Readers \ closed, q \in Readers :
          (KeyOf[r] \notin stale /\ pc[r] \in Running /\ pc[q] \in {"clear"} \cup Copying)
             => cur[q] # cur[r]
    /\ \A r \in Readers \ closed :
          (KeyOf[r] \notin stale /\ pc[r] \in Running /\ api.pc = "clear") => api.s # cur[r]

\* The map holds the Stream of every running publisher that is open.
Held ==
    \A r \in Readers \ closed :
        (KeyOf[r] \notin stale /\ pc[r] \in Running) => streams[KeyOf[r]] = cur[r]

\* What the sweeper has counted stays so while no handler is inside the room.
Swept ==
    (sweep.pc # "idle" /\ ~joined /\ sweep.key \notin stale) =>
        /\ Outside(sweep.key)
        /\ streams[sweep.key] = sweep.s
        /\ sweep.n = 0 => \A r \in Readers \ closed : pc[r] \in Running => cur[r] # sweep.s
        /\ (sweep.pc = "delete" /\ sweep.n = 0) => ws[sweep.s] = {}

\* A writer is registered once, in the Stream the map holds or in a copy; a
\* Stream is copied by one handler, which leaves no writer behind.
Listed ==
    /\ \A s \in Conns : \A w \in ws[s] : KeyOf[w] \notin stale =>
          s = streams[KeyOf[w]] \/ (s \in Readers /\ pc[s] \in Copying)
    /\ \A s, t \in Conns : \A w \in ws[s] : (KeyOf[w] \notin stale /\ w \in ws[t]) => s = t
    /\ \A r \in Readers : (KeyOf[r] \notin stale /\ pc[r] = "copy") => ws[cur[r]] \subseteq todo[r]
    /\ \A r \in Readers : (KeyOf[r] \notin stale /\ pc[r] = "move") =>
          /\ ws[cur[r]] \subseteq todo[r] \cup {at[r]}
          /\ \A t \in Conns : at[r] \in ws[t] => t = cur[r]
    /\ \A r, q \in Readers :
          (KeyOf[r] \notin stale /\ pc[r] \in Copying /\ pc[q] \in Copying /\ cur[r] = cur[q]) => r = q
    /\ \A r, q \in Readers :
          (KeyOf[r] \notin stale /\ pc[r] = "move" /\ pc[q] = "move" /\ at[r] = at[q]) => r = q

\* A writer that has a packet of r has all of them up to the one in hand.
UpToDate ==
    /\ \A r \in Readers :
          (KeyOf[r] \notin stale /\ pc[r] \in {"range", "write"}) => pkt[r] = <<r, sent[r]>>
    /\ \A r \in Readers, w \in Writers :
          (KeyOf[r] \notin stale /\ seen[r][w] # 0) => pc[w] = "done" /\ pc[r] \in Running \cup {"done"}
    /\ \A r \in Readers, w \in Writers \ closed :
          (KeyOf[r] \notin stale /\ seen[r][w] # 0) =>
             /\ (pc[r] = "write" /\ at[r] = w) => seen[r][w] + 1 = sent[r]
             /\ (pc[r] \in {"range", "write"} /\ w \in ws[cur[r]] \cap todo[r]) => seen[r][w] + 1 = sent[r]
             /\ (pc[r] \in Serving /\ w \in ws[cur[r]]
                   /\ ~(pc[r] \in {"range", "write"} /\ w \in todo[r]) /\ ~(pc[r] = "write" /\ at[r] = w))
                  => seen[r][w] = sent[r]

\* What every interleaving keeps.
HubInv ==
    /\ TypeOK /\ LocalsDefined /\ SameKey
    /\ Fresh /\ Registered /\ OneReader /\ Started /\ Held /\ Swept /\ Listed /\ UpToDate

\* TransStop's second half, and where the takeover goes on.
Clears(r) ==
    /\ pc[r] = "clear" /\ cur[r] \in Conns
    /\ \A x \in Conns \ {r} : pc'[x] = pc[x]
    /\ \A x \in Readers \ {r} : todo'[x] = todo[x]
    /\ \/ pc'[r] = "add" /\ rd[cur[r]] \in {None, r}
       \/ pc'[r] = "copy" /\ todo'[r] = ws[cur[r]]
    /\ \A s \in Conns : isStart'[s] <=> (s # cur[r] /\ isStart[s])
    /\ stale' = IF Copied(cur[r]) THEN stale \cup {KeyOf[r]} ELSE stale
    /\ UNCHANGED <<streams, rd, ws, init, closed, crashed, cur, at, pkt, sweep, api,
        sent, seen, joined>>

\* What ReaderClear changes.
LEMMA ReaderClearEffect ==
    ASSUME TypeOK, LocalsDefined, NEW r \in Readers, ReaderClear(r)
    PROVE  Clears(r)
<1> USE DEF Clears
<1> USE DEF TypeOK, LocalsDefined, Conns
<1>1. pc[r] = "clear" /\ cur[r] \in Conns
  BY DEF ReaderClear, Registering
<1>2. \A s \in Conns : isStart'[s] <=> (s # cur[r] /\ isStart[s])
  BY <1>1 DEF ReaderClear
<1>3. /\ UNCHANGED <<streams, rd, ws, init, closed, crashed, cur, at, pkt, sweep, api,
            sent, seen, joined>>
      /\ stale' = IF Copied(cur[r]) THEN stale \cup {KeyOf[r]} ELSE stale
  BY DEF ReaderClear, others, Acts
<1>4. CASE rd[cur[r]] \in {None, r}
  <2>1. pc' = [pc EXCEPT ![r] = "add"] /\ todo' = todo
    BY <1>4 DEF ReaderClear, Goto
  <2>2. QED
    BY <1>1, <1>2, <1>3, <1>4, <2>1
<1>5. CASE rd[cur[r]] \notin {None, r}
  <2>1. pc' = [pc EXCEPT ![r] = "copy"] /\ todo' = [todo EXCEPT ![r] = ws[cur[r]]]
    BY <1>5 DEF ReaderClear, Goto
  <2>2. QED
    BY <1>1, <1>2, <1>3, <2>1
<1>6. QED
  BY <1>4, <1>5

\* The head of the transfer loop goes on, or closes and ends.
TopEnds(r) ==
    /\ pc[r] = "top" /\ cur[r] \in Conns /\ ClosesOnly
    /\ \A x \in Conns \ {r} : pc'[x] = pc[x] /\ cur'[x] = cur[x]
    /\ \/ isStart[cur[r]] /\ pc'[r] = "read" /\ cur'[r] = cur[r]
       \/ ~isStart[cur[r]] /\ pc'[r] = "done" /\ cur'[r] = None
    /\ UNCHANGED <<streams, isStart, rd, init, todo, at, pkt, sweep, api, sent, seen, stale, joined>>

\* What TransTop changes.
LEMMA TransTopEffect ==
    ASSUME TypeOK, LocalsDefined, NEW r \in Readers, TransTop(r)
    PROVE  TopEnds(r)
<1> USE DEF TopEnds
<1> USE DEF TypeOK, LocalsDefined, Conns
<1>1. pc[r] = "top" /\ cur[r] \in Conns
  BY DEF TransTop, Running
<1>2. UNCHANGED <<streams, isStart, rd, init, todo, at, pkt, sweep, api, sent, seen, stale, joined>>
  BY DEF TransTop, locals, rest, others, history
<1>3. CASE isStart[cur[r]]
  <2>1. pc' = [pc EXCEPT ![r] = "read"] /\ UNCHANGED <<cur, closed, ws, crashed>>
    BY <1>3 DEF TransTop, Goto
  <2>2. QED
    BY <1>1, <1>2, <1>3, <2>1 DEF ClosesOnly
<1>4. CASE ~isStart[cur[r]]
  <2>1. pc' = [pc EXCEPT ![r] = "done"] /\ cur' = [cur EXCEPT ![r] = None]
    BY <1>4 DEF TransTop, Finish, Goto
  <2>2. ClosesOnly
    <3>1. CloseInter(cur[r])
      BY <1>4 DEF TransTop
    <3>2. QED
      BY <1>1, <3>1, CloseInterEffect
  <2>3. QED
    BY <1>1, <1>2, <1>4, <2>1, <2>2
<1>5. QED
  BY <1>3, <1>4

\* The sweeper counts the writers that stay.
Counts ==
    /\ sweep.pc = "writers" /\ sweep.s \in Conns /\ ClosesOnly
    /\ sweep'.s = sweep.s /\ sweep'.key = sweep.key /\ sweep'.pc \in {"writers", "delete"}
    /\ sweep'.n = 0 => sweep.n = 0
    /\ sweep'.pc = "delete" /\ sweep'.n = 0 => ws'[sweep.s] = {}
    /\ UNCHANGED <<streams, isStart, rd, init, pc, cur, todo, at, pkt, api, sent, seen, stale, joined>>

\* What SweepWriters changes: an entry that is counted as unused has no writer.
LEMMA SweepWritersCount ==
    ASSUME TypeOK, LocalsDefined, SweepWriters
    PROVE  Counts
<1> USE DEF Counts
<1>1. sweep.pc = "writers" /\ sweep.s \in Conns
  BY DEF SweepWriters, LocalsDefined
<1>2. UNCHANGED <<streams, isStart, rd, init, pc, cur, todo, at, pkt, api, sent, seen, stale, joined>>
  BY DEF SweepWriters, locals, history
<1>3. PICK dead \in SUBSET (IF isStart[sweep.s] THEN ws[sweep.s] ELSE {}) :
         IF ClosedTwice(dead) THEN UNCHANGED <<ws, sweep>>
         ELSE /\ ws' = [ws EXCEPT ![sweep.s] = @ \ dead]
              /\ sweep' = [sweep EXCEPT !.pc = "delete",
                             !.n = IF ws[sweep.s] \ dead = {} THEN @ ELSE 1]
  BY DEF SweepWriters
<1>4. CASE UNCHANGED <<ws, sweep>>
  BY <1>1, <1>2, <1>4, SweepWritersEffect
<1>5. CASE /\ ws' = [ws EXCEPT ![sweep.s] = @ \ dead]
           /\ sweep' = [sweep EXCEPT !.pc = "delete", !.n = IF ws[sweep.s] \ dead = {} THEN @ ELSE 1]
  <2>1. ws'[sweep.s] = ws[sweep.s] \ dead
    BY <1>1, <1>5 DEF TypeOK
  <2>2. sweep'.pc = "delete" /\ sweep'.n = IF ws[sweep.s] \ dead = {} THEN sweep.n ELSE 1
    BY <1>5 DEF TypeOK
  <2>3. QED
    BY <1>1, <1>2, <2>1, <2>2, SweepWritersEffect, SweepWritersLocals
<1>6. QED
  BY <1>3, <1>4, <1>5

\* One entry goes from the old Stream to its copy.
Moves(r) ==
    /\ pc[r] = "move" /\ pc'[r] = "copy" /\ at[r] \in Writers /\ cur[r] \in Conns /\ cur[r] # r
    /\ \A x \in Conns \ {r} : pc'[x] = pc[x]
    /\ \A x \in Readers \ {r} : at'[x] = at[x]
    /\ ws'[r] = ws[r] \cup {at[r]} /\ ws'[cur[r]] = ws[cur[r]] \ {at[r]}
    /\ \A t \in Conns \ {r, cur[r]} : ws'[t] = ws[t]
    /\ UNCHANGED <<streams, isStart, rd, init, closed, crashed, cur, todo, pkt, sweep,
        api, sent, seen, stale, joined>>

\* What CopyMove changes; the copy is not the Stream it is taken from.
LEMMA CopyMoveEffect ==
    ASSUME TypeOK, LocalsDefined, Fresh, NEW r \in Readers, CopyMove(r)
    PROVE  Moves(r)
<1> USE DEF Moves
<1>1. pc[r] = "move" /\ at[r] \in Writers /\ cur[r] \in Conns /\ r \in Conns
  BY DEF CopyMove, LocalsDefined, Registering, Conns
<1>2. cur[r] # r
  BY <1>1 DEF Fresh, Unborn
<1>3. UNCHANGED <<streams, isStart, rd, init, closed, crashed, cur, todo, pkt, sweep,
    api, sent, seen, stale, joined>>
  BY DEF CopyMove, rest, others, history
<1>4. pc' = [pc EXCEPT ![r] = "copy"] /\ at' = [at EXCEPT ![r] = None]
  BY DEF CopyMove, Goto
<1>5. ws' = [[ws EXCEPT ![cur[r]] = @ \ {at[r]}] EXCEPT ![r] = @ \cup {at[r]}]
  BY DEF CopyMove
<1>6. /\ ws'[r] = ws[r] \cup {at[r]} /\ ws'[cur[r]] = ws[cur[r]] \ {at[r]}
      /\ \A t \in Conns \ {r, cur[r]} : ws'[t] = ws[t]
  BY <1>1, <1>2, <1>5 DEF TypeOK
<1>7. QED
  BY <1>1, <1>2, <1>3, <1>4, <1>6 DEF TypeOK

\* A Stream becomes known by the step that stores it.
LEMMA FreshStep == HubInv /\ Next => Fresh'
<1> SUFFICES ASSUME HubInv, Next PROVE Fresh'
  OBVIOUS
<1>a. TypeOK /\ LocalsDefined /\ SameKey /\ Fresh
  BY DEF HubInv
<1>b. (SweepWriters => Counts) /\ (ApiClose => ClosesOnly)
  BY <1>a, SweepWritersCount, ApiCloseEffect
<1>c. Fresh
  BY DEF HubInv
<1> USE HubAssumption DEF Conns, Registering, Running, Active, Copying, Unborn, Serving,
      shared, locals, rest, others, history, Acts, Enters, LocalsDefined,
      Fresh
<1>1. ASSUME NEW r \in Readers, ReaderLoad(r) PROVE Fresh'
  BY <1>a, <1>c, <1>1 DEF TypeOK, ReaderLoad, Goto
<1>2. ASSUME NEW r \in Readers, ReaderCreate(r) PROVE Fresh'
  BY <1>a, <1>c, <1>2 DEF TypeOK, ReaderCreate, Goto
<1>3. ASSUME NEW r \in Readers, ReaderStop(r) PROVE Fresh'
  BY <1>a, <1>c, <1>3 DEF TypeOK, ReaderStop, Goto, StopReader
<1>4. ASSUME NEW r \in Readers, ReaderClear(r) PROVE Fresh'
  <2>1. Clears(r)
    BY <1>a, <1>4, ReaderClearEffect
  <2>2. QED
    BY <1>a, <1>c, <2>1 DEF Clears, Copied
<1>5. ASSUME NEW r \in Readers, NEW w \in Writers, CopyPick(r, w) PROVE Fresh'
  BY <1>a, <1>c, <1>5 DEF TypeOK, CopyPick, Goto
<1>6. ASSUME NEW r \in Readers, CopyMove(r) PROVE Fresh'
  <2>1. Moves(r)
    BY <1>a, <1>6, CopyMoveEffect
  <2>2. QED
    BY <1>a, <1>c, <2>1 DEF Moves
<1>7. ASSUME NEW r \in Readers, CopyStore(r) PROVE Fresh'
  BY <1>a, <1>c, <1>7 DEF TypeOK, CopyStore, Goto
<1>8. ASSUME NEW r \in Readers, AddReader(r) PROVE Fresh'
  BY <1>a, <1>c, <1>8 DEF TypeOK, AddReader, Goto
<1>9. ASSUME NEW r \in Readers, TransStart(r) PROVE Fresh'
  BY <1>a, <1>c, <1>9 DEF TypeOK, TransStart, Goto
<1>10. ASSUME NEW r \in Readers, TransTop(r) PROVE Fresh'
  <2>1. TopEnds(r)
    BY <1>a, <1>10, TransTopEffect
  <2>2. QED
    BY <1>a, <1>c, <2>1 DEF ClosesOnly, TopEnds
<1>11. ASSUME NEW r \in Readers, TransRead(r) PROVE Fresh'
  BY <1>a, <1>c, <1>11 DEF TypeOK, TransRead, Goto
<1>12. ASSUME NEW r \in Readers, TransReadError(r) PROVE Fresh'
  BY <1>a, <1>c, <1>12, CloseInterEffect DEF TypeOK, ClosesOnly, TransReadError, Goto
<1>12b. ASSUME NEW r \in Readers, TransReadBad(r) PROVE Fresh'
  BY <1>a, <1>c, <1>12b, CloseInterEffect DEF TypeOK, ClosesOnly, TransReadBad, Goto
<1>13. ASSUME NEW r \in Readers, TransEnding(r) PROVE Fresh'
  BY <1>a, <1>c, <1>13 DEF TypeOK, TransEnding, Goto, Finish
<1>14. ASSUME NEW r \in Readers, NEW w \in Writers, RangePick(r, w) PROVE Fresh'
  BY <1>a, <1>c, <1>14 DEF TypeOK, RangePick, Goto
<1>15. ASSUME NEW r \in Readers, WriteFails(r) PROVE Fresh'
  BY <1>a, <1>c, <1>15 DEF TypeOK, WriteFails, Goto
<1>16. ASSUME NEW r \in Readers, WriteSucceeds(r) PROVE Fresh'
  BY <1>a, <1>c, <1>16 DEF TypeOK, WriteSucceeds, Goto
<1>17. ASSUME NEW r \in Readers, RangeEnd(r) PROVE Fresh'
  BY <1>a, <1>c, <1>17 DEF TypeOK, RangeEnd, Goto
<1>18. ASSUME NEW w \in Writers, WriterLoad(w) PROVE Fresh'
  BY <1>a, <1>c, <1>18 DEF TypeOK, WriterLoad, Goto
<1>19. ASSUME NEW w \in Writers, WriterCreate(w) PROVE Fresh'
  BY <1>a, <1>c, <1>19 DEF TypeOK, WriterCreate, Goto, Finish
<1>20. ASSUME NEW w \in Writers, AddWriter(w) PROVE Fresh'
  BY <1>a, <1>c, <1>20 DEF TypeOK, AddWriter, Goto, Finish
<1>21. ASSUME NEW k \in Keys, SweepVisit(k) PROVE Fresh'
  BY <1>a, <1>c, <1>21 DEF TypeOK, SweepVisit
<1>22. ASSUME SweepWriters PROVE Fresh'
  BY <1>a, <1>b, <1>c, <1>22 DEF ClosesOnly, Counts
<1>23. ASSUME SweepDelete PROVE Fresh'
  BY <1>a, <1>c, <1>23 DEF TypeOK, SweepDelete, Idle
<1>24. ASSUME NEW k \in Keys, ApiLoad(k) PROVE Fresh'
  BY <1>a, <1>c, <1>24 DEF TypeOK, ApiLoad
<1>25. ASSUME ApiStop PROVE Fresh'
  BY <1>a, <1>c, <1>25 DEF TypeOK, ApiStop, StopReader
<1>26. ASSUME ApiClear PROVE Fresh'
  BY <1>a, <1>c, <1>26 DEF TypeOK, ApiClear
<1>27. ASSUME ApiClose PROVE Fresh'
  BY <1>a, <1>b, <1>c, <1>27 DEF ClosesOnly, ApiClose, Idle
<1>28. ASSUME NEW x \in Conns, Disconnect(x) PROVE Fresh'
  BY <1>a, <1>c, <1>28 DEF TypeOK, Disconnect
<1>29. QED
  BY <1>1, <1>2, <1>3, <1>4, <1>5, <1>6, <1>7, <1>8, <1>9, <1>10, <1>11, <1>12, <1>12b, <1>13,
     <1>14, <1>15, <1>16, <1>17, <1>18, <1>19, <1>20, <1>21, <1>22, <1>23, <1>24,
     <1>25, <1>26, <1>27, <1>28
     DEF Next, HandleReader, Transfer, HandleWriter, CheckAlive, HandleDelete

\* A writer is registered by the last step of its handler.
LEMMA RegisteredStep == HubInv /\ Next => Registered'
<1> SUFFICES ASSUME HubInv, Next PROVE Registered'
  OBVIOUS
<1>a. TypeOK /\ LocalsDefined /\ SameKey /\ Fresh
  BY DEF HubInv
<1>b. (SweepWriters => Counts) /\ (ApiClose => ClosesOnly)
  BY <1>a, SweepWritersCount, ApiCloseEffect
<1>c. Registered /\ Fresh
  BY DEF HubInv
<1> USE HubAssumption DEF Conns, Registering, Running, Active, Copying, Unborn, Serving,
      shared, locals, rest, others, history, Acts, Enters, LocalsDefined,
      Registered, Fresh
<1>1. ASSUME NEW r \in Readers, ReaderLoad(r) PROVE Registered'
  BY <1>a, <1>c, <1>1 DEF TypeOK, ReaderLoad, Goto
<1>2. ASSUME NEW r \in Readers, ReaderCreate(r) PROVE Registered'
  BY <1>a, <1>c, <1>2 DEF TypeOK, ReaderCreate, Goto
<1>3. ASSUME NEW r \in Readers, ReaderStop(r) PROVE Registered'
  BY <1>a, <1>c, <1>3 DEF TypeOK, ReaderStop, Goto, StopReader
<1>4. ASSUME NEW r \in Readers, ReaderClear(r) PROVE Registered'
  <2>1. Clears(r)
    BY <1>a, <1>4, ReaderClearEffect
  <2>2. \A x \in Conns : pc[x] = "done" => pc'[x] = "done"
    BY <2>1 DEF Clears
  <2>3. \A q \in Readers : /\ pc'[q] \in {"move", "write"} => pc[q] = pc'[q] /\ at[q] \in Writers
                           /\ pc'[q] = "write" => todo'[q] = todo[q]
    BY <1>a, <1>c, <2>1 DEF Clears
  <2>4. ws' = ws /\ at' = at
    BY <2>1 DEF Clears
  <2>5. \A s \in Conns : ws[s] \subseteq Writers
    BY <1>a DEF TypeOK
  <2>6. QED
    BY <1>c, <2>2, <2>3, <2>4, <2>5
<1>5. ASSUME NEW r \in Readers, NEW w \in Writers, CopyPick(r, w) PROVE Registered'
  BY <1>a, <1>c, <1>5 DEF TypeOK, CopyPick, Goto
<1>6. ASSUME NEW r \in Readers, CopyMove(r) PROVE Registered'
  <2>1. Moves(r)
    BY <1>a, <1>6, CopyMoveEffect
  <2>2. /\ \A x \in Conns : pc[x] = "done" => pc'[x] = "done"
        /\ \A s \in Conns : \A w \in ws'[s] : w = at[r] \/ w \in ws[s]
    BY <2>1 DEF Moves
  <2>3. \A q \in Readers : pc'[q] \in {"move", "write"} =>
           /\ q # r /\ pc[q] = pc'[q] /\ at'[q] = at[q] /\ at[q] \in Writers
    BY <1>a, <1>c, <2>1 DEF Moves
  <2>4. todo' = todo /\ pc[at[r]] = "done" /\ at[r] \in Writers
    BY <1>a, <1>c, <2>1 DEF Moves
  <2>5. \A s \in Conns : ws[s] \subseteq Writers
    BY <1>a DEF TypeOK
  <2>6. QED
    BY <1>c, <2>2, <2>3, <2>4, <2>5
<1>7. ASSUME NEW r \in Readers, CopyStore(r) PROVE Registered'
  BY <1>a, <1>c, <1>7 DEF TypeOK, CopyStore, Goto
<1>8. ASSUME NEW r \in Readers, AddReader(r) PROVE Registered'
  BY <1>a, <1>c, <1>8 DEF TypeOK, AddReader, Goto
<1>9. ASSUME NEW r \in Readers, TransStart(r) PROVE Registered'
  BY <1>a, <1>c, <1>9 DEF TypeOK, TransStart, Goto
<1>10. ASSUME NEW r \in Readers, TransTop(r) PROVE Registered'
  <2>1. TopEnds(r)
    BY <1>a, <1>10, TransTopEffect
  <2>2. QED
    BY <1>a, <1>c, <2>1 DEF ClosesOnly, TopEnds
<1>11. ASSUME NEW r \in Readers, TransRead(r) PROVE Registered'
  BY <1>a, <1>c, <1>11 DEF TypeOK, TransRead, Goto
<1>12. ASSUME NEW r \in Readers, TransReadError(r) PROVE Registered'
  BY <1>a, <1>c, <1>12, CloseInterEffect DEF TypeOK, ClosesOnly, TransReadError, Goto
<1>12b. ASSUME NEW r \in Readers, TransReadBad(r) PROVE Registered'
  BY <1>a, <1>c, <1>12b, CloseInterEffect DEF TypeOK, ClosesOnly, TransReadBad, Goto
<1>13. ASSUME NEW r \in Readers, TransEnding(r) PROVE Registered'
  BY <1>a, <1>c, <1>13 DEF TypeOK, TransEnding, Goto, Finish
<1>14. ASSUME NEW r \in Readers, NEW w \in Writers, RangePick(r, w) PROVE Registered'
  BY <1>a, <1>c, <1>14 DEF TypeOK, RangePick, Goto
<1>15. ASSUME NEW r \in Readers, WriteFails(r) PROVE Registered'
  BY <1>a, <1>c, <1>15 DEF TypeOK, WriteFails, Goto
<1>16. ASSUME NEW r \in Readers, WriteSucceeds(r) PROVE Registered'
  BY <1>a, <1>c, <1>16 DEF TypeOK, WriteSucceeds, Goto
<1>17. ASSUME NEW r \in Readers, RangeEnd(r) PROVE Registered'
  BY <1>a, <1>c, <1>17 DEF TypeOK, RangeEnd, Goto
<1>18. ASSUME NEW w \in Writers, WriterLoad(w) PROVE Registered'
  BY <1>a, <1>c, <1>18 DEF TypeOK, WriterLoad, Goto
<1>19. ASSUME NEW w \in Writers, WriterCreate(w) PROVE Registered'
  BY <1>a, <1>c, <1>19 DEF TypeOK, WriterCreate, Goto, Finish
<1>20. ASSUME NEW w \in Writers, AddWriter(w) PROVE Registered'
  BY <1>a, <1>c, <1>20 DEF TypeOK, AddWriter, Goto, Finish
<1>21. ASSUME NEW k \in Keys, SweepVisit(k) PROVE Registered'
  BY <1>a, <1>c, <1>21 DEF TypeOK, SweepVisit
<1>22. ASSUME SweepWriters PROVE Registered'
  BY <1>a, <1>b, <1>c, <1>22 DEF ClosesOnly, Counts
<1>23. ASSUME SweepDelete PROVE Registered'
  BY <1>a, <1>c, <1>23 DEF TypeOK, SweepDelete, Idle
<1>24. ASSUME NEW k \in Keys, ApiLoad(k) PROVE Registered'
  BY <1>a, <1>c, <1>24 DEF TypeOK, ApiLoad
<1>25. ASSUME ApiStop PROVE Registered'
  BY <1>a, <1>c, <1>25 DEF TypeOK, ApiStop, StopReader
<1>26. ASSUME ApiClear PROVE Registered'
  BY <1>a, <1>c, <1>26 DEF TypeOK, ApiClear
<1>27. ASSUME ApiClose PROVE Registered'
  BY <1>a, <1>b, <1>c, <1>27 DEF ClosesOnly, ApiClose, Idle
<1>28. ASSUME NEW x \in Conns, Disconnect(x) PROVE Registered'
  BY <1>a, <1>c, <1>28 DEF TypeOK, Disconnect
<1>29. QED
  BY <1>1, <1>2, <1>3, <1>4, <1>5, <1>6, <1>7, <1>8, <1>9, <1>10, <1>11, <1>12, <1>12b, <1>13,
     <1>14, <1>15, <1>16, <1>17, <1>18, <1>19, <1>20, <1>21, <1>22, <1>23, <1>24,
     <1>25, <1>26, <1>27, <1>28
     DEF Next, HandleReader, Transfer, HandleWriter, CheckAlive, HandleDelete

\* AddReader sets a publisher in a Stream that has none.
LEMMA OneReaderStep == HubInv /\ Next => OneReader'
<1> SUFFICES ASSUME HubInv, Next PROVE OneReader'
  OBVIOUS
<1>a. TypeOK /\ LocalsDefined /\ SameKey /\ Fresh
  BY DEF HubInv
<1>b. (SweepWriters => Counts) /\ (ApiClose => ClosesOnly)
  BY <1>a, SweepWritersCount, ApiCloseEffect
<1>c. OneReader /\ Fresh /\ SameKey
  BY DEF HubInv
<1> USE HubAssumption DEF Conns, Registering, Running, Active, Copying, Unborn, Serving,
      shared, locals, rest, others, history, Acts, Enters, LocalsDefined,
      OneReader, Fresh, SameKey
<1>1. ASSUME NEW r \in Readers, ReaderLoad(r) PROVE OneReader'
  BY <1>a, <1>c, <1>1 DEF TypeOK, ReaderLoad, Goto
<1>2. ASSUME NEW r \in Readers, ReaderCreate(r) PROVE OneReader'
  BY <1>a, <1>c, <1>2 DEF TypeOK, ReaderCreate, Goto
<1>3. ASSUME NEW r \in Readers, ReaderStop(r) PROVE OneReader'
  BY <1>a, <1>c, <1>3 DEF TypeOK, ReaderStop, Goto, StopReader
<1>4. ASSUME NEW r \in Readers, ReaderClear(r) PROVE OneReader'
  <2>1. Clears(r)
    BY <1>a, <1>4, ReaderClearEffect
  <2>2. QED
    BY <1>a, <1>c, <2>1 DEF Clears, Copied
<1>5. ASSUME NEW r \in Readers, NEW w \in Writers, CopyPick(r, w) PROVE OneReader'
  BY <1>a, <1>c, <1>5 DEF TypeOK, CopyPick, Goto
<1>6. ASSUME NEW r \in Readers, CopyMove(r) PROVE OneReader'
  <2>1. Moves(r)
    BY <1>a, <1>6, CopyMoveEffect
  <2>2. QED
    BY <1>a, <1>c, <2>1 DEF Moves
<1>7. ASSUME NEW r \in Readers, CopyStore(r) PROVE OneReader'
  BY <1>a, <1>c, <1>7 DEF TypeOK, CopyStore, Goto
<1>8. ASSUME NEW r \in Readers, AddReader(r) PROVE OneReader'
  BY <1>a, <1>c, <1>8 DEF TypeOK, AddReader, Goto
<1>9. ASSUME NEW r \in Readers, TransStart(r) PROVE OneReader'
  BY <1>a, <1>c, <1>9 DEF TypeOK, TransStart, Goto
<1>10. ASSUME NEW r \in Readers, TransTop(r) PROVE OneReader'
  <2>1. TopEnds(r)
    BY <1>a, <1>10, TransTopEffect
  <2>2. QED
    BY <1>a, <1>c, <2>1 DEF ClosesOnly, TopEnds
<1>11. ASSUME NEW r \in Readers, TransRead(r) PROVE OneReader'
  BY <1>a, <1>c, <1>11 DEF TypeOK, TransRead, Goto
<1>12. ASSUME NEW r \in Readers, TransReadError(r) PROVE OneReader'
  BY <1>a, <1>c, <1>12, CloseInterEffect DEF TypeOK, ClosesOnly, TransReadError, Goto
<1>12b. ASSUME NEW r \in Readers, TransReadBad(r) PROVE OneReader'
  BY <1>a, <1>c, <1>12b, CloseInterEffect DEF TypeOK, ClosesOnly, TransReadBad, Goto
<1>13. ASSUME NEW r \in Readers, TransEnding(r) PROVE OneReader'
  BY <1>a, <1>c, <1>13 DEF TypeOK, TransEnding, Goto, Finish
<1>14. ASSUME NEW r \in Readers, NEW w \in Writers, RangePick(r, w) PROVE OneReader'
  BY <1>a, <1>c, <1>14 DEF TypeOK, RangePick, Goto
<1>15. ASSUME NEW r \in Readers, WriteFails(r) PROVE OneReader'
  BY <1>a, <1>c, <1>15 DEF TypeOK, WriteFails, Goto
<1>16. ASSUME NEW r \in Readers, WriteSucceeds(r) PROVE OneReader'
  BY <1>a, <1>c, <1>16 DEF TypeOK, WriteSucceeds, Goto
<1>17. ASSUME NEW r \in Readers, RangeEnd(r) PROVE OneReader'
  BY <1>a, <1>c, <1>17 DEF TypeOK, RangeEnd, Goto
<1>18. ASSUME NEW w \in Writers, WriterLoad(w) PROVE OneReader'
  BY <1>a, <1>c, <1>18 DEF TypeOK, WriterLoad, Goto
<1>19. ASSUME NEW w \in Writers, WriterCreate(w) PROVE OneReader'
  BY <1>a, <1>c, <1>19 DEF TypeOK, WriterCreate, Goto, Finish
<1>20. ASSUME NEW w \in Writers, AddWriter(w) PROVE OneReader'
  BY <1>a, <1>c, <1>20 DEF TypeOK, AddWriter, Goto, Finish
<1>21. ASSUME NEW k \in Keys, SweepVisit(k) PROVE OneReader'
  BY <1>a, <1>c, <1>21 DEF TypeOK, SweepVisit
<1>22. ASSUME SweepWriters PROVE OneReader'
  BY <1>a, <1>b, <1>c, <1>22 DEF ClosesOnly, Counts
<1>23. ASSUME SweepDelete PROVE OneReader'
  BY <1>a, <1>c, <1>23 DEF TypeOK, SweepDelete, Idle
<1>24. ASSUME NEW k \in Keys, ApiLoad(k) PROVE OneReader'
  BY <1>a, <1>c, <1>24 DEF TypeOK, ApiLoad
<1>25. ASSUME ApiStop PROVE OneReader'
  BY <1>a, <1>c, <1>25 DEF TypeOK, ApiStop, StopReader
<1>26. ASSUME ApiClear PROVE OneReader'
  BY <1>a, <1>c, <1>26 DEF TypeOK, ApiClear
<1>27. ASSUME ApiClose PROVE OneReader'
  BY <1>a, <1>b, <1>c, <1>27 DEF ClosesOnly, ApiClose, Idle
<1>28. ASSUME NEW x \in Conns, Disconnect(x) PROVE OneReader'
  BY <1>a, <1>c, <1>28 DEF TypeOK, Disconnect
<1>29. QED
  BY <1>1, <1>2, <1>3, <1>4, <1>5, <1>6, <1>7, <1>8, <1>9, <1>10, <1>11, <1>12, <1>12b, <1>13,
     <1>14, <1>15, <1>16, <1>17, <1>18, <1>19, <1>20, <1>21, <1>22, <1>23, <1>24,
     <1>25, <1>26, <1>27, <1>28
     DEF Next, HandleReader, Transfer, HandleWriter, CheckAlive, HandleDelete

\* A Stream is stopped after its publisher was closed.
LEMMA StartedStep == HubInv /\ Next => Started'
<1> SUFFICES ASSUME HubInv, Next PROVE Started'
  OBVIOUS
<1>a. TypeOK /\ LocalsDefined /\ SameKey /\ Fresh
  BY DEF HubInv
<1>b. (SweepWriters => Counts) /\ (ApiClose => ClosesOnly)
  BY <1>a, SweepWritersCount, ApiCloseEffect
<1>c. Started /\ OneReader /\ Fresh /\ SameKey
  BY DEF HubInv
<1> USE HubAssumption DEF Conns, Registering, Running, Active, Copying, Unborn, Serving,
      shared, locals, rest, others, history, Acts, Enters, LocalsDefined,
      Started, OneReader, Fresh, SameKey, Stopping
<1>1. ASSUME NEW r \in Readers, ReaderLoad(r) PROVE Started'
  BY <1>a, <1>c, <1>1 DEF TypeOK, ReaderLoad, Goto
<1>2. ASSUME NEW r \in Readers, ReaderCreate(r) PROVE Started'
  BY <1>a, <1>c, <1>2 DEF TypeOK, ReaderCreate, Goto
<1>3. ASSUME NEW r \in Readers, ReaderStop(r) PROVE Started'
  BY <1>a, <1>c, <1>3 DEF TypeOK, ReaderStop, Goto, StopReader
<1>4. ASSUME NEW r \in Readers, ReaderClear(r) PROVE Started'
  <2>1. Clears(r)
    BY <1>a, <1>4, ReaderClearEffect
  <2>2. QED
    BY <1>a, <1>c, <2>1 DEF Clears, Copied
<1>5. ASSUME NEW r \in Readers, NEW w \in Writers, CopyPick(r, w) PROVE Started'
  BY <1>a, <1>c, <1>5 DEF TypeOK, CopyPick, Goto
<1>6. ASSUME NEW r \in Readers, CopyMove(r) PROVE Started'
  <2>1. Moves(r)
    BY <1>a, <1>6, CopyMoveEffect
  <2>2. QED
    BY <1>a, <1>c, <2>1 DEF Moves
<1>7. ASSUME NEW r \in Readers, CopyStore(r) PROVE Started'
  BY <1>a, <1>c, <1>7 DEF TypeOK, CopyStore, Goto
<1>8. ASSUME NEW r \in Readers, AddReader(r) PROVE Started'
  BY <1>a, <1>c, <1>8 DEF TypeOK, AddReader, Goto
<1>9. ASSUME NEW r \in Readers, TransStart(r) PROVE Started'
  BY <1>a, <1>c, <1>9 DEF TypeOK, TransStart, Goto
<1>10. ASSUME NEW r \in Readers, TransTop(r) PROVE Started'
  <2>1. TopEnds(r)
    BY <1>a, <1>10, TransTopEffect
  <2>2. QED
    BY <1>a, <1>c, <2>1 DEF ClosesOnly, TopEnds
<1>11. ASSUME NEW r \in Readers, TransRead(r) PROVE Started'
  BY <1>a, <1>c, <1>11 DEF TypeOK, TransRead, Goto
<1>12. ASSUME NEW r \in Readers, TransReadError(r) PROVE Started'
  BY <1>a, <1>c, <1>12, CloseInterEffect DEF TypeOK, ClosesOnly, TransReadError, Goto
<1>12b. ASSUME NEW r \in Readers, TransReadBad(r) PROVE Started'
  BY <1>a, <1>c, <1>12b, CloseInterEffect DEF TypeOK, ClosesOnly, TransReadBad, Goto
<1>13. ASSUME NEW r \in Readers, TransEnding(r) PROVE Started'
  BY <1>a, <1>c, <1>13 DEF TypeOK, TransEnding, Goto, Finish
<1>14. ASSUME NEW r \in Readers, NEW w \in Writers, RangePick(r, w) PROVE Started'
  BY <1>a, <1>c, <1>14 DEF TypeOK, RangePick, Goto
<1>15. ASSUME NEW r \in Readers, WriteFails(r) PROVE Started'
  BY <1>a, <1>c, <1>15 DEF TypeOK, WriteFails, Goto
<1>16. ASSUME NEW r \in Readers, WriteSucceeds(r) PROVE Started'
  BY <1>a, <1>c, <1>16 DEF TypeOK, WriteSucceeds, Goto
<1>17. ASSUME NEW r \in Readers, RangeEnd(r) PROVE Started'
  BY <1>a, <1>c, <1>17 DEF TypeOK, RangeEnd, Goto
<1>18. ASSUME NEW w \in Writers, WriterLoad(w) PROVE Started'
  BY <1>a, <1>c, <1>18 DEF TypeOK, WriterLoad, Goto
<1>19. ASSUME NEW w \in Writers, WriterCreate(w) PROVE Started'
  BY <1>a, <1>c, <1>19 DEF TypeOK, WriterCreate, Goto, Finish
<1>20. ASSUME NEW w \in Writers, AddWriter(w) PROVE Started'
  BY <1>a, <1>c, <1>20 DEF TypeOK, AddWriter, Goto, Finish
<1>21. ASSUME NEW k \in Keys, SweepVisit(k) PROVE Started'
  BY <1>a, <1>c, <1>21 DEF TypeOK, SweepVisit
<1>22. ASSUME SweepWriters PROVE Started'
  BY <1>a, <1>b, <1>c, <1>22 DEF ClosesOnly, Counts
<1>23. ASSUME SweepDelete PROVE Started'
  BY <1>a, <1>c, <1>23 DEF TypeOK, SweepDelete, Idle
<1>24. ASSUME NEW k \in Keys, ApiLoad(k) PROVE Started'
  BY <1>a, <1>c, <1>24 DEF TypeOK, ApiLoad
<1>25. ASSUME ApiStop PROVE Started'
  BY <1>a, <1>c, <1>25 DEF TypeOK, ApiStop, StopReader
<1>26. ASSUME ApiClear PROVE Started'
  BY <1>a, <1>c, <1>26 DEF TypeOK, ApiClear
<1>27. ASSUME ApiClose PROVE Started'
  BY <1>a, <1>b, <1>c, <1>27 DEF ClosesOnly, ApiClose, Idle
<1>28. ASSUME NEW x \in Conns, Disconnect(x) PROVE Started'
  BY <1>a, <1>c, <1>28 DEF TypeOK, Disconnect
<1>29. QED
  BY <1>1, <1>2, <1>3, <1>4, <1>5, <1>6, <1>7, <1>8, <1>9, <1>10, <1>11, <1>12, <1>12b, <1>13,
     <1>14, <1>15, <1>16, <1>17, <1>18, <1>19, <1>20, <1>21, <1>22, <1>23, <1>24,
     <1>25, <1>26, <1>27, <1>28
     DEF Next, HandleReader, Transfer, HandleWriter, CheckAlive, HandleDelete

\* The map's entry changes under a publisher only after it was closed.
LEMMA HeldStep == HubInv /\ Next => Held'
<1> SUFFICES ASSUME HubInv, Next PROVE Held'
  OBVIOUS
<1>a. TypeOK /\ LocalsDefined /\ SameKey /\ Fresh
  BY DEF HubInv
<1>b. (SweepWriters => Counts) /\ (ApiClose => ClosesOnly)
  BY <1>a, SweepWritersCount, ApiCloseEffect
<1>c. Held /\ OneReader /\ Started /\ Fresh /\ SameKey /\ Swept
  BY DEF HubInv
<1> USE HubAssumption DEF Conns, Registering, Running, Active, Copying, Unborn, Serving,
      shared, locals, rest, others, history, Acts, Enters, LocalsDefined,
      Held, OneReader, Started, Fresh, SameKey, Swept, Outdated, Stopping
<1>1. ASSUME NEW r \in Readers, ReaderLoad(r) PROVE Held'
  BY <1>a, <1>c, <1>1 DEF TypeOK, ReaderLoad, Goto
<1>2. ASSUME NEW r \in Readers, ReaderCreate(r) PROVE Held'
  BY <1>a, <1>c, <1>2 DEF TypeOK, ReaderCreate, Goto
<1>3. ASSUME NEW r \in Readers, ReaderStop(r) PROVE Held'
  BY <1>a, <1>c, <1>3 DEF TypeOK, ReaderStop, Goto, StopReader
<1>4. ASSUME NEW r \in Readers, ReaderClear(r) PROVE Held'
  <2>1. Clears(r)
    BY <1>a, <1>4, ReaderClearEffect
  <2>2. QED
    BY <1>a, <1>c, <2>1 DEF Clears, Copied
<1>5. ASSUME NEW r \in Readers, NEW w \in Writers, CopyPick(r, w) PROVE Held'
  BY <1>a, <1>c, <1>5 DEF TypeOK, CopyPick, Goto
<1>6. ASSUME NEW r \in Readers, CopyMove(r) PROVE Held'
  <2>1. Moves(r)
    BY <1>a, <1>6, CopyMoveEffect
  <2>2. QED
    BY <1>a, <1>c, <2>1 DEF Moves
<1>7. ASSUME NEW r \in Readers, CopyStore(r) PROVE Held'
  BY <1>a, <1>c, <1>7 DEF TypeOK, CopyStore, Goto
<1>8. ASSUME NEW r \in Readers, AddReader(r) PROVE Held'
  BY <1>a, <1>c, <1>8 DEF TypeOK, AddReader, Goto
<1>9. ASSUME NEW r \in Readers, TransStart(r) PROVE Held'
  BY <1>a, <1>c, <1>9 DEF TypeOK, TransStart, Goto
<1>10. ASSUME NEW r \in Readers, TransTop(r) PROVE Held'
  <2>1. TopEnds(r)
    BY <1>a, <1>10, TransTopEffect
  <2>2. QED
    BY <1>a, <1>c, <2>1 DEF ClosesOnly, TopEnds
<1>11. ASSUME NEW r \in Readers, TransRead(r) PROVE Held'
  BY <1>a, <1>c, <1>11 DEF TypeOK, TransRead, Goto
<1>12. ASSUME NEW r \in Readers, TransReadError(r) PROVE Held'
  BY <1>a, <1>c, <1>12, CloseInterEffect DEF TypeOK, ClosesOnly, TransReadError, Goto
<1>12b. ASSUME NEW r \in Readers, TransReadBad(r) PROVE Held'
  BY <1>a, <1>c, <1>12b, CloseInterEffect DEF TypeOK, ClosesOnly, TransReadBad, Goto
<1>13. ASSUME NEW r \in Readers, TransEnding(r) PROVE Held'
  BY <1>a, <1>c, <1>13 DEF TypeOK, TransEnding, Goto, Finish
<1>14. ASSUME NEW r \in Readers, NEW w \in Writers, RangePick(r, w) PROVE Held'
  BY <1>a, <1>c, <1>14 DEF TypeOK, RangePick, Goto
<1>15. ASSUME NEW r \in Readers, WriteFails(r) PROVE Held'
  BY <1>a, <1>c, <1>15 DEF TypeOK, WriteFails, Goto
<1>16. ASSUME NEW r \in Readers, WriteSucceeds(r) PROVE Held'
  BY <1>a, <1>c, <1>16 DEF TypeOK, WriteSucceeds, Goto
<1>17. ASSUME NEW r \in Readers, RangeEnd(r) PROVE Held'
  BY <1>a, <1>c, <1>17 DEF TypeOK, RangeEnd, Goto
<1>18. ASSUME NEW w \in Writers, WriterLoad(w) PROVE Held'
  BY <1>a, <1>c, <1>18 DEF TypeOK, WriterLoad, Goto
<1>19. ASSUME NEW w \in Writers, WriterCreate(w) PROVE Held'
  BY <1>a, <1>c, <1>19 DEF TypeOK, WriterCreate, Goto, Finish
<1>20. ASSUME NEW w \in Writers, AddWriter(w) PROVE Held'
  BY <1>a, <1>c, <1>20 DEF TypeOK, AddWriter, Goto, Finish
<1>21. ASSUME NEW k \in Keys, SweepVisit(k) PROVE Held'
  BY <1>a, <1>c, <1>21 DEF TypeOK, SweepVisit
<1>22. ASSUME SweepWriters PROVE Held'
  BY <1>a, <1>b, <1>c, <1>22 DEF ClosesOnly, Counts
<1>23. ASSUME SweepDelete PROVE Held'
  BY <1>a, <1>c, <1>23 DEF TypeOK, SweepDelete, Idle
<1>24. ASSUME NEW k \in Keys, ApiLoad(k) PROVE Held'
  BY <1>a, <1>c, <1>24 DEF TypeOK, ApiLoad
<1>25. ASSUME ApiStop PROVE Held'
  BY <1>a, <1>c, <1>25 DEF TypeOK, ApiStop, StopReader
<1>26. ASSUME ApiClear PROVE Held'
  BY <1>a, <1>c, <1>26 DEF TypeOK, ApiClear
<1>27. ASSUME ApiClose PROVE Held'
  BY <1>a, <1>b, <1>c, <1>27 DEF ClosesOnly, ApiClose, Idle
<1>28. ASSUME NEW x \in Conns, Disconnect(x) PROVE Held'
  BY <1>a, <1>c, <1>28 DEF TypeOK, Disconnect
<1>29. QED
  BY <1>1, <1>2, <1>3, <1>4, <1>5, <1>6, <1>7, <1>8, <1>9, <1>10, <1>11, <1>12, <1>12b, <1>13,
     <1>14, <1>15, <1>16, <1>17, <1>18, <1>19, <1>20, <1>21, <1>22, <1>23, <1>24,
     <1>25, <1>26, <1>27, <1>28
     DEF Next, HandleReader, Transfer, HandleWriter, CheckAlive, HandleDelete

\* What was counted changes by the steps of handlers only.
LEMMA SweptStep == HubInv /\ Next => Swept'
<1> SUFFICES ASSUME HubInv, Next PROVE Swept'
  OBVIOUS
<1>a. TypeOK /\ LocalsDefined /\ SameKey /\ Fresh
  BY DEF HubInv
<1>b. (SweepWriters => Counts) /\ (ApiClose => ClosesOnly)
  BY <1>a, SweepWritersCount, ApiCloseEffect
<1>c. Swept /\ OneReader /\ Started /\ SameKey /\ Fresh
  BY DEF HubInv
<1> USE HubAssumption DEF Conns, Registering, Running, Active, Copying, Unborn, Serving,
      shared, locals, rest, others, history, Acts, Enters, LocalsDefined,
      Swept, OneReader, Started, SameKey, Fresh, Outside
<1>1. ASSUME NEW r \in Readers, ReaderLoad(r) PROVE Swept'
  BY <1>a, <1>c, <1>1 DEF TypeOK, ReaderLoad, Goto
<1>2. ASSUME NEW r \in Readers, ReaderCreate(r) PROVE Swept'
  BY <1>a, <1>c, <1>2 DEF TypeOK, ReaderCreate, Goto
<1>3. ASSUME NEW r \in Readers, ReaderStop(r) PROVE Swept'
  BY <1>a, <1>c, <1>3 DEF TypeOK, ReaderStop, Goto, StopReader
<1>4. ASSUME NEW r \in Readers, ReaderClear(r) PROVE Swept'
  <2>1. Clears(r)
    BY <1>a, <1>4, ReaderClearEffect
  <2>2. QED
    BY <1>a, <1>c, <2>1 DEF Clears, Copied
<1>5. ASSUME NEW r \in Readers, NEW w \in Writers, CopyPick(r, w) PROVE Swept'
  BY <1>a, <1>c, <1>5 DEF TypeOK, CopyPick, Goto
<1>6. ASSUME NEW r \in Readers, CopyMove(r) PROVE Swept'
  <2>1. Moves(r)
    BY <1>a, <1>6, CopyMoveEffect
  <2>2. QED
    BY <1>a, <1>c, <2>1 DEF Moves
<1>7. ASSUME NEW r \in Readers, CopyStore(r) PROVE Swept'
  BY <1>a, <1>c, <1>7 DEF TypeOK, CopyStore, Goto
<1>8. ASSUME NEW r \in Readers, AddReader(r) PROVE Swept'
  BY <1>a, <1>c, <1>8 DEF TypeOK, AddReader, Goto
<1>9. ASSUME NEW r \in Readers, TransStart(r) PROVE Swept'
  BY <1>a, <1>c, <1>9 DEF TypeOK, TransStart, Goto
<1>10. ASSUME NEW r \in Readers, TransTop(r) PROVE Swept'
  <2>1. TopEnds(r)
    BY <1>a, <1>10, TransTopEffect
  <2>2. QED
    BY <1>a, <1>c, <2>1 DEF ClosesOnly, TopEnds
<1>11. ASSUME NEW r \in Readers, TransRead(r) PROVE Swept'
  BY <1>a, <1>c, <1>11 DEF TypeOK, TransRead, Goto
<1>12. ASSUME NEW r \in Readers, TransReadError(r) PROVE Swept'
  BY <1>a, <1>c, <1>12, CloseInterEffect DEF TypeOK, ClosesOnly, TransReadError, Goto
<1>12b. ASSUME NEW r \in Readers, TransReadBad(r) PROVE Swept'
  BY <1>a, <1>c, <1>12b, CloseInterEffect DEF TypeOK, ClosesOnly, TransReadBad, Goto
<1>13. ASSUME NEW r \in Readers, TransEnding(r) PROVE Swept'
  BY <1>a, <1>c, <1>13 DEF TypeOK, TransEnding, Goto, Finish
<1>14. ASSUME NEW r \in Readers, NEW w \in Writers, RangePick(r, w) PROVE Swept'
  BY <1>a, <1>c, <1>14 DEF TypeOK, RangePick, Goto
<1>15. ASSUME NEW r \in Readers, WriteFails(r) PROVE Swept'
  BY <1>a, <1>c, <1>15 DEF TypeOK, WriteFails, Goto
<1>16. ASSUME NEW r \in Readers, WriteSucceeds(r) PROVE Swept'
  BY <1>a, <1>c, <1>16 DEF TypeOK, WriteSucceeds, Goto
<1>17. ASSUME NEW r \in Readers, RangeEnd(r) PROVE Swept'
  BY <1>a, <1>c, <1>17 DEF TypeOK, RangeEnd, Goto
<1>18. ASSUME NEW w \in Writers, WriterLoad(w) PROVE Swept'
  BY <1>a, <1>c, <1>18 DEF TypeOK, WriterLoad, Goto
<1>19. ASSUME NEW w \in Writers, WriterCreate(w) PROVE Swept'
  BY <1>a, <1>c, <1>19 DEF TypeOK, WriterCreate, Goto, Finish
<1>20. ASSUME NEW w \in Writers, AddWriter(w) PROVE Swept'
  BY <1>a, <1>c, <1>20 DEF TypeOK, AddWriter, Goto, Finish
<1>21. ASSUME NEW k \in Keys, SweepVisit(k) PROVE Swept'
  <2>1. PICK alive \in BOOLEAN :
          /\ sweep' = [pc |-> "writers", key |-> k, s |-> streams[k],
                       n |-> IF (rd[streams[k]] # None /\ isStart[streams[k]]) /\ alive THEN 1 ELSE 0]
          /\ closed' = IF (rd[streams[k]] # None /\ isStart[streams[k]]) /\ ~alive
                       THEN closed \cup {rd[streams[k]]} ELSE closed
    BY <1>21 DEF SweepVisit
  <2>2. sweep'.pc = "writers" /\ sweep'.key = k /\ sweep'.s = streams[k]
    BY <2>1
  <2>3. UNCHANGED <<streams, pc, cur, isStart, rd, ws, stale>> /\ streams[k] # None
    BY <1>21 DEF SweepVisit
  <2>4. ASSUME ~joined', k \notin stale, sweep'.n = 0, NEW r \in Readers \ closed',
               pc[r] \in Running, cur[r] = streams[k]
        PROVE  FALSE
    <3>1. r \notin closed /\ closed \subseteq closed'
      BY <2>1, <2>4
    <3>2. KeyOf[r] = k /\ streams[k] \in Conns
      BY <1>a, <1>c, <2>3, <2>4 DEF TypeOK
    <3>3. rd[streams[k]] = r /\ isStart[streams[k]] /\ r # None
      BY <1>c, <2>4, <3>1, <3>2
    <3>4. QED
      BY <2>1, <2>4, <3>3
  <2>5. joined' \/ (\A x \in Conns : KeyOf[x] = k => pc[x] \notin Registering)
    BY <1>21 DEF SweepVisit
  <2>6. QED
    BY <2>2, <2>3, <2>4, <2>5
<1>22. ASSUME SweepWriters PROVE Swept'
  BY <1>a, <1>b, <1>c, <1>22 DEF ClosesOnly, Counts
<1>23. ASSUME SweepDelete PROVE Swept'
  BY <1>a, <1>c, <1>23 DEF TypeOK, SweepDelete, Idle
<1>24. ASSUME NEW k \in Keys, ApiLoad(k) PROVE Swept'
  BY <1>a, <1>c, <1>24 DEF TypeOK, ApiLoad
<1>25. ASSUME ApiStop PROVE Swept'
  BY <1>a, <1>c, <1>25 DEF TypeOK, ApiStop, StopReader
<1>26. ASSUME ApiClear PROVE Swept'
  BY <1>a, <1>c, <1>26 DEF TypeOK, ApiClear
<1>27. ASSUME ApiClose PROVE Swept'
  BY <1>a, <1>b, <1>c, <1>27 DEF ClosesOnly, ApiClose, Idle
<1>28. ASSUME NEW x \in Conns, Disconnect(x) PROVE Swept'
  BY <1>a, <1>c, <1>28 DEF TypeOK, Disconnect
<1>29. QED
  BY <1>1, <1>2, <1>3, <1>4, <1>5, <1>6, <1>7, <1>8, <1>9, <1>10, <1>11, <1>12, <1>12b, <1>13,
     <1>14, <1>15, <1>16, <1>17, <1>18, <1>19, <1>20, <1>21, <1>22, <1>23, <1>24,
     <1>25, <1>26, <1>27, <1>28
     DEF Next, HandleReader, Transfer, HandleWriter, CheckAlive, HandleDelete

\* A writer changes its Stream only by a step of the copy, which visits all of them.
LEMMA ListedStep == HubInv /\ Next => Listed'
<1> SUFFICES ASSUME HubInv, Next PROVE Listed'
  OBVIOUS
<1>a. TypeOK /\ LocalsDefined /\ SameKey /\ Fresh
  BY DEF HubInv
<1>b. (SweepWriters => Counts) /\ (ApiClose => ClosesOnly)
  BY <1>a, SweepWritersCount, ApiCloseEffect
<1>c. Listed /\ Registered /\ Fresh /\ SameKey /\ Swept
  BY DEF HubInv
<1> USE HubAssumption DEF Conns, Registering, Running, Active, Copying, Unborn, Serving,
      shared, locals, rest, others, history, Acts, Enters, LocalsDefined,
      Listed, Registered, Fresh, SameKey, Swept, Outdated, Copied
<1>1. ASSUME NEW r \in Readers, ReaderLoad(r) PROVE Listed'
  BY <1>a, <1>c, <1>1 DEF TypeOK, ReaderLoad, Goto
<1>2. ASSUME NEW r \in Readers, ReaderCreate(r) PROVE Listed'
  BY <1>a, <1>c, <1>2 DEF TypeOK, ReaderCreate, Goto
<1>3. ASSUME NEW r \in Readers, ReaderStop(r) PROVE Listed'
  BY <1>a, <1>c, <1>3 DEF TypeOK, ReaderStop, Goto, StopReader
<1>4. ASSUME NEW r \in Readers, ReaderClear(r) PROVE Listed'
  <2>1. Clears(r)
    BY <1>a, <1>4, ReaderClearEffect
  <2>2. QED
    BY <1>a, <1>c, <2>1 DEF Clears, Copied
<1>5. ASSUME NEW r \in Readers, NEW w \in Writers, CopyPick(r, w) PROVE Listed'
  <2>1. /\ pc[r] = "copy" /\ pc'[r] = "move" /\ at'[r] = w /\ todo'[r] = todo[r] \ {w}
        /\ w \in ws[cur[r]] /\ cur[r] \in Conns
        /\ \A x \in Conns \ {r} : pc'[x] = pc[x]
        /\ \A x \in Readers \ {r} : at'[x] = at[x] /\ todo'[x] = todo[x]
        /\ UNCHANGED <<streams, ws, cur, stale>>
    BY <1>a, <1>5 DEF TypeOK, CopyPick, Goto
  <2>k. KeyOf[w] = KeyOf[r]
    BY <1>a, <2>1, HubAssumption DEF SameKey
  <2>2. \A s \in Conns : ws[s] \subseteq Writers
    BY <1>a DEF TypeOK
  <2>3. \A s \in Conns : \A v \in ws[s] : KeyOf[v] \notin stale =>
          s = streams[KeyOf[v]] \/ (s \in Readers /\ pc'[s] \in Copying)
    BY <1>c, <2>1, <2>2
  <2>4. \A q \in Readers : (KeyOf[q] \notin stale /\ pc'[q] = "copy") => ws[cur[q]] \subseteq todo'[q]
    BY <1>c, <2>1
  <2>5. ASSUME NEW q \in Readers, KeyOf[q] \notin stale, pc'[q] = "move"
        PROVE  /\ ws[cur[q]] \subseteq todo'[q] \cup {at'[q]}
               /\ \A t \in Conns : at'[q] \in ws[t] => t = cur[q]
    <3>1. CASE q = r
      BY <1>a, <1>c, <2>1, <2>k, <2>5, <3>1
    <3>2. CASE q # r
      BY <1>c, <2>1, <2>5, <3>2
    <3>3. QED
      BY <3>1, <3>2
  <2>6. \A q, p \in Readers :
          (KeyOf[q] \notin stale /\ pc'[q] \in Copying /\ pc'[p] \in Copying /\ cur[q] = cur[p]) => q = p
    BY <1>c, <2>1
  <2>7. ASSUME NEW q \in Readers, NEW p \in Readers, KeyOf[q] \notin stale,
               pc'[q] = "move", pc'[p] = "move", at'[q] = at'[p]
        PROVE  q = p
    <3>1. CASE q = r /\ p # r
      <4>1. pc[p] = "move" /\ at[p] = w /\ at[p] \in Writers
        BY <1>a, <1>c, <2>1, <2>k, <2>7, <3>1
      <4>2. KeyOf[p] = KeyOf[w] /\ p \in Conns /\ r \in Conns
        BY <1>a, <1>c, <4>1
      <4>3. w \in ws[cur[r]] => cur[r] = cur[p]
        BY <1>a, <1>c, <2>1, <2>k, <2>7, <3>1, <4>1, <4>2
      <4>4. QED
        BY <1>a, <1>c, <2>1, <2>k, <2>7, <3>1, <4>1, <4>2, <4>3
    <3>2. CASE q # r /\ p = r
      <4>1. pc[q] = "move" /\ at[q] = w
        BY <2>1, <2>7, <3>2
      <4>2. cur[r] = cur[q]
        BY <1>a, <1>c, <2>1, <2>k, <2>7, <3>2, <4>1
      <4>3. QED
        BY <1>a, <1>c, <2>1, <2>k, <2>7, <3>2, <4>1, <4>2
    <3>3. CASE q # r /\ p # r
      BY <1>a, <1>c, <2>1, <2>k, <2>7, <3>3
    <3>4. QED
      BY <3>1, <3>2, <3>3
  <2>8. QED
    BY <1>c, <2>1, <2>3, <2>4, <2>5, <2>6, <2>7
<1>6. ASSUME NEW r \in Readers, CopyMove(r) PROVE Listed'
  <2>1. Moves(r)
    BY <1>a, <1>6, CopyMoveEffect
  <2>2. QED
    BY <1>a, <1>c, <2>1 DEF Moves
<1>7. ASSUME NEW r \in Readers, CopyStore(r) PROVE Listed'
  BY <1>a, <1>c, <1>7 DEF TypeOK, CopyStore, Goto
<1>8. ASSUME NEW r \in Readers, AddReader(r) PROVE Listed'
  BY <1>a, <1>c, <1>8 DEF TypeOK, AddReader, Goto
<1>9. ASSUME NEW r \in Readers, TransStart(r) PROVE Listed'
  BY <1>a, <1>c, <1>9 DEF TypeOK, TransStart, Goto
<1>10. ASSUME NEW r \in Readers, TransTop(r) PROVE Listed'
  <2>1. TopEnds(r)
    BY <1>a, <1>10, TransTopEffect
  <2>2. QED
    BY <1>a, <1>c, <2>1 DEF ClosesOnly, TopEnds
<1>11. ASSUME NEW r \in Readers, TransRead(r) PROVE Listed'
  BY <1>a, <1>c, <1>11 DEF TypeOK, TransRead, Goto
<1>12. ASSUME NEW r \in Readers, TransReadError(r) PROVE Listed'
  BY <1>a, <1>c, <1>12, CloseInterEffect DEF TypeOK, ClosesOnly, TransReadError, Goto
<1>12b. ASSUME NEW r \in Readers, TransReadBad(r) PROVE Listed'
  BY <1>a, <1>c, <1>12b, CloseInterEffect DEF TypeOK, ClosesOnly, TransReadBad, Goto
<1>13. ASSUME NEW r \in Readers, TransEnding(r) PROVE Listed'
  BY <1>a, <1>c, <1>13 DEF TypeOK, TransEnding, Goto, Finish
<1>14. ASSUME NEW r \in Readers, NEW w \in Writers, RangePick(r, w) PROVE Listed'
  BY <1>a, <1>c, <1>14 DEF TypeOK, RangePick, Goto
<1>15. ASSUME NEW r \in Readers, WriteFails(r) PROVE Listed'
  BY <1>a, <1>c, <1>15 DEF TypeOK, WriteFails, Goto
<1>16. ASSUME NEW r \in Readers, WriteSucceeds(r) PROVE Listed'
  BY <1>a, <1>c, <1>16 DEF TypeOK, WriteSucceeds, Goto
<1>17. ASSUME NEW r \in Readers, RangeEnd(r) PROVE Listed'
  BY <1>a, <1>c, <1>17 DEF TypeOK, RangeEnd, Goto
<1>18. ASSUME NEW w \in Writers, WriterLoad(w) PROVE Listed'
  BY <1>a, <1>c, <1>18 DEF TypeOK, WriterLoad, Goto
<1>19. ASSUME NEW w \in Writers, WriterCreate(w) PROVE Listed'
  BY <1>a, <1>c, <1>19 DEF TypeOK, WriterCreate, Goto, Finish
<1>20. ASSUME NEW w \in Writers, AddWriter(w) PROVE Listed'
  BY <1>a, <1>c, <1>20 DEF TypeOK, AddWriter, Goto, Finish
<1>21. ASSUME NEW k \in Keys, SweepVisit(k) PROVE Listed'
  BY <1>a, <1>c, <1>21 DEF TypeOK, SweepVisit
<1>22. ASSUME SweepWriters PROVE Listed'
  BY <1>a, <1>b, <1>c, <1>22 DEF ClosesOnly, Counts
<1>23. ASSUME SweepDelete PROVE Listed'
  BY <1>a, <1>c, <1>23 DEF TypeOK, SweepDelete, Idle
<1>24. ASSUME NEW k \in Keys, ApiLoad(k) PROVE Listed'
  BY <1>a, <1>c, <1>24 DEF TypeOK, ApiLoad
<1>25. ASSUME ApiStop PROVE Listed'
  BY <1>a, <1>c, <1>25 DEF TypeOK, ApiStop, StopReader
<1>26. ASSUME ApiClear PROVE Listed'
  BY <1>a, <1>c, <1>26 DEF TypeOK, ApiClear
<1>27. ASSUME ApiClose PROVE Listed'
  BY <1>a, <1>b, <1>c, <1>27 DEF ClosesOnly, ApiClose, Idle
<1>28. ASSUME NEW x \in Conns, Disconnect(x) PROVE Listed'
  BY <1>a, <1>c, <1>28 DEF TypeOK, Disconnect
<1>29. QED
  BY <1>1, <1>2, <1>3, <1>4, <1>5, <1>6, <1>7, <1>8, <1>9, <1>10, <1>11, <1>12, <1>12b, <1>13,
     <1>14, <1>15, <1>16, <1>17, <1>18, <1>19, <1>20, <1>21, <1>22, <1>23, <1>24,
     <1>25, <1>26, <1>27, <1>28
     DEF Next, HandleReader, Transfer, HandleWriter, CheckAlive, HandleDelete

\* A round of the transfer goroutine reaches every writer in the table.
LEMMA UpToDateStep == HubInv /\ Next => UpToDate'
<1> SUFFICES ASSUME HubInv, Next PROVE UpToDate'
  OBVIOUS
<1>a. TypeOK /\ LocalsDefined /\ SameKey /\ Fresh
  BY DEF HubInv
<1>b. (SweepWriters => Counts) /\ (ApiClose => ClosesOnly)
  BY <1>a, SweepWritersCount, ApiCloseEffect
<1>c. UpToDate /\ Registered /\ OneReader /\ Fresh /\ SameKey
  BY DEF HubInv
<1> USE HubAssumption DEF Conns, Registering, Running, Active, Copying, Unborn, Serving,
      shared, locals, rest, others, history, Acts, Enters, LocalsDefined,
      UpToDate, Registered, OneReader, Fresh, SameKey
<1>1. ASSUME NEW r \in Readers, ReaderLoad(r) PROVE UpToDate'
  BY <1>a, <1>c, <1>1 DEF TypeOK, ReaderLoad, Goto
<1>2. ASSUME NEW r \in Readers, ReaderCreate(r) PROVE UpToDate'
  BY <1>a, <1>c, <1>2 DEF TypeOK, ReaderCreate, Goto
<1>3. ASSUME NEW r \in Readers, ReaderStop(r) PROVE UpToDate'
  BY <1>a, <1>c, <1>3 DEF TypeOK, ReaderStop, Goto, StopReader
<1>4. ASSUME NEW r \in Readers, ReaderClear(r) PROVE UpToDate'
  <2>1. Clears(r)
    BY <1>a, <1>4, ReaderClearEffect
  <2>2. QED
    BY <1>a, <1>c, <2>1 DEF Clears, Copied
<1>5. ASSUME NEW r \in Readers, NEW w \in Writers, CopyPick(r, w) PROVE UpToDate'
  BY <1>a, <1>c, <1>5 DEF TypeOK, CopyPick, Goto
<1>6. ASSUME NEW r \in Readers, CopyMove(r) PROVE UpToDate'
  <2>1. Moves(r)
    BY <1>a, <1>6, CopyMoveEffect
  <2>2. UNCHANGED <<closed, cur, todo, pkt, sent, seen, stale>>
    BY <2>1 DEF Moves
  <2>3. ASSUME NEW q \in Readers, NEW w \in Writers, pc'[q] \in Running \cup {"done"}
        PROVE  pc'[q] = pc[q] /\ at'[q] = at[q] /\ q # r
    BY <2>1, <2>3 DEF Moves
  <2>4. \A q \in Readers : pc[q] \in Running => cur[q] \in Conns /\ cur[q] # r
    BY <1>a, <1>c, <2>1 DEF Moves
  <2>5. \A q \in Readers : pc[q] \in Running => ws'[cur[q]] \subseteq ws[cur[q]]
    BY <2>1, <2>4 DEF Moves
  <2>6. \A w \in Writers : pc[w] = "done" => pc'[w] = "done"
    BY <2>1 DEF Moves
  <2>7. \A q \in Readers : pc[q] \in Running \cup {"done"} => pc'[q] = pc[q] /\ q # r
    BY <2>1 DEF Moves
  <2>8. ASSUME NEW q \in Readers, NEW w \in Writers \ closed, KeyOf[q] \notin stale, seen[q][w] # 0
        PROVE  /\ (pc'[q] = "write" /\ at'[q] = w) => seen[q][w] + 1 = sent[q]
               /\ (pc'[q] \in {"range", "write"} /\ w \in ws'[cur[q]] \cap todo[q])
                     => seen[q][w] + 1 = sent[q]
               /\ (pc'[q] \in Serving /\ w \in ws'[cur[q]]
                     /\ ~(pc'[q] \in {"range", "write"} /\ w \in todo[q])
                     /\ ~(pc'[q] = "write" /\ at'[q] = w))
                    => seen[q][w] = sent[q]
    <3>1. pc'[q] \in Running => pc'[q] = pc[q] /\ at'[q] = at[q] /\ ws'[cur[q]] \subseteq ws[cur[q]]
      BY <2>3, <2>5
    <3>2. QED
      BY <1>c, <2>8, <3>1
  <2>9. ASSUME NEW q \in Readers, KeyOf[q] \notin stale, pc'[q] \in {"range", "write"}
        PROVE  pkt[q] = <<q, sent[q]>>
    <3>1. pc'[q] = pc[q]
      BY <2>1, <2>9 DEF Moves
    <3>2. QED
      BY <1>c, <2>9, <3>1
  <2>10. \A q \in Readers, w \in Writers : (KeyOf[q] \notin stale /\ seen[q][w] # 0) =>
            pc'[w] = "done" /\ pc'[q] \in Running \cup {"done"}
    BY <1>c, <2>6, <2>7
  <2>11. QED
    BY <2>2, <2>8, <2>9, <2>10
<1>7. ASSUME NEW r \in Readers, CopyStore(r) PROVE UpToDate'
  BY <1>a, <1>c, <1>7 DEF TypeOK, CopyStore, Goto
<1>8. ASSUME NEW r \in Readers, AddReader(r) PROVE UpToDate'
  BY <1>a, <1>c, <1>8 DEF TypeOK, AddReader, Goto
<1>9. ASSUME NEW r \in Readers, TransStart(r) PROVE UpToDate'
  BY <1>a, <1>c, <1>9 DEF TypeOK, TransStart, Goto
<1>10. ASSUME NEW r \in Readers, TransTop(r) PROVE UpToDate'
  <2>1. TopEnds(r)
    BY <1>a, <1>10, TransTopEffect
  <2>2. QED
    BY <1>a, <1>c, <2>1 DEF ClosesOnly, TopEnds
<1>11. ASSUME NEW r \in Readers, TransRead(r) PROVE UpToDate'
  <2>1. PICK p \in Readers : p = rd[cur[r]]
    BY <1>11 DEF TransRead
  <2>2. /\ pc[r] = "read" /\ pc'[r] = "range" /\ cur[r] \in Conns
        /\ pkt'[r] = <<p, sent[p] + 1>> /\ sent'[p] = sent[p] + 1 /\ todo'[r] = ws[cur[r]]
        /\ \A x \in Conns \ {r} : pc'[x] = pc[x]
        /\ \A x \in Readers \ {r} : pkt'[x] = pkt[x] /\ todo'[x] = todo[x]
        /\ \A x \in Readers \ {p} : sent'[x] = sent[x]
        /\ UNCHANGED <<ws, cur, at, closed, seen, stale>>
    BY <1>a, <1>c, <1>11, <2>1 DEF TypeOK, TransRead, Goto
  <2>3. KeyOf[r] \notin stale => p = r
    BY <1>c, <2>1, <2>2
  <2>4. KeyOf[p] = KeyOf[r]
    BY <1>c, <2>1, <2>2
  <2>5. ASSUME NEW q \in Readers, KeyOf[q] \notin stale
        PROVE  q = r \/ (sent'[q] = sent[q] /\ q # r)
    BY <2>2, <2>3, <2>4, <2>5
  <2>6. ASSUME NEW q \in Readers, NEW w \in Writers \ closed, KeyOf[q] \notin stale, seen[q][w] # 0
        PROVE  /\ (pc'[q] = "write" /\ at[q] = w) => seen[q][w] + 1 = sent'[q]
               /\ (pc'[q] \in {"range", "write"} /\ w \in ws[cur[q]] \cap todo'[q])
                     => seen[q][w] + 1 = sent'[q]
               /\ (pc'[q] \in Serving /\ w \in ws[cur[q]]
                     /\ ~(pc'[q] \in {"range", "write"} /\ w \in todo'[q])
                     /\ ~(pc'[q] = "write" /\ at[q] = w))
                    => seen[q][w] = sent'[q]
    <3>1. CASE q = r
      <4>1. w \in ws[cur[r]] => seen[r][w] = sent[r]
        BY <1>c, <2>2, <2>6, <3>1
      <4>2. sent'[r] = sent[r] + 1
        BY <2>2, <2>3, <2>6, <3>1
      <4>3. QED
        BY <2>2, <3>1, <4>1, <4>2
    <3>2. CASE q # r
      BY <1>c, <2>2, <2>5, <2>6, <3>2
    <3>3. QED
      BY <3>1, <3>2
  <2>7. \A q \in Readers : (KeyOf[q] \notin stale /\ pc'[q] \in {"range", "write"})
            => pkt'[q] = <<q, sent'[q]>>
    BY <1>c, <2>2, <2>3, <2>5
  <2>8. \A q \in Readers, w \in Writers : (KeyOf[q] \notin stale /\ seen[q][w] # 0)
            => pc'[w] = "done" /\ pc'[q] \in Running \cup {"done"}
    BY <1>c, <2>2
  <2>9. QED
    BY <2>2, <2>6, <2>7, <2>8
<1>12. ASSUME NEW r \in Readers, TransReadError(r) PROVE UpToDate'
  BY <1>a, <1>c, <1>12, CloseInterEffect DEF TypeOK, ClosesOnly, TransReadError, Goto
<1>12b. ASSUME NEW r \in Readers, TransReadBad(r) PROVE UpToDate'
  BY <1>a, <1>c, <1>12b, CloseInterEffect DEF TypeOK, ClosesOnly, TransReadBad, Goto
<1>13. ASSUME NEW r \in Readers, TransEnding(r) PROVE UpToDate'
  BY <1>a, <1>c, <1>13 DEF TypeOK, TransEnding, Goto, Finish
<1>14. ASSUME NEW r \in Readers, NEW w \in Writers, RangePick(r, w) PROVE UpToDate'
  BY <1>a, <1>c, <1>14 DEF TypeOK, RangePick, Goto
<1>15. ASSUME NEW r \in Readers, WriteFails(r) PROVE UpToDate'
  BY <1>a, <1>c, <1>15 DEF TypeOK, WriteFails, Goto
<1>16. ASSUME NEW r \in Readers, WriteSucceeds(r) PROVE UpToDate'
  <2>1. PICK p \in Readers, n \in Nat : pkt[r] = <<p, n>>
    <3>1. pkt[r] \in (Readers \cup {None}) \X Nat
      BY <1>a DEF TypeOK
    <3>2. pkt[r][1] \in Readers
      BY <1>a, <1>16 DEF WriteSucceeds
    <3>3. QED
      BY <3>1, <3>2
  <2>2. PICK v \in Writers : v = at[r]
    BY <1>a, <1>16 DEF WriteSucceeds
  <2>3. /\ pc[r] = "write" /\ pc'[r] = "range" /\ cur[r] \in Conns
        /\ \A x \in Conns \ {r} : pc'[x] = pc[x]
        /\ \A x \in Readers \ {r} : at'[x] = at[x]
        /\ UNCHANGED <<ws, cur, todo, pkt, sent, closed, stale>>
    BY <1>a, <1>c, <1>16 DEF TypeOK, WriteSucceeds, Goto
  <2>4. seen' = IF v \in closed THEN seen ELSE [seen EXCEPT ![p][v] = n]
    BY <1>16, <2>1, <2>2 DEF WriteSucceeds
  <2>5. /\ v \notin closed => seen'[p][v] = n
        /\ \A x \in Readers, w \in Writers : (x # p \/ w # v \/ v \in closed) => seen'[x][w] = seen[x][w]
    BY <1>a, <2>4 DEF TypeOK
  <2>6. KeyOf[r] \notin stale => p = r /\ n = sent[r]
    BY <1>c, <2>1, <2>3
  <2>7. KeyOf[p] = KeyOf[r] /\ pc[v] = "done" /\ v \notin todo[r] /\ v # r
    BY <1>c, <2>1, <2>2, <2>3
  <2>8. \A q \in Readers, w \in Writers :
           (KeyOf[q] \notin stale /\ (q # r \/ w # v)) => seen'[q][w] = seen[q][w]
    BY <2>5, <2>6, <2>7
  <2>9. ASSUME NEW q \in Readers, NEW w \in Writers \ closed, KeyOf[q] \notin stale, seen'[q][w] # 0
        PROVE  /\ (pc'[q] = "write" /\ at'[q] = w) => seen'[q][w] + 1 = sent[q]
               /\ (pc'[q] \in {"range", "write"} /\ w \in ws[cur[q]] \cap todo[q])
                     => seen'[q][w] + 1 = sent[q]
               /\ (pc'[q] \in Serving /\ w \in ws[cur[q]]
                     /\ ~(pc'[q] \in {"range", "write"} /\ w \in todo[q])
                     /\ ~(pc'[q] = "write" /\ at'[q] = w))
                    => seen'[q][w] = sent[q]
    <3>1. CASE q = r /\ w = v
      <4>1. seen'[r][v] = sent[r]
        BY <2>5, <2>6, <2>9, <3>1
      <4>2. QED
        BY <2>3, <2>7, <3>1, <4>1
    <3>2. CASE q = r /\ w # v
      <4>1. seen'[q][w] = seen[q][w]
        BY <2>8, <2>9, <3>2
      <4>2. QED
        BY <1>c, <2>2, <2>3, <2>9, <3>2, <4>1
    <3>3. CASE q # r
      <4>1. seen'[q][w] = seen[q][w] /\ pc'[q] = pc[q] /\ at'[q] = at[q]
        BY <2>3, <2>8, <2>9, <3>3
      <4>2. QED
        BY <1>c, <2>9, <4>1
    <3>4. QED
      BY <3>1, <3>2, <3>3
  <2>10. ASSUME NEW q \in Readers, NEW w \in Writers, KeyOf[q] \notin stale, seen'[q][w] # 0
         PROVE  pc'[w] = "done" /\ pc'[q] \in Running \cup {"done"}
    <3>1. CASE q = r /\ w = v
      BY <2>3, <2>7, <3>1
    <3>2. CASE q # r \/ w # v
      BY <1>c, <2>3, <2>8, <2>10, <3>2
    <3>3. QED
      BY <3>1, <3>2
  <2>11. \A q \in Readers : (KeyOf[q] \notin stale /\ pc'[q] \in {"range", "write"})
            => pkt[q] = <<q, sent[q]>>
    BY <1>c, <2>3
  <2>12. QED
    BY <2>3, <2>9, <2>10, <2>11
<1>17. ASSUME NEW r \in Readers, RangeEnd(r) PROVE UpToDate'
  BY <1>a, <1>c, <1>17 DEF TypeOK, RangeEnd, Goto
<1>18. ASSUME NEW w \in Writers, WriterLoad(w) PROVE UpToDate'
  BY <1>a, <1>c, <1>18 DEF TypeOK, WriterLoad, Goto
<1>19. ASSUME NEW w \in Writers, WriterCreate(w) PROVE UpToDate'
  BY <1>a, <1>c, <1>19 DEF TypeOK, WriterCreate, Goto, Finish
<1>20. ASSUME NEW w \in Writers, AddWriter(w) PROVE UpToDate'
  BY <1>a, <1>c, <1>20 DEF TypeOK, AddWriter, Goto, Finish
<1>21. ASSUME NEW k \in Keys, SweepVisit(k) PROVE UpToDate'
  BY <1>a, <1>c, <1>21 DEF TypeOK, SweepVisit
<1>22. ASSUME SweepWriters PROVE UpToDate'
  BY <1>a, <1>b, <1>c, <1>22 DEF ClosesOnly, Counts
<1>23. ASSUME SweepDelete PROVE UpToDate'
  BY <1>a, <1>c, <1>23 DEF TypeOK, SweepDelete, Idle
<1>24. ASSUME NEW k \in Keys, ApiLoad(k) PROVE UpToDate'
  BY <1>a, <1>c, <1>24 DEF TypeOK, ApiLoad
<1>25. ASSUME ApiStop PROVE UpToDate'
  BY <1>a, <1>c, <1>25 DEF TypeOK, ApiStop, StopReader
<1>26. ASSUME ApiClear PROVE UpToDate'
  BY <1>a, <1>c, <1>26 DEF TypeOK, ApiClear
<1>27. ASSUME ApiClose PROVE UpToDate'
  <2>1. ClosesOnly
    BY <1>b, <1>27
  <2>2. UNCHANGED <<pc, cur, todo, at, pkt, sent, seen, stale>>
    BY <1>27 DEF ApiClose
  <2>3. \A q \in Readers : pc[q] \in Running => cur[q] \in Conns
    BY <1>a
  <2>4. \A q \in Readers : pc[q] \in Running => ws'[cur[q]] \subseteq ws[cur[q]]
    BY <2>1, <2>3 DEF ClosesOnly
  <2>5. Writers \ closed' \subseteq Writers \ closed
    BY <2>1 DEF ClosesOnly
  <2>6. QED
    BY <1>c, <2>2, <2>4, <2>5
<1>28. ASSUME NEW x \in Conns, Disconnect(x) PROVE UpToDate'
  BY <1>a, <1>c, <1>28 DEF TypeOK, Disconnect
<1>29. QED
  BY <1>1, <1>2, <1>3, <1>4, <1>5, <1>6, <1>7, <1>8, <1>9, <1>10, <1>11, <1>12, <1>12b, <1>13,
     <1>14, <1>15, <1>16, <1>17, <1>18, <1>19, <1>20, <1>21, <1>22, <1>23, <1>24,
     <1>25, <1>26, <1>27, <1>28
     DEF Next, HandleReader, Transfer, HandleWriter, CheckAlive, HandleDelete

\* The invariant holds at the start.
LEMMA HubInit == Init => HubInv
<1> SUFFICES ASSUME Init PROVE HubInv
  OBVIOUS
<1>1. TypeOK /\ LocalsDefined /\ SameKey
  BY InitInv DEF IInv
<1> USE HubAssumption DEF Init, Conns, Idle, Registering, Running, Serving, Active, Unborn,
      Copying
<1>2. Fresh /\ Registered /\ OneReader
  BY DEF Fresh, Registered, OneReader
<1>3. Started /\ Held /\ Swept
  BY DEF Started, Held, Swept
<1>4. Listed
  BY DEF Listed
<1>5. UpToDate
  BY DEF UpToDate
<1>6. QED
  BY <1>1, <1>2, <1>3, <1>4, <1>5 DEF HubInv

\* Every step keeps it.
LEMMA HubStep == HubInv /\ [Next]_vars => HubInv'
<1> SUFFICES ASSUME HubInv, [Next]_vars PROVE HubInv'
  OBVIOUS
<1>1. CASE Next
  <2>1. TypeOK' /\ LocalsDefined' /\ SameKey'
    BY <1>1, TypeStep, LocalsStep, KeyStep DEF HubInv
  <2>2. QED
    BY <1>1, <2>1, FreshStep, RegisteredStep, OneReaderStep, StartedStep, HeldStep,
       SweptStep, ListedStep, UpToDateStep DEF HubInv
<1>2. CASE UNCHANGED vars
  <2> USE <1>2 DEF HubInv, vars, shared, locals, rest, others, history
  <2>1. TypeOK' /\ LocalsDefined' /\ SameKey'
    BY DEF TypeOK, LocalsDefined, SameKey
  <2>2. Fresh' /\ Registered' /\ OneReader'
    BY DEF Fresh, Registered, OneReader
  <2>3. Started' /\ Held' /\ Swept'
    BY DEF Started, Held, Swept, Outside
  <2>4. Listed' /\ UpToDate'
    BY DEF Listed, UpToDate
  <2>5. QED
    BY <2>1, <2>2, <2>3, <2>4
<1>3. QED
  BY <1>1, <1>2

\* It holds throughout.
LEMMA HubInvariance == Spec => []HubInv
BY HubInit, HubStep, PTL DEF Spec

\* In every interleaving an open publisher whose transfer goroutine runs is
\* the reader of the Stream the map holds, unless somebody acted on an
\* outdated finding in that room.
THEOREM NoPublisherLeaks == Spec => []NoLeakedPublisher
<1>1. HubInv => NoLeakedPublisher
  BY DEF HubInv, Held, OneReader, NoLeakedPublisher, Active, Running
<1>2. QED
  BY <1>1, HubInvariance, PTL

\* Neither takeovers, copies, sweeps nor deletions leave a registered writer
\* in a Stream that nobody can reach, or in two of them, with the same
\* exception.
THEOREM WritersStayReachable == Spec => []WritersReachable
<1>1. HubInv => WritersReachable
  <2> SUFFICES ASSUME HubInv, NEW w \in Writers, NEW s \in Conns, w \in ws[s],
                      KeyOf[w] \notin stale
               PROVE  /\ \A t \in Conns : w \in ws[t] => t = s
                      /\ Free(KeyOf[w]) => streams[KeyOf[w]] = s
    BY DEF WritersReachable
  <2>1. KeyOf[s] = KeyOf[w]
    BY DEF HubInv, SameKey
  <2>2. Free(KeyOf[w]) => pc[s] \notin {"copy", "move"}
    BY <2>1 DEF Free, Outside, Registering
  <2>3. QED
    BY <2>2 DEF HubInv, Listed, Copying
<1>2. QED
  BY <1>1, HubInvariance, PTL

\* The sweeper takes a room out of the map only when nobody uses it, unless a
\* handler was inside the room between its lookup and its Delete.
THEOREM RemovalsAreSafe == Spec => RemovalIsSafe
<1> DEFINE Safe == \A k \in Keys :
             (streams[k] # None /\ streams'[k] = None /\ k \notin stale /\ ~joined)
                => /\ ws[streams[k]] = {}
                   /\ \A r \in Readers \ closed : pc[r] \in Running => cur[r] # streams[k]
<1>1. HubInv /\ [Next]_vars => [Safe]_vars
  <2> SUFFICES ASSUME HubInv, Next, NEW k \in Keys, streams[k] # None, streams'[k] = None,
                      k \notin stale, ~joined
               PROVE  /\ ws[streams[k]] = {}
                      /\ \A r \in Readers \ closed : pc[r] \in Running => cur[r] # streams[k]
    OBVIOUS
  <2>1. CASE SweepDelete
    <3>1. sweep.pc = "delete" /\ sweep.n = 0 /\ sweep.key = k
      BY <2>1 DEF SweepDelete, HubInv, TypeOK
    <3>2. QED
      BY <3>1 DEF HubInv, Swept
  <2>2. CASE ~SweepDelete
    <3>1. streams' = streams \/ \E x \in Conns : streams' = [streams EXCEPT ![KeyOf[x]] = x]
      <4> USE DEF shared, Conns
      <4>1. ASSUME NEW r \in Readers, HandleReader(r)
            PROVE  streams' = streams \/ streams' = [streams EXCEPT ![KeyOf[r]] = r]
        BY <4>1 DEF HandleReader, ReaderLoad, ReaderCreate, ReaderStop, ReaderClear,
           CopyPick, CopyMove, CopyStore, AddReader
      <4>2. ASSUME NEW r \in Readers, Transfer(r) \/ TransReadBad(r) PROVE streams' = streams
        BY <4>2 DEF Transfer, TransStart, TransTop, TransRead, TransReadError, TransReadBad,
           TransEnding, RangePick, WriteFails, WriteSucceeds, RangeEnd
      <4>3. ASSUME NEW w \in Writers, HandleWriter(w)
            PROVE  streams' = streams \/ streams' = [streams EXCEPT ![KeyOf[w]] = w]
        BY <4>3 DEF HandleWriter, WriterLoad, WriterCreate, AddWriter
      <4>4. ASSUME CheckAlive PROVE streams' = streams
        BY <2>2, <4>4 DEF CheckAlive, SweepVisit, SweepWriters
      <4>5. ASSUME HandleDelete PROVE streams' = streams
        BY <4>5 DEF HandleDelete, ApiLoad, ApiStop, ApiClear, ApiClose
      <4>6. ASSUME NEW x \in Conns, Disconnect(x) PROVE streams' = streams
        BY <4>6 DEF Disconnect
      <4>7. QED
        BY <4>1, <4>2, <4>3, <4>4, <4>5, <4>6 DEF Next
    <3>2. QED
      BY <3>1, HubAssumption DEF HubInv, TypeOK
  <2>3. QED
    BY <2>1, <2>2
<1>2. QED
  BY <1>1, HubInvariance, PTL DEF Spec, RemovalIsSafe

\* A writer is handed the packets of one publisher without a gap, unless
\* somebody acted on an outdated finding in the room.
THEOREM DeliveryHasNoGap == Spec => GaplessDelivery
<1> DEFINE Gapless == \A r \in Readers, w \in Writers :
             (seen'[r][w] # seen[r][w] /\ seen[r][w] # 0 /\ KeyOf[r] \notin stale)
                => seen'[r][w] = seen[r][w] + 1
<1>1. HubInv /\ [Next]_vars => [Gapless]_vars
  <2> SUFFICES ASSUME HubInv, Next PROVE Gapless
    OBVIOUS
  <2>1. CASE seen' = seen
    BY <2>1
  <2>2. ASSUME NEW r \in Readers, WriteSucceeds(r) PROVE Gapless
    <3>1. pc[r] = "write" /\ at[r] \in Writers /\ pkt[r][1] \in Readers
      BY <2>2 DEF WriteSucceeds, HubInv, LocalsDefined
    <3>2. KeyOf[r] \notin stale => pkt[r] = <<r, sent[r]>>
      BY <3>1 DEF HubInv, UpToDate
    <3>3. KeyOf[pkt[r][1]] = KeyOf[r]
      BY <3>1, HubAssumption DEF HubInv, SameKey, Conns
    <3>4. \A q \in Readers, w \in Writers : seen'[q][w] # seen[q][w] =>
             q = pkt[r][1] /\ w = at[r] /\ w \notin closed /\ seen'[q][w] = pkt[r][2]
      BY <2>2, <3>1 DEF WriteSucceeds, HubInv, TypeOK
    <3>5. \A q \in Readers, w \in Writers :
             (seen'[q][w] # seen[q][w] /\ KeyOf[q] \notin stale) =>
                q = r /\ w = at[r] /\ w \notin closed /\ seen'[q][w] = sent[r]
      BY <3>2, <3>3, <3>4
    <3>6. QED
      BY <3>1, <3>5 DEF HubInv, UpToDate
  <2>3. QED
    BY <2>1, <2>2, SeenSteps
<1>2. QED
  BY <1>1, HubInvariance, PTL DEF Spec, GaplessDelivery
=============================================================================

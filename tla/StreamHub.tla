----------------------------- MODULE StreamHub -----------------------------
(***************************************************************************)
(* The stream hub of protocol/rtmp/stream.go: the sync.Map from room keys  *)
(* to Stream objects, and the goroutines that work on it at the same time: *)
(*   - one connection handler per publisher   (HandleReader),              *)
(*   - one connection handler per player or recorder (HandleWriter),       *)
(*   - one transfer goroutine per publisher    (TransStart),               *)
(*   - the sweeper, every 5 seconds            (CheckAlive),               *)
(*   - the HTTP control API's room deletion    (handleDelete).             *)
(*                                                                         *)
(* A step is one access to shared state: a Load, Store, Delete or Range    *)
(* visit of a sync.Map, or a read or write of Stream.isStart / Stream.r.   *)
(* A handler creates at most one Stream, so a Stream is named by the       *)
(* connection whose handler created it.                                    *)
(***************************************************************************)
EXTENDS Naturals, FiniteSets

CONSTANTS Readers,     \* publisher connections (VirReader), one UID each
          Writers,     \* player and recorder connections (VirWriter, FLVWriter)
          Archivers,   \* the writers that are FLV recorders: Info().Inter is false
          Keys,        \* room keys "app/name"
          KeyOf,       \* the key in a connection's URL
          None,        \* nil
          MaxPkts,     \* bound: packets one publisher sends
          MaxDeletes   \* bound: calls of the API's delete

Conns == Readers \cup Writers

ASSUME HubAssumption ==
    /\ Readers \cap Writers = {}
    /\ Archivers \subseteq Writers
    /\ KeyOf \in [Conns -> Keys]
    /\ None \notin Conns \cup Keys
    /\ MaxPkts \in Nat
    /\ MaxDeletes \in Nat

VARIABLES
    streams,   \* RtmpStream.streams
    isStart,   \* Stream.isStart
    rd,        \* Stream.r
    ws,        \* Stream.ws
    init,      \* the writers whose PackWriterCloser in Stream.ws has init = true
    pc,        \* control point of a connection's handler, then of its TransStart
    cur,       \* that goroutine's Stream: the local variable, then the receiver
    todo,      \* keys a running ws.Range has still to visit
    at,        \* the entry ws.Range has loaded for the callback in progress
    pkt,       \* the packet TransStart has read: <<publisher, number>>
    closed,    \* connections that are closed
    sweep,     \* the sweeper's control point and locals
    api,       \* the delete handler's control point and locals; n counts its calls
    sent,      \* sent[r]: packets read from publisher r so far
    seen,      \* history: seen[r][w] is the last packet of r handed to w
    crashed,   \* an unrecovered panic has ended the process
    stale,     \* history: keys on which somebody acted on an outdated finding
    joined     \* history: a handler was inside the room during the sweep's visit

shared == <<streams, isStart, rd, ws, init, closed, crashed>>
locals == <<todo, at, pkt>>
others == <<sweep, api, sent, seen>>
history == <<stale, joined>>
rest == <<others, history>>
vars == <<shared, pc, cur, locals, rest>>

NoPkt == <<None, 0>>
Idle == [pc |-> "idle", key |-> None, s |-> None, n |-> 0]

Registering == {"stop", "clear", "copy", "move", "create", "add", "start"}
Running == {"top", "read", "range", "write", "ending"}
Serving == Running \ {"ending"}
HandlerPc == {"new", "done"} \cup Registering \cup Running

\* The state has its types; a Stream's reader is a publisher or nil, its
\* writers are players.
TypeOK ==
    /\ streams \in [Keys -> Conns \cup {None}]
    /\ isStart \in [Conns -> BOOLEAN]
    /\ rd \in [Conns -> Readers \cup {None}]
    /\ ws \in [Conns -> SUBSET Writers]
    /\ init \in [Conns -> SUBSET Writers]
    /\ pc \in [Conns -> HandlerPc]
    /\ cur \in [Conns -> Conns \cup {None}]
    /\ todo \in [Readers -> SUBSET Writers]
    /\ at \in [Readers -> Writers \cup {None}]
    /\ pkt \in [Readers -> (Readers \cup {None}) \X Nat]
    /\ closed \subseteq Conns
    /\ sweep \in [pc : {"idle", "writers", "delete"}, key : Keys \cup {None},
                  s : Conns \cup {None}, n : 0..1]
    /\ api \in [pc : {"idle", "stop", "clear", "close"}, key : Keys \cup {None},
                s : Conns \cup {None}, n : 0..MaxDeletes]
    /\ sent \in [Readers -> 0..MaxPkts]
    /\ seen \in [Readers -> [Writers -> Nat]]
    /\ crashed \in BOOLEAN
    /\ stale \subseteq Keys
    /\ joined \in BOOLEAN

Init ==
    /\ streams = [k \in Keys |-> None]
    /\ isStart = [s \in Conns |-> FALSE]
    /\ rd = [s \in Conns |-> None]
    /\ ws = [s \in Conns |-> {}]
    /\ init = [s \in Conns |-> {}]
    /\ pc = [x \in Conns |-> "new"]
    /\ cur = [x \in Conns |-> None]
    /\ todo = [r \in Readers |-> {}]
    /\ at = [r \in Readers |-> None]
    /\ pkt = [r \in Readers |-> NoPkt]
    /\ closed = {}
    /\ sweep = Idle
    /\ api = Idle
    /\ sent = [r \in Readers |-> 0]
    /\ seen = [r \in Readers |-> [w \in Writers |-> 0]]
    /\ crashed = FALSE
    /\ stale = {}
    /\ joined = FALSE

Goto(x, l) == pc' = [pc EXCEPT ![x] = l]

\* The goroutine of x returns; its locals are gone.
Finish(x) == Goto(x, "done") /\ cur' = [cur EXCEPT ![x] = None]

\* No handler of key k, and no operation on it, is between its lookup and its end.
Outside(k) == \A x \in Conns : KeyOf[x] = k => pc[x] \notin Registering
Free(k) == Outside(k) /\ sweep.key # k /\ api.key # k

(* What a handler, the sweeper or the API finds in a map or a field it     *)
(* acts on several steps later: there is no lock.  stale collects the keys *)
(* on which another goroutine had changed the finding by then.             *)
Acts(k, changed) == stale' = IF changed THEN stale \cup {k} ELSE stale

\* A handler begins on key k, during the sweeper's visit or not.
Enters(k) == joined' = (joined \/ sweep.key = k)

\* The map no longer holds the Stream that x looked up or stored itself.
Outdated(x) == streams[KeyOf[x]] # cur[x]

\* A Copy of Stream s is under way.
Copied(s) == \E r \in Readers : pc[r] \in {"copy", "move"} /\ cur[r] = s

\* A TransStop of s is between its test and its assignment, or its Copy follows.
Stopping(s) ==
    \/ \E r \in Readers : pc[r] \in {"clear", "copy", "move"} /\ cur[r] = s
    \/ api.pc = "clear" /\ api.s = s

-----------------------------------------------------------------------------
(* Closing writers.  VirWriter.Close does nothing the second time;         *)
(* FLVWriter.Close closes its channel without a test, and panics.          *)

ClosedTwice(W) == W \cap Archivers \cap closed # {}

\* closeInter: close every registered writer, forget those that are interval.
CloseInter(s) ==
    IF ClosedTwice(ws[s])
    THEN crashed' = TRUE /\ UNCHANGED <<closed, ws>>
    ELSE /\ closed' = closed \cup ws[s]
         /\ ws' = [ws EXCEPT ![s] = @ \cap Archivers]
         /\ UNCHANGED crashed

\* Mutants: the nil test is dropped; the old connection is not closed.
StopReader_NoNilTest(s) == closed' = closed \cup {rd[s]}
StopReader_NoClose(s) == UNCHANGED closed

\* TransStop, the test and the close; the assignment to isStart is a second step.
StopReader(s) ==
    closed' = closed \cup (IF isStart[s] THEN {rd[s]} \ {None} ELSE {})

-----------------------------------------------------------------------------
(* HandleReader, run by the connection goroutine of publisher r.           *)

ReaderLoad(r) ==
    /\ pc[r] = "new"
    /\ cur' = [cur EXCEPT ![r] = streams[KeyOf[r]]]
    /\ Goto(r, IF streams[KeyOf[r]] = None THEN "create" ELSE "stop")
    /\ Enters(KeyOf[r])
    /\ UNCHANGED <<shared, locals, others, stale>>

\* The key is not in the map: a new Stream is stored under it.
ReaderCreate(r) ==
    /\ pc[r] = "create"
    /\ streams' = [streams EXCEPT ![KeyOf[r]] = r]
    /\ cur' = [cur EXCEPT ![r] = r]
    /\ Goto(r, "add")
    /\ Acts(KeyOf[r], Outdated(r))
    /\ UNCHANGED <<isStart, rd, ws, init, closed, crashed, locals, others, joined>>

ReaderStop(r) ==
    /\ pc[r] = "stop"
    /\ StopReader(cur[r])
    /\ Goto(r, "clear")
    /\ UNCHANGED <<streams, isStart, rd, ws, init, crashed, cur, locals, rest>>

\* isStart = false, then the test of ID(): a Stream that never had a
\* publisher is taken over as it is, any other one is copied.
ReaderClear(r) ==
    /\ pc[r] = "clear"
    /\ isStart' = [isStart EXCEPT ![cur[r]] = FALSE]
    /\ IF rd[cur[r]] \in {None, r}
       THEN Goto(r, "add") /\ UNCHANGED todo
       ELSE Goto(r, "copy") /\ todo' = [todo EXCEPT ![r] = ws[cur[r]]]
    /\ Acts(KeyOf[r], Copied(cur[r]))
    /\ UNCHANGED <<streams, rd, ws, init, closed, crashed, cur, at, pkt, others, joined>>

\* Copy: Range loads an entry of the old Stream ...
CopyPick(r, w) ==
    /\ pc[r] = "copy"
    /\ w \in todo[r] \cap ws[cur[r]]
    /\ at' = [at EXCEPT ![r] = w]
    /\ todo' = [todo EXCEPT ![r] = @ \ {w}]
    /\ Goto(r, "move")
    /\ UNCHANGED <<shared, cur, pkt, rest>>

\* Mutant: the entry stays in the old Stream.
CopyMove_NoDelete(r) ==
    /\ pc[r] = "move"
    /\ ws' = [ws EXCEPT ![r] = @ \cup {at[r]}]
    /\ at' = [at EXCEPT ![r] = None]
    /\ Goto(r, "copy")
    /\ UNCHANGED <<streams, isStart, rd, init, closed, crashed, cur, todo, pkt, rest>>

\* ... and the callback deletes it there and adds the writer to the new one.
CopyMove(r) ==
    /\ pc[r] = "move"
    /\ ws' = [ws EXCEPT ![cur[r]] = @ \ {at[r]}, ![r] = @ \cup {at[r]}]
    /\ at' = [at EXCEPT ![r] = None]
    /\ Goto(r, "copy")
    /\ UNCHANGED <<streams, isStart, rd, init, closed, crashed, cur, todo, pkt, rest>>

\* The Range is over: the copy is stored under the key.
CopyStore(r) ==
    /\ pc[r] = "copy"
    /\ todo[r] \cap ws[cur[r]] = {}
    /\ streams' = [streams EXCEPT ![KeyOf[r]] = r]
    /\ cur' = [cur EXCEPT ![r] = r]
    /\ todo' = [todo EXCEPT ![r] = {}]
    /\ Goto(r, "add")
    /\ Acts(KeyOf[r], Outdated(r))
    /\ UNCHANGED <<isStart, rd, ws, init, closed, crashed, at, pkt, others, joined>>

\* AddReader: set Stream.r and start the transfer goroutine.
AddReader(r) ==
    /\ pc[r] = "add"
    /\ rd' = [rd EXCEPT ![cur[r]] = r]
    /\ Goto(r, "start")
    /\ Acts(KeyOf[r], Outdated(r) \/ rd[cur[r]] # None)
    /\ UNCHANGED <<streams, isStart, ws, init, closed, crashed, cur, locals, others, joined>>

HandleReader(r) ==
    \/ ReaderLoad(r) \/ ReaderCreate(r) \/ ReaderStop(r) \/ ReaderClear(r)
    \/ (\E w \in Writers : CopyPick(r, w)) \/ CopyMove(r) \/ CopyStore(r)
    \/ AddReader(r)

-----------------------------------------------------------------------------
(* HandleWriter, run for writer w.                                         *)

\* Mutant: the lookup ignores the room's name.
WriterLoad_AnyRoom(w) ==
    /\ pc[w] = "new"
    /\ \E k \in Keys :
          /\ cur' = [cur EXCEPT ![w] = streams[k]]
          /\ Goto(w, IF streams[k] = None THEN "create" ELSE "add")
    /\ Enters(KeyOf[w])
    /\ UNCHANGED <<shared, locals, others, stale>>

WriterLoad(w) ==
    /\ pc[w] = "new"
    /\ cur' = [cur EXCEPT ![w] = streams[KeyOf[w]]]
    /\ Goto(w, IF streams[KeyOf[w]] = None THEN "create" ELSE "add")
    /\ Enters(KeyOf[w])
    /\ UNCHANGED <<shared, locals, others, stale>>

\* The key is not in the map: an empty Stream is stored under it, and the
\* writer is not registered anywhere.
WriterCreate(w) ==
    /\ pc[w] = "create"
    /\ streams' = [streams EXCEPT ![KeyOf[w]] = w]
    /\ Finish(w)
    /\ Acts(KeyOf[w], Outdated(w))
    /\ UNCHANGED <<isStart, rd, ws, init, closed, crashed, locals, others, joined>>

AddWriter(w) ==
    /\ pc[w] = "add"
    /\ ws' = [ws EXCEPT ![cur[w]] = @ \cup {w}]
    /\ Finish(w)
    /\ Acts(KeyOf[w], Outdated(w) \/ Copied(cur[w]))
    /\ UNCHANGED <<streams, isStart, rd, init, closed, crashed, locals, others, joined>>

HandleWriter(w) == WriterLoad(w) \/ WriterCreate(w) \/ AddWriter(w)

-----------------------------------------------------------------------------
(* TransStart, the goroutine AddReader(r) started on Stream cur[r].  It    *)
(* reads Stream.r again for every packet.                                  *)

TransStart(r) ==
    /\ pc[r] = "start"
    /\ isStart' = [isStart EXCEPT ![cur[r]] = TRUE]
    /\ Goto(r, "top")
    /\ Acts(KeyOf[r], Outdated(r) \/ Stopping(cur[r]))
    /\ UNCHANGED <<streams, rd, ws, init, closed, crashed, cur, locals, others, joined>>

\* The head of the loop: a Stream that was stopped is closed.
TransTop(r) ==
    /\ pc[r] = "top"
    /\ IF isStart[cur[r]]
       THEN Goto(r, "read") /\ UNCHANGED <<cur, closed, ws, crashed>>
       ELSE Finish(r) /\ CloseInter(cur[r])
    /\ UNCHANGED <<streams, isStart, rd, init, locals, rest>>

\* Read returns a packet (a closed connection may still have some buffered);
\* the Range over the writers begins.
TransRead(r) ==
    LET p == rd[cur[r]]
    IN  /\ pc[r] = "read"
        /\ p \in Readers
        /\ sent[p] < MaxPkts
        /\ sent' = [sent EXCEPT ![p] = @ + 1]
        /\ pkt' = [pkt EXCEPT ![r] = <<p, sent[p] + 1>>]
        /\ todo' = [todo EXCEPT ![r] = ws[cur[r]]]
        /\ Goto(r, "range")
        /\ UNCHANGED <<shared, cur, at, sweep, api, seen, history>>

\* Mutant: the goroutine leaves without closing the writers.
TransReadError_NoClose(r) ==
    /\ pc[r] = "read"
    /\ rd[cur[r]] \in closed
    /\ Goto(r, "ending")
    /\ UNCHANGED <<shared, cur, locals, rest>>

\* Read returns an error: the publisher's connection is closed ...
TransReadError(r) ==
    /\ pc[r] = "read"
    /\ rd[cur[r]] \in closed
    /\ CloseInter(cur[r])
    /\ Goto(r, "ending")
    /\ UNCHANGED <<streams, isStart, rd, init, cur, locals, rest>>

\* ... or it is open and what came cannot be read.  Nobody closes it.
TransReadBad(r) ==
    /\ pc[r] = "read"
    /\ rd[cur[r]] \in Readers \ closed
    /\ CloseInter(cur[r])
    /\ Goto(r, "ending")
    /\ UNCHANGED <<streams, isStart, rd, init, cur, locals, rest>>

TransEnding(r) ==
    /\ pc[r] = "ending"
    /\ isStart' = [isStart EXCEPT ![cur[r]] = FALSE]
    /\ Finish(r)
    /\ UNCHANGED <<streams, rd, ws, init, closed, crashed, locals, rest>>

RangePick(r, w) ==
    /\ pc[r] = "range"
    /\ w \in todo[r] \cap ws[cur[r]]
    /\ at' = [at EXCEPT ![r] = w]
    /\ todo' = [todo EXCEPT ![r] = @ \ {w}]
    /\ Goto(r, "write")
    /\ UNCHANGED <<shared, cur, pkt, rest>>

\* The callback's Write (or cache.Send, for an entry that is not init) fails
\* and the entry is deleted.  A closed writer fails every Write, a recorder
\* also one whose file or metadata is bad, and then nobody closes it;
\* cache.Send with nothing cached makes no Write and succeeds.
WriteFails(r) ==
    /\ pc[r] = "write"
    /\ at[r] \in closed \cup Archivers
    /\ ws' = [ws EXCEPT ![cur[r]] = @ \ {at[r]}]
    /\ at' = [at EXCEPT ![r] = None]
    /\ Goto(r, "range")
    /\ UNCHANGED <<streams, isStart, rd, init, closed, crashed, cur, todo, pkt, rest>>

\* The entry's first visit replays the cache, which stands for the stream up
\* to this packet (what it replays is GopCache's subject); every later visit
\* hands over the packet itself.
WriteSucceeds(r) ==
    /\ pc[r] = "write"
    /\ at[r] \notin closed \/ at[r] \notin init[cur[r]]
    /\ init' = [init EXCEPT ![cur[r]] = @ \cup {at[r]}]
    /\ seen' = IF at[r] \in closed THEN seen
               ELSE [seen EXCEPT ![pkt[r][1]][at[r]] = pkt[r][2]]
    /\ at' = [at EXCEPT ![r] = None]
    /\ Goto(r, "range")
    /\ UNCHANGED <<streams, isStart, rd, ws, closed, crashed, cur, todo, pkt, sweep, api, sent, history>>

\* Mutant: a callback that returns false ends the Range early.
RangeEnd_Early(r) ==
    /\ pc[r] = "range"
    /\ todo' = [todo EXCEPT ![r] = {}]
    /\ pkt' = [pkt EXCEPT ![r] = NoPkt]
    /\ Goto(r, "top")
    /\ UNCHANGED <<shared, cur, at, rest>>

RangeEnd(r) ==
    /\ pc[r] = "range"
    /\ todo[r] \cap ws[cur[r]] = {}
    /\ todo' = [todo EXCEPT ![r] = {}]
    /\ pkt' = [pkt EXCEPT ![r] = NoPkt]
    /\ Goto(r, "top")
    /\ UNCHANGED <<shared, cur, at, rest>>

Transfer(r) ==
    \/ TransStart(r) \/ TransTop(r) \/ TransRead(r) \/ TransReadError(r)
    \/ TransEnding(r) \/ (\E w \in Writers : RangePick(r, w))
    \/ WriteFails(r) \/ WriteSucceeds(r) \/ RangeEnd(r)

-----------------------------------------------------------------------------
(* CheckAlive.  Alive() compares the wall clock with the last packet, so   *)
(* either answer is possible at any time.                                  *)

\* Mutant: a reader counts as alive even when the Stream is stopped.
SweepVisit_CountsStopped(k) ==
    /\ sweep.pc = "idle"
    /\ streams[k] # None
    /\ sweep' = [pc |-> "writers", key |-> k, s |-> streams[k],
                 n |-> IF rd[streams[k]] = None THEN 0 ELSE 1]
    /\ joined' = ~Outside(k)
    /\ UNCHANGED <<shared, pc, cur, locals, api, sent, seen, stale>>

SweepVisit(k) ==
    /\ sweep.pc = "idle"
    /\ streams[k] # None
    /\ LET s == streams[k]
       IN \E alive \in BOOLEAN :
            LET on == rd[s] # None /\ isStart[s]
            IN  /\ sweep' = [pc |-> "writers", key |-> k, s |-> s,
                             n |-> IF on /\ alive THEN 1 ELSE 0]
                /\ closed' = IF on /\ ~alive THEN closed \cup {rd[s]} ELSE closed
    /\ joined' = ~Outside(k)
    /\ UNCHANGED <<streams, isStart, rd, ws, init, crashed, pc, cur, locals, api, sent, seen, stale>>

\* Mutant: the writers that stay are not counted.
SweepWriters_NoCount ==
    /\ sweep.pc = "writers"
    /\ sweep' = [sweep EXCEPT !.pc = "delete"]
    /\ UNCHANGED <<shared, pc, cur, locals, api, sent, seen, history>>

\* Writers that timed out are dropped, but only from a started Stream.
SweepWriters ==
    /\ sweep.pc = "writers"
    /\ \E dead \in SUBSET (IF isStart[sweep.s] THEN ws[sweep.s] ELSE {}) :
          IF ClosedTwice(dead)
          THEN crashed' = TRUE /\ UNCHANGED <<closed, ws, sweep>>
          ELSE /\ closed' = closed \cup dead
               /\ ws' = [ws EXCEPT ![sweep.s] = @ \ dead]
               /\ sweep' = [sweep EXCEPT !.pc = "delete",
                              !.n = IF ws[sweep.s] \ dead = {} THEN @ ELSE 1]
               /\ UNCHANGED crashed
    /\ UNCHANGED <<streams, isStart, rd, init, pc, cur, locals, api, sent, seen, history>>

\* Delete(key) removes whatever the key maps to by now.
SweepDelete ==
    /\ sweep.pc = "delete"
    /\ streams' = IF sweep.n = 0 THEN [streams EXCEPT ![sweep.key] = None]
                  ELSE streams
    /\ sweep' = Idle
    /\ Acts(sweep.key,
            /\ sweep.n = 0 /\ joined
            /\ streams[sweep.key] # sweep.s \/ isStart[sweep.s] \/ ws[sweep.s] # {})
    /\ joined' = FALSE
    /\ UNCHANGED <<isStart, rd, ws, init, closed, crashed, pc, cur, locals, api, sent, seen>>

CheckAlive == (\E k \in Keys : SweepVisit(k)) \/ SweepWriters \/ SweepDelete

-----------------------------------------------------------------------------
(* The control API's handleDelete: GetStream, TransStop, CloseAndComplete. *)

ApiLoad(k) ==
    /\ api.pc = "idle"
    /\ api.n < MaxDeletes
    /\ streams[k] # None
    /\ api' = [pc |-> "stop", key |-> k, s |-> streams[k], n |-> api.n + 1]
    /\ UNCHANGED <<shared, pc, cur, locals, sweep, sent, seen, history>>

ApiStop ==
    /\ api.pc = "stop"
    /\ StopReader(api.s)
    /\ api' = [api EXCEPT !.pc = "clear"]
    /\ UNCHANGED <<streams, isStart, rd, ws, init, crashed, pc, cur, locals, sweep, sent, seen, history>>

ApiClear ==
    /\ api.pc = "clear"
    /\ isStart' = [isStart EXCEPT ![api.s] = FALSE]
    /\ api' = [api EXCEPT !.pc = "close"]
    /\ UNCHANGED <<streams, rd, ws, init, closed, crashed, pc, cur, locals, sweep, sent, seen, history>>

\* closeInter again.  net/http recovers a panic of the handler: the writers
\* visited before it are closed, the process goes on.
ApiClose ==
    /\ api.pc = "close"
    /\ IF ClosedTwice(ws[api.s])
       THEN \E done \in SUBSET (ws[api.s] \ (Archivers \cap closed)) :
              /\ closed' = closed \cup done
              /\ ws' = [ws EXCEPT ![api.s] = @ \ (done \ Archivers)]
              /\ UNCHANGED crashed
       ELSE CloseInter(api.s)
    /\ api' = [Idle EXCEPT !.n = api.n]
    /\ UNCHANGED <<streams, isStart, rd, init, pc, cur, locals, sweep, sent, seen, history>>

HandleDelete == (\E k \in Keys : ApiLoad(k)) \/ ApiStop \/ ApiClear \/ ApiClose

-----------------------------------------------------------------------------
\* The peer of connection x goes away (external: the network).
Disconnect(x) ==
    /\ pc[x] # "new"
    /\ x \notin closed \cup Archivers
    /\ closed' = closed \cup {x}
    /\ UNCHANGED <<streams, isStart, rd, ws, init, crashed, pc, cur, locals, rest>>

Next ==
    /\ ~crashed
    /\ \/ \E r \in Readers : HandleReader(r) \/ Transfer(r) \/ TransReadBad(r)
       \/ \E w \in Writers : HandleWriter(w)
       \/ CheckAlive
       \/ HandleDelete
       \/ \E x \in Conns : Disconnect(x)

Spec == Init /\ [][Next]_vars

\* A goroutine that can take a step takes one in the end; the sweeper's Range
\* reaches every key again and again.  Nothing is assumed of peers, of the
\* API's clients or of the outcome of Alive().
Fairness ==
    /\ \A r \in Readers : WF_vars(HandleReader(r)) /\ WF_vars(Transfer(r))
    /\ \A w \in Writers : WF_vars(WriterCreate(w) \/ AddWriter(w))
    /\ \A k \in Keys : SF_vars(SweepVisit(k))
    /\ WF_vars(SweepWriters \/ SweepDelete)
    /\ WF_vars(ApiStop \/ ApiClear \/ ApiClose)

FairSpec == Spec /\ Fairness

-----------------------------------------------------------------------------
(* The inductive invariant behind RoomIsolation.                           *)

\* A goroutine past its lookup has the locals its next step uses.
LocalsDefined ==
    /\ \A x \in Conns :
          pc[x] \in (Registering \ {"create"}) \cup Running
             => cur[x] \in Conns
    /\ \A r \in Readers : pc[r] \in {"move", "write"} => at[r] \in Writers
    /\ \A r \in Readers : pc[r] \in {"range", "write"} => pkt[r][1] \in Readers
    /\ sweep.pc # "idle" => sweep.s \in Conns /\ sweep.key \in Keys
    /\ api.pc # "idle" => api.s \in Conns /\ api.key \in Keys

\* Everything that is linked to anything else has the same key.
SameKey ==
    /\ \A k \in Keys : streams[k] # None => KeyOf[streams[k]] = k
    /\ \A s \in Conns : rd[s] # None => KeyOf[rd[s]] = KeyOf[s]
    /\ \A s \in Conns : \A w \in ws[s] : KeyOf[w] = KeyOf[s]
    /\ \A x \in Conns : cur[x] # None => KeyOf[cur[x]] = KeyOf[x]
    /\ \A r \in Readers : at[r] # None => KeyOf[at[r]] = KeyOf[r]
    /\ \A r \in Readers : pkt[r][1] # None => KeyOf[pkt[r][1]] = KeyOf[r]

-----------------------------------------------------------------------------
(* Properties of every interleaving.                                       *)

\* No packet crosses rooms: whatever takeovers, copies, sweeps and deletions
\* happened at the same time, a writer is only ever handed packets of
\* publishers of its own key.
RoomIsolation ==
    \A r \in Readers, w \in Writers : seen[r][w] # 0 => KeyOf[r] = KeyOf[w]

\* A transfer goroutine whose publisher is gone releases every player that
\* joined before it ran closeInter: the player is closed, moved or dropped.
\* (One that joins later is not: the sweeper spares a stopped Stream.)
PlayersReleased ==
    \A r \in Readers, s \in Conns, w \in Writers :
        (pc[r] \in Serving /\ cur[r] = s /\ rd[s] \in closed /\ w \in ws[s])
            ~> (crashed \/ w \in closed \/ w \notin ws[s])

IdleStream(s) == ws[s] = {} /\ (rd[s] = None \/ ~isStart[s])

\* A Stream without writers that no publisher drives does not stay in the map.
EmptyRoomRemoved ==
    \A k \in Keys, s \in Conns :
        (streams[k] = s /\ IdleStream(s))
            ~> (crashed \/ streams[k] # s \/ ~IdleStream(s))

-----------------------------------------------------------------------------
(* Properties of every interleaving but for the rooms in stale, in which   *)
(* somebody has acted on an outdated finding: nothing else breaks them.    *)

\* No leaked publisher: a publisher whose connection is open and whose
\* transfer goroutine runs is the reader of the Stream the map holds, so the
\* sweeper, the API and the next publisher can all reach it.
NoLeakedPublisher ==
    \A r \in Readers :
        (KeyOf[r] \notin stale /\ pc[r] \in Running /\ r \notin closed)
            => streams[KeyOf[r]] = cur[r] /\ rd[cur[r]] = r

\* A registered writer is in one Stream only, and between operations that
\* Stream is the one the map holds.
WritersReachable ==
    \A w \in Writers, s \in Conns :
        (KeyOf[w] \notin stale /\ w \in ws[s])
            => /\ \A t \in Conns : w \in ws[t] => t = s
               /\ Free(KeyOf[w]) => streams[KeyOf[w]] = s

\* The sweeper's three steps take a room out of the map only when nobody uses
\* it, unless a handler was inside the room during its visit: the Stream that
\* leaves the map has no writer, and no publisher whose connection is open
\* has its transfer goroutine on it.
RemovalIsSafe ==
    [][\A k \in Keys :
         (streams[k] # None /\ streams'[k] = None /\ k \notin stale /\ ~joined)
            => /\ ws[streams[k]] = {}
               /\ \A r \in Readers \ closed : pc[r] \in Running => cur[r] # streams[k]]_vars

\* From its first visit on (the cache replay) a writer is handed the packets of
\* one publisher in order and without a gap.
GaplessDelivery ==
    [][\A r \in Readers, w \in Writers :
         (seen'[r][w] # seen[r][w] /\ seen[r][w] # 0 /\ KeyOf[r] \notin stale)
            => seen'[r][w] = seen[r][w] + 1]_vars

\* A publisher that another one replaced stops: its goroutine ends.
SupersededStops ==
    \A r \in Readers :
        (pc[r] \in Running /\ streams[KeyOf[r]] # cur[r])
            ~> (crashed \/ pc[r] = "done" \/ KeyOf[r] \in stale)
=============================================================================

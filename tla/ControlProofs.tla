---------------------------- MODULE ControlProofs ----------------------------
(***************************************************************************)
(* FedIsServed of the HLS server, RelayReachable of the relay sessions and *)
(* AnsweredKeyOpens and KeyOpensOneRoom of the room keys, for any number   *)
(* of publishers, requests, Sources, handlers, relays, rooms, callers,     *)
(* keys and restarts.  The three components share no state.                *)
(***************************************************************************)
EXTENDS HlsServer, RtmpRelay, RoomKeys, TLAPS

(***************************************************************************)
(* The HLS server.                                                         *)
(***************************************************************************)

\* The types of what the map, the hub and the publishers hold.
ServerTypeOK ==
    /\ keep \in BOOLEAN
    /\ made \in 0..MaxSources
    /\ conn \in Sources \cup {NoOne}
    /\ ws \subseteq Sources
    /\ ppc \in [Publishers -> {"off", "load", "store", "register", "on"}]
    /\ got \in [Publishers -> Sources \cup {NoOne}]
    /\ \A p \in Publishers : ppc[p] = "register" => got[p] \in Sources

\* An open Source between GetWriter and HandleWriter is the one in the map:
\* without this HandleWriter could feed a Source that nobody is served from.
GotIsServed ==
    ~orphaned => \A p \in Publishers :
        ppc[p] = "register" /\ got[p] \notin shut => conn = got[p]

\* With hls_keep_after_end no cache is ever set to nil.
KeptIsDressed == keep => bare = {}

ServerInv == ServerTypeOK /\ GotIsServed /\ KeptIsDressed /\ FedIsServed

\* At the start the map is empty.
LEMMA ServerInitInv == ServerInit => ServerInv
BY ServerAssumption DEF ServerInit, ServerInv, ServerTypeOK, GotIsServed,
   KeptIsDressed, FedIsServed

\* Every step keeps the invariant.
LEMMA ServerStep ==
    ASSUME ServerInv, [ServerNext]_serverVars
    PROVE  ServerInv'
<1> USE ServerAssumption DEF ServerInv
<1>1. ASSUME NEW p \in Publishers, HandleReader(p) PROVE ServerInv'
  <2>1. ServerTypeOK'
    BY <1>1 DEF HandleReader, ServerTypeOK
  <2>2. GotIsServed'
    BY <1>1 DEF HandleReader, GotIsServed
  <2>3. KeptIsDressed'
    BY <1>1 DEF HandleReader, KeptIsDressed
  <2>4. FedIsServed'
    BY <1>1 DEF HandleReader, FedIsServed
  <2>5. QED
    BY <2>1, <2>2, <2>3, <2>4
<1>2. ASSUME NEW p \in Publishers, GetWriterLoad(p) PROVE ServerInv'
  <2>1. ServerTypeOK'
    BY <1>2 DEF GetWriterLoad, hub, ServerTypeOK
  <2>2. GotIsServed'
    BY <1>2 DEF GetWriterLoad, GotIsServed, ServerTypeOK
  <2>3. KeptIsDressed'
    BY <1>2 DEF GetWriterLoad, KeptIsDressed
  <2>4. FedIsServed'
    BY <1>2 DEF GetWriterLoad, hub, FedIsServed
  <2>5. QED
    BY <2>1, <2>2, <2>3, <2>4
<1>3. ASSUME NEW p \in Publishers, GetWriterStore(p) PROVE ServerInv'
  <2>1. ServerTypeOK'
    BY <1>3 DEF GetWriterStore, hub, ServerTypeOK, Sources
  <2>2. GotIsServed'
    BY <1>3 DEF GetWriterStore, GotIsServed, ServerTypeOK
  <2>3. KeptIsDressed'
    BY <1>3 DEF GetWriterStore, KeptIsDressed
  <2>4. ~orphaned' => \A s \in ws' \ shut' : conn' = s
    BY <1>3 DEF GetWriterStore, hub, FedIsServed, ServerTypeOK
  <2>5. keep' => conn' # NoOne /\ conn' \notin bare'
    BY <1>3 DEF GetWriterStore, KeptIsDressed, ServerTypeOK, Sources
  <2>6. QED
    BY <2>1, <2>2, <2>3, <2>4, <2>5 DEF FedIsServed
<1>4. ASSUME NEW p \in Publishers, HandleWriter(p) PROVE ServerInv'
  <2>1. ServerTypeOK'
    BY <1>4 DEF HandleWriter, ServerTypeOK
  <2>2. GotIsServed'
    BY <1>4 DEF HandleWriter, GotIsServed
  <2>3. KeptIsDressed'
    BY <1>4 DEF HandleWriter, KeptIsDressed
  <2>4. FedIsServed'
    BY <1>4 DEF HandleWriter, FedIsServed, GotIsServed
  <2>5. QED
    BY <2>1, <2>2, <2>3, <2>4
<1>5. ASSUME NEW p \in Publishers, PublisherEnds(p) PROVE ServerInv'
  <2>1. ServerTypeOK'
    BY <1>5 DEF PublisherEnds, hub, ServerTypeOK
  <2>2. GotIsServed'
    BY <1>5 DEF PublisherEnds, CloseAll, GotIsServed
  <2>3. KeptIsDressed'
    BY <1>5 DEF PublisherEnds, CloseAll, KeptIsDressed
  <2>4. FedIsServed'
    BY <1>5 DEF PublisherEnds, CloseAll, hub, FedIsServed
  <2>5. QED
    BY <2>1, <2>2, <2>3, <2>4
<1>6. ASSUME NEW s \in Sources, HubWrite(s) PROVE ServerInv'
  <2>1. ServerTypeOK'
    BY <1>6 DEF HubWrite, pubs, ServerTypeOK
  <2>2. GotIsServed'
    BY <1>6 DEF HubWrite, pubs, GotIsServed
  <2>3. KeptIsDressed'
    BY <1>6 DEF HubWrite, KeptIsDressed
  <2>4. FedIsServed'
    BY <1>6 DEF HubWrite, FedIsServed
  <2>5. QED
    BY <2>1, <2>2, <2>3, <2>4
<1>7. ASSUME NEW s \in Sources, HubSweep(s) PROVE ServerInv'
  <2>1. ServerTypeOK'
    BY <1>7 DEF HubSweep, pubs, ServerTypeOK
  <2>2. GotIsServed'
    BY <1>7 DEF HubSweep, CloseAll, pubs, GotIsServed
  <2>3. KeptIsDressed'
    BY <1>7 DEF HubSweep, CloseAll, KeptIsDressed
  <2>4. FedIsServed'
    BY <1>7 DEF HubSweep, CloseAll, FedIsServed
  <2>5. QED
    BY <2>1, <2>2, <2>3, <2>4
<1>8. ASSUME NEW s \in Sources, Silence(s) PROVE ServerInv'
  <2>1. ServerTypeOK'
    BY <1>8 DEF Silence, hub, pubs, ServerTypeOK
  <2>2. GotIsServed'
    BY <1>8 DEF Silence, pubs, GotIsServed
  <2>3. KeptIsDressed'
    BY <1>8 DEF Silence, KeptIsDressed
  <2>4. FedIsServed'
    BY <1>8 DEF Silence, hub, FedIsServed
  <2>5. QED
    BY <2>1, <2>2, <2>3, <2>4
<1>9. ASSUME CheckStop PROVE ServerInv'
  <2>1. ServerTypeOK'
    BY <1>9 DEF CheckStop, hub, pubs, ServerTypeOK
  <2>2. GotIsServed'
    BY <1>9 DEF CheckStop, pubs, GotIsServed
  <2>3. KeptIsDressed'
    BY <1>9 DEF CheckStop, KeptIsDressed
  <2>4. FedIsServed'
    BY <1>9 DEF CheckStop, hub, FedIsServed
  <2>5. QED
    BY <2>1, <2>2, <2>3, <2>4
<1>10. ASSUME NEW r \in Requests, Handle(r) PROVE ServerInv'
  <2>1. HandleKeeps
    BY <1>10 DEF Handle, HandleRequest, HandleM3u8, HandleTs
  <2>2. QED
    BY <2>1 DEF HandleKeeps, hub, pubs, ServerTypeOK, GotIsServed, KeptIsDressed,
       FedIsServed
<1>11. CASE UNCHANGED serverVars
  BY <1>11 DEF serverVars, hub, pubs, ServerTypeOK, GotIsServed, KeptIsDressed,
     FedIsServed
<1>12. QED
  BY <1>1, <1>2, <1>3, <1>4, <1>5, <1>6, <1>7, <1>8, <1>9, <1>10, <1>11 DEF ServerNext

\* The Source that is fed is the one that is served, and what is kept stays
\* available.
THEOREM FedSourceIsServed == ServerSpec => []FedIsServed
<1>1. ServerInv => FedIsServed
  BY DEF ServerInv
<1>2. QED
  BY <1>1, ServerInitInv, ServerStep, PTL DEF ServerSpec

(***************************************************************************)
(* The relay sessions.                                                     *)
(***************************************************************************)

\* The types of the session map and of the handlers' locals.
RelayTypeOK ==
    /\ careful \in BOOLEAN /\ apiDown \in BOOLEAN
    /\ session \in Relays \cup {NoRelay}
    /\ built \in 0..MaxRelays
    /\ apc \in [Handlers -> {"idle", "dialPlay", "dialPub", "store", "find",
                             "stop", "clear", "send", "delete"}]
    /\ arel \in [Handlers -> Relays \cup {NoRelay}]
    /\ flag \in [Relays -> BOOLEAN]
    /\ \A h \in Handlers : apc[h] \notin {"idle", "find"} => arel[h] \in 1..built
    /\ session # NoRelay => session \in 1..built

\* A relay that has not been created does not run.
UnbuiltIsOff == \A r \in Relays : r > built => ~flag[r]

\* A careful user has one request under way; a start finds no session and a
\* stop works on the session's relay; a relay that runs is the session's or
\* about to be.
OneRequest ==
    careful =>
        /\ \A g, h \in Handlers : apc[g] # "idle" /\ apc[h] # "idle" => g = h
        /\ \A h \in Handlers :
              /\ apc[h] \in {"dialPlay", "dialPub", "store"} => session = NoRelay
              /\ apc[h] \in {"stop", "clear", "send", "delete"} => session = arel[h]
              /\ apc[h] \in {"dialPlay", "dialPub", "send", "delete"} => ~flag[arel[h]]
        /\ \A r \in Relays : flag[r] =>
              session = r \/ \E h \in Handlers : arel[h] = r /\ apc[h] = "store"

RelayInv == RelayTypeOK /\ UnbuiltIsOff /\ OneRequest /\ RelayReachable

\* At the start there is no relay.
LEMMA RelayInitInv == RelayInit => RelayInv
<1> SUFFICES ASSUME RelayInit PROVE RelayInv
  OBVIOUS
<1> USE DEF RelayInit
<1>1. RelayTypeOK
  <2>1. built \in 0..MaxRelays
    BY RelayAssumption
  <2>2. flag \in [Relays -> BOOLEAN]
    BY DEF Each
  <2>3. QED
    BY <2>1, <2>2 DEF RelayTypeOK
<1>2. UnbuiltIsOff
  BY DEF UnbuiltIsOff, Each
<1>3. OneRequest
  BY DEF OneRequest, Each
<1>4. RelayReachable
  BY DEF RelayReachable, Each
<1>5. QED
  BY <1>1, <1>2, <1>3, <1>4 DEF RelayInv

\* A handler in the map is alone there if the user is careful.
LEMMA MapWriteIsSafe ==
    ASSUME OneRequest, careful, NEW h \in Handlers, apc[h] # "idle", MapWrite(h)
    PROVE  ~apiDown'
BY DEF OneRequest, MapWrite, InMap

\* Every step keeps the invariant.
LEMMA RelayStep ==
    ASSUME RelayInv, [RelayNext]_relayVars
    PROVE  RelayInv'
<1> USE RelayAssumption DEF RelayInv
<1>1. ASSUME NEW h \in Handlers, ApiStart(h) PROVE RelayInv'
  <2>1. RelayTypeOK'
    BY <1>1 DEF ApiStart, Step, relayState, RelayTypeOK, Relays
  <2>2. UnbuiltIsOff'
    BY <1>1 DEF ApiStart, relayState, UnbuiltIsOff, RelayTypeOK, Relays
  <2>3. OneRequest'
    BY <1>1 DEF ApiStart, Step, relayState, OneRequest, RelayTypeOK, Relays
  <2>4. RelayReachable'
    BY <1>1 DEF ApiStart, relayState, RelayReachable
  <2>5. QED
    BY <2>1, <2>2, <2>3, <2>4
<1>2. ASSUME NEW h \in Handlers, StartPlay(h) PROVE RelayInv'
  <2>1. RelayTypeOK'
    BY <1>2 DEF StartPlay, Step, RelayTypeOK
  <2>2. UnbuiltIsOff'
    BY <1>2 DEF StartPlay, UnbuiltIsOff
  <2>3. OneRequest'
    BY <1>2 DEF StartPlay, Step, OneRequest, RelayTypeOK
  <2>4. RelayReachable'
    BY <1>2 DEF StartPlay, RelayReachable, OneRequest
  <2>5. QED
    BY <2>1, <2>2, <2>3, <2>4
<1>3. ASSUME NEW h \in Handlers, StartPublishFails(h) PROVE RelayInv'
  <2>1. RelayTypeOK'
    BY <1>3 DEF StartPublishFails, Step, RelayTypeOK
  <2>2. UnbuiltIsOff'
    BY <1>3 DEF StartPublishFails, UnbuiltIsOff
  <2>3. OneRequest'
    BY <1>3 DEF StartPublishFails, Step, OneRequest
  <2>4. RelayReachable'
    BY <1>3 DEF StartPublishFails, RelayReachable, OneRequest
  <2>5. QED
    BY <2>1, <2>2, <2>3, <2>4
<1>4. ASSUME NEW h \in Handlers, StartPublish(h) PROVE RelayInv'
  <2>1. RelayTypeOK'
    BY <1>4 DEF StartPublish, Step, RelayTypeOK
  <2>2. UnbuiltIsOff'
    BY <1>4 DEF StartPublish, UnbuiltIsOff, RelayTypeOK
  <2>3. OneRequest'
    BY <1>4 DEF StartPublish, Step, OneRequest, RelayTypeOK
  <2>4. RelayReachable'
    BY <1>4 DEF StartPublish, Step, RelayReachable
  <2>5. QED
    BY <2>1, <2>2, <2>3, <2>4
<1>5. ASSUME NEW h \in Handlers, StoreSession(h) PROVE RelayInv'
  <2>1. RelayTypeOK'
    BY <1>5 DEF StoreSession, Step, relayState, MapWrite, RelayTypeOK
  <2>2. UnbuiltIsOff'
    BY <1>5 DEF StoreSession, relayState, UnbuiltIsOff
  <2>3. OneRequest'
    BY <1>5 DEF StoreSession, Step, relayState, OneRequest, RelayTypeOK
  <2>4. RelayReachable'
    BY <1>5, MapWriteIsSafe DEF StoreSession, relayState, RelayReachable, OneRequest
  <2>5. QED
    BY <2>1, <2>2, <2>3, <2>4
<1>6. ASSUME NEW h \in Handlers, ApiStop(h) PROVE RelayInv'
  <2>1. RelayTypeOK'
    BY <1>6 DEF ApiStop, Step, relayState, RelayTypeOK
  <2>2. UnbuiltIsOff'
    BY <1>6 DEF ApiStop, relayState, UnbuiltIsOff
  <2>3. OneRequest'
    BY <1>6 DEF ApiStop, Step, relayState, OneRequest
  <2>4. RelayReachable'
    BY <1>6 DEF ApiStop, relayState, RelayReachable
  <2>5. QED
    BY <2>1, <2>2, <2>3, <2>4
<1>7. ASSUME NEW h \in Handlers, FindSession(h) PROVE RelayInv'
  <2>1. RelayTypeOK'
    BY <1>7 DEF FindSession, Step, relayState, RelayTypeOK
  <2>2. UnbuiltIsOff'
    BY <1>7 DEF FindSession, relayState, UnbuiltIsOff
  <2>3. OneRequest'
    BY <1>7 DEF FindSession, Step, relayState, OneRequest, RelayTypeOK
  <2>4. RelayReachable'
    BY <1>7 DEF FindSession, relayState, RelayReachable, OneRequest
  <2>5. QED
    BY <2>1, <2>2, <2>3, <2>4
<1>8. ASSUME NEW h \in Handlers, StopTest(h) PROVE RelayInv'
  <2>1. RelayTypeOK'
    BY <1>8 DEF StopTest, Step, relayState, RelayTypeOK
  <2>2. UnbuiltIsOff'
    BY <1>8 DEF StopTest, relayState, UnbuiltIsOff
  <2>3. OneRequest'
    BY <1>8 DEF StopTest, Step, relayState, OneRequest
  <2>4. RelayReachable'
    BY <1>8 DEF StopTest, relayState, RelayReachable, OneRequest
  <2>5. QED
    BY <2>1, <2>2, <2>3, <2>4
<1>9. ASSUME NEW h \in Handlers, StopClear(h) PROVE RelayInv'
  <2>1. RelayTypeOK'
    BY <1>9 DEF StopClear, Step, RelayTypeOK
  <2>2. UnbuiltIsOff'
    BY <1>9 DEF StopClear, UnbuiltIsOff
  <2>3. OneRequest'
    BY <1>9 DEF StopClear, Step, OneRequest, RelayTypeOK, Relays
  <2>4. RelayReachable'
    BY <1>9 DEF StopClear, RelayReachable, OneRequest
  <2>5. QED
    BY <2>1, <2>2, <2>3, <2>4
<1>10. ASSUME NEW h \in Handlers, StopSend(h) PROVE RelayInv'
  <2>1. RelayTypeOK'
    BY <1>10 DEF StopSend, Step, RelayTypeOK
  <2>2. UnbuiltIsOff'
    BY <1>10 DEF StopSend, UnbuiltIsOff
  <2>3. OneRequest'
    BY <1>10 DEF StopSend, Step, OneRequest
  <2>4. RelayReachable'
    BY <1>10 DEF StopSend, RelayReachable, OneRequest
  <2>5. QED
    BY <2>1, <2>2, <2>3, <2>4
<1>11. ASSUME NEW h \in Handlers, DeleteSession(h) PROVE RelayInv'
  <2>1. RelayTypeOK'
    BY <1>11 DEF DeleteSession, Step, relayState, MapWrite, RelayTypeOK
  <2>2. UnbuiltIsOff'
    BY <1>11 DEF DeleteSession, relayState, UnbuiltIsOff
  <2>3. OneRequest'
    BY <1>11 DEF DeleteSession, Step, relayState, OneRequest, RelayTypeOK
  <2>4. RelayReachable'
    BY <1>11, MapWriteIsSafe DEF DeleteSession, relayState, RelayReachable, OneRequest
  <2>5. QED
    BY <2>1, <2>2, <2>3, <2>4
<1>12. ASSUME NEW r \in Relays, Goroutines(r) \/ RcvEOF(r) PROVE RelayInv'
  <2>1. RelayKeeps
    BY <1>12 DEF Goroutines, RcvTest, RcvRead, RcvPush, SndTake, RcvEOF
  <2>2. QED
    BY <2>1 DEF RelayKeeps, RelayTypeOK, UnbuiltIsOff, OneRequest, RelayReachable
<1>13. CASE UNCHANGED relayVars
  BY <1>13 DEF relayVars, relayState, RelayTypeOK, UnbuiltIsOff, OneRequest,
     RelayReachable
<1>14. QED
  BY <1>1, <1>2, <1>3, <1>4, <1>5, <1>6, <1>7, <1>8, <1>9, <1>10, <1>11, <1>12, <1>13
     DEF RelayNext, Start, Stop

\* A careful user can stop every relay that runs, and never ends the process
\* by using the session map from two handlers.
THEOREM RelaysAreReachable == RelaySpec => []RelayReachable
<1>1. RelayInv => RelayReachable
  BY DEF RelayInv
<1>2. QED
  BY <1>1, RelayInitInv, RelayStep, PTL DEF RelaySpec

(***************************************************************************)
(* The room keys.                                                          *)
(***************************************************************************)

\* The caller has drawn a key and not yet written both entries.
InFlight(c) == kpc[c] \in {"setRoom", "setKey"}

\* The caller has written the room's entry and will write the key's.
Writing(c, k, r) == kpc[c] = "setKey" /\ key[c] = k /\ room[c] = r

\* Rooms map to keys and keys to rooms.
StoreShape ==
    /\ \A r \in Rooms : store[r] \in KeyNames \cup {NoName}
    /\ \A k \in KeyNames : store[k] \in Rooms \cup {NoName}

\* A key in flight was drawn by this process, by one caller only, and the
\* store does not know it yet.
FlightInv ==
    \A c \in Callers : InFlight(c) =>
        /\ key[c] <= draws /\ store[key[c]] = NoName
        /\ \A d \in Callers : InFlight(d) /\ key[d] = key[c] => d = c

\* A room's key leads back to the room, or is about to.
LinkInv ==
    \A r \in Rooms \ torn : store[r] # NoName =>
        store[store[r]] = r \/ \E c \in Callers : Writing(c, store[r], r)

\* Nobody deletes keys from redis.  In memory a key belongs to one room from
\* the moment it is drawn, and the one whose entry is about to be deleted
\* belongs to none any more.
MemoryInv ==
    IF redis THEN \A c \in Callers : kpc[c] \notin {"delRoom", "delKey"}
    ELSE /\ \A r \in Rooms : store[r] # NoName =>
              store[r] <= draws /\ \A q \in Rooms : store[q] = store[r] => q = r
         /\ \A c \in Callers :
              /\ kpc[c] \in {"delRoom", "delKey"} =>
                    /\ key[c] <= draws
                    /\ \A d \in Callers : kpc[d] = "setRoom" => key[d] # key[c]
              /\ kpc[c] \in {"setKey", "delRoom"} =>
                    \A r \in Rooms : store[r] = key[c] => r = room[c]
              /\ kpc[c] \in {"setRoom", "delKey"} =>
                    \A r \in Rooms : store[r] # key[c]

\* A key handed out for a room leads nowhere else: if it is in flight, it is
\* for this room, and if the store does not know it, it is in flight (redis)
\* or will not be drawn again (memory).
IssuedInv ==
    \A k \in KeyNames, r \in Rooms \ torn : <<k, r>> \in issued =>
        /\ \A c \in Callers : InFlight(c) /\ key[c] = k => room[c] = r
        /\ store[k] = NoName => IF redis THEN \E c \in Callers : Writing(c, k, r)
                                ELSE k <= draws

KeysInv ==
    KeysTypeOK /\ StoreShape /\ FlightInv /\ LinkInv /\ MemoryInv /\ IssuedInv /\ KeyOpensOneRoom

\* Every step keeps the invariant.
LEMMA KeysStep ==
    ASSUME KeysInv, [KeysNext]_keyVars
    PROVE  KeysInv'
<1> USE KeysAssumption DEF KeysInv, KeysTypeOK, KeyNames

<1>1. ASSUME NEW c \in Callers, NEW r \in Rooms, GetKey(c, r) PROVE KeysInv'
  <2>1. KeysTypeOK'
    BY <1>1 DEF GetKey, At, StoreShape
  <2>2. StoreShape'
    BY <1>1 DEF GetKey, StoreShape
  <2>3. FlightInv'
    BY <1>1 DEF GetKey, At, FlightInv, InFlight
  <2>4. LinkInv'
    BY <1>1 DEF GetKey, At, LinkInv, Writing
  <2>5. MemoryInv'
    BY <1>1 DEF GetKey, At, MemoryInv
  <2>6. IssuedInv'
    BY <1>1 DEF GetKey, At, IssuedInv, FlightInv, LinkInv, Names, InFlight, Writing
  <2>7. KeyOpensOneRoom'
    BY <1>1 DEF GetKey, KeyOpensOneRoom, FlightInv, LinkInv, Writing, InFlight
  <2>8. QED
    BY <2>1, <2>2, <2>3, <2>4, <2>5, <2>6, <2>7
<1>2. ASSUME NEW c \in Callers, NEW r \in Rooms, ResetKey(c, r) PROVE KeysInv'
  <2>1. KeysTypeOK'
    BY <1>2 DEF ResetKey, At
  <2>2. StoreShape'
    BY <1>2 DEF ResetKey, StoreShape
  <2>3. FlightInv'
    BY <1>2 DEF ResetKey, At, FlightInv, InFlight
  <2>4. LinkInv'
    BY <1>2 DEF ResetKey, At, LinkInv, Writing
  <2>5. MemoryInv'
    BY <1>2 DEF ResetKey, At, MemoryInv
  <2>6. IssuedInv'
    BY <1>2 DEF ResetKey, At, IssuedInv, InFlight, Writing
  <2>7. KeyOpensOneRoom'
    BY <1>2 DEF ResetKey, KeyOpensOneRoom
  <2>8. QED
    BY <2>1, <2>2, <2>3, <2>4, <2>5, <2>6, <2>7
<1>3. ASSUME NEW c \in Callers, NEW r \in Rooms, DeleteChannel(c, r) PROVE KeysInv'
  <2>1. KeysTypeOK'
    BY <1>3 DEF DeleteChannel, At, keyLocals, StoreShape
  <2>2. StoreShape'
    BY <1>3 DEF DeleteChannel, StoreShape, Names
  <2>3. FlightInv'
    BY <1>3 DEF DeleteChannel, At, keyLocals, FlightInv, Names, InFlight
  <2>4. LinkInv'
    BY <1>3 DEF DeleteChannel, At, keyLocals, LinkInv, StoreShape, Names, Writing
  <2>5. MemoryInv'
    BY <1>3 DEF DeleteChannel, At, keyLocals, MemoryInv
  <2>6. IssuedInv'
    BY <1>3 DEF DeleteChannel, At, keyLocals, IssuedInv, Names, InFlight, Writing
  <2>7. KeyOpensOneRoom'
    BY <1>3 DEF DeleteChannel, KeyOpensOneRoom, Names
  <2>8. QED
    BY <2>1, <2>2, <2>3, <2>4, <2>5, <2>6, <2>7
<1>4. ASSUME NEW c \in Callers, SetKeyDraw(c) PROVE KeysInv'
  <2>1. KeysTypeOK'
    BY <1>4 DEF SetKeyDraw, At
  <2>2. StoreShape'
    BY <1>4 DEF SetKeyDraw, StoreShape
  <2>3. FlightInv'
    BY <1>4 DEF SetKeyDraw, At, FlightInv, InFlight
  <2>4. LinkInv'
    BY <1>4 DEF SetKeyDraw, At, LinkInv, Writing
  <2>5. MemoryInv'
    BY <1>4 DEF SetKeyDraw, At, MemoryInv, StoreShape, Names
  <2>6. IssuedInv'
    BY <1>4 DEF SetKeyDraw, At, IssuedInv, FlightInv, InFlight, Writing
  <2>7. KeyOpensOneRoom'
    BY <1>4 DEF SetKeyDraw, KeyOpensOneRoom
  <2>8. QED
    BY <2>1, <2>2, <2>3, <2>4, <2>5, <2>6, <2>7
<1>5. ASSUME NEW c \in Callers, SetRoom(c) PROVE KeysInv'
  <2>1. KeysTypeOK'
    BY <1>5 DEF SetRoom, At, Names
  <2>2. StoreShape'
    BY <1>5 DEF SetRoom, StoreShape
  <2>3. FlightInv'
    BY <1>5 DEF SetRoom, At, FlightInv, InFlight
  <2>4. LinkInv'
    BY <1>5 DEF SetRoom, At, LinkInv, StoreShape, Writing
  <2>5. MemoryInv'
    BY <1>5 DEF SetRoom, At, MemoryInv, FlightInv, InFlight
  <2>6. IssuedInv'
    BY <1>5 DEF SetRoom, At, IssuedInv, InFlight, Writing
  <2>7. KeyOpensOneRoom'
    BY <1>5 DEF SetRoom, KeyOpensOneRoom
  <2>8. QED
    BY <2>1, <2>2, <2>3, <2>4, <2>5, <2>6, <2>7
<1>6. ASSUME NEW c \in Callers, SetKey(c) PROVE KeysInv'
  <2>1. KeysTypeOK'
    BY <1>6 DEF SetKey, At, Return, Names
  <2>2. StoreShape'
    BY <1>6 DEF SetKey, StoreShape
  <2>3. FlightInv'
    BY <1>6 DEF SetKey, At, Return, FlightInv, InFlight
  <2>4. LinkInv'
    BY <1>6 DEF SetKey, At, Return, LinkInv, FlightInv, Names, InFlight, Writing
  <2>5. MemoryInv'
    BY <1>6 DEF SetKey, At, Return, MemoryInv
  <2>6. IssuedInv'
    BY <1>6 DEF SetKey, At, Return, IssuedInv, FlightInv, Names, InFlight, Writing
  <2>7. KeyOpensOneRoom'
    BY <1>6 DEF SetKey, KeyOpensOneRoom, IssuedInv, Names, InFlight
  <2>8. QED
    BY <2>1, <2>2, <2>3, <2>4, <2>5, <2>6, <2>7
<1>7. ASSUME NEW c \in Callers, RedisFails(c) PROVE KeysInv'
  <2>1. KeysTypeOK'
    BY <1>7 DEF RedisFails, At, Return
  <2>2. StoreShape'
    BY <1>7 DEF RedisFails, StoreShape
  <2>3. FlightInv'
    BY <1>7 DEF RedisFails, At, Return, FlightInv, InFlight
  <2>4. LinkInv'
    BY <1>7 DEF RedisFails, At, Return, LinkInv, Writing
  <2>5. MemoryInv'
    BY <1>7 DEF RedisFails, At, Return, MemoryInv
  <2>6. IssuedInv'
    BY <1>7 DEF RedisFails, At, Return, IssuedInv, InFlight, Writing
  <2>7. KeyOpensOneRoom'
    BY <1>7 DEF RedisFails, KeyOpensOneRoom
  <2>8. QED
    BY <2>1, <2>2, <2>3, <2>4, <2>5, <2>6, <2>7
<1>8. ASSUME NEW c \in Callers, DeleteRoom(c) PROVE KeysInv'
  <2>1. KeysTypeOK'
    BY <1>8 DEF DeleteRoom, At
  <2>2. StoreShape'
    BY <1>8 DEF DeleteRoom, StoreShape
  <2>3. FlightInv'
    BY <1>8 DEF DeleteRoom, At, FlightInv, InFlight
  <2>4. LinkInv'
    BY <1>8 DEF DeleteRoom, At, LinkInv, StoreShape, Writing
  <2>5. MemoryInv'
    BY <1>8 DEF DeleteRoom, At, MemoryInv, Names
  <2>6. IssuedInv'
    BY <1>8 DEF DeleteRoom, At, IssuedInv, InFlight, Writing
  <2>7. KeyOpensOneRoom'
    BY <1>8 DEF DeleteRoom, KeyOpensOneRoom
  <2>8. QED
    BY <2>1, <2>2, <2>3, <2>4, <2>5, <2>6, <2>7
<1>9. ASSUME NEW c \in Callers, DeleteOldKey(c) PROVE KeysInv'
  <2>1. KeysTypeOK'
    BY <1>9 DEF DeleteOldKey, At, Return
  <2>2. StoreShape'
    BY <1>9 DEF DeleteOldKey, StoreShape
  <2>3. FlightInv'
    BY <1>9 DEF DeleteOldKey, At, Return, FlightInv, InFlight
  <2>4. LinkInv'
    BY <1>9 DEF DeleteOldKey, At, Return, LinkInv, MemoryInv, Writing
  <2>5. MemoryInv'
    BY <1>9 DEF DeleteOldKey, At, Return, MemoryInv
  <2>6. IssuedInv'
    BY <1>9 DEF DeleteOldKey, At, Return, IssuedInv, MemoryInv, InFlight
  <2>7. KeyOpensOneRoom'
    BY <1>9 DEF DeleteOldKey, KeyOpensOneRoom
  <2>8. QED
    BY <2>1, <2>2, <2>3, <2>4, <2>5, <2>6, <2>7
<1>10. ASSUME RestartKeys PROVE KeysInv'
  <2>1. KeysTypeOK'
    BY <1>10 DEF RestartKeys
  <2>2. StoreShape'
    BY <1>10 DEF RestartKeys, StoreShape, Names
  <2>3. FlightInv'
    BY <1>10 DEF RestartKeys, FlightInv, InFlight
  <2>4. LinkInv'
    BY <1>10 DEF RestartKeys, LinkInv, Names, Writing
  <2>5. MemoryInv'
    BY <1>10 DEF RestartKeys, MemoryInv, Names
  <2>6. IssuedInv'
    BY <1>10 DEF RestartKeys, IssuedInv, InFlight, Writing
  <2>7. KeyOpensOneRoom'
    BY <1>10 DEF RestartKeys, KeyOpensOneRoom
  <2>8. QED
    BY <2>1, <2>2, <2>3, <2>4, <2>5, <2>6, <2>7
<1>11. CASE UNCHANGED keyVars
  BY <1>11 DEF keyVars, keyLocals, StoreShape, FlightInv, LinkInv, MemoryInv,
     IssuedInv, KeyOpensOneRoom, InFlight, Writing
<1>12. QED
  BY <1>1, <1>2, <1>3, <1>4, <1>5, <1>6, <1>7, <1>8, <1>9, <1>10, <1>11 DEF KeysNext

\* At the start the store is empty and nobody is at work.
LEMMA KeysInitInv == KeysInit => KeysInv
BY KeysAssumption DEF KeysInit, KeysInv, KeysTypeOK, StoreShape, FlightInv, LinkInv,
   MemoryInv, IssuedInv, KeyOpensOneRoom, InFlight, Names

\* So it holds for good.
LEMMA KeysInvariance == KeysSpec => []KeysInv
BY KeysInitInv, KeysStep, PTL DEF KeysSpec

-----------------------------------------------------------------------------
\* The types of the store and of every caller's locals: SetKey always writes
\* a key of a room and a room of a key.
THEOREM KeysTypeCorrect == KeysSpec => []KeysTypeOK
<1>1. KeysInv => KeysTypeOK
  BY DEF KeysInv
<1>2. QED
  BY <1>1, KeysInvariance, PTL

\* The key that GetKey answers opens the room it was asked for, once no call
\* for the room is under way and no failure tore SetKey's two writes apart.
THEOREM AnswersOpen == KeysSpec => []AnsweredKeyOpens
<1>1. KeysInv => AnsweredKeyOpens
  BY DEF KeysInv, LinkInv, Writing, AnsweredKeyOpens
<1>2. QED
  BY <1>1, KeysInvariance, PTL

\* A key handed out for one room never opens another, over deletions and over
\* restarts after which the generator draws the same keys again.
THEOREM KeysStaySeparate == KeysSpec => []KeyOpensOneRoom
<1>1. KeysInv => KeyOpensOneRoom
  BY DEF KeysInv
<1>2. QED
  BY <1>1, KeysInvariance, PTL
==============================================================================

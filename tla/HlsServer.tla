----------------------------- MODULE HlsServer -----------------------------
(***************************************************************************)
(* The HLS server of one room (protocol/hls/hls.go): the map from room to  *)
(* Source, which publishers fill through GetWriter and checkStop empties,  *)
(* and the two handlers that read it.  The hub (module StreamHub) is seen  *)
(* from here only: it writes to, sweeps and closes the Sources registered  *)
(* in the room.  What a Source does with its packets is HlsSource.         *)
(***************************************************************************)
EXTENDS Integers, FiniteSets

CONSTANTS Publishers,   \* connections that publish to the room
          Requests,     \* requests being handled
          MaxSources,   \* bound: Sources created
          NoOne

Sources == 1..MaxSources

ASSUME ServerAssumption == MaxSources \in Nat /\ NoOne \notin Sources \cup Publishers

VARIABLES
    keep,      \* the setting hls_keep_after_end
    conn,      \* conns[key]: the room's Source, or NoOne
    made,      \* number of Sources created
    shut,      \* Sources whose flag closed is set
    bare,      \* Sources whose cache cleanup has set to nil
    alive,     \* Sources written to (or made) less than 10 s ago
    ws,        \* Sources registered with the room's current Stream
    owner,     \* the publisher the room's Stream reads from, or NoOne
    ppc, got,  \* each publisher's control point in handleConn, and its Source
    hpc, hconn,\* each request's control point and Source
    orphaned   \* history: an open Source was overwritten in conns or swept from it

hub == <<ws, owner>>
pubs == <<ppc, got>>
reqs == <<hpc, hconn>>
serverVars == <<keep, conn, made, shut, bare, alive, hub, pubs, reqs, orphaned>>

ServerInit ==
    /\ keep \in BOOLEAN
    /\ conn = NoOne /\ made = 0 /\ shut = {} /\ bare = {} /\ alive = {}
    /\ ws = {} /\ owner = NoOne
    /\ ppc = [p \in Publishers |-> "off"] /\ got = [p \in Publishers |-> NoOne]
    /\ hpc = [r \in Requests |-> "idle"] /\ hconn = [r \in Requests |-> NoOne]
    /\ orphaned = FALSE

\* Source.Close for all Sources in S.
CloseAll(S) ==
    /\ shut' = shut \cup S
    /\ bare' = IF keep THEN bare ELSE bare \cup (S \ shut)

-----------------------------------------------------------------------------
(* A publisher's handleConn: HandleReader, GetWriter, HandleWriter.         *)

\* HandleReader: the publisher owns the room; a superseded one's Sources have
\* been copied to the new Stream.
HandleReader(p) ==
    /\ ppc[p] = "off" /\ made < MaxSources
    /\ ppc' = [ppc EXCEPT ![p] = "load"]
    /\ owner' = p
    /\ UNCHANGED <<keep, conn, made, shut, bare, alive, ws, got, reqs, orphaned>>

\* GetWriter finds a Source, whatever its state, or none.
GetWriterLoad(p) ==
    /\ ppc[p] = "load"
    /\ got' = [got EXCEPT ![p] = conn]
    /\ ppc' = [ppc EXCEPT ![p] = IF conn = NoOne THEN "store" ELSE "register"]
    /\ UNCHANGED <<keep, conn, made, shut, bare, alive, hub, reqs, orphaned>>

\* Mutant: the new Source is not stored.
GetWriterStore_Forgets(p) ==
    /\ ppc[p] = "store" /\ made < MaxSources
    /\ made' = made + 1
    /\ got' = [got EXCEPT ![p] = made + 1]
    /\ alive' = alive \cup {made + 1}
    /\ ppc' = [ppc EXCEPT ![p] = "register"]
    /\ UNCHANGED <<keep, conn, orphaned, shut, bare, hub, reqs>>

GetWriterStore(p) ==
    /\ ppc[p] = "store" /\ made < MaxSources
    /\ made' = made + 1
    /\ got' = [got EXCEPT ![p] = made + 1]
    /\ conn' = made + 1
    /\ orphaned' = (orphaned \/ (conn # NoOne /\ conn \notin shut))
    /\ alive' = alive \cup {made + 1}
    /\ ppc' = [ppc EXCEPT ![p] = "register"]
    /\ UNCHANGED <<keep, shut, bare, hub, reqs>>

\* HandleWriter: the Source is registered, also with the stopped Stream of a
\* publisher that is gone again, unless the sweeper has removed that Stream.
HandleWriter(p) ==
    /\ ppc[p] = "register"
    /\ \/ ws' = ws \cup {got[p]}
       \/ owner = NoOne /\ UNCHANGED ws
    /\ ppc' = [ppc EXCEPT ![p] = "on"]
    /\ UNCHANGED <<keep, conn, made, shut, bare, alive, owner, got, reqs, orphaned>>

\* The connection ends.  The owner's transfer goroutine closes and removes the
\* room's Sources (closeInter), a superseded publisher's finds none.
PublisherEnds(p) ==
    /\ ppc[p] # "off" /\ (ppc[p] = "on" \/ owner = p)
    /\ ppc' = [ppc EXCEPT ![p] = IF @ = "on" THEN "off" ELSE @]
    /\ IF owner = p THEN CloseAll(ws) /\ ws' = {} /\ owner' = NoOne
       ELSE UNCHANGED <<shut, bare, hub>>
    /\ UNCHANGED <<keep, conn, made, alive, got, reqs, orphaned>>

-----------------------------------------------------------------------------
(* The hub's transfer goroutine and sweeper.                               *)

\* Write: a closed Source returns an error and is removed from the room.
HubWrite(s) ==
    /\ owner # NoOne /\ s \in ws
    /\ IF s \in shut THEN ws' = ws \ {s} /\ UNCHANGED alive
       ELSE alive' = alive \cup {s} /\ UNCHANGED ws
    /\ UNCHANGED <<keep, conn, made, shut, bare, owner, pubs, reqs, orphaned>>

\* The hub's CheckAlive closes a Source nobody wrote to.
HubSweep(s) ==
    /\ owner # NoOne /\ s \in ws \ alive
    /\ ws' = ws \ {s}
    /\ CloseAll({s})
    /\ UNCHANGED <<keep, conn, made, alive, owner, pubs, reqs, orphaned>>

\* Ten seconds pass without a packet for s.
Silence(s) ==
    /\ s \in alive
    /\ alive' = alive \ {s}
    /\ UNCHANGED <<keep, conn, made, shut, bare, hub, pubs, reqs, orphaned>>

-----------------------------------------------------------------------------
\* Mutant: a live Source goes, not the closed one.
CheckStop_Never ==
    /\ conn # NoOne /\ conn \notin alive /\ ~keep /\ conn \notin shut
    /\ orphaned' = TRUE
    /\ conn' = NoOne
    /\ UNCHANGED <<keep, made, shut, bare, alive, hub, pubs, reqs>>

\* checkStop, every five seconds: a silent Source leaves the map.  It is not
\* closed, and if it is open the hub may go on writing to it.
CheckStop ==
    /\ conn # NoOne /\ conn \notin alive /\ ~keep
    /\ orphaned' = (orphaned \/ conn \notin shut)
    /\ conn' = NoOne
    /\ UNCHANGED <<keep, made, shut, bare, alive, hub, pubs, reqs>>

-----------------------------------------------------------------------------
(* handle: .m3u8 and .ts requests.                                         *)

HandleKeeps ==
    UNCHANGED <<keep, conn, made, shut, bare, alive, hub, pubs, orphaned>>

\* getConn
HandleRequest(r, kind) ==
    /\ hpc[r] \in {"idle", "playlist", "segment", "403", "panic"}
    /\ hconn' = [hconn EXCEPT ![r] = conn]
    /\ hpc' = [hpc EXCEPT ![r] = IF conn = NoOne THEN "403" ELSE kind]
    /\ HandleKeeps

\* GetCacheInc is read once and tested.
HandleM3u8(r) ==
    /\ hpc[r] = "m3u8"
    /\ hpc' = [hpc EXCEPT ![r] = IF hconn[r] \in bare THEN "403" ELSE "playlist"]
    /\ hconn' = [hconn EXCEPT ![r] = NoOne]
    /\ HandleKeeps

\* The segment handler does not test it: GetItem on nil panics, and net/http
\* recovers and drops the connection.
HandleTs(r) ==
    /\ hpc[r] = "ts"
    /\ hpc' = [hpc EXCEPT ![r] = IF hconn[r] \in bare THEN "panic" ELSE "segment"]
    /\ hconn' = [hconn EXCEPT ![r] = NoOne]
    /\ HandleKeeps

Handle(r) ==
    (\E k \in {"m3u8", "ts"} : HandleRequest(r, k)) \/ HandleM3u8(r) \/ HandleTs(r)

-----------------------------------------------------------------------------
ServerNext ==
    \/ \E p \in Publishers : \/ HandleReader(p) \/ GetWriterLoad(p)
                             \/ GetWriterStore(p) \/ HandleWriter(p)
                             \/ PublisherEnds(p)
    \/ \E s \in Sources : HubWrite(s) \/ HubSweep(s) \/ Silence(s)
    \/ CheckStop
    \/ \E r \in Requests : Handle(r)

\* checkStop's ticker fires for ever, and a closed Source is not written to.
ServerFairness ==
    /\ WF_serverVars(CheckStop)
    /\ \A s \in Sources : WF_serverVars(s \in shut /\ Silence(s))

ServerSpec == ServerInit /\ [][ServerNext]_serverVars /\ ServerFairness

-----------------------------------------------------------------------------
(* Properties.                                                             *)

\* The Source that is fed is the Source that is served, through takeovers,
\* reconnections and sweeps, but for two cases: two publishers were inside
\* GetWriter at once, or checkStop dropped a Source that was silent for ten
\* seconds and not yet closed by the hub.  With hls_keep_after_end, which
\* "maintains the HLS after the stream ends" (README.md), the playlist of a
\* room that was published once stays available for good.
FedIsServed ==
    /\ ~orphaned => \A s \in ws \ shut : conn = s
    /\ keep /\ made > 0 => conn # NoOne /\ conn \notin bare

\* Without that setting a closed Source leaves the map, so that the room can
\* be served again; until then GetWriter hands it to new publishers.
ClosedIsForgotten ==
    \A s \in Sources : (~keep /\ conn = s /\ s \in shut) ~> (conn # s)
=============================================================================

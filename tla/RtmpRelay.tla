----------------------------- MODULE RtmpRelay -----------------------------
(***************************************************************************)
(* The relay sessions of the control API (handlePull and handlePush in     *)
(* protocol/api/api.go) for one session key, and the relays they start     *)
(* and stop (protocol/rtmp/rtmprelay/rtmprelay.go).  A relay is two client *)
(* connections and two goroutines with a channel between them: rcv reads   *)
(* from the play side, snd writes to the publish side.  Handlers of        *)
(* several requests run at the same time and no lock protects anything.    *)
(***************************************************************************)
EXTENDS Integers

CONSTANTS Handlers,    \* API requests being handled
          MaxRelays,   \* bound: relays created
          RelayCap,    \* capacity of cs_chan: 500
          NoRelay

Relays == 1..MaxRelays

ASSUME RelayAssumption ==
    MaxRelays \in Nat /\ RelayCap \in Nat \ {0} /\ NoRelay \notin Relays

VARIABLES
    careful,  \* the API's user waits for every answer and starts no session twice
    session,  \* session[key]
    built,    \* number of relays created
    apc, arel,          \* each handler's control point and relay
    flag,               \* startflag of each relay
    playOpen, pubOpen,  \* its connections
    rcv, snd,           \* its goroutines
    backlog,            \* len(cs_chan)
    apiDown   \* two goroutines met in the map: the Go runtime ended the process

relayState == <<flag, playOpen, pubOpen, rcv, snd, backlog>>
relayVars == <<careful, session, built, apc, arel, relayState, apiDown>>

Each(v) == [r \in Relays |-> v]

RelayInit ==
    /\ careful \in BOOLEAN
    /\ session = NoRelay /\ built = 0 /\ apiDown = FALSE
    /\ apc = [h \in Handlers |-> "idle"] /\ arel = [h \in Handlers |-> NoRelay]
    /\ flag = Each(FALSE) /\ playOpen = Each(FALSE) /\ pubOpen = Each(FALSE)
    /\ rcv = Each("off") /\ snd = Each("off") /\ backlog = Each(0)

Step(h, l) == apc' = [apc EXCEPT ![h] = l]

\* The handlers that are about to use the map.
InMap == {h \in Handlers : apc[h] \in {"find", "store", "delete"}}

\* A map write next to another access may end the process.
MapWrite(h) == apiDown' \in IF InMap \ {h} # {} THEN BOOLEAN ELSE {FALSE}

-----------------------------------------------------------------------------
(* oper=start: RtmpRelay.Start, then the session is stored.                *)

ApiStart(h) ==
    /\ apc[h] = "idle" /\ built < MaxRelays
    /\ careful => session = NoRelay /\ \A g \in Handlers : apc[g] = "idle"
    /\ built' = built + 1
    /\ arel' = [arel EXCEPT ![h] = built + 1]
    /\ Step(h, "dialPlay")
    /\ UNCHANGED <<careful, session, relayState, apiDown>>

StartPlay(h) ==
    /\ apc[h] = "dialPlay"
    /\ \/ playOpen' = [playOpen EXCEPT ![arel[h]] = TRUE] /\ Step(h, "dialPub")
       \/ UNCHANGED playOpen /\ Step(h, "idle")
    /\ UNCHANGED <<careful, session, built, arel, flag, pubOpen, rcv, snd, backlog, apiDown>>

\* Mutant: the flag is set before the second connection is there.
StartPublishFails_Flagged(h) ==
    /\ apc[h] = "dialPub"
    /\ playOpen' = [playOpen EXCEPT ![arel[h]] = FALSE]
    /\ flag' = [flag EXCEPT ![arel[h]] = TRUE]
    /\ Step(h, "idle")
    /\ UNCHANGED <<careful, session, built, arel, pubOpen, rcv, snd, backlog, apiDown>>

StartPublishFails(h) ==
    /\ apc[h] = "dialPub"
    /\ playOpen' = [playOpen EXCEPT ![arel[h]] = FALSE]
    /\ Step(h, "idle")
    /\ UNCHANGED <<careful, session, built, arel, flag, pubOpen, rcv, snd, backlog, apiDown>>

StartPublish(h) ==
    LET r == arel[h]
    IN  /\ apc[h] = "dialPub"
        /\ pubOpen' = [pubOpen EXCEPT ![r] = TRUE]
        /\ flag' = [flag EXCEPT ![r] = TRUE]
        /\ rcv' = [rcv EXCEPT ![r] = "loop"] /\ snd' = [snd EXCEPT ![r] = "loop"]
        /\ Step(h, "store")
        /\ UNCHANGED <<careful, session, built, arel, playOpen, backlog, apiDown>>

\* A session that is already there is overwritten, and its relay runs on.
StoreSession(h) ==
    /\ apc[h] = "store"
    /\ session' = arel[h]
    /\ MapWrite(h)
    /\ Step(h, "idle") /\ arel' = [arel EXCEPT ![h] = NoRelay]
    /\ UNCHANGED <<careful, built, relayState>>

-----------------------------------------------------------------------------
(* oper=stop: the session is looked up, RtmpRelay.Stop, then it is deleted. *)

ApiStop(h) ==
    /\ apc[h] = "idle"
    /\ careful => \A g \in Handlers : apc[g] = "idle"
    /\ Step(h, "find")
    /\ UNCHANGED <<careful, session, built, arel, relayState, apiDown>>

FindSession(h) ==
    /\ apc[h] = "find"
    /\ arel' = [arel EXCEPT ![h] = session]
    /\ Step(h, IF session = NoRelay THEN "idle" ELSE "stop")
    /\ UNCHANGED <<careful, session, built, relayState, apiDown>>

StopTest(h) ==
    /\ apc[h] = "stop"
    /\ Step(h, IF flag[arel[h]] THEN "clear" ELSE "delete")
    /\ UNCHANGED <<careful, session, built, arel, relayState, apiDown>>

StopClear(h) ==
    /\ apc[h] = "clear"
    /\ flag' = [flag EXCEPT ![arel[h]] = FALSE]
    /\ Step(h, "send")
    /\ UNCHANGED <<careful, session, built, arel, playOpen, pubOpen, rcv, snd, backlog, apiDown>>

\* The unbuffered channel: Stop and the sender meet, the sender closes its
\* connection and returns.
StopSend(h) ==
    LET r == arel[h]
    IN  /\ apc[h] = "send" /\ snd[r] = "loop"
        /\ snd' = [snd EXCEPT ![r] = "gone"]
        /\ pubOpen' = [pubOpen EXCEPT ![r] = FALSE]
        /\ Step(h, "delete")
        /\ UNCHANGED <<careful, session, built, arel, flag, playOpen, rcv, backlog, apiDown>>

DeleteSession(h) ==
    /\ apc[h] = "delete"
    /\ session' = NoRelay
    /\ MapWrite(h)
    /\ Step(h, "idle") /\ arel' = [arel EXCEPT ![h] = NoRelay]
    /\ UNCHANGED <<careful, built, relayState>>

-----------------------------------------------------------------------------
(* rcvPlayChunkStream and sendPublishChunkStream.                          *)

RelayKeeps == UNCHANGED <<careful, session, built, apc, arel, flag, pubOpen, apiDown>>

\* Mutant: the play connection is left open.
RcvTest_NoClose(r) ==
    /\ rcv[r] = "loop"
    /\ rcv' = [rcv EXCEPT ![r] = IF flag[r] THEN "read" ELSE "gone"]
    /\ UNCHANGED <<playOpen, snd, backlog>>
    /\ RelayKeeps

RcvTest(r) ==
    /\ rcv[r] = "loop"
    /\ rcv' = [rcv EXCEPT ![r] = IF flag[r] THEN "read" ELSE "gone"]
    /\ playOpen' = [playOpen EXCEPT ![r] = flag[r]]
    /\ UNCHANGED <<snd, backlog>>
    /\ RelayKeeps

\* Read returns: media goes to the channel; a command, metadata or any error
\* but EOF leads back to the test.
RcvRead(r) ==
    /\ rcv[r] = "read"
    /\ rcv' \in {[rcv EXCEPT ![r] = "push"], [rcv EXCEPT ![r] = "loop"]}
    /\ UNCHANGED <<playOpen, snd, backlog>>
    /\ RelayKeeps

\* The play side is closed by its server: rcv returns and leaves its own end
\* of the connection open.
RcvEOF(r) ==
    /\ rcv[r] = "read"
    /\ rcv' = [rcv EXCEPT ![r] = "eof"]
    /\ UNCHANGED <<playOpen, snd, backlog>>
    /\ RelayKeeps

RcvPush(r) ==
    /\ rcv[r] = "push" /\ backlog[r] < RelayCap
    /\ backlog' = [backlog EXCEPT ![r] = @ + 1]
    /\ rcv' = [rcv EXCEPT ![r] = "loop"]
    /\ UNCHANGED <<playOpen, snd>>
    /\ RelayKeeps

\* Mutant: the sender also ends when it has sent everything after a stop.
SndTake_EndsEarly(r) ==
    /\ snd[r] = "loop" /\ backlog[r] > 0
    /\ backlog' = [backlog EXCEPT ![r] = @ - 1]
    /\ snd' = [snd EXCEPT ![r] = IF ~flag[r] /\ backlog[r] = 1 THEN "gone" ELSE @]
    /\ UNCHANGED <<playOpen, rcv>>
    /\ RelayKeeps

\* The result of the write is not looked at.
SndTake(r) ==
    /\ snd[r] = "loop" /\ backlog[r] > 0
    /\ backlog' = [backlog EXCEPT ![r] = @ - 1]
    /\ UNCHANGED <<playOpen, rcv, snd>>
    /\ RelayKeeps

Goroutines(r) == RcvTest(r) \/ RcvRead(r) \/ RcvPush(r) \/ SndTake(r)

Start(h) == StartPlay(h) \/ StartPublishFails(h) \/ StartPublish(h) \/ StoreSession(h)

Stop(h) == FindSession(h) \/ StopTest(h) \/ StopClear(h) \/ StopSend(h) \/ DeleteSession(h)

RelayNext ==
    /\ ~apiDown
    /\ \/ \E h \in Handlers : ApiStart(h) \/ ApiStop(h) \/ Start(h) \/ Stop(h)
       \/ \E r \in Relays : Goroutines(r) \/ RcvEOF(r)

\* Goroutines and handlers run while they can, and select does not pass over
\* every stop for ever.  Nothing makes the play side send: Read may block for
\* ever, as it does on a room that nobody publishes.
RelayFairness ==
    /\ \A h \in Handlers : WF_relayVars(Start(h))
    /\ SF_relayVars(\E h \in Handlers : Stop(h))
    /\ \A r \in Relays : /\ WF_relayVars(RcvTest(r) \/ RcvPush(r))
                         /\ WF_relayVars(SndTake(r))

RelaySpec == RelayInit /\ [][RelayNext]_relayVars /\ RelayFairness

-----------------------------------------------------------------------------
\* For a careful user a relay that runs can be stopped: it is the session's,
\* or a handler is about to store it or is stopping it; and the session map
\* is never used by two handlers at once.  (A second start of the same key,
\* or a start that overlaps a stop, leaves a relay that nothing can stop.)
RelayReachable ==
    careful =>
        /\ ~apiDown
        /\ \A r \in Relays : flag[r] =>
              session = r \/ \E h \in Handlers : arel[h] = r /\ apc[h] # "idle"

\* A careful user's stop returns.  (Of two stops at once both may pass the
\* test of the flag, and the sender takes only one message.)
StopReturns ==
    \A h \in Handlers : (careful /\ apc[h] = "send") ~> (apc[h] = "idle")

\* A relay that was stopped closes both connections, but for three cases, in
\* which the play connection stays: its server had ended the stream, after
\* which nobody closes this end; its server is silent, and rcv, which tests
\* the flag between two reads only, waits in Read; or rcv is stuck, because
\* the channel was full when the sender left and nobody empties it any more.
StopCloses ==
    \A r \in Relays :
        (snd[r] = "gone" /\ ~apiDown) ~>
            \/ ~pubOpen[r] /\ (~playOpen[r] \/ rcv[r] \in {"eof", "read"})
            \/ ~pubOpen[r] /\ rcv[r] = "push" /\ backlog[r] = RelayCap
            \/ apiDown
=============================================================================

----------------------------- MODULE StaticPush -----------------------------
(***************************************************************************)
(* Static push: a room whose application has static_push configured is     *)
(* also published to another server (StaticPush in rtmprelay/              *)
(* staticrelay.go, driven by a Stream's transfer goroutine, stream.go).    *)
(* One push address is modelled.  Every publisher of the room has its      *)
(* transfer goroutine; on a takeover the old one's end and the new one's   *)
(* start interleave, and both work on the same entry of G_StaticPushMap.   *)
(***************************************************************************)
EXTENDS Integers

CONSTANTS Streams,      \* transfer goroutines, one per publisher of the room
          Overlaps,     \* whether publishers may take over from each other
          MaxPushes,    \* bound: StaticPush objects created
          PushCap,      \* capacity of packet_chan: 500
          NoPush

Pushes == 1..MaxPushes

ASSUME PushAssumption ==
    /\ MaxPushes \in Nat /\ PushCap \in Nat \ {0} /\ NoPush \notin Pushes
    /\ Overlaps \subseteq BOOLEAN

VARIABLES
    overlap,   \* whether publishers take over from each other here
    pushMap,   \* G_StaticPushMap[url]
    objects,   \* number of objects created
    tpc, tobj, \* each transfer goroutine's control point and object
    startflag, \* of each object
    remote,    \* the connection of its connectClient is open
    worker,    \* its goroutine HandleAvPacket
    queued,    \* len(packet_chan)
    missed,    \* history: objects whose goroutine ran before the flag was set
    refused    \* history: goroutines whose push server could not be reached

pushObj == <<startflag, remote, worker, queued>>
pushVars == <<overlap, pushMap, objects, tpc, tobj, pushObj, missed, refused>>

PushInit ==
    /\ overlap \in Overlaps
    /\ pushMap = NoPush /\ objects = 0 /\ missed = {} /\ refused = {}
    /\ tpc = [t \in Streams |-> "off"] /\ tobj = [t \in Streams |-> NoPush]
    /\ startflag = [o \in Pushes |-> FALSE] /\ remote = [o \in Pushes |-> FALSE]
    /\ worker = [o \in Pushes |-> "off"] /\ queued = [o \in Pushes |-> 0]

Trans(t, l) == tpc' = [tpc EXCEPT ![t] = l]

-----------------------------------------------------------------------------
(* TransStart: StartStaticPush.                                            *)

TransStart(t) ==
    /\ tpc[t] = "off" /\ objects < MaxPushes
    /\ ~overlap => \A u \in Streams : tpc[u] = "off"
    /\ Trans(t, "get")
    /\ UNCHANGED <<overlap, pushMap, objects, tobj, pushObj, missed, refused>>

\* GetAndCreateStaticPushObject: the lookup, and under another lock the store.
GetPush(t) ==
    /\ tpc[t] = "get"
    /\ tobj' = [tobj EXCEPT ![t] = pushMap]
    /\ Trans(t, IF pushMap = NoPush THEN "create" ELSE "start")
    /\ UNCHANGED <<overlap, pushMap, objects, pushObj, missed, refused>>

CreatePush(t) ==
    /\ tpc[t] = "create" /\ objects < MaxPushes
    /\ objects' = objects + 1
    /\ pushMap' = objects + 1
    /\ tobj' = [tobj EXCEPT ![t] = objects + 1]
    /\ Trans(t, "start")
    /\ UNCHANGED <<overlap, pushObj, missed, refused>>

\* Start: an object that is started returns an error, which is only logged.
PushStartTest(t) ==
    /\ tpc[t] = "start"
    /\ Trans(t, IF startflag[tobj[t]] THEN "room" ELSE "dial")
    /\ UNCHANGED <<overlap, pushMap, objects, tobj, pushObj, missed, refused>>

\* The client connects, or not; then the goroutine is started.
PushDial(t) ==
    LET o == tobj[t]
    IN  /\ tpc[t] = "dial"
        /\ \/ /\ remote' = [remote EXCEPT ![o] = TRUE]
              /\ worker' = [worker EXCEPT ![o] = "new"]
              /\ Trans(t, "flag")
              /\ refused' = refused \ {t}
           \/ /\ Trans(t, "room")
              /\ refused' = refused \cup {t}
              /\ UNCHANGED <<remote, worker>>
        /\ UNCHANGED <<overlap, pushMap, objects, tobj, startflag, queued, missed>>

PushSetFlag(t) ==
    /\ tpc[t] = "flag"
    /\ startflag' = [startflag EXCEPT ![tobj[t]] = TRUE]
    /\ Trans(t, "room")
    /\ UNCHANGED <<overlap, pushMap, objects, tobj, remote, worker, queued, missed, refused>>

-----------------------------------------------------------------------------
(* The transfer loop: IsSendStaticPush, SendStaticPush, WriteAvPacket.     *)

SendStaticPush(t) ==
    /\ tpc[t] = "room" /\ pushMap # NoPush
    /\ startflag[pushMap]
    /\ tobj' = [tobj EXCEPT ![t] = pushMap]
    /\ Trans(t, "write")
    /\ UNCHANGED <<overlap, pushMap, objects, pushObj, missed, refused>>

WriteAvPacket(t) ==
    /\ tpc[t] = "write" /\ queued[tobj[t]] < PushCap
    /\ queued' = [queued EXCEPT ![tobj[t]] = @ + 1]
    /\ Trans(t, "room")
    /\ UNCHANGED <<overlap, pushMap, objects, tobj, startflag, remote, worker, missed, refused>>

-----------------------------------------------------------------------------
(* closeInter: StopStaticPush.                                             *)

TransEnd(t) ==
    /\ tpc[t] = "room"
    /\ Trans(t, "stop")
    /\ UNCHANGED <<overlap, pushMap, objects, tobj, pushObj, missed, refused>>

StopStaticPush(t) ==
    /\ tpc[t] = "stop"
    /\ tobj' = [tobj EXCEPT ![t] = pushMap]
    /\ Trans(t, IF pushMap = NoPush THEN "off"
                ELSE IF startflag[pushMap] THEN "stopSend" ELSE "release")
    /\ UNCHANGED <<overlap, pushMap, objects, pushObj, missed, refused>>

\* The unbuffered channel: the goroutine closes the connection and returns.
PushStopSend(t) ==
    LET o == tobj[t]
    IN  /\ tpc[t] = "stopSend" /\ worker[o] = "loop"
        /\ worker' = [worker EXCEPT ![o] = "gone"]
        /\ remote' = [remote EXCEPT ![o] = FALSE]
        /\ Trans(t, "stopFlag")
        /\ UNCHANGED <<overlap, pushMap, objects, tobj, startflag, queued, missed, refused>>

PushClearFlag(t) ==
    /\ tpc[t] = "stopFlag"
    /\ startflag' = [startflag EXCEPT ![tobj[t]] = FALSE]
    /\ Trans(t, "release")
    /\ UNCHANGED <<overlap, pushMap, objects, tobj, remote, worker, queued, missed, refused>>

ReleasePush(t) ==
    /\ tpc[t] = "release"
    /\ pushMap' = NoPush
    /\ Trans(t, "off")
    /\ UNCHANGED <<overlap, objects, tobj, pushObj, missed, refused>>

-----------------------------------------------------------------------------
(* HandleAvPacket.                                                         *)

WorkerKeeps ==
    UNCHANGED <<overlap, pushMap, objects, tpc, tobj, startflag, remote, refused>>

\* Mutant: a goroutine that starts late is not noticed.
WorkerTest_Ends(o) ==
    /\ worker[o] = "new"
    /\ worker' = [worker EXCEPT ![o] = "gone"]
    /\ UNCHANGED <<queued, missed>>
    /\ WorkerKeeps

\* It returns at once when it runs before Start has set the flag.
WorkerTest(o) ==
    /\ worker[o] = "new"
    /\ worker' = [worker EXCEPT ![o] = IF startflag[o] THEN "loop" ELSE "gone"]
    /\ missed' = IF startflag[o] THEN missed ELSE missed \cup {o}
    /\ UNCHANGED queued
    /\ WorkerKeeps

WorkerTake(o) ==
    /\ worker[o] = "loop" /\ queued[o] > 0
    /\ queued' = [queued EXCEPT ![o] = @ - 1]
    /\ UNCHANGED <<worker, missed>>
    /\ WorkerKeeps

HandleAvPacket(o) == WorkerTest(o) \/ WorkerTake(o)

StartPush(t) ==
    \/ GetPush(t) \/ CreatePush(t) \/ PushStartTest(t) \/ PushDial(t) \/ PushSetFlag(t)

CloseInter(t) ==
    \/ StopStaticPush(t) \/ PushStopSend(t) \/ PushClearFlag(t) \/ ReleasePush(t)

PushNext ==
    \/ \E t \in Streams : \/ TransStart(t) \/ StartPush(t) \/ SendStaticPush(t)
                          \/ WriteAvPacket(t) \/ TransEnd(t) \/ CloseInter(t)
    \/ \E o \in Pushes : HandleAvPacket(o)

\* Goroutines run while they can; select does not pass over every stop for ever.
PushFairness ==
    /\ SF_pushVars(\E t \in Streams : CloseInter(t))
    /\ \A t \in Streams : WF_pushVars(WriteAvPacket(t))
    /\ \A o \in Pushes : WF_pushVars(HandleAvPacket(o))

PushSpec == PushInit /\ [][PushNext]_pushVars /\ PushFairness

-----------------------------------------------------------------------------
PushIdle == pushMap = NoPush /\ \A o \in Pushes : ~remote[o] /\ worker[o] \in {"off", "gone"}

\* Without takeovers the end of a publisher's goroutine is not held up and
\* leaves nothing behind, no entry, no connection and no goroutine: unless a
\* HandleAvPacket was scheduled before Start had set the flag.
PushStopReturns ==
    \A t \in Streams :
        (~overlap /\ tpc[t] = "stop") ~> (missed # {} \/ (tpc[t] = "off" /\ PushIdle))

\* "If static_push is configured, start the connection that pushes to the
\* remote end" (the comment on StartStaticPush): while the room has a publisher
\* whose push server could be reached, the push is running.
PushRunsInRoom ==
    \A t \in Streams :
        (tpc[t] = "room" /\ t \notin refused /\ \A u \in Streams \ {t} : tpc[u] = "off")
            => pushMap # NoPush /\ startflag[pushMap]
=============================================================================

------------------------------- MODULE MCCore -------------------------------
(* What a connection is made of, for TLC: the room keys, the AMF codec,    *)
(* the chunk layer, the RTMP session and the TS muxer.  They share no      *)
(* state: which says whose behaviours are explored, and the settings of    *)
(* the others stay fixed.                                                  *)
EXTENDS RoomKeys, Amf, ChunkLayer, RtmpSession, TsMuxer

CONSTANTS ra, rb, c1, c2

RoomOfKeyDef == "key1" :> "room1" @@ "key2" :> "room1"

VARIABLE which

vars == <<which, keyVars, amfVars, chunkVars, sessionVars, muxVars>>

Init ==
    /\ which \in {"keys", "amf", "chunks", "session", "mux"}
    /\ KeysInit /\ AmfInit /\ ChunkInit /\ SessionInit /\ MuxInit
    /\ which # "keys" => ~redis
    /\ which # "amf" => aver = 0
    /\ which # "chunks" => ours
    /\ which # "session" => ends = "client" /\ goal.method = "play"
    \* What another server answers does not depend on what the client asks for.
    /\ ends = "client" => goal.app = OtherApp /\ goal.title = OtherName

Next ==
    /\ UNCHANGED which
    /\ \/ which = "keys" /\ KeysNext /\ UNCHANGED <<amfVars, chunkVars, sessionVars, muxVars>>
       \/ which = "amf" /\ AmfNext /\ UNCHANGED <<keyVars, chunkVars, sessionVars, muxVars>>
       \/ which = "chunks" /\ ChunkNext /\ UNCHANGED <<keyVars, amfVars, sessionVars, muxVars>>
       \/ which = "session" /\ SessionNext /\ UNCHANGED <<keyVars, amfVars, chunkVars, muxVars>>
       \/ which = "mux" /\ MuxNext /\ UNCHANGED <<keyVars, amfVars, chunkVars, sessionVars>>

\* SessionFairness, for the behaviours in which the session is explored.
Fairness ==
    /\ WF_sessionVars(which = "session" /\ Client) /\ WF_sessionVars(which = "session" /\ Server)
    /\ WF_sessionVars(which = "session" /\ CliShakeFails)
    /\ WF_sessionVars(which = "session" /\ SrvTimeout)

Spec == Init /\ [][Next]_vars /\ Fairness

\* Type correctness of the five: the stores of room keys hold names, no buffer
\* that was handed out ends past the pool, no more is read or taken of a message
\* or a frame than it has.
CoreTypeOK == KeysTypeOK /\ AmfTypeOK /\ ChunkTypeOK /\ SessionTypeOK /\ MuxTypeOK
=============================================================================

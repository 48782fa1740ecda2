------------------------------ MODULE RoomKeys ------------------------------
(***************************************************************************)
(* The keys that let a publisher into a room (configure/channel.go), as    *)
(* the control API and handleConn use them.  One flat store maps rooms to  *)
(* keys and keys to rooms; every operation on it is a step, and callers    *)
(* interleave.  The store is either the process's own memory or a redis    *)
(* server, whose operations can fail and which outlives the process.       *)
(***************************************************************************)
EXTENDS Integers, FiniteSets

CONSTANTS Rooms,       \* room (channel) names
          Callers,     \* goroutines that use the keys
          MaxDraws,    \* bound: keys drawn by one process
          MaxRestarts, \* bound: restarts
          NoName

\* RandStringRunes takes the runes from an unseeded generator: every process
\* draws the same keys in the same order, here 1, 2, ...
KeyNames == 1..MaxDraws
Names == Rooms \cup KeyNames

\* Rooms are assumed not to be named like keys (48 random letters).  The code
\* does not see to it: in the flat store such a room would share an entry with
\* the key, and setting the one would overwrite the other.
ASSUME KeysAssumption ==
    /\ MaxDraws \in Nat /\ MaxRestarts \in Nat
    /\ NoName \notin Names
    /\ Rooms \cap Int = {}

VARIABLES
    redis,    \* the store is a redis server
    store,    \* what each name maps to
    draws,    \* keys drawn since the process started
    kpc,      \* each caller's control point
    room,     \* the room it works on
    key,      \* the key it works with
    restarts,
    issued,   \* history: the pairs <<key, room>> handed out since the store was empty
    torn      \* history: rooms for which SetKey stopped between its two writes

keyLocals == <<kpc, room, key>>
keyVars == <<redis, store, draws, keyLocals, restarts, issued, torn>>

KeysInit ==
    /\ redis \in BOOLEAN
    /\ store = [x \in Names |-> NoName]
    /\ draws = 0
    /\ kpc = [c \in Callers |-> "idle"]
    /\ room = [c \in Callers |-> NoName] /\ key = [c \in Callers |-> NoName]
    /\ restarts = 0 /\ issued = {} /\ torn = {}

At(c, l) == kpc' = [kpc EXCEPT ![c] = l]

\* The call returns.
Return(c) ==
    /\ At(c, "idle")
    /\ room' = [room EXCEPT ![c] = NoName] /\ key' = [key EXCEPT ![c] = NoName]

\* GetKey: the room's key, or else SetKey.
GetKey(c, r) ==
    /\ kpc[c] = "idle"
    /\ IF store[r] # NoName
       THEN issued' = issued \cup {<<store[r], r>>} /\ UNCHANGED <<kpc, room>>
       ELSE At(c, "draw") /\ room' = [room EXCEPT ![c] = r] /\ UNCHANGED issued
    /\ UNCHANGED <<redis, store, draws, key, restarts, torn>>

\* handleReset calls SetKey directly.
ResetKey(c, r) ==
    /\ kpc[c] = "idle"
    /\ room' = [room EXCEPT ![c] = r]
    /\ At(c, "draw")
    /\ UNCHANGED <<redis, store, draws, key, restarts, issued, torn>>

\* Mutant: a key that is in use is taken all the same.
SetKeyDraw_NoTest(c) ==
    /\ kpc[c] = "draw" /\ draws < MaxDraws
    /\ draws' = draws + 1
    /\ key' = [key EXCEPT ![c] = draws + 1] /\ At(c, "setRoom")
    /\ UNCHANGED <<redis, store, room, restarts, issued, torn>>

\* SetKey draws until the store does not know the key.
SetKeyDraw(c) ==
    /\ kpc[c] = "draw" /\ draws < MaxDraws
    /\ draws' = draws + 1
    /\ IF store[draws + 1] = NoName
       THEN key' = [key EXCEPT ![c] = draws + 1] /\ At(c, "setRoom")
       ELSE UNCHANGED <<key, kpc>>
    /\ UNCHANGED <<redis, store, room, restarts, issued, torn>>

SetRoom(c) ==
    /\ kpc[c] = "setRoom"
    /\ store' = [store EXCEPT ![room[c]] = key[c]]
    /\ At(c, "setKey")
    /\ UNCHANGED <<redis, draws, room, key, restarts, issued, torn>>

SetKey(c) ==
    /\ kpc[c] = "setKey"
    /\ store' = [store EXCEPT ![key[c]] = room[c]]
    /\ issued' = issued \cup {<<key[c], room[c]>>}
    /\ Return(c)
    /\ UNCHANGED <<redis, draws, restarts, torn>>

\* A redis operation fails and the caller returns the error.
RedisFails(c) ==
    /\ redis /\ kpc[c] \in {"draw", "setRoom", "setKey"}
    /\ torn' = IF kpc[c] = "setKey" THEN torn \cup {room[c]} ELSE torn
    /\ Return(c)
    /\ UNCHANGED <<redis, store, draws, restarts, issued>>

\* DeleteChannel: in redis only the room's entry goes.
DeleteChannel(c, r) ==
    /\ kpc[c] = "idle"
    /\ store[r] # NoName
    /\ IF redis THEN store' = [store EXCEPT ![r] = NoName] /\ UNCHANGED keyLocals
       ELSE /\ room' = [room EXCEPT ![c] = r] /\ key' = [key EXCEPT ![c] = store[r]]
            /\ At(c, "delRoom")
            /\ UNCHANGED store
    /\ UNCHANGED <<redis, draws, restarts, issued, torn>>

\* Mutant: the room keeps its entry.
DeleteRoom_Keeps(c) ==
    /\ kpc[c] = "delRoom"
    /\ At(c, "delKey")
    /\ UNCHANGED <<redis, store, draws, room, key, restarts, issued, torn>>

DeleteRoom(c) ==
    /\ kpc[c] = "delRoom"
    /\ store' = [store EXCEPT ![room[c]] = NoName]
    /\ At(c, "delKey")
    /\ UNCHANGED <<redis, draws, room, key, restarts, issued, torn>>

DeleteOldKey(c) ==
    /\ kpc[c] = "delKey"
    /\ store' = [store EXCEPT ![key[c]] = NoName]
    /\ Return(c)
    /\ UNCHANGED <<redis, draws, restarts, issued, torn>>

\* The process ends and starts again: redis keeps its data, the memory does
\* not, and the generator starts from its fixed seed.
RestartKeys ==
    /\ restarts < MaxRestarts
    /\ restarts' = restarts + 1
    /\ draws' = 0
    /\ kpc' = [c \in Callers |-> "idle"]
    /\ room' = [c \in Callers |-> NoName] /\ key' = [c \in Callers |-> NoName]
    /\ IF redis
       THEN /\ torn' = torn \cup {room[c] : c \in {d \in Callers : kpc[d] = "setKey"}}
            /\ UNCHANGED <<store, issued>>
       ELSE store' = [x \in Names |-> NoName] /\ issued' = {} /\ UNCHANGED torn
    /\ UNCHANGED redis

KeysNext ==
    \/ \E c \in Callers :
          \/ \E r \in Rooms : GetKey(c, r) \/ ResetKey(c, r) \/ DeleteChannel(c, r)
          \/ SetKeyDraw(c) \/ SetRoom(c) \/ SetKey(c) \/ RedisFails(c)
          \/ DeleteRoom(c) \/ DeleteOldKey(c)
    \/ RestartKeys

KeysSpec == KeysInit /\ [][KeysNext]_keyVars

-----------------------------------------------------------------------------
\* Type correctness; every caller's next step uses what the caller has.
KeysTypeOK ==
    /\ redis \in BOOLEAN
    /\ store \in [Names -> Names \cup {NoName}]
    /\ draws \in 0..MaxDraws /\ restarts \in 0..MaxRestarts
    /\ kpc \in [Callers -> {"idle", "draw", "setRoom", "setKey", "delRoom", "delKey"}]
    /\ room \in [Callers -> Rooms \cup {NoName}]
    /\ key \in [Callers -> KeyNames \cup {NoName}]
    /\ issued \subseteq KeyNames \X Rooms
    /\ torn \subseteq Rooms
    /\ \A c \in Callers :
          /\ kpc[c] # "idle" => room[c] \in Rooms
          /\ kpc[c] \notin {"idle", "draw"} => key[c] \in KeyNames

\* The key that control/get answers lets the publisher into that very room
\* (README.md, Use, steps 2 and 3), however requests for keys, resets and
\* deletions of the room interleaved, once none of them is under way; unless
\* the redis server failed, or the process ended, between SetKey's two writes.
AnsweredKeyOpens ==
    \A r \in Rooms :
        (store[r] # NoName /\ r \notin torn /\ \A c \in Callers : room[c] # r)
            => store[store[r]] = r

\* A key handed out for one room never lets a publisher into another, not
\* after deletions and not after restarts that draw the same keys again
\* (with the same exception).
KeyOpensOneRoom ==
    \A p \in issued : p[2] \notin torn => store[p[1]] \in {p[2], NoName}
=============================================================================

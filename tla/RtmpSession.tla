---------------------------- MODULE RtmpSession ----------------------------
(***************************************************************************)
(* How an RTMP connection is opened (protocol/rtmp/core: handshake.go,     *)
(* conn_client.go, conn_server.go; handleConn of rtmp.go): the handshake   *)
(* with its deadlines, then the commands connect, createStream and publish *)
(* or play.  Both ends are this program's (a relay into a server), or only *)
(* one is and the other sends what it likes.  A connection may be lost;    *)
(* what was sent before may still arrive, and a write may then fail.       *)
(***************************************************************************)
EXTENDS Integers, Sequences

CONSTANTS Apps,       \* the applications of the configuration
          OtherApp,   \* one that is not among them
          RoomOfKey,  \* the room keys that are set at some time, and their rooms
          Drawn,      \* the key SetKey draws for a publisher
          OtherName,  \* a name that is neither key nor room
          MaxPeer     \* bound: what a peer sends after its handshake

Blank == ""
NoStream == -1
Keys == DOMAIN RoomOfKey
Titles == Keys \cup {RoomOfKey[k] : k \in Keys} \cup {OtherName}

\* No room is named like a key, though the store would take it.
ASSUME SessionAssumption ==
    /\ OtherApp \notin Apps /\ MaxPeer \in Nat
    /\ \A k \in Keys : RoomOfKey[k] \notin Keys
    /\ Blank \notin Keys /\ OtherName \notin Keys /\ Drawn \notin Titles \cup {Blank}

Commands == {"connect", "createStream", "publish", "play"}

VARIABLES
    ends,      \* who is this program: "both", "client" or "server"
    link,      \* "up" or "down"
    c2s, s2c,  \* what is on its way
    goal,      \* the client's method, app and title
    cpc,       \* where Start is
    waiting,   \* it waits for an answer in readRespMsg
    transID, streamid,
    spc,       \* where handleConn is
    serving,   \* the server's ConnInfo, PublishInfo, transactionID, done, isPublisher
    noauth,    \* the option rtmp_noauth
    asked,     \* what handleConn asks GetChannel for
    admitted,  \* the name under which handleConn has passed the connection on
    sentPeer,  \* what a peer has sent
    granted,   \* history: the numbers and streams of another server's answers
    upset      \* history: the connection was lost, or a deadline has passed

cliVars == <<goal, cpc, waiting, transID, streamid>>
srvVars == <<spc, serving, noauth, asked, admitted>>
sessionVars == <<ends, link, c2s, s2c, cliVars, srvVars, sentPeer, granted, upset>>

Fresh == [app |-> Blank, name |-> Blank, trans |-> 0, done |-> FALSE, isPublisher |-> FALSE]

SessionInit ==
    /\ ends \in {"both", "client", "server"}
    /\ link = "up" /\ c2s = <<>> /\ s2c = <<>>
    /\ goal \in IF ends = "server" THEN {[method |-> "play", app |-> Blank, title |-> Blank]}
                ELSE [method : {"publish", "play"}, app : Apps \cup {OtherApp}, title : Titles]
    /\ cpc = IF ends = "server" THEN "peer" ELSE "dial"
    /\ waiting = FALSE /\ transID = 1 /\ streamid = 0
    /\ spc = IF ends = "client" THEN "peer" ELSE "hello"
    /\ serving = Fresh /\ asked = Blank /\ admitted = Blank /\ sentPeer = 0 /\ granted = {} /\ upset = FALSE
    /\ noauth \in IF ends = "client" THEN {FALSE} ELSE BOOLEAN

\* Sending down one of the directions: what is sent on a lost connection is gone.
Sent(q, ms) == IF link = "up" THEN q \o ms ELSE q

\* A write or a flush can fail once the connection is lost.
Written == BOOLEAN \ (IF link = "up" THEN {FALSE} ELSE {})

Cut ==
    /\ link = "up" /\ link' = "down" /\ upset' = TRUE
    /\ \E i \in 0..Len(c2s), j \in 0..Len(s2c) :
          c2s' = SubSeq(c2s, 1, i) /\ s2c' = SubSeq(s2c, 1, j)
    /\ UNCHANGED <<ends, cliVars, srvVars, sentPeer, granted>>

-----------------------------------------------------------------------------
(* The client: Start.                                                      *)

Hello(ver) == [kind |-> "C0C1", ver |-> ver]
C2 == [kind |-> "C2"]
S0S1S2 == [kind |-> "S0S1S2"]

\* Start dials; its client's C1 has version 0.
CliDial ==
    /\ cpc = "dial"
    /\ \E ok \in BOOLEAN :
          /\ cpc' = IF ok THEN "shake" ELSE "failed"
          /\ c2s' = IF ok THEN Sent(c2s, <<Hello("simple")>>) ELSE c2s
          /\ upset' = (upset \/ ~ok)
    /\ UNCHANGED <<ends, link, s2c, goal, waiting, transID, streamid, srvVars, sentPeer, granted>>

\* HandshakeClient has the server's part; C2 stays in the buffer.
CliShake ==
    /\ cpc = "shake" /\ s2c # <<>> /\ Head(s2c) = S0S1S2
    /\ cpc' = "connect" /\ s2c' = Tail(s2c)
    /\ UNCHANGED <<ends, link, c2s, goal, waiting, transID, streamid, srvVars, sentPeer, granted, upset>>

\* A read of the handshake fails: at the deadline, or on a lost connection.
CliShakeFails ==
    /\ cpc = "shake"
    /\ cpc' = "failed" /\ upset' = TRUE
    /\ UNCHANGED <<ends, link, c2s, s2c, goal, waiting, transID, streamid, srvVars, sentPeer, granted>>

\* The command of the step Start is in.  The number of a play is 0.
Command ==
    [kind |-> "cmd", cmd |-> cpc,
     trans |-> IF cpc = "connect" THEN 1 ELSE IF cpc = "play" THEN 0 ELSE transID + 1,
     app |-> goal.app, name |-> IF cpc \in {"publish", "play"} THEN goal.title ELSE Blank]

\* writeConnectMsg and its kin: the command is written and flushed, with what
\* the buffer held.
CliWrite ==
    /\ cpc \in Commands /\ ~waiting
    /\ transID' = IF cpc = "connect" THEN transID ELSE transID + 1
    /\ c2s' = Sent(c2s, (IF cpc = "connect" THEN <<C2>> ELSE <<>>) \o <<Command>>)
    /\ \E ok \in Written : IF ok THEN waiting' = TRUE /\ UNCHANGED cpc
                           ELSE cpc' = "failed" /\ UNCHANGED waiting
    /\ UNCHANGED <<ends, link, s2c, goal, streamid, srvVars, sentPeer, granted, upset>>

\* readRespMsg's verdict on an answer.  A batch that is empty, cannot be decoded
\* or has neither a string nor a number first is "bare": nothing in it is
\* refused.  A code that is no string is a failed type assertion.
Verdict(m) ==
    CASE cpc \in {"connect", "createStream"} /\ m.cmd # "bare" ->
           IF m.cmd # "_result" THEN "error"
           ELSE IF m.trans # transID THEN "ErrFail"
           ELSE IF cpc = "createStream" \/ m.code \in {Blank, "success"} THEN "ok"
           ELSE IF m.code = "mistyped" THEN "panic" ELSE "ErrFail"
      [] cpc = "publish" ->
           IF m.cmd \notin {"onStatus", "bare"} \/ (m.cmd = "onStatus" /\ m.trans # 0)
              \/ m.stream \notin {NoStream, 0} THEN "ErrFail"
           ELSE IF m.code \in {Blank, "start"} THEN "ok"
           ELSE IF m.code = "mistyped" THEN "panic" ELSE "ErrFail"
      [] OTHER -> "ok"

NextStep ==
    CASE cpc = "connect" -> "createStream"
      [] cpc = "createStream" -> goal.method
      [] OTHER -> "started"

\* readRespMsg takes a message; only a command is an answer.  Any error but
\* ErrFail makes writeCreateStreamMsg read on.  The fourth value of an answer
\* to connect is taken for a stream, too.  Nothing recovers from a panic: the
\* program ends.
CliRead ==
    /\ waiting /\ s2c # <<>>
    /\ s2c' = Tail(s2c)
    /\ LET m == Head(s2c)
       IN  \/ m.kind # "cmd" /\ UNCHANGED <<link, cliVars>>
           \/ /\ m.kind = "cmd"
              /\ link' = IF Verdict(m) = "panic" THEN "down" ELSE link
              /\ streamid' = IF /\ cpc \in {"connect", "createStream"} /\ Verdict(m) = "ok"
                                /\ m.stream # NoStream
                             THEN m.stream ELSE streamid
              /\ \/ Verdict(m) = "ok" /\ cpc' = NextStep /\ waiting' = FALSE
                 \/ Verdict(m) = "error" /\ cpc = "createStream" /\ UNCHANGED <<cpc, waiting>>
                 \/ /\ Verdict(m) = "ErrFail" \/ (Verdict(m) = "error" /\ cpc # "createStream")
                    /\ cpc' = "failed" /\ waiting' = FALSE
                 \/ Verdict(m) = "panic" /\ cpc' = "panic" /\ waiting' = FALSE
              /\ UNCHANGED <<goal, transID>>
    /\ UNCHANGED <<ends, c2s, srvVars, sentPeer, granted, upset>>

\* Mutant: the other commands wait on like createStream.
CliReadFails_Never ==
    /\ waiting /\ s2c = <<>> /\ link = "down" /\ cpc = "connect"
    /\ cpc' = "failed" /\ waiting' = FALSE
    /\ UNCHANGED <<ends, link, c2s, s2c, goal, transID, streamid, srvVars, sentPeer, granted, upset>>

\* The read fails.  The error is neither nil nor ErrFail, so that
\* writeCreateStreamMsg reads again, and gets it again, for ever.
CliReadFails ==
    /\ waiting /\ s2c = <<>> /\ link = "down" /\ cpc # "createStream"
    /\ cpc' = "failed" /\ waiting' = FALSE
    /\ UNCHANGED <<ends, link, c2s, s2c, goal, transID, streamid, srvVars, sentPeer, granted, upset>>

-----------------------------------------------------------------------------
(* The server: handleConn.                                                 *)

\* conn.Close, and handleConn returns.
Refuse == spc' = "returned" /\ link' = "down" /\ UNCHANGED <<serving, noauth, asked, admitted>>

\* HandshakeServer has C0 and C1.
SrvHello ==
    /\ spc = "hello" /\ c2s # <<>> /\ Head(c2s).kind = "C0C1"
    /\ c2s' = Tail(c2s)
    /\ \/ /\ Head(c2s).ver \in {"simple", "digest"}
          /\ spc' = "shake" /\ s2c' = Sent(s2c, <<S0S1S2>>)
          /\ UNCHANGED <<link, serving, noauth, asked, admitted>>
       \/ /\ Head(c2s).ver \in {"version", "badDigest"} \/ FALSE \in Written
          /\ Refuse /\ UNCHANGED s2c
    /\ UNCHANGED <<ends, cliVars, sentPeer, granted, upset>>

SrvShake ==
    /\ spc = "shake" /\ c2s # <<>> /\ Head(c2s).kind = "C2"
    /\ spc' = "read" /\ c2s' = Tail(c2s)
    /\ UNCHANGED <<ends, link, s2c, cliVars, serving, noauth, asked, admitted, sentPeer, granted, upset>>

\* A read of the handshake fails: at the deadline, or on a lost connection.
SrvTimeout ==
    /\ spc \in {"hello", "shake"}
    /\ Refuse /\ upset' = TRUE
    /\ UNCHANGED <<ends, c2s, s2c, cliVars, sentPeer, granted>>

Answer(cmd, trans, code, stream) ==
    [kind |-> "cmd", cmd |-> cmd, trans |-> trans, code |-> code, stream |-> stream]
Control == [kind |-> "control"]

\* Mutant: the name is looked for one place further on.
Handled_NextPlace(m) ==
    CASE m.cmd = "connect" -> [serving EXCEPT !.app = m.app, !.trans = m.trans]
      [] m.cmd = "createStream" -> [serving EXCEPT !.trans = m.trans]
      [] m.cmd \in {"publish", "play"} ->
           [serving EXCEPT !.name = "live", !.trans = m.trans, !.done = TRUE, !.isPublisher = m.cmd = "publish"]
      [] OTHER -> serving

\* What a command leaves in the ConnServer: connect, createStream, publishOrPlay.
Handled(m) ==
    CASE m.cmd = "connect" -> [serving EXCEPT !.app = m.app, !.trans = m.trans]
      [] m.cmd = "createStream" -> [serving EXCEPT !.trans = m.trans]
      [] m.cmd \in {"publish", "play"} ->
           [serving EXCEPT !.name = m.name, !.trans = m.trans, !.done = TRUE, !.isPublisher = m.cmd = "publish"]
      [] OTHER -> serving

\* connectResp, createStreamResp, publishResp, playResp.
Answers(m) ==
    CASE m.cmd = "connect" -> <<Control, Control, Control, Answer("_result", m.trans, "success", NoStream)>>
      [] m.cmd = "createStream" -> <<Answer("_result", m.trans, Blank, 1)>>
      [] m.cmd = "publish" -> <<Answer("onStatus", 0, "start", NoStream)>>
      [] m.cmd = "play" -> <<Control, Control>> \o [i \in 1..4 |-> Answer("onStatus", 0, "play", NoStream)]
      [] OTHER -> <<>>

\* ReadMsg and handleCmdMsg: a command that cannot be decoded, a connect whose
\* number is not 1 and a failing write end the connection; other messages and
\* commands are passed over.  A command with no data or no value (c.Data[1:],
\* vs[0]) and a connect with a field of another type are panics; nothing
\* recovers from them, and the program ends.
SrvRead ==
    /\ spc = "read" /\ c2s # <<>> /\ ~serving.done
    /\ c2s' = Tail(c2s)
    /\ LET m == Head(c2s)
           refused == m.kind = "cmd" /\ (m.cmd = "malformed" \/ (m.cmd = "connect" /\ m.trans # 1))
       IN  \/ m.kind # "cmd" /\ UNCHANGED <<link, s2c, srvVars>>
           \/ /\ m.kind = "cmd" /\ m.cmd \in {"empty", "mistyped"}
              /\ spc' = "panic" /\ link' = "down" /\ UNCHANGED <<s2c, serving, noauth, asked, admitted>>
           \/ /\ m.kind = "cmd" /\ m.cmd \notin {"empty", "mistyped"} /\ ~refused
              /\ serving' = Handled(m) /\ s2c' = Sent(s2c, Answers(m))
              /\ UNCHANGED <<link, spc, noauth, asked, admitted>>
           \/ /\ refused \/ (m.kind = "cmd" /\ m.cmd \in Commands /\ FALSE \in Written)
              /\ Refuse /\ UNCHANGED s2c
    /\ UNCHANGED <<ends, cliVars, sentPeer, granted, upset>>

\* Mutant: an error of the read is taken for a message of another type.
SrvReadFails_PassedOver ==
    /\ spc = "read" /\ c2s = <<>> /\ link = "down" /\ serving.app # Blank /\ ~serving.done
    /\ Refuse
    /\ UNCHANGED <<ends, c2s, s2c, cliVars, sentPeer, granted, upset>>

SrvReadFails ==
    /\ spc = "read" /\ c2s = <<>> /\ link = "down" /\ ~serving.done
    /\ Refuse
    /\ UNCHANGED <<ends, c2s, s2c, cliVars, sentPeer, granted, upset>>

\* handleConn after ReadMsg: the application; a player goes to the hub under the
\* name it gave, a publisher's name is looked up.
SrvAdmit ==
    /\ spc = "read" /\ serving.done
    /\ \/ serving.app \notin Apps /\ Refuse
       \/ /\ serving.app \in Apps /\ serving.isPublisher
          /\ spc' = (IF noauth THEN "getKey" ELSE "getChannel") /\ asked' = serving.name
          /\ UNCHANGED <<link, serving, noauth, admitted>>
       \/ /\ serving.app \in Apps /\ ~serving.isPublisher
          /\ spc' = "admitted" /\ admitted' = serving.name
          /\ UNCHANGED <<link, serving, noauth, asked>>
    /\ UNCHANGED <<ends, c2s, s2c, cliVars, sentPeer, granted, upset>>

\* What the flat store can hold under a name: a key's room, or a room's key.
Held(n) ==
    IF n = Drawn THEN {serving.name}
    ELSE IF n \in Keys THEN {RoomOfKey[n]} ELSE {k \in Keys : RoomOfKey[k] = n}

\* Mutant: GetKey's answer does not take the place of the name.
SrvGetKey_NameKept ==
    /\ spc = "getKey"
    /\ \/ Refuse
       \/ /\ spc' = "getChannel" /\ UNCHANGED <<link, serving, noauth, asked, admitted>>
    /\ UNCHANGED <<ends, c2s, s2c, cliVars, sentPeer, granted, upset>>

\* With rtmp_noauth the name is a room's: GetKey has its key, or SetKey draws
\* one, or the store of either fails.  A key given as a name is found as well:
\* the store has one table for both.
SrvGetKey ==
    /\ spc = "getKey"
    /\ \/ Refuse
       \/ /\ spc' = "getChannel" /\ asked' \in Held(serving.name) \cup {Drawn}
          /\ UNCHANGED <<link, serving, noauth, admitted>>
    /\ UNCHANGED <<ends, c2s, s2c, cliVars, sentPeer, granted, upset>>

\* GetChannel: not there (never set, or deleted or reset meanwhile), a failing
\* store, or what the key opens.
SrvGetChannel ==
    /\ spc = "getChannel"
    /\ \/ Refuse
       \/ /\ spc' = "admitted" /\ admitted' \in Held(asked)
          /\ UNCHANGED <<link, serving, noauth, asked>>
    /\ UNCHANGED <<ends, c2s, s2c, cliVars, sentPeer, granted, upset>>

-----------------------------------------------------------------------------
(* Ends that are not this program.                                         *)

PeerCommands ==
    [kind : {"cmd"}, cmd : {"connect"}, trans : {1, 2}, app : Apps \cup {OtherApp}, name : {Blank}]
      \cup [kind : {"cmd"}, cmd : {"createStream", "FCPublish"}, trans : {1, 2},
            app : {Blank}, name : {Blank}]
      \cup [kind : {"cmd"}, cmd : {"publish", "play"}, trans : {0}, app : {Blank},
            name : Titles \cup {Blank}]
      \cup [kind : {"cmd"}, cmd : {"malformed", "empty", "mistyped"}, trans : {1},
            app : {Blank}, name : {Blank}]
      \cup {Control}

\* A client: its handshake, then commands in any order, waiting for no answer.
\* What it sends is chosen when the message before it has been read: the server
\* cannot tell this from a choice made earlier.
PeerClient ==
    /\ ends = "server" /\ link = "up"
    /\ \/ /\ sentPeer = 0
          /\ \E ver \in {"simple", "digest", "badDigest", "version"} : c2s' = Append(c2s, Hello(ver))
       \/ sentPeer = 1 /\ c2s' = Append(c2s, C2)
       \/ sentPeer \in 2..(MaxPeer + 1) /\ c2s = <<>> /\ \E m \in PeerCommands : c2s' = Append(c2s, m)
    /\ sentPeer' = sentPeer + 1
    /\ s2c' = <<>>
    /\ UNCHANGED <<ends, link, cliVars, srvVars, granted, upset>>

PeerAnswers ==
    [kind : {"cmd"}, cmd : {"_result", "onStatus", "_error"}, trans : 0..2,
     code : {Blank, "success", "start", "denied", "mistyped"}, stream : {NoStream}]
      \cup [kind : {"cmd"}, cmd : {"_result"}, trans : 0..2, code : {Blank}, stream : 0..2]
      \cup [kind : {"cmd"}, cmd : {"bare"}, trans : {0}, code : {Blank}, stream : {NoStream, 1}]
      \cup {Control}

\* The commands for which an answer can be taken, and the stream it names.
Offers(m) ==
    {<<t, m.stream>> : t \in {u \in 1..2 : m.cmd = "bare" \/ (m.cmd = "_result" /\ m.trans = u)}}

\* A server: its handshake, then answers of any kind, before the command or
\* after it.
PeerServer ==
    /\ ends = "client" /\ link = "up"
    /\ \/ sentPeer = 0 /\ s2c' = <<S0S1S2>> /\ UNCHANGED granted
       \/ /\ sentPeer \in 1..MaxPeer /\ s2c = <<>>
          /\ \E m \in PeerAnswers :
                /\ s2c' = Append(s2c, m)
                /\ granted' = IF m.kind = "cmd" THEN granted \cup Offers(m) ELSE granted
    /\ sentPeer' = sentPeer + 1
    /\ c2s' = <<>>
    /\ UNCHANGED <<ends, link, cliVars, srvVars, upset>>

Client == CliDial \/ CliShake \/ CliWrite \/ CliRead \/ CliReadFails
Server == SrvHello \/ SrvShake \/ SrvRead \/ SrvReadFails
            \/ SrvAdmit \/ SrvGetKey \/ SrvGetChannel

SessionNext ==
    \/ Client \/ CliShakeFails \/ Server \/ SrvTimeout
    \/ PeerClient \/ PeerServer \/ Cut

\* The goroutines go on while they can, and a deadline of the handshake passes
\* when nothing else ends it.
SessionFairness == WF_sessionVars(Client) /\ WF_sessionVars(Server)
                     /\ WF_sessionVars(CliShakeFails) /\ WF_sessionVars(SrvTimeout)

SessionSpec == SessionInit /\ [][SessionNext]_sessionVars /\ SessionFairness

-----------------------------------------------------------------------------
(* Properties.                                                             *)

\* Type correctness, and the numbers of the client's commands: 1, then 2, 3.
SessionTypeOK ==
    /\ link \in {"up", "down"} /\ waiting \in BOOLEAN /\ upset \in BOOLEAN
    /\ cpc \in Commands \cup {"peer", "dial", "shake", "started", "failed", "panic"}
    /\ spc \in {"peer", "hello", "shake", "read", "getKey", "getChannel", "admitted",
                "returned", "panic"}
    /\ transID \in 1..3 /\ streamid \in 0..2
    /\ serving.done \in BOOLEAN /\ serving.isPublisher \in BOOLEAN
    /\ (waiting => cpc \in Commands)

\* When Start has returned without an error, against this program's own server,
\* that server knows the client's application, name and role; and it returns an
\* error only for a cause outside: the connection was lost, a deadline has
\* passed, or the server has refused the client's name.  Whatever another server
\* sends, and however early or late, the stream a started client writes to is
\* the one named by an answer that could be taken for its createStream's; only
\* when that answer named none is it a stream named for the connect, or 0
\* (conn_client.go: k == 3 is read for both).
RoleAgreed ==
    IF ends = "both"
    THEN /\ cpc = "started" =>
               /\ serving.done /\ serving.isPublisher = (goal.method = "publish")
               /\ serving.app = goal.app /\ serving.name = goal.title
         /\ cpc = "failed" => upset \/ spc = "returned"
    ELSE cpc = "started" =>
            \/ <<2, streamid>> \in granted
            \/ <<2, NoStream>> \in granted /\ (streamid = 0 \/ <<1, streamid>> \in granted)

\* The room a name stands for.
RoomFor(n) == IF n \in Keys THEN RoomOfKey[n] ELSE n

\* However keys are drawn, reset and deleted between handleConn's lookups, and
\* with one table for keys and rooms: a publisher reaches the hub in the room
\* its name stands for; under that room's own name if, without rtmp_noauth, it
\* gave a key, and under the name it gave if, with rtmp_noauth, that is no key.
\* With this program's own client it is the name and the role the client set
\* out with, even if the client has given up meanwhile.
AdmittedIntoItsRoom ==
    spc = "admitted" =>
        /\ RoomFor(admitted) = RoomFor(serving.name)
        /\ serving.isPublisher /\ ~noauth /\ serving.name \in Keys =>
              admitted = RoomOfKey[serving.name]
        /\ ~serving.isPublisher \/ (noauth /\ serving.name \notin Keys) =>
              admitted = serving.name
        /\ ends = "both" =>
              serving.name = goal.title /\ serving.isPublisher = (goal.method = "publish")

\* Against this program's own server Start returns, except that it may wait
\* for ever for the answer to createStream once the connection is lost.
StartReturns ==
    (ends = "both" /\ cpc = "dial") ~> (cpc \in {"started", "failed"}
                                          \/ (cpc = "createStream" /\ link = "down"))

\* handleConn is not kept for good by a client that does not go on with the
\* handshake, nor by one whose connection is lost.
HandlerEnds ==
    /\ (spc \in {"hello", "shake"}) ~> (spc \notin {"hello", "shake"})
    /\ (link = "down") ~> (spc \in {"peer", "admitted", "returned", "panic"})
=============================================================================

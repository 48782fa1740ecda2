-------------------------- MODULE RtmpSessionProofs --------------------------
(***************************************************************************)
(* RoleAgreed and AdmittedIntoItsRoom of an RTMP session, for any          *)
(* applications, keys, rooms and peers.                                    *)
(***************************************************************************)
EXTENDS RtmpSession, SequenceTheorems, TLAPS

-----------------------------------------------------------------------------
(* Start.                                                                  *)

\* What is sent in each direction.
ToServer ==
    {Hello(v) : v \in {"simple", "digest", "badDigest", "version"}} \cup {C2, Control}
      \cup [kind : {"cmd"}, cmd : Commands \cup {"FCPublish", "malformed", "empty", "mistyped"}, trans : Nat,
            app : Apps \cup {OtherApp, Blank}, name : Titles \cup {Blank}]
ToClient ==
    {S0S1S2, Control}
      \cup [kind : {"cmd"}, cmd : {"_result", "onStatus", "_error", "bare"}, trans : Nat,
            code : {Blank, "success", "start", "play", "denied", "mistyped"}, stream : -1..2]

\* The types that the session's steps need.
WireOK ==
    /\ ends \in {"both", "client", "server"} /\ link \in {"up", "down"}
    /\ c2s \in Seq(ToServer) /\ s2c \in Seq(ToClient)
    /\ goal \in [method : {"publish", "play"}, app : Apps \cup {OtherApp, Blank},
                 title : Titles \cup {Blank}]
    /\ cpc \in Commands \cup {"peer", "dial", "shake", "started", "failed", "panic"}
    /\ spc \in {"peer", "hello", "shake", "read", "getKey", "getChannel", "admitted",
                "returned", "panic"}
    /\ waiting \in BOOLEAN /\ upset \in BOOLEAN /\ noauth \in BOOLEAN
    /\ transID \in Nat /\ sentPeer \in Nat /\ streamid \in Nat
    /\ serving \in [app : Apps \cup {OtherApp, Blank}, name : Titles \cup {Blank},
                    trans : Nat, done : BOOLEAN, isPublisher : BOOLEAN]
    /\ waiting => cpc \in Commands
    /\ ends = "client" <=> spc = "peer"
    /\ ends = "server" <=> cpc = "peer"

\* The client's transaction numbers.
NumbersInv ==
    /\ cpc \in {"dial", "shake", "connect"} => transID = 1
    /\ cpc = "createStream" => transID = IF waiting THEN 2 ELSE 1

\* The connection goes down for a cause.
DownInv == ends = "both" /\ link = "down" => upset \/ spc = "returned"

\* The answer the server gives to the command the client waits for.
GoodAnswer(m) ==
    CASE cpc = "connect" -> m.cmd = "_result" /\ m.trans = transID /\ m.code = "success"
      [] cpc = "createStream" -> m.cmd = "_result" /\ m.trans = transID
      [] cpc = "publish" ->
           m.cmd = "onStatus" /\ m.trans = 0 /\ m.code = "start" /\ m.stream = NoStream
      [] OTHER -> TRUE

\* The command the client has sent and waits for.
GoodCommand(m) ==
    /\ m.cmd = cpc
    /\ cpc \in {"connect", "createStream"} => m.trans = transID
    /\ cpc = "connect" => m.app = goal.app
    /\ cpc \in {"publish", "play"} => m.name = goal.title

\* While Start runs against this program's server, at most one command is
\* under way, in one direction or the other, and it is the one the client
\* waits for; the server's state is what the commands answered so far made it.
LockStep ==
    ends = "both" /\ cpc \notin {"started", "failed"} =>
        /\ \A j \in 1..Len(c2s) : c2s[j].kind = "cmd" =>
              /\ waiting /\ j = Len(c2s) /\ GoodCommand(c2s[j]) /\ ~serving.done
              /\ \A i \in 1..Len(s2c) : s2c[i].kind # "cmd"
        /\ \A i \in 1..Len(s2c) : s2c[i].kind = "cmd" =>
              /\ waiting /\ GoodAnswer(s2c[i]) /\ serving.app = goal.app
              /\ cpc # "play" => i = Len(s2c)
              /\ cpc \in {"publish", "play"} => serving.done
        /\ cpc \in {"createStream", "publish", "play"} => serving.app = goal.app
        /\ cpc \in {"publish", "play"} => cpc = goal.method
        /\ spc = "hello" => \A i \in 1..Len(s2c) : s2c[i].kind # "cmd"
        /\ serving.done =>
              /\ waiting /\ cpc = goal.method
              /\ serving.name = goal.title
              /\ serving.isPublisher = (goal.method = "publish")

\* The stream of a client past createStream: as RoleAgreed has it.
Chosen ==
    \/ <<2, streamid>> \in granted
    \/ <<2, NoStream>> \in granted /\ (streamid = 0 \/ <<1, streamid>> \in granted)

\* Against another server: what is on its way is counted in granted, and until
\* createStream is answered only an answer to connect has set the stream.
StreamInv ==
    ends = "client" =>
        /\ \A i \in 1..Len(s2c) : s2c[i].kind = "cmd" => Offers(s2c[i]) \subseteq granted
        /\ cpc \in {"dial", "shake", "connect", "createStream"} =>
              streamid = 0 \/ <<1, streamid>> \in granted
        /\ cpc \in {"publish", "play", "started"} => Chosen

\* Between this program's two ends, the client's commands are well formed and
\* carry its name and role, also those that arrive when it has given up.
OwnInv ==
    ends = "both" =>
        /\ cpc \in {"publish", "play"} => cpc = goal.method
        /\ \A j \in 1..Len(c2s) : c2s[j].kind = "cmd" =>
              /\ c2s[j].cmd \in Commands
              /\ c2s[j].cmd \in {"publish", "play"} =>
                    c2s[j].cmd = goal.method /\ c2s[j].name = goal.title
        /\ serving.done =>
              serving.name = goal.title /\ serving.isPublisher = (goal.method = "publish")

SessionInv ==
    WireOK /\ NumbersInv /\ DownInv /\ LockStep /\ StreamInv /\ RoleAgreed /\ OwnInv
-----------------------------------------------------------------------------
(* The messages.                                                           *)

\* What a command carries, and what an answer carries.
LEMMA CommandFields ==
    ASSUME NEW m \in ToServer, m.kind = "cmd"
    PROVE  /\ m.cmd \in Commands \cup {"FCPublish", "malformed", "empty", "mistyped"} /\ m.trans \in Nat
           /\ m.app \in Apps \cup {OtherApp, Blank} /\ m.name \in Titles \cup {Blank}
BY DEF ToServer, Hello, C2, Control

LEMMA AnswerFields ==
    ASSUME NEW m \in ToClient, m.kind = "cmd"
    PROVE  /\ m.cmd \in {"_result", "onStatus", "_error", "bare"} /\ m.trans \in Nat
           /\ m.code \in {Blank, "success", "start", "play", "denied", "mistyped"}
           /\ m.stream \in -1..2
BY DEF ToClient, S0S1S2, Control

LEMMA MessageTypes ==
    /\ \A v \in {"simple", "digest", "badDigest", "version"} :
          Hello(v) \in ToServer /\ Hello(v).kind # "cmd"
    /\ C2 \in ToServer /\ C2.kind # "cmd"
    /\ Control \in ToServer \cap ToClient /\ Control.kind # "cmd"
    /\ S0S1S2 \in ToClient /\ S0S1S2.kind # "cmd"
    /\ PeerCommands \subseteq ToServer
    /\ PeerAnswers \subseteq ToClient
<1>1. \A v \in {"simple", "digest", "badDigest", "version"} :
          Hello(v) \in ToServer /\ Hello(v).kind # "cmd"
  BY DEF ToServer, Hello
<1>2. C2 \in ToServer /\ C2.kind # "cmd" /\ S0S1S2 \in ToClient /\ S0S1S2.kind # "cmd"
  BY DEF ToServer, ToClient, C2, S0S1S2
<1>3. Control \in ToServer \cap ToClient /\ Control.kind # "cmd"
  BY DEF ToServer, ToClient, Control
<1>4. PeerCommands \subseteq ToServer
  BY <1>3 DEF PeerCommands, ToServer, Commands
<1>5. PeerAnswers \subseteq ToClient
  BY <1>3 DEF PeerAnswers, ToClient, NoStream
<1>6. QED
  BY <1>1, <1>2, <1>3, <1>4, <1>5

\* The command that Start writes.
LEMMA CommandSent ==
    ASSUME WireOK, cpc \in Commands
    PROVE  /\ Command \in ToServer /\ Command.kind = "cmd" /\ Command.cmd = cpc
           /\ Command.app = goal.app
           /\ cpc = "connect" => Command.trans = 1
           /\ cpc = "createStream" => Command.trans = transID + 1
           /\ cpc \in {"publish", "play"} => Command.name = goal.title
BY DEF WireOK, Command, ToServer, Commands

\* What the server's answers are.
LEMMA AnswersSent ==
    ASSUME NEW m \in ToServer, m.kind = "cmd"
    PROVE  /\ Answers(m) \in Seq(ToClient)
           /\ \A i \in 1..Len(Answers(m)) : Answers(m)[i].kind = "cmd" =>
                 /\ m.cmd \in Commands
                 /\ m.cmd # "play" => i = Len(Answers(m))
                 /\ m.cmd \in {"connect", "createStream"} =>
                       Answers(m)[i].cmd = "_result" /\ Answers(m)[i].trans = m.trans
                 /\ m.cmd = "connect" => Answers(m)[i].code = "success"
                 /\ m.cmd = "publish" =>
                       /\ Answers(m)[i].cmd = "onStatus" /\ Answers(m)[i].trans = 0
                       /\ Answers(m)[i].code = "start" /\ Answers(m)[i].stream = NoStream
<1>0. NoStream \in -1..2
  BY DEF NoStream
<1>1. \A c \in {"_result", "onStatus", "_error"}, t \in Nat,
         d \in {Blank, "success", "start", "play", "denied"}, n \in -1..2 :
           /\ Answer(c, t, d, n) \in ToClient
           /\ Answer(c, t, d, n).cmd = c /\ Answer(c, t, d, n).trans = t
           /\ Answer(c, t, d, n).code = d /\ Answer(c, t, d, n).stream = n
  BY DEF Answer, ToClient
<1>2. Control \in ToClient /\ Control.kind # "cmd" /\ m.trans \in Nat
  BY MessageTypes, CommandFields
<1>3. CASE m.cmd = "connect"
  <2>1. Answers(m) = <<Control, Control, Control, Answer("_result", m.trans, "success", NoStream)>>
    BY <1>3 DEF Answers
  <2>2. PICK a : a = Answer("_result", m.trans, "success", NoStream)
    OBVIOUS
  <2>3. a \in ToClient /\ a.cmd = "_result" /\ a.trans = m.trans /\ a.code = "success"
    BY <1>0, <1>1, <1>2, <2>2
  <2>4. Answers(m) = <<Control, Control, Control, a>>
    BY <2>1, <2>2
  <2>5. QED
    BY <1>2, <1>3, <2>3, <2>4 DEF Commands
<1>4. CASE m.cmd = "createStream"
  <2>1. Answers(m) = <<Answer("_result", m.trans, Blank, 1)>>
    BY <1>4 DEF Answers
  <2>2. QED
    BY <1>1, <1>2, <1>4, <2>1 DEF Commands
<1>5. CASE m.cmd = "publish"
  <2>1. Answers(m) = <<Answer("onStatus", 0, "start", NoStream)>>
    BY <1>5 DEF Answers
  <2>2. QED
    BY <1>0, <1>1, <1>2, <1>5, <2>1 DEF Commands
<1>6. CASE m.cmd = "play"
  <2>1. Answers(m) = <<Control, Control>> \o [i \in 1..4 |-> Answer("onStatus", 0, "play", NoStream)]
    BY <1>6 DEF Answers
  <2>2. [i \in 1..4 |-> Answer("onStatus", 0, "play", NoStream)] \in Seq(ToClient)
    BY <1>0, <1>1
  <2>3. <<Control, Control>> \in Seq(ToClient)
    BY <1>2
  <2>4. QED
    BY <1>6, <2>1, <2>2, <2>3, ConcatProperties DEF Commands
<1>7. CASE m.cmd \in {"FCPublish", "malformed", "empty", "mistyped"}
  <2>1. Answers(m) = <<>>
    BY <1>7 DEF Answers
  <2>2. QED
    BY <2>1
<1>8. QED
  BY <1>3, <1>4, <1>5, <1>6, <1>7, CommandFields DEF Commands

\* Taking the first message, and losing the last ones.
LEMMA TakeFirst ==
    ASSUME NEW S, NEW t \in Seq(S), t # <<>>
    PROVE  /\ Len(t) \in Nat \ {0} /\ Head(t) = t[1] /\ Head(t) \in S
           /\ Tail(t) \in Seq(S) /\ Len(Tail(t)) = Len(t) - 1
           /\ \A j \in 1..Len(Tail(t)) : j + 1 \in 1..Len(t) /\ Tail(t)[j] = t[j + 1]
BY HeadTailProperties, EmptySeq

LEMMA LoseLast ==
    ASSUME NEW S, NEW t \in Seq(S), NEW k \in 0..Len(t)
    PROVE  /\ SubSeq(t, 1, k) \in Seq(S) /\ Len(SubSeq(t, 1, k)) = k
           /\ \A j \in 1..k : j \in 1..Len(t) /\ SubSeq(t, 1, k)[j] = t[j]
<1>1. \A j \in 1..k : j \in 1..Len(t) /\ t[j] \in S
  BY ElementOfSeq, LenProperties
<1>2. QED
  BY <1>1, SubSeqProperties, LenProperties

-----------------------------------------------------------------------------
(* The steps.                                                              *)

LEMMA CliDialStep == SessionInv /\ CliDial => SessionInv'
<1> SUFFICES ASSUME SessionInv, CliDial PROVE SessionInv'
  OBVIOUS
<1> USE SessionAssumption DEF SessionInv
<1>1. WireOK'
  BY MessageTypes, AppendProperties, ConcatProperties DEF CliDial, Sent, cliVars, srvVars, WireOK, Commands
<1>2. NumbersInv'
  BY MessageTypes, AppendProperties, ConcatProperties DEF CliDial, Sent, cliVars, srvVars, NumbersInv, WireOK, Commands
<1>3. DownInv'
  BY MessageTypes, AppendProperties, ConcatProperties DEF CliDial, Sent, cliVars, srvVars, DownInv, WireOK
<1>4. LockStep'
  BY MessageTypes, AppendProperties, ConcatProperties DEF CliDial, Sent, cliVars, srvVars, LockStep, WireOK, NumbersInv, GoodCommand, GoodAnswer, Commands
<1>5. StreamInv'
  BY MessageTypes, AppendProperties, ConcatProperties DEF CliDial, Sent, cliVars, srvVars, StreamInv, WireOK, NumbersInv, Commands
<1>6. RoleAgreed'
  BY MessageTypes, AppendProperties, ConcatProperties DEF CliDial, Sent, cliVars, srvVars, RoleAgreed, WireOK, DownInv, LockStep, StreamInv, GoodAnswer, Commands
<1>7. OwnInv'
  BY MessageTypes, AppendProperties, ConcatProperties DEF CliDial, Sent, cliVars, srvVars, OwnInv, WireOK, Commands
<1>8. QED
  BY <1>1, <1>2, <1>3, <1>4, <1>5, <1>6, <1>7

LEMMA CliShakeStep == SessionInv /\ CliShake => SessionInv'
<1> SUFFICES ASSUME SessionInv, CliShake PROVE SessionInv'
  OBVIOUS
<1> USE SessionAssumption DEF SessionInv
<1>1. WireOK'
  BY TakeFirst, MessageTypes DEF CliShake, cliVars, srvVars, WireOK, Commands
<1>2. NumbersInv'
  BY TakeFirst, MessageTypes DEF CliShake, cliVars, srvVars, NumbersInv, WireOK, Commands
<1>3. DownInv'
  BY TakeFirst, MessageTypes DEF CliShake, cliVars, srvVars, DownInv, WireOK
<1>4. LockStep'
  BY TakeFirst, MessageTypes DEF CliShake, cliVars, srvVars, LockStep, WireOK, NumbersInv, GoodCommand, GoodAnswer, Commands
<1>5. StreamInv'
  BY TakeFirst, MessageTypes DEF CliShake, cliVars, srvVars, StreamInv, WireOK, NumbersInv, Commands
<1>6. RoleAgreed'
  BY TakeFirst, MessageTypes DEF CliShake, cliVars, srvVars, RoleAgreed, WireOK, DownInv, LockStep, StreamInv, GoodAnswer, Commands
<1>7. OwnInv'
  BY TakeFirst, MessageTypes DEF CliShake, cliVars, srvVars, OwnInv, WireOK, Commands
<1>8. QED
  BY <1>1, <1>2, <1>3, <1>4, <1>5, <1>6, <1>7

LEMMA CliShakeFailsStep == SessionInv /\ CliShakeFails => SessionInv'
<1> SUFFICES ASSUME SessionInv, CliShakeFails PROVE SessionInv'
  OBVIOUS
<1> USE SessionAssumption DEF SessionInv
<1>1. WireOK'
  BY DEF CliShakeFails, cliVars, srvVars, WireOK, Commands
<1>2. NumbersInv'
  BY DEF CliShakeFails, cliVars, srvVars, NumbersInv, WireOK, Commands
<1>3. DownInv'
  BY DEF CliShakeFails, cliVars, srvVars, DownInv, WireOK
<1>4. LockStep'
  BY DEF CliShakeFails, cliVars, srvVars, LockStep, WireOK, NumbersInv, GoodCommand, GoodAnswer, Commands
<1>5. StreamInv'
  BY DEF CliShakeFails, cliVars, srvVars, StreamInv, WireOK, NumbersInv, Commands
<1>6. RoleAgreed'
  BY DEF CliShakeFails, cliVars, srvVars, RoleAgreed, WireOK, DownInv, LockStep, StreamInv, GoodAnswer, Commands
<1>7. OwnInv'
  BY DEF CliShakeFails, cliVars, srvVars, OwnInv, WireOK, Commands
<1>8. QED
  BY <1>1, <1>2, <1>3, <1>4, <1>5, <1>6, <1>7

LEMMA CliWriteStep == SessionInv /\ CliWrite => SessionInv'
<1> SUFFICES ASSUME SessionInv, CliWrite PROVE SessionInv'
  OBVIOUS
<1> USE SessionAssumption DEF SessionInv
<1>1. WireOK'
  <2>1. Command \in ToServer /\ C2 \in ToServer
    BY CommandSent, MessageTypes DEF CliWrite
  <2>2. <<C2>> \o <<Command>> \in Seq(ToServer) /\ <<>> \o <<Command>> \in Seq(ToServer)
    BY <2>1
  <2>3. c2s' \in Seq(ToServer)
    BY <2>2, ConcatProperties DEF CliWrite, Sent, WireOK
  <2>4. transID' \in Nat
    BY DEF CliWrite, WireOK
  <2>5. \/ waiting' = TRUE /\ cpc' = cpc
        \/ waiting' = FALSE /\ cpc' = "failed"
    BY DEF CliWrite, WireOK
  <2>6. cpc \in Commands /\ cpc # "peer"
    BY DEF CliWrite, Commands
  <2>7. waiting' \in BOOLEAN /\ (waiting' => cpc' \in Commands) /\ cpc' # "peer"
          /\ cpc' \in Commands \cup {"failed"}
    BY <2>5, <2>6
  <2>8. QED
    BY <2>3, <2>4, <2>6, <2>7 DEF CliWrite, srvVars, WireOK
<1>2. NumbersInv'
  BY CommandSent, MessageTypes, ConcatProperties DEF CliWrite, Sent, Written, cliVars, srvVars, NumbersInv, WireOK, Commands
<1>3. DownInv'
  BY CommandSent, MessageTypes, ConcatProperties DEF CliWrite, Sent, Written, cliVars, srvVars, DownInv, WireOK
<1>4. LockStep'
  <2> SUFFICES ASSUME ends = "both", cpc' \notin {"started", "failed"} PROVE LockStep'
    BY DEF CliWrite, LockStep
  <2>1. /\ cpc' = cpc /\ cpc \in Commands /\ ~waiting /\ waiting' /\ s2c' = s2c /\ goal' = goal
        /\ serving' = serving /\ ends' = ends
    BY DEF CliWrite, srvVars
  <2>2. /\ \A j \in 1..Len(c2s) : c2s[j].kind # "cmd"
        /\ \A j \in 1..Len(s2c) : s2c[j].kind # "cmd"
        /\ ~serving.done
    BY <2>1 DEF LockStep, WireOK
  <2> DEFINE ms == (IF cpc = "connect" THEN <<C2>> ELSE <<>>) \o <<Command>>
  <2>3. Command \in ToServer /\ C2 \in ToServer /\ C2.kind # "cmd"
    BY <2>1, CommandSent, MessageTypes
  <2>4. /\ ms \in Seq(ToServer) /\ Len(ms) \in Nat
        /\ \A j \in 1..Len(ms) : ms[j].kind = "cmd" => j = Len(ms) /\ ms[j] = Command
    <3>1. CASE cpc = "connect"
      <4>1. ms = <<C2>> \o <<Command>>
        BY <3>1
      <4>2. <<C2>> \in Seq(ToServer) /\ <<Command>> \in Seq(ToServer)
        BY <2>3
      <4>3. QED
        BY <2>3, <4>1, <4>2, ConcatProperties
    <3>2. CASE cpc # "connect"
      <4>1. ms = <<>> \o <<Command>>
        BY <3>2
      <4>2. <<>> \in Seq(ToServer) /\ <<Command>> \in Seq(ToServer)
        BY <2>3
      <4>3. QED
        BY <2>3, <4>1, <4>2, ConcatProperties
    <3>3. QED
      BY <3>1, <3>2
  <2>5. c2s' = c2s \/ c2s' = c2s \o ms
    BY DEF CliWrite, Sent
  <2> HIDE DEF ms
  <2>6. \A j \in 1..Len(c2s') : c2s'[j].kind = "cmd" => j = Len(c2s') /\ c2s'[j] = Command
    <3>1. CASE c2s' = c2s
      BY <2>2, <3>1
    <3>2. CASE c2s' = c2s \o ms
      <4>1. Len(c2s) \in Nat
        BY LenProperties DEF WireOK
      <4>2. /\ Len(c2s') = Len(c2s) + Len(ms)
            /\ \A j \in 1..Len(c2s) + Len(ms) :
                  c2s'[j] = IF j <= Len(c2s) THEN c2s[j] ELSE ms[j - Len(c2s)]
        BY <2>4, <3>2, ConcatProperties DEF WireOK
      <4>3. ASSUME NEW j \in 1..Len(c2s'), c2s'[j].kind = "cmd"
            PROVE  j = Len(c2s') /\ c2s'[j] = Command
        <5>1. ~(j <= Len(c2s))
          BY <2>2, <4>1, <4>2, <4>3
        <5>2. j - Len(c2s) \in 1..Len(ms) /\ c2s'[j] = ms[j - Len(c2s)]
          BY <2>4, <4>1, <4>2, <5>1
        <5>3. QED
          BY <2>4, <4>1, <4>2, <4>3, <5>1, <5>2
      <4>4. QED
        BY <4>3
    <3>3. QED
      BY <2>5, <3>1, <3>2
  <2>7. /\ Command.cmd = cpc /\ Command.app = goal.app
        /\ cpc \in {"connect", "createStream"} => Command.trans = transID'
        /\ cpc \in {"publish", "play"} => Command.name = goal.title
    BY <2>1, CommandSent DEF CliWrite, NumbersInv
  <2>8. QED
    BY <2>1, <2>2, <2>6, <2>7 DEF LockStep, GoodCommand
<1>5. StreamInv'
  <2>1. UNCHANGED <<ends, s2c, streamid, granted>> /\ (cpc' = cpc \/ cpc' = "failed")
    BY DEF CliWrite
  <2>2. QED
    BY <2>1 DEF StreamInv, Chosen
<1>6. RoleAgreed'
  BY CommandSent, MessageTypes, ConcatProperties DEF CliWrite, Sent, Written, cliVars, srvVars, RoleAgreed, WireOK, DownInv, LockStep, StreamInv, GoodAnswer, Commands
<1>7. OwnInv'
  BY CommandSent, MessageTypes, ConcatProperties DEF CliWrite, Sent, Written, cliVars, srvVars, OwnInv, WireOK, Commands
<1>8. QED
  BY <1>1, <1>2, <1>3, <1>4, <1>5, <1>6, <1>7

LEMMA CliReadStep == SessionInv /\ CliRead => SessionInv'
<1> SUFFICES ASSUME SessionInv, CliRead PROVE SessionInv'
  OBVIOUS
<1> USE SessionAssumption DEF SessionInv
<1>1. WireOK'
  <2>1. Head(s2c) \in ToClient /\ s2c' \in Seq(ToClient)
    BY TakeFirst DEF CliRead, WireOK
  <2>2. CASE UNCHANGED cliVars
    BY <2>1, <2>2 DEF CliRead, cliVars, srvVars, WireOK
  <2>3. CASE ~UNCHANGED cliVars
    <3>1. Head(s2c).kind = "cmd"
      BY <2>3 DEF CliRead
    <3> Head(s2c).stream \in -1..2
      BY <2>1, <3>1, AnswerFields
    <3>2. goal' = goal /\ transID' = transID /\ link' \in {"up", "down"}
      BY <3>1, <2>3 DEF CliRead, WireOK
    <3>3. /\ cpc' \in {cpc, "failed", "panic", "started", "createStream", goal.method}
          /\ waiting' \in BOOLEAN /\ (waiting' => cpc' = cpc)
      BY <2>3 DEF CliRead, NextStep
    <3>4. cpc' \in Commands \cup {"failed", "started", "panic"} /\ cpc \in Commands
      BY <3>3 DEF CliRead, WireOK, Commands
    <3>5. \/ streamid' = streamid
          \/ Head(s2c).stream # NoStream /\ streamid' = Head(s2c).stream
      BY <3>1, <2>3 DEF CliRead
    <3>6. streamid' \in Nat
      BY <3>5 DEF NoStream, WireOK
    <3>7. QED
      BY <2>1, <3>2, <3>3, <3>4, <3>6 DEF CliRead, srvVars, WireOK, Commands
  <2>4. QED
    BY <2>2, <2>3
<1>2. NumbersInv'
  BY TakeFirst, AnswerFields DEF CliRead, Verdict, NextStep, cliVars, cliVars, srvVars, NumbersInv, WireOK, Commands
<1>3. DownInv'
  <2> DEFINE m == Head(s2c)
  <2> SUFFICES ASSUME ends = "both", m.kind = "cmd" PROVE DownInv'
    BY DEF CliRead, srvVars, DownInv
  <2>1. waiting /\ cpc \in Commands /\ m = s2c[1] /\ 1 \in 1..Len(s2c)
    BY TakeFirst DEF CliRead, WireOK
  <2> HIDE DEF m
  <2>2. GoodAnswer(m)
    BY <2>1 DEF LockStep, Commands
  <2>3. Verdict(m) = "ok"
    BY <2>1, <2>2 DEF GoodAnswer, Verdict, Commands, NoStream
  <2>4. link' = link /\ spc' = spc /\ upset' = upset /\ ends' = ends
    BY <2>3 DEF CliRead, srvVars, m
  <2>5. QED
    BY <2>4 DEF DownInv
<1>4. LockStep'
  <2> SUFFICES ASSUME ends = "both", cpc' \notin {"started", "failed"} PROVE LockStep'
    BY DEF CliRead, LockStep
  <2> DEFINE m == Head(s2c)
  <2>1. /\ Len(s2c) \in Nat \ {0} /\ m = s2c[1] /\ 1 \in 1..Len(s2c)
        /\ Len(s2c') = Len(s2c) - 1
        /\ \A j \in 1..Len(s2c') : j + 1 \in 1..Len(s2c) /\ s2c'[j] = s2c[j + 1]
    BY TakeFirst DEF CliRead, WireOK
  <2>2. /\ waiting /\ c2s' = c2s /\ serving' = serving /\ spc' = spc /\ ends' = ends
        /\ cpc \in Commands
    BY DEF CliRead, srvVars, WireOK
  <2> HIDE DEF m
  <2>3. CASE m.kind # "cmd" /\ UNCHANGED cliVars
    BY <2>1, <2>2, <2>3 DEF LockStep, GoodCommand, GoodAnswer, cliVars, Commands
  <2>4. CASE m.kind = "cmd"
    <3>1. GoodAnswer(m) /\ serving.app = goal.app /\ (cpc # "play" => Len(s2c) = 1)
      BY <2>1, <2>2, <2>4 DEF LockStep, Commands
    <3>2. Verdict(m) = "ok"
      BY <2>2, <3>1 DEF GoodAnswer, Verdict, Commands, NoStream
    <3>3. cpc' = NextStep /\ waiting' = FALSE /\ goal' = goal /\ transID' = transID
      BY <2>4, <3>2 DEF CliRead, m
    <3>4. cpc \in {"connect", "createStream"} /\ cpc' = IF cpc = "connect" THEN "createStream" ELSE goal.method
      BY <2>2, <3>3 DEF NextStep, Commands
    <3>5. /\ \A j \in 1..Len(c2s) : c2s[j].kind # "cmd"
          /\ \A j \in 1..Len(s2c') : FALSE
      BY <2>1, <2>2, <2>4, <3>1, <3>4 DEF LockStep
    <3>6. ~serving.done
      BY <2>2, <3>4 DEF LockStep, WireOK
    <3>7. QED
      BY <2>2, <3>1, <3>3, <3>4, <3>5, <3>6 DEF LockStep, WireOK
  <2>5. QED
    BY <2>3, <2>4 DEF CliRead, m
<1>5. StreamInv'
  <2> SUFFICES ASSUME ends = "client" PROVE StreamInv'
    BY DEF CliRead, StreamInv
  <2> DEFINE m == Head(s2c)
  <2>1. /\ Len(s2c) \in Nat \ {0} /\ m = s2c[1] /\ 1 \in 1..Len(s2c) /\ m \in ToClient
        /\ \A j \in 1..Len(s2c') : j + 1 \in 1..Len(s2c) /\ s2c'[j] = s2c[j + 1]
    BY TakeFirst DEF CliRead, WireOK
  <2> HIDE DEF m
  <2>2. granted' = granted /\ ends' = ends
    BY DEF CliRead
  <2>3. \A j \in 1..Len(s2c') : s2c'[j].kind = "cmd" => Offers(s2c'[j]) \subseteq granted
    BY <2>1 DEF StreamInv
  <2>4. CASE UNCHANGED <<cpc, streamid>>
    BY <2>2, <2>3, <2>4 DEF StreamInv, Chosen
  <2>5. CASE cpc' \in {"failed", "panic"}
    BY <2>2, <2>3, <2>5 DEF StreamInv
  <2>6. CASE cpc' = NextStep /\ m.kind = "cmd" /\ Verdict(m) = "ok"
    <3>1. waiting /\ cpc \in Commands
      BY DEF CliRead, WireOK
    <3>2. CASE cpc \in {"connect", "createStream"}
      <4>1. m.cmd = "bare" \/ (m.cmd = "_result" /\ m.trans = transID)
        BY <2>6, <3>2 DEF Verdict
      <4>2. transID = IF cpc = "connect" THEN 1 ELSE 2
        BY <3>1, <3>2 DEF NumbersInv
      <4>3. Offers(m) \subseteq granted
        BY <2>1, <2>6 DEF StreamInv
      <4>4. <<transID, m.stream>> \in Offers(m)
        BY <4>1, <4>2 DEF Offers
      <4>5. <<transID, m.stream>> \in granted
        BY <4>3, <4>4
      <4>6. streamid' = IF m.stream # NoStream THEN m.stream ELSE streamid
        BY <2>6, <3>2 DEF CliRead, m, cliVars
      <4>7. streamid = 0 \/ <<1, streamid>> \in granted
        BY <3>2 DEF StreamInv
      <4>8. CASE cpc = "connect"
        <5>1. cpc' = "createStream"
          BY <2>6, <4>8 DEF NextStep
        <5>2. streamid' = 0 \/ <<1, streamid'>> \in granted
          BY <4>2, <4>5, <4>6, <4>7, <4>8
        <5>3. QED
          BY <2>2, <2>3, <5>1, <5>2 DEF StreamInv
      <4>9. CASE cpc = "createStream"
        <5>1. cpc' \in {"publish", "play"}
          BY <2>6, <4>9 DEF NextStep, WireOK
        <5>2. <<2, m.stream>> \in granted
          BY <4>2, <4>5, <4>9
        <5>3. Chosen'
          BY <2>2, <4>6, <4>7, <5>2 DEF Chosen
        <5>4. QED
          BY <2>2, <2>3, <5>1, <5>3 DEF StreamInv
      <4>10. QED
        BY <3>2, <4>8, <4>9
    <3>3. CASE cpc \in {"publish", "play"}
      <4>1. cpc' = "started" /\ streamid' = streamid
        BY <2>6, <3>3 DEF NextStep, CliRead, m, cliVars
      <4>2. Chosen'
        BY <2>2, <3>3, <4>1 DEF StreamInv, Chosen
      <4>3. QED
        BY <2>2, <2>3, <4>1, <4>2 DEF StreamInv
    <3>4. QED
      BY <3>1, <3>2, <3>3 DEF Commands
  <2>7. QED
    BY <2>4, <2>5, <2>6 DEF CliRead, cliVars, m
<1>6. RoleAgreed'
  <2> DEFINE m == Head(s2c)
  <2>1. serving' = serving /\ spc' = spc /\ upset' = upset /\ ends' = ends /\ goal' = goal /\ granted' = granted
    BY DEF CliRead, srvVars, cliVars
  <2>2. CASE ends = "both"
    <3>1. waiting /\ cpc \in Commands /\ m = s2c[1] /\ 1 \in 1..Len(s2c)
      BY TakeFirst DEF CliRead, WireOK
    <3> HIDE DEF m
    <3>2. CASE m.kind # "cmd"
      BY <2>1, <2>2, <3>1, <3>2 DEF CliRead, cliVars, m, RoleAgreed, Commands
    <3>3. CASE m.kind = "cmd"
      <4>1. GoodAnswer(m) /\ serving.app = goal.app /\ (cpc \in {"publish", "play"} => serving.done)
        BY <2>2, <3>1, <3>3 DEF LockStep, Commands
      <4>2. Verdict(m) = "ok"
        BY <3>1, <4>1 DEF GoodAnswer, Verdict, Commands, NoStream
      <4>3. cpc' = NextStep
        BY <3>3, <4>2 DEF CliRead, m
      <4>4. cpc' # "failed" /\ (cpc' = "started" => cpc \in {"publish", "play"})
        BY <3>1, <4>3 DEF NextStep, WireOK, Commands
      <4>5. QED
        BY <2>1, <2>2, <3>1, <4>1, <4>4 DEF RoleAgreed, LockStep, Commands
    <3>4. QED
      BY <3>2, <3>3
  <2>3. CASE ends # "both"
    <3>1. ends = "server" => cpc' # "started"
      BY <1>1, <2>1 DEF WireOK
    <3>2. ends = "client" => StreamInv' /\ ends' = "client"
      BY <1>5, <2>1
    <3>3. QED
      BY <1>1, <2>1, <2>3, <3>1, <3>2 DEF RoleAgreed, StreamInv, Chosen, WireOK
  <2>4. QED
    BY <2>2, <2>3
<1>7. OwnInv'
  <2>1. UNCHANGED <<ends, c2s, goal, serving>>
    BY DEF CliRead, cliVars, srvVars
  <2>2. cpc' \in {"publish", "play"} => cpc' = cpc \/ cpc' = goal.method
    BY DEF CliRead, cliVars, NextStep
  <2>3. QED
    BY <2>1, <2>2 DEF OwnInv, WireOK
<1>8. QED
  BY <1>1, <1>2, <1>3, <1>4, <1>5, <1>6, <1>7

LEMMA CliReadFailsStep == SessionInv /\ CliReadFails => SessionInv'
<1> SUFFICES ASSUME SessionInv, CliReadFails PROVE SessionInv'
  OBVIOUS
<1> USE SessionAssumption DEF SessionInv
<1>1. WireOK'
  <2>1. cpc # "peer" /\ cpc' = "failed" /\ waiting' = FALSE
    BY DEF CliReadFails, WireOK, Commands
  <2>2. waiting' \in BOOLEAN /\ (waiting' => cpc' \in Commands)
    BY <2>1
  <2>3. QED
    BY <2>1, <2>2 DEF CliReadFails, srvVars, WireOK
<1>2. NumbersInv'
  BY DEF CliReadFails, cliVars, srvVars, NumbersInv, WireOK, Commands
<1>3. DownInv'
  BY DEF CliReadFails, cliVars, srvVars, DownInv, WireOK
<1>4. LockStep'
  BY DEF CliReadFails, cliVars, srvVars, LockStep, WireOK, NumbersInv, GoodCommand, GoodAnswer, Commands
<1>5. StreamInv'
  BY DEF CliReadFails, cliVars, srvVars, StreamInv, WireOK, NumbersInv, Commands
<1>6. RoleAgreed'
  BY DEF CliReadFails, cliVars, srvVars, RoleAgreed, WireOK, DownInv, LockStep, StreamInv, GoodAnswer, Commands
<1>7. OwnInv'
  BY DEF CliReadFails, cliVars, srvVars, OwnInv, WireOK, Commands
<1>8. QED
  BY <1>1, <1>2, <1>3, <1>4, <1>5, <1>6, <1>7

LEMMA SrvHelloStep == SessionInv /\ SrvHello => SessionInv'
<1> SUFFICES ASSUME SessionInv, SrvHello PROVE SessionInv'
  OBVIOUS
<1> USE SessionAssumption DEF SessionInv
<1>1. WireOK'
  <2>1. c2s' \in Seq(ToServer)
    BY TakeFirst DEF SrvHello, WireOK
  <2>2. <<S0S1S2>> \in Seq(ToClient)
    BY MessageTypes
  <2>3. s2c \o <<S0S1S2>> \in Seq(ToClient)
    BY <2>2, ConcatProperties DEF WireOK
  <2> s2c' \in Seq(ToClient)
    BY <2>3 DEF SrvHello, Sent, WireOK
  <2>4. spc' \in {"shake", "returned"} /\ link' \in {"up", "down"} /\ serving' = serving /\ noauth' = noauth
    BY DEF SrvHello, Refuse, WireOK
  <2>5. ends # "client"
    BY DEF SrvHello, WireOK
  <2>6. QED
    BY <2>1, <2>3, <2>4, <2>5 DEF SrvHello, cliVars, WireOK
<1>2. NumbersInv'
  BY TakeFirst, MessageTypes, ConcatProperties DEF SrvHello, Sent, Refuse, Written, cliVars, srvVars, NumbersInv, WireOK, Commands
<1>3. DownInv'
  BY TakeFirst, MessageTypes, ConcatProperties DEF SrvHello, Sent, Refuse, Written, cliVars, srvVars, DownInv, WireOK
<1>4. LockStep'
  <2> SUFFICES ASSUME ends = "both", cpc \notin {"started", "failed"} PROVE LockStep'
    BY DEF SrvHello, cliVars, LockStep
  <2>1. /\ Len(c2s) \in Nat \ {0} /\ Len(c2s') = Len(c2s) - 1
        /\ \A j \in 1..Len(c2s') : j + 1 \in 1..Len(c2s) /\ c2s'[j] = c2s[j + 1]
    BY TakeFirst DEF SrvHello, WireOK
  <2>2. \A i \in 1..Len(s2c) : s2c[i].kind # "cmd"
    BY DEF SrvHello, LockStep
  <2>3. <<S0S1S2>> \in Seq(ToClient) /\ S0S1S2.kind # "cmd"
    BY MessageTypes
  <2>4. s2c' = s2c \/ s2c' = s2c \o <<S0S1S2>>
    BY DEF SrvHello, Sent
  <2>5. \A i \in 1..Len(s2c') : s2c'[i].kind # "cmd"
    BY <2>2, <2>3, <2>4, ConcatProperties, LenProperties DEF WireOK
  <2>6. UNCHANGED <<ends, cpc, goal, waiting, transID, serving>>
    BY DEF SrvHello, Refuse, cliVars
  <2>7. QED
    BY <2>1, <2>2, <2>5, <2>6 DEF LockStep, GoodCommand, GoodAnswer
<1>5. StreamInv'
  BY TakeFirst, MessageTypes, ConcatProperties DEF SrvHello, Sent, Refuse, Written, cliVars, srvVars, StreamInv, WireOK, NumbersInv, Commands
<1>6. RoleAgreed'
  BY TakeFirst, MessageTypes, ConcatProperties DEF SrvHello, Sent, Refuse, Written, cliVars, srvVars, RoleAgreed, WireOK, DownInv, LockStep, StreamInv, GoodAnswer, Commands
<1>7. OwnInv'
  <2>1. \A j \in 1..Len(c2s') : j + 1 \in 1..Len(c2s) /\ c2s'[j] = c2s[j + 1]
    BY TakeFirst DEF SrvHello, WireOK
  <2>2. UNCHANGED <<ends, cpc, goal, serving>>
    BY DEF SrvHello, Refuse, cliVars, srvVars
  <2>3. QED
    BY <2>1, <2>2 DEF OwnInv
<1>8. QED
  BY <1>1, <1>2, <1>3, <1>4, <1>5, <1>6, <1>7

LEMMA SrvShakeStep == SessionInv /\ SrvShake => SessionInv'
<1> SUFFICES ASSUME SessionInv, SrvShake PROVE SessionInv'
  OBVIOUS
<1> USE SessionAssumption DEF SessionInv
<1>1. WireOK'
  BY TakeFirst, MessageTypes DEF SrvShake, cliVars, srvVars, WireOK, Commands
<1>2. NumbersInv'
  BY TakeFirst, MessageTypes DEF SrvShake, cliVars, srvVars, NumbersInv, WireOK, Commands
<1>3. DownInv'
  BY TakeFirst, MessageTypes DEF SrvShake, cliVars, srvVars, DownInv, WireOK
<1>4. LockStep'
  BY TakeFirst, MessageTypes DEF SrvShake, cliVars, srvVars, LockStep, WireOK, NumbersInv, GoodCommand, GoodAnswer, Commands
<1>5. StreamInv'
  BY TakeFirst, MessageTypes DEF SrvShake, cliVars, srvVars, StreamInv, WireOK, NumbersInv, Commands
<1>6. RoleAgreed'
  BY TakeFirst, MessageTypes DEF SrvShake, cliVars, srvVars, RoleAgreed, WireOK, DownInv, LockStep, StreamInv, GoodAnswer, Commands
<1>7. OwnInv'
  BY TakeFirst, MessageTypes DEF SrvShake, cliVars, srvVars, OwnInv, WireOK, Commands
<1>8. QED
  BY <1>1, <1>2, <1>3, <1>4, <1>5, <1>6, <1>7

LEMMA SrvTimeoutStep == SessionInv /\ SrvTimeout => SessionInv'
<1> SUFFICES ASSUME SessionInv, SrvTimeout PROVE SessionInv'
  OBVIOUS
<1> USE SessionAssumption DEF SessionInv
<1>1. WireOK'
  BY DEF SrvTimeout, Refuse, cliVars, srvVars, WireOK, Commands
<1>2. NumbersInv'
  BY DEF SrvTimeout, Refuse, cliVars, srvVars, NumbersInv, WireOK, Commands
<1>3. DownInv'
  BY DEF SrvTimeout, Refuse, cliVars, srvVars, DownInv, WireOK
<1>4. LockStep'
  BY DEF SrvTimeout, Refuse, cliVars, srvVars, LockStep, WireOK, NumbersInv, GoodCommand, GoodAnswer, Commands
<1>5. StreamInv'
  BY DEF SrvTimeout, Refuse, cliVars, srvVars, StreamInv, WireOK, NumbersInv, Commands
<1>6. RoleAgreed'
  BY DEF SrvTimeout, Refuse, cliVars, srvVars, RoleAgreed, WireOK, DownInv, LockStep, StreamInv, GoodAnswer, Commands
<1>7. OwnInv'
  BY DEF SrvTimeout, Refuse, cliVars, srvVars, OwnInv, WireOK, Commands
<1>8. QED
  BY <1>1, <1>2, <1>3, <1>4, <1>5, <1>6, <1>7

LEMMA SrvReadStep == SessionInv /\ SrvRead => SessionInv'
<1> SUFFICES ASSUME SessionInv, SrvRead PROVE SessionInv'
  OBVIOUS
<1> USE SessionAssumption DEF SessionInv
<1>1. WireOK'
  <2>1. Head(c2s) \in ToServer /\ c2s' \in Seq(ToServer) /\ ends # "client"
    BY TakeFirst DEF SrvRead, WireOK
  <2>2. CASE Head(c2s).kind # "cmd"
    BY <2>1, <2>2 DEF SrvRead, cliVars, srvVars, WireOK
  <2>3. CASE Head(c2s).kind = "cmd"
    <3>1. Answers(Head(c2s)) \in Seq(ToClient)
      BY <2>1, <2>3, AnswersSent
    <3>2. s2c \o Answers(Head(c2s)) \in Seq(ToClient)
      BY <3>1, ConcatProperties DEF WireOK
    <3>3. s2c' \in Seq(ToClient)
      BY <2>3, <3>2 DEF SrvRead, Sent, WireOK
    <3>4. Handled(Head(c2s)) \in [app : Apps \cup {OtherApp, Blank}, name : Titles \cup {Blank},
                    trans : Nat, done : BOOLEAN, isPublisher : BOOLEAN]
      BY <2>1, <2>3, CommandFields DEF Handled, WireOK
    <3>5. serving' \in [app : Apps \cup {OtherApp, Blank}, name : Titles \cup {Blank},
                    trans : Nat, done : BOOLEAN, isPublisher : BOOLEAN]
      BY <2>3, <3>4 DEF SrvRead, Refuse, WireOK
    <3>6. spc' \in {"read", "returned", "panic"} /\ link' \in {"up", "down"} /\ noauth' = noauth
      BY <2>3 DEF SrvRead, Refuse, WireOK
    <3>7. QED
      BY <2>1, <3>3, <3>5, <3>6 DEF SrvRead, cliVars, WireOK
  <2>4. QED
    BY <2>2, <2>3
<1>2. NumbersInv'
  BY TakeFirst, CommandFields, AnswersSent, ConcatProperties DEF SrvRead, Sent, Refuse, Written, Handled, cliVars, srvVars, NumbersInv, WireOK, Commands
<1>3. DownInv'
  <2> SUFFICES ASSUME ends = "both" PROVE DownInv'
    BY DEF SrvRead, DownInv
  <2>1. Head(c2s) = c2s[1] /\ 1 \in 1..Len(c2s)
    BY TakeFirst DEF SrvRead, WireOK
  <2>2. Head(c2s).kind = "cmd" => Head(c2s).cmd \notin {"empty", "mistyped"}
    BY <2>1 DEF OwnInv, Commands
  <2>3. UNCHANGED <<ends, upset>> /\ (UNCHANGED <<link, spc>> \/ spc' = "returned")
    BY <2>2 DEF SrvRead, Refuse, srvVars
  <2>4. QED
    BY <2>3 DEF DownInv
<1>4. LockStep'
  <2> SUFFICES ASSUME ends = "both", cpc \notin {"started", "failed"} PROVE LockStep'
    BY DEF SrvRead, cliVars, LockStep
  <2> DEFINE m == Head(c2s)
  <2>1. /\ Len(c2s) \in Nat \ {0} /\ m = c2s[1] /\ m \in ToServer /\ 1 \in 1..Len(c2s)
        /\ Len(c2s') = Len(c2s) - 1
        /\ \A j \in 1..Len(c2s') : j + 1 \in 1..Len(c2s) /\ c2s'[j] = c2s[j + 1]
    BY TakeFirst DEF SrvRead, WireOK
  <2>2. UNCHANGED <<ends, cpc, goal, waiting, transID>> /\ spc' # "hello"
    BY DEF SrvRead, Refuse, cliVars, srvVars
  <2>3. \/ s2c' = s2c /\ serving' = serving
        \/ m.kind = "cmd" /\ serving' = Handled(m) /\ (s2c' = s2c \/ s2c' = s2c \o Answers(m))
    BY DEF SrvRead, Refuse, Sent, srvVars
  <2> HIDE DEF m
  <2>4. CASE s2c' = s2c /\ serving' = serving
    BY <2>1, <2>2, <2>4 DEF LockStep, GoodCommand, GoodAnswer
  <2>5. CASE m.kind = "cmd" /\ serving' = Handled(m) /\ (s2c' = s2c \/ s2c' = s2c \o Answers(m))
    <3>1. /\ waiting /\ GoodCommand(m) /\ Len(c2s) = 1 /\ cpc \in Commands /\ m.cmd = cpc
          /\ \A i \in 1..Len(s2c) : s2c[i].kind # "cmd"
      BY <2>1, <2>5 DEF LockStep, WireOK, GoodCommand
    <3>2. \A j \in 1..Len(c2s') : FALSE
      BY <2>1, <3>1
    <3>3. \A i \in 1..Len(s2c') : s2c'[i].kind = "cmd" =>
             GoodAnswer(s2c'[i]) /\ (cpc # "play" => i = Len(s2c'))
      <4>1. CASE s2c' = s2c
        BY <3>1, <4>1
      <4>2. CASE s2c' = s2c \o Answers(m)
        <5>1. Len(s2c) \in Nat /\ Len(Answers(m)) \in Nat /\ Answers(m) \in Seq(ToClient)
          BY <2>1, <2>5, AnswersSent, LenProperties DEF WireOK
        <5>2. /\ Len(s2c') = Len(s2c) + Len(Answers(m))
              /\ \A i \in 1..Len(s2c) + Len(Answers(m)) :
                    s2c'[i] = IF i <= Len(s2c) THEN s2c[i] ELSE Answers(m)[i - Len(s2c)]
          BY <4>2, <5>1, ConcatProperties DEF WireOK
        <5>3. \A i \in 1..Len(Answers(m)) : Answers(m)[i].kind = "cmd" =>
                 GoodAnswer(Answers(m)[i]) /\ (cpc # "play" => i = Len(Answers(m)))
          BY <2>1, <2>5, <3>1, AnswersSent DEF GoodAnswer, GoodCommand, Commands
        <5>4. ASSUME NEW i \in 1..Len(s2c'), s2c'[i].kind = "cmd"
              PROVE  GoodAnswer(s2c'[i]) /\ (cpc # "play" => i = Len(s2c'))
          <6>1. ~(i <= Len(s2c))
            BY <3>1, <5>1, <5>2, <5>4
          <6>2. i - Len(s2c) \in 1..Len(Answers(m)) /\ s2c'[i] = Answers(m)[i - Len(s2c)]
            BY <5>1, <5>2, <6>1
          <6>3. GoodAnswer(s2c'[i]) /\ (cpc # "play" => i - Len(s2c) = Len(Answers(m)))
            BY <5>3, <5>4, <6>2
          <6>4. QED
            BY <5>1, <5>2, <6>3
        <5>5. QED
          BY <5>4
      <4>3. QED
        BY <2>5, <4>1, <4>2
    <3> /\ ~serving.done
        /\ cpc \in {"createStream", "publish", "play"} => serving.app = goal.app
      BY DEF SrvRead, LockStep
    <3>4. /\ serving'.app = goal.app
          /\ cpc \in {"publish", "play"} =>
                /\ serving'.done /\ serving'.name = goal.title
                /\ serving'.isPublisher = (cpc = "publish")
          /\ cpc \notin {"publish", "play"} => ~serving'.done
      BY <2>5, <3>1 DEF Handled, GoodCommand, WireOK, Commands
    <3>5. cpc \in {"publish", "play"} => cpc = goal.method
      BY DEF LockStep
    <3>6. QED
      BY <2>2, <3>1, <3>2, <3>3, <3>4, <3>5 DEF LockStep, GoodAnswer, Commands
  <2>6. QED
    BY <2>3, <2>4, <2>5
<1>5. StreamInv'
  BY TakeFirst, CommandFields, AnswersSent, ConcatProperties DEF SrvRead, Sent, Refuse, Written, Handled, cliVars, srvVars, StreamInv, WireOK, NumbersInv, Commands
<1>6. RoleAgreed'
  BY TakeFirst, CommandFields, AnswersSent, ConcatProperties DEF SrvRead, Sent, Refuse, Written, Handled, cliVars, srvVars, RoleAgreed, WireOK, DownInv, LockStep, StreamInv, GoodAnswer, Commands
<1>7. OwnInv'
  <2> SUFFICES ASSUME ends = "both" PROVE OwnInv'
    BY DEF SrvRead, OwnInv
  <2> DEFINE m == Head(c2s)
  <2>1. /\ m = c2s[1] /\ m \in ToServer /\ 1 \in 1..Len(c2s)
        /\ \A j \in 1..Len(c2s') : j + 1 \in 1..Len(c2s) /\ c2s'[j] = c2s[j + 1]
    BY TakeFirst DEF SrvRead, WireOK
  <2>2. UNCHANGED <<ends, cpc, goal>>
    BY DEF SrvRead, cliVars
  <2>3. serving' = serving \/ (m.kind = "cmd" /\ serving' = Handled(m))
    BY DEF SrvRead, Refuse, srvVars
  <2>4. ~serving.done
    BY DEF SrvRead
  <2> HIDE DEF m
  <2>5. CASE serving' = serving
    BY <2>1, <2>2, <2>5 DEF OwnInv
  <2>6. CASE m.kind = "cmd" /\ serving' = Handled(m)
    <3>1. m.cmd \in {"publish", "play"} => m.cmd = goal.method /\ m.name = goal.title
      BY <2>1, <2>6 DEF OwnInv
    <3>2. serving'.done => m.cmd \in {"publish", "play"}
      BY <2>4, <2>6 DEF Handled, WireOK
    <3>3. m.cmd \in {"publish", "play"} =>
             serving'.name = m.name /\ serving'.isPublisher = (m.cmd = "publish")
      BY <2>6 DEF Handled, WireOK
    <3>4. QED
      BY <2>1, <2>2, <3>1, <3>2, <3>3 DEF OwnInv
  <2>7. QED
    BY <2>3, <2>5, <2>6
<1>8. QED
  BY <1>1, <1>2, <1>3, <1>4, <1>5, <1>6, <1>7

LEMMA SrvReadFailsStep == SessionInv /\ SrvReadFails => SessionInv'
<1> SUFFICES ASSUME SessionInv, SrvReadFails PROVE SessionInv'
  OBVIOUS
<1> USE SessionAssumption DEF SessionInv
<1>1. WireOK'
  BY DEF SrvReadFails, Refuse, cliVars, srvVars, WireOK, Commands
<1>2. NumbersInv'
  BY DEF SrvReadFails, Refuse, cliVars, srvVars, NumbersInv, WireOK, Commands
<1>3. DownInv'
  BY DEF SrvReadFails, Refuse, cliVars, srvVars, DownInv, WireOK
<1>4. LockStep'
  BY DEF SrvReadFails, Refuse, cliVars, srvVars, LockStep, WireOK, NumbersInv, GoodCommand, GoodAnswer, Commands
<1>5. StreamInv'
  BY DEF SrvReadFails, Refuse, cliVars, srvVars, StreamInv, WireOK, NumbersInv, Commands
<1>6. RoleAgreed'
  BY DEF SrvReadFails, Refuse, cliVars, srvVars, RoleAgreed, WireOK, DownInv, LockStep, StreamInv, GoodAnswer, Commands
<1>7. OwnInv'
  BY DEF SrvReadFails, Refuse, cliVars, srvVars, OwnInv, WireOK, Commands
<1>8. QED
  BY <1>1, <1>2, <1>3, <1>4, <1>5, <1>6, <1>7

LEMMA SrvAdmitStep == SessionInv /\ SrvAdmit => SessionInv'
<1> SUFFICES ASSUME SessionInv, SrvAdmit PROVE SessionInv'
  OBVIOUS
<1> USE SessionAssumption DEF SessionInv
<1>1. WireOK'
  BY DEF SrvAdmit, Refuse, cliVars, srvVars, WireOK, Commands
<1>2. NumbersInv'
  BY DEF SrvAdmit, Refuse, cliVars, srvVars, NumbersInv, WireOK, Commands
<1>3. DownInv'
  BY DEF SrvAdmit, Refuse, cliVars, srvVars, DownInv, WireOK
<1>4. LockStep'
  BY DEF SrvAdmit, Refuse, cliVars, srvVars, LockStep, WireOK, NumbersInv, GoodCommand, GoodAnswer, Commands
<1>5. StreamInv'
  BY DEF SrvAdmit, Refuse, cliVars, srvVars, StreamInv, WireOK, NumbersInv, Commands
<1>6. RoleAgreed'
  BY DEF SrvAdmit, Refuse, cliVars, srvVars, RoleAgreed, WireOK, DownInv, LockStep, StreamInv, GoodAnswer, Commands
<1>7. OwnInv'
  BY DEF SrvAdmit, Refuse, cliVars, srvVars, OwnInv, WireOK, Commands
<1>8. QED
  BY <1>1, <1>2, <1>3, <1>4, <1>5, <1>6, <1>7

LEMMA SrvGetKeyStep == SessionInv /\ SrvGetKey => SessionInv'
<1> SUFFICES ASSUME SessionInv, SrvGetKey PROVE SessionInv'
  OBVIOUS
<1> USE SessionAssumption DEF SessionInv
<1>1. WireOK'
  BY DEF SrvGetKey, Refuse, cliVars, srvVars, WireOK, Commands
<1>2. NumbersInv'
  BY DEF SrvGetKey, Refuse, cliVars, srvVars, NumbersInv, WireOK, Commands
<1>3. DownInv'
  BY DEF SrvGetKey, Refuse, cliVars, srvVars, DownInv, WireOK
<1>4. LockStep'
  BY DEF SrvGetKey, Refuse, cliVars, srvVars, LockStep, WireOK, NumbersInv, GoodCommand, GoodAnswer, Commands
<1>5. StreamInv'
  BY DEF SrvGetKey, Refuse, cliVars, srvVars, StreamInv, WireOK, NumbersInv, Commands
<1>6. RoleAgreed'
  BY DEF SrvGetKey, Refuse, cliVars, srvVars, RoleAgreed, WireOK, DownInv, LockStep, StreamInv, GoodAnswer, Commands
<1>7. OwnInv'
  BY DEF SrvGetKey, Refuse, cliVars, srvVars, OwnInv, WireOK, Commands
<1>8. QED
  BY <1>1, <1>2, <1>3, <1>4, <1>5, <1>6, <1>7

LEMMA SrvGetChannelStep == SessionInv /\ SrvGetChannel => SessionInv'
<1> SUFFICES ASSUME SessionInv, SrvGetChannel PROVE SessionInv'
  OBVIOUS
<1> USE SessionAssumption DEF SessionInv
<1>1. WireOK'
  BY DEF SrvGetChannel, Refuse, cliVars, srvVars, WireOK, Commands
<1>2. NumbersInv'
  BY DEF SrvGetChannel, Refuse, cliVars, srvVars, NumbersInv, WireOK, Commands
<1>3. DownInv'
  BY DEF SrvGetChannel, Refuse, cliVars, srvVars, DownInv, WireOK
<1>4. LockStep'
  BY DEF SrvGetChannel, Refuse, cliVars, srvVars, LockStep, WireOK, NumbersInv, GoodCommand, GoodAnswer, Commands
<1>5. StreamInv'
  BY DEF SrvGetChannel, Refuse, cliVars, srvVars, StreamInv, WireOK, NumbersInv, Commands
<1>6. RoleAgreed'
  BY DEF SrvGetChannel, Refuse, cliVars, srvVars, RoleAgreed, WireOK, DownInv, LockStep, StreamInv, GoodAnswer, Commands
<1>7. OwnInv'
  BY DEF SrvGetChannel, Refuse, cliVars, srvVars, OwnInv, WireOK, Commands
<1>8. QED
  BY <1>1, <1>2, <1>3, <1>4, <1>5, <1>6, <1>7

LEMMA PeerClientStep == SessionInv /\ PeerClient => SessionInv'
<1> SUFFICES ASSUME SessionInv, PeerClient PROVE SessionInv'
  OBVIOUS
<1> USE SessionAssumption DEF SessionInv
<1>1. WireOK'
  <2>1. \E m \in ToServer : c2s' = Append(c2s, m)
    BY MessageTypes DEF PeerClient
  <2>2. c2s' \in Seq(ToServer)
    BY <2>1, AppendProperties DEF WireOK
  <2>3. s2c' \in Seq(ToClient) /\ sentPeer' \in Nat
    BY DEF PeerClient, WireOK
  <2>4. QED
    BY <2>2, <2>3 DEF PeerClient, cliVars, srvVars, WireOK
<1>2. NumbersInv'
  BY MessageTypes, AppendProperties, EmptySeq DEF PeerClient, cliVars, srvVars, NumbersInv, WireOK, Commands
<1>3. DownInv'
  BY MessageTypes, AppendProperties, EmptySeq DEF PeerClient, cliVars, srvVars, DownInv, WireOK
<1>4. LockStep'
  BY MessageTypes, AppendProperties, EmptySeq DEF PeerClient, cliVars, srvVars, LockStep, WireOK, NumbersInv, GoodCommand, GoodAnswer, Commands
<1>5. StreamInv'
  BY MessageTypes, AppendProperties, EmptySeq DEF PeerClient, cliVars, srvVars, StreamInv, WireOK, NumbersInv, Commands
<1>6. RoleAgreed'
  BY MessageTypes, AppendProperties, EmptySeq DEF PeerClient, cliVars, srvVars, RoleAgreed, WireOK, DownInv, LockStep, StreamInv, GoodAnswer, Commands
<1>7. OwnInv'
  BY MessageTypes, AppendProperties, EmptySeq DEF PeerClient, cliVars, srvVars, OwnInv, WireOK, Commands
<1>8. QED
  BY <1>1, <1>2, <1>3, <1>4, <1>5, <1>6, <1>7

LEMMA PeerServerStep == SessionInv /\ PeerServer => SessionInv'
<1> SUFFICES ASSUME SessionInv, PeerServer PROVE SessionInv'
  OBVIOUS
<1> USE SessionAssumption DEF SessionInv
<1>1. WireOK'
  <2>1. s2c' = <<S0S1S2>> \/ \E m \in ToClient : s2c' = Append(s2c, m)
    BY MessageTypes DEF PeerServer
  <2>2. s2c' \in Seq(ToClient)
    <3>1. <<S0S1S2>> \in Seq(ToClient)
      BY MessageTypes
    <3>2. \A m \in ToClient : Append(s2c, m) \in Seq(ToClient)
      BY AppendProperties DEF WireOK
    <3>3. QED
      BY <2>1, <3>1, <3>2
  <2>3. c2s' \in Seq(ToServer) /\ sentPeer' \in Nat
    BY DEF PeerServer, WireOK
  <2>4. QED
    BY <2>2, <2>3 DEF PeerServer, cliVars, srvVars, WireOK
<1>2. NumbersInv'
  BY MessageTypes, AppendProperties, EmptySeq DEF PeerServer, cliVars, srvVars, NumbersInv, WireOK, Commands
<1>3. DownInv'
  BY MessageTypes, AppendProperties, EmptySeq DEF PeerServer, cliVars, srvVars, DownInv, WireOK
<1>4. LockStep'
  BY MessageTypes, AppendProperties, EmptySeq DEF PeerServer, cliVars, srvVars, LockStep, WireOK, NumbersInv, GoodCommand, GoodAnswer, Commands
<1>5. StreamInv'
  <2>1. UNCHANGED <<ends, cpc, streamid>>
    BY DEF PeerServer, cliVars
  <2>2. granted \subseteq granted'
    BY DEF PeerServer
  <2>3. \A j \in 1..Len(s2c') : s2c'[j].kind = "cmd" => Offers(s2c'[j]) \subseteq granted'
    <3>1. CASE s2c' = <<S0S1S2>>
      BY <3>1, MessageTypes
    <3>2. ASSUME NEW m \in PeerAnswers, s2c = <<>>, s2c' = Append(s2c, m),
                 granted' = IF m.kind = "cmd" THEN granted \cup Offers(m) ELSE granted
          PROVE  \A j \in 1..Len(s2c') : s2c'[j].kind = "cmd" => Offers(s2c'[j]) \subseteq granted'
      <4>1. Len(s2c') = 1 /\ s2c'[1] = m
        BY <3>2
      <4>2. m.kind = "cmd" => Offers(m) \subseteq granted'
        BY <3>2
      <4>3. QED
        BY <4>1, <4>2
    <3>3. QED
      BY <3>1, <3>2 DEF PeerServer
  <2>4. QED
    BY <2>1, <2>2, <2>3 DEF StreamInv, Chosen
<1>6. RoleAgreed'
  BY MessageTypes, AppendProperties, EmptySeq DEF PeerServer, cliVars, srvVars, RoleAgreed, WireOK, DownInv, LockStep, StreamInv, GoodAnswer, Commands
<1>7. OwnInv'
  BY MessageTypes, AppendProperties, EmptySeq DEF PeerServer, cliVars, srvVars, RoleAgreed, WireOK, DownInv, LockStep, OwnInv, GoodAnswer, Commands
<1>8. QED
  BY <1>1, <1>2, <1>3, <1>4, <1>5, <1>6, <1>7

LEMMA CutStep == SessionInv /\ Cut => SessionInv'
<1> SUFFICES ASSUME SessionInv, Cut PROVE SessionInv'
  OBVIOUS
<1> USE SessionAssumption DEF SessionInv
<1>1. WireOK'
  BY LoseLast DEF Cut, cliVars, srvVars, WireOK, Commands
<1>2. NumbersInv'
  BY LoseLast DEF Cut, cliVars, srvVars, NumbersInv, WireOK, Commands
<1>3. DownInv'
  BY LoseLast DEF Cut, cliVars, srvVars, DownInv, WireOK
<1>4. LockStep'
  <2> SUFFICES ASSUME ends = "both", cpc \notin {"started", "failed"} PROVE LockStep'
    BY DEF Cut, cliVars, LockStep
  <2>1. PICK k \in 0..Len(c2s), n \in 0..Len(s2c) : c2s' = SubSeq(c2s, 1, k) /\ s2c' = SubSeq(s2c, 1, n)
    BY DEF Cut
  <2>2. /\ Len(c2s) \in Nat /\ Len(c2s') = k
        /\ \A j \in 1..k : j \in 1..Len(c2s) /\ c2s'[j] = c2s[j]
    BY <2>1, LoseLast, LenProperties DEF WireOK
  <2>3. /\ Len(s2c) \in Nat /\ Len(s2c') = n
        /\ \A j \in 1..n : j \in 1..Len(s2c) /\ s2c'[j] = s2c[j]
    BY <2>1, LoseLast, LenProperties DEF WireOK
  <2>4. UNCHANGED <<ends, cpc, goal, waiting, transID, serving, spc>>
    BY DEF Cut, cliVars, srvVars
  <2>5. \A j \in 1..Len(c2s') : c2s'[j].kind = "cmd" =>
           /\ waiting /\ j = Len(c2s') /\ GoodCommand(c2s'[j]) /\ ~serving.done
           /\ \A i \in 1..Len(s2c') : s2c'[i].kind # "cmd"
    BY <2>2, <2>3 DEF LockStep
  <2>6. \A i \in 1..Len(s2c') : s2c'[i].kind = "cmd" =>
           /\ waiting /\ GoodAnswer(s2c'[i]) /\ serving.app = goal.app
           /\ cpc # "play" => i = Len(s2c')
           /\ cpc \in {"publish", "play"} => serving.done
    BY <2>3 DEF LockStep
  <2>7. spc = "hello" => \A i \in 1..Len(s2c') : s2c'[i].kind # "cmd"
    BY <2>3 DEF LockStep
  <2>8. QED
    BY <2>4, <2>5, <2>6, <2>7 DEF LockStep, GoodCommand, GoodAnswer
<1>5. StreamInv'
  <2>1. UNCHANGED <<ends, cpc, streamid, granted>>
    BY DEF Cut, cliVars
  <2>2. \A j \in 1..Len(s2c') : j \in 1..Len(s2c) /\ s2c'[j] = s2c[j]
    BY LoseLast DEF Cut, WireOK
  <2>3. QED
    BY <2>1, <2>2 DEF StreamInv, Chosen
<1>6. RoleAgreed'
  BY LoseLast DEF Cut, cliVars, srvVars, RoleAgreed, WireOK, DownInv, LockStep, StreamInv, GoodAnswer, Commands
<1>7. OwnInv'
  BY LoseLast DEF Cut, cliVars, srvVars, OwnInv, WireOK, Commands
<1>8. QED
  BY <1>1, <1>2, <1>3, <1>4, <1>5, <1>6, <1>7
-----------------------------------------------------------------------------
\* At the start nothing is on its way.
LEMMA SessionInitInv == SessionInit => SessionInv
<1> SUFFICES ASSUME SessionInit PROVE SessionInv
  OBVIOUS
<1> USE DEF SessionInit, Fresh
<1>1. WireOK
  <2>1. c2s \in Seq(ToServer) /\ s2c \in Seq(ToClient)
    OBVIOUS
  <2>2. goal \in [method : {"publish", "play"}, app : Apps \cup {OtherApp, Blank},
                  title : Titles \cup {Blank}]
    OBVIOUS
  <2>3. waiting \in BOOLEAN /\ upset \in BOOLEAN /\ ~waiting
    OBVIOUS
  <2>4. /\ cpc \in {"peer", "dial"} /\ (ends = "server" <=> cpc = "peer")
        /\ spc \in {"peer", "hello"} /\ (ends = "client" <=> spc = "peer")
    OBVIOUS
  <2>5. serving \in [app : Apps \cup {OtherApp, Blank}, name : Titles \cup {Blank},
                     trans : Nat, done : BOOLEAN, isPublisher : BOOLEAN]
    OBVIOUS
  <2>6. QED
    BY <2>1, <2>2, <2>3, <2>4, <2>5 DEF WireOK
<1>2. NumbersInv /\ DownInv
  BY DEF NumbersInv, DownInv
<1>3. LockStep
  BY DEF LockStep
<1>4. StreamInv /\ RoleAgreed
  BY DEF StreamInv, RoleAgreed
<1>5. OwnInv
  BY DEF OwnInv
<1>6. QED
  BY <1>1, <1>2, <1>3, <1>4, <1>5 DEF SessionInv

LEMMA SessionStep ==
    ASSUME SessionInv, [SessionNext]_sessionVars
    PROVE  SessionInv'
<1>1. CASE UNCHANGED sessionVars
  BY <1>1 DEF sessionVars, cliVars, srvVars, SessionInv, WireOK, NumbersInv, DownInv, LockStep,
     GoodCommand, GoodAnswer, StreamInv, Chosen, RoleAgreed, OwnInv
<1>2. QED
  BY <1>1, CliDialStep, CliShakeStep, CliShakeFailsStep, CliWriteStep, CliReadStep,
     CliReadFailsStep, SrvHelloStep, SrvShakeStep, SrvTimeoutStep, SrvReadStep,
     SrvReadFailsStep, SrvAdmitStep, SrvGetKeyStep, SrvGetChannelStep, PeerClientStep, PeerServerStep, CutStep
     DEF SessionNext, Client, Server

\* A client that has started agrees with this program's server on application,
\* name and role, and one that has failed had a cause outside; against another
\* server it writes to a stream that was offered to it.
THEOREM RolesAgree == SessionSpec => []RoleAgreed
<1>1. SessionInv => RoleAgreed
  BY DEF SessionInv
<1>2. QED
  BY <1>1, SessionInitInv, SessionStep, PTL DEF SessionSpec

-----------------------------------------------------------------------------
(* Types.                                                                  *)

\* Start writes at most three commands, so its transaction numbers end at 3, and
\* the stream it writes to is one a server can name.
RangeInv ==
    /\ transID \in 1..3 /\ streamid \in 0..2
    /\ cpc \in {"publish", "play"} => transID = IF waiting THEN 3 ELSE 2

\* Only writing a command moves the number, and only an answer the stream.
LEMMA RangeStep ==
    ASSUME SessionInv, RangeInv, [SessionNext]_sessionVars
    PROVE  RangeInv'
<1>0. WireOK /\ NumbersInv
  BY DEF SessionInv
<1>1. CASE UNCHANGED <<cpc, waiting, transID, streamid>>
  BY <1>1 DEF RangeInv
<1>2. CASE /\ cpc' \in {"shake", "connect", "failed"} /\ UNCHANGED <<transID, streamid>>
  BY <1>2 DEF RangeInv
<1>3. CASE CliWrite
  <2>1. /\ cpc \in Commands /\ ~waiting /\ streamid' = streamid
        /\ transID' = IF cpc = "connect" THEN transID ELSE transID + 1
        /\ (waiting' /\ cpc' = cpc) \/ cpc' = "failed"
    BY <1>3 DEF CliWrite
  <2>2. transID' \in 1..3 /\ (cpc \in {"publish", "play"} => transID' = 3)
    BY <1>0, <2>1 DEF RangeInv, NumbersInv, Commands
  <2>3. QED
    BY <2>1, <2>2 DEF RangeInv
<1>4. CASE CliRead
  <2>1. CASE UNCHANGED cliVars
    BY <1>1, <2>1 DEF cliVars
  <2>2. CASE ~UNCHANGED cliVars
    <3>1. Head(s2c) \in ToClient /\ waiting
      BY <1>0, <1>4, TakeFirst DEF CliRead, WireOK
    <3>2. Head(s2c).kind = "cmd"
      BY <1>4, <2>2 DEF CliRead
    <3>3. Head(s2c).stream \in -1..2
      BY <3>1, <3>2, AnswerFields
    <3>4. streamid' \in 0..2 /\ transID' = transID
      <4>1. /\ transID' = transID
            /\ \/ streamid' = streamid
               \/ Head(s2c).stream # NoStream /\ streamid' = Head(s2c).stream
        BY <1>4, <2>2, <3>2 DEF CliRead
      <4>2. QED
        BY <3>3, <4>1 DEF RangeInv, NoStream
    <3>5. \/ (cpc' = NextStep /\ ~waiting') \/ cpc' \in {"failed", "panic"}
          \/ (cpc' = cpc /\ waiting' = waiting)
      BY <1>4, <2>2 DEF CliRead
    <3>6. cpc' = NextStep /\ cpc' \in {"publish", "play"} => cpc = "createStream"
      BY DEF NextStep
    <3>7. cpc = "createStream" => transID = 2
      BY <1>0, <3>1 DEF NumbersInv
    <3>8. QED
      BY <3>4, <3>5, <3>6, <3>7 DEF RangeInv
  <2>3. QED
    BY <2>1, <2>2
<1>5. CASE CliDial \/ CliShake \/ CliShakeFails \/ CliReadFails
  <2>1. cpc' \in {"shake", "connect", "failed"} /\ UNCHANGED <<transID, streamid>>
    BY <1>5 DEF CliDial, CliShake, CliShakeFails, CliReadFails
  <2>2. QED
    BY <1>2, <2>1
<1>6. CASE Server \/ SrvTimeout \/ PeerClient \/ PeerServer \/ Cut \/ UNCHANGED sessionVars
  <2>1. UNCHANGED <<cpc, waiting, transID, streamid>>
    BY <1>6 DEF Server, SrvHello, SrvShake, SrvRead, SrvReadFails, SrvAdmit, SrvGetKey, SrvGetChannel, SrvTimeout, PeerClient,
       PeerServer, Cut, sessionVars, cliVars
  <2>2. QED
    BY <1>1, <2>1
<1>7. QED
  BY <1>3, <1>4, <1>5, <1>6 DEF SessionNext, Client

\* Both ends stay at one of their control points, a client waits only for the
\* answer to a command, and its numbers stay in their range, whatever peer it
\* talks to.
THEOREM SessionTypeCorrect == SessionSpec => []SessionTypeOK
<1>1. SessionInv /\ RangeInv => SessionTypeOK
  BY DEF SessionInv, WireOK, RangeInv, SessionTypeOK
<1>2. SessionInit => RangeInv
  BY DEF SessionInit, RangeInv
<1>3. QED
  BY <1>1, <1>2, RangeStep, SessionInitInv, SessionStep, PTL DEF SessionSpec

-----------------------------------------------------------------------------
(* Admission.                                                              *)

\* What handleConn knows at each of its lookups.
LookupInv ==
    /\ spc \in {"getKey", "getChannel", "admitted"} => serving.done
    /\ spc = "getKey" => serving.isPublisher /\ noauth
    /\ spc = "getChannel" =>
          /\ serving.isPublisher
          /\ asked \in IF noauth THEN Held(serving.name) \cup {Drawn} ELSE {serving.name}

\* A store's entry and its name stand for the same room.
LEMMA HeldRoom ==
    ASSUME NEW n \in Titles \cup {Blank}, NEW x \in Held(n)
    PROVE  /\ n # Drawn /\ x # Drawn /\ RoomFor(x) = RoomFor(n)
           /\ n \in Keys => x = RoomOfKey[n] /\ x \in Titles
           /\ n \notin Keys => x \in Keys /\ RoomOfKey[x] = n
<1>1. n # Drawn
  BY SessionAssumption
<1>2. CASE n \in Keys
  <2>1. x = RoomOfKey[n] /\ x \in Titles /\ x \notin Keys
    BY <1>1, <1>2, SessionAssumption DEF Held, Titles
  <2>2. QED
    BY <1>1, <1>2, <2>1, SessionAssumption DEF RoomFor
<1>3. CASE n \notin Keys
  <2>1. x \in Keys /\ RoomOfKey[x] = n /\ x \in Titles
    BY <1>1, <1>3 DEF Held, Titles
  <2>2. QED
    BY <1>1, <1>3, <2>1, SessionAssumption DEF RoomFor
<1>4. QED
  BY <1>2, <1>3

\* The lookup of what GetKey has answered, or of the name itself, ends in the
\* room of that name.
LEMMA ChannelFound ==
    ASSUME SessionInv, LookupInv, spc = "getChannel", NEW x \in Held(asked)
    PROVE  /\ RoomFor(x) = RoomFor(serving.name)
           /\ ~noauth /\ serving.name \in Keys => x = RoomOfKey[serving.name]
           /\ noauth /\ serving.name \notin Keys => x = serving.name
<1>1. serving.name \in Titles \cup {Blank} /\ noauth \in BOOLEAN
  BY DEF SessionInv, WireOK
<1>2. CASE asked = Drawn
  <2>1. x = serving.name
    BY <1>2 DEF Held
  <2>2. noauth
    BY <1>1, <1>2, SessionAssumption DEF LookupInv
  <2>3. QED
    BY <2>1, <2>2
<1>3. CASE asked # Drawn /\ noauth
  <2>1. asked \in Held(serving.name)
    BY <1>3 DEF LookupInv
  <2>2. asked \in Titles \cup {Blank}
    BY <1>1, <2>1, HeldRoom DEF Titles
  <2>3. /\ RoomFor(asked) = RoomFor(serving.name) /\ RoomFor(x) = RoomFor(asked)
        /\ serving.name \notin Keys => asked \in Keys /\ RoomOfKey[asked] = serving.name
        /\ asked \in Keys => x = RoomOfKey[asked]
    BY <1>1, <2>1, <2>2, HeldRoom
  <2>4. QED
    BY <1>3, <2>3
<1>4. CASE asked # Drawn /\ ~noauth
  <2>1. asked = serving.name
    BY <1>4 DEF LookupInv
  <2>2. QED
    BY <1>1, <1>4, <2>1, HeldRoom
<1>5. QED
  BY <1>1, <1>2, <1>3, <1>4

\* Only handleConn moves between the lookups, and once it is past ReadMsg
\* nothing changes what the client has said.
LEMMA AdmitStep ==
    ASSUME SessionInv, LookupInv, AdmittedIntoItsRoom, [SessionNext]_sessionVars
    PROVE  LookupInv' /\ AdmittedIntoItsRoom'
<1>0. /\ serving.isPublisher \in BOOLEAN /\ noauth \in BOOLEAN /\ WireOK
      /\ ends = "both" /\ serving.done =>
            serving.name = goal.title /\ serving.isPublisher = (goal.method = "publish")
  BY DEF SessionInv, WireOK, OwnInv
<1>1. CASE UNCHANGED <<ends, goal, srvVars>>
  BY <1>1 DEF srvVars, LookupInv, AdmittedIntoItsRoom, Held
<1>2. CASE spc' \in {"shake", "read", "returned", "panic"}
  BY <1>2 DEF LookupInv, AdmittedIntoItsRoom
<1>3. CASE SrvAdmit
  <2>1. CASE spc' = "returned"
    BY <1>2, <2>1
  <2>2. CASE serving.isPublisher /\ spc' # "returned"
    <3>1. /\ spc' = (IF noauth THEN "getKey" ELSE "getChannel") /\ asked' = serving.name
          /\ serving.done /\ UNCHANGED <<serving, noauth>>
      BY <1>3, <2>2 DEF SrvAdmit, Refuse
    <3>2. QED
      BY <1>0, <2>2, <3>1 DEF LookupInv, AdmittedIntoItsRoom
  <2>3. CASE ~serving.isPublisher /\ spc' # "returned"
    <3>1. /\ spc' = "admitted" /\ admitted' = serving.name
          /\ serving.done /\ UNCHANGED <<serving, noauth, ends, goal>>
      BY <1>3, <2>3 DEF SrvAdmit, Refuse, cliVars
    <3>2. QED
      BY <1>0, <2>3, <3>1 DEF LookupInv, AdmittedIntoItsRoom, RoomFor
  <2>4. QED
    BY <1>0, <2>1, <2>2, <2>3
<1>4. CASE SrvGetKey
  <2>1. CASE spc' = "returned"
    BY <1>2, <2>1
  <2>2. CASE spc' # "returned"
    <3>1. /\ spc = "getKey" /\ spc' = "getChannel" /\ asked' \in Held(serving.name) \cup {Drawn}
          /\ UNCHANGED <<serving, noauth>>
      BY <1>4, <2>2 DEF SrvGetKey, Refuse
    <3>2. serving.done /\ serving.isPublisher /\ noauth
      BY <3>1 DEF LookupInv
    <3>3. Held(serving.name)' = Held(serving.name)
      BY <3>1 DEF Held
    <3>4. QED
      BY <3>1, <3>2, <3>3 DEF LookupInv, AdmittedIntoItsRoom
  <2>3. QED
    BY <2>1, <2>2
<1>5. CASE SrvGetChannel
  <2>1. CASE spc' = "returned"
    BY <1>2, <2>1
  <2>2. CASE spc' # "returned"
    <3>1. /\ spc = "getChannel" /\ spc' = "admitted" /\ admitted' \in Held(asked)
          /\ UNCHANGED <<serving, noauth, ends, goal>>
      BY <1>5, <2>2 DEF SrvGetChannel, Refuse, cliVars
    <3>2. serving.done /\ serving.isPublisher
      BY <3>1 DEF LookupInv
    <3>3. PICK x \in Held(asked) : admitted' = x
      BY <3>1
    <3>4. /\ RoomFor(x) = RoomFor(serving.name)
          /\ ~noauth /\ serving.name \in Keys => x = RoomOfKey[serving.name]
          /\ noauth /\ serving.name \notin Keys => x = serving.name
      BY <3>1, <3>3, ChannelFound
    <3>5. QED
      BY <1>0, <3>1, <3>2, <3>3, <3>4 DEF LookupInv, AdmittedIntoItsRoom, RoomFor
  <2>3. QED
    BY <2>1, <2>2
<1>6. CASE SrvHello \/ SrvShake \/ SrvRead \/ SrvReadFails \/ SrvTimeout
  <2>1. spc' \in {"shake", "read", "returned", "panic"} \/ UNCHANGED <<ends, goal, srvVars>>
    BY <1>6 DEF SrvHello, SrvShake, SrvRead, SrvReadFails, SrvTimeout, Refuse, srvVars, cliVars
  <2>2. QED
    BY <1>1, <1>2, <2>1
<1>7. CASE \/ Client \/ CliShakeFails \/ PeerClient \/ PeerServer \/ Cut
           \/ UNCHANGED sessionVars
  <2>1. UNCHANGED <<ends, goal, srvVars>>
    BY <1>7 DEF Client, CliDial, CliShake, CliWrite, CliRead, CliReadFails, CliShakeFails,
       PeerClient, PeerServer, Cut, sessionVars, srvVars, cliVars
  <2>2. QED
    BY <1>1, <2>1
<1>8. QED
  BY <1>3, <1>4, <1>5, <1>6, <1>7 DEF SessionNext, Server

\* Whatever keys are drawn, reset or deleted while handleConn looks a name up, a
\* publisher reaches the hub in the room its name stands for.
THEOREM PublishersFindTheirRoom == SessionSpec => []AdmittedIntoItsRoom
<1>1. SessionInit => LookupInv /\ AdmittedIntoItsRoom
  BY DEF SessionInit, LookupInv, AdmittedIntoItsRoom
<1>2. QED
  BY <1>1, AdmitStep, SessionInitInv, SessionStep, PTL DEF SessionSpec
=============================================================================

-------------------------------- MODULE Amf --------------------------------
(***************************************************************************)
(* Messages of AMF values on one connection (protocol/amf/amf.go): they    *)
(* are written with EncodeBatch, or by a peer that uses the parts of the   *)
(* format only the decoder knows, and read with DecodeBatch.  The Decoder  *)
(* belongs to the connection and keeps its tables from message to message. *)
(* MetaDataReform (metadata.go) is the change of metadata messages between *)
(* the form publishers send and the form players get.                      *)
(***************************************************************************)
EXTENDS AmfDecoder

CONSTANTS MaxValues     \* bound: values written on the connection

ASSUME AmfAssumption == MaxValues \in Nat

VARIABLES aver,      \* the version of the connection's messages: 0 or 3
          written,   \* number of values written
          asent,     \* the values of the message
          own,       \* it was written by EncodeBatch
          sealed,    \* it is complete
          wire,      \* its tokens not yet read
          decoder,   \* the Decoder
          fresh,     \* the Decoder had not read an AMF3 value before the message
          aread,     \* the values read
          outcome    \* "": not at the end; else the error DecodeBatch ended with

amfVars == <<aver, written, asent, own, sealed, wire, decoder, fresh, aread, outcome>>

AmfInit ==
    /\ aver \in {0, 3}
    /\ written = 0 /\ decoder = NewDecoder /\ fresh = TRUE
    /\ asent = <<>> /\ own = TRUE /\ sealed = FALSE /\ wire = <<>>
    /\ aread = <<>> /\ outcome = ""

-----------------------------------------------------------------------------
(* The values written: every kind, and every boundary of the formats.      *)

Strings == <<EmptyText, Text("a", 1), Text("long", 65535), Text("longer", 65536),
             Text("@setDataFrame", 13)>>

Numbers == [i \in 1..11 |-> Num("int32", <<0, 127, 128, 16383, 16384, 2097151, 2097152,
                                           268435455, 268435456, 536870911, 536870912>>[i])]

Samples ==
    Strings \o Numbers \o
    << Num("int32", -1), Num("uint32", 536870911), Num("int64", 7), Num("float64", 7),
       Bool(TRUE), Bool(FALSE), Null, [t |-> "undefined"], [t |-> "date", v |-> 1500],
       Arr(<<>>), Arr(<<Null, EmptyText>>), Obj(<<>>),
       Obj("a" :> Arr(<<Num("int32", 128)>>) @@ "b" :> Obj("b" :> EmptyText)),
       Obj("" :> Null),
       [t |-> "typed", class |-> Text("c", 1), v |-> <<>>],
       [t |-> "typed", class |-> Text("c", 1), v |-> ("a" :> Bool(TRUE))],
       [t |-> "ecma", v |-> ("a" :> Num("int32", 5) @@ "b" :> Null)],
       [t |-> "bytes", v |-> EmptyText], [t |-> "bytes", v |-> Text("a", 1)] >>

Orders == {<<"", "a", "b">>, <<"b", "a", "">>}

\* Encode, or one of the functions a caller uses directly.
Encode(ver, val, ord) ==
    CASE val.t = "undefined" -> IF ver = 0 THEN EncodeAmf0Undefined ELSE EncodeAmf3Undefined
      [] val.t = "ecma" -> IF ver = 0 THEN EncodeAmf0EcmaArray(val.v, ord)
                           ELSE EncodeAmf3(Obj(val.v))
      [] val.t = "bytes" -> IF ver = 0 THEN EncodeAmf0Unsupported
                            ELSE EncodeAmf3ByteArray(val.v)
      [] OTHER -> IF ver = 0 THEN EncodeAmf0(val, ord) ELSE EncodeAmf3(val)

\* Messages of a peer: their tokens, and the values they stand for.
Peer(w, v) == [w |-> w, v |-> v]

PeerAmf3 ==
    << \* the second "a" is a reference to the first; "" takes no entry
       Peer(Marker(9) \o <<Byte(7), Byte(1)>> \o EncodeAmf3String(EmptyText)
              \o EncodeAmf3String(Text("a", 1)) \o <<Byte(6), Byte(0)>>,
            Arr(<<EmptyText, Text("a", 1), Text("a", 1)>>)),
       \* the second object refers to the trait of the first
       Peer(Marker(9) \o <<Byte(5), Byte(1)>> \o EncodeAmf3(Obj("a" :> Null))
              \o <<Byte(10), Byte(1)>> \o EncodeAmf3True,
            Arr(<<Obj("a" :> Null), Obj("a" :> Bool(TRUE))>>)),
       \* a dynamic object, not at the end: it ends with an empty name
       Peer(Marker(9) \o <<Byte(5), Byte(1), Byte(10), Byte(11)>> \o encodeAmf3Utf8(EmptyText)
              \o encodeAmf3Utf8(Name("b")) \o EncodeAmf3Null
              \o encodeAmf3Utf8(EmptyText) \o EncodeAmf3Null,
            Arr(<<Obj("b" :> Null), Null>>)),
       \* a DSA message with three known fields and one that is not known
       Peer(<<Byte(10), Byte(7)>> \o encodeAmf3Utf8(Text("DSA", 3))
              \o <<Byte(129), Byte(6)>> \o EncodeAmf3True \o EncodeAmf3Null
              \o EncodeAmf3False \o <<Byte(1)>> \o EncodeAmf3Null,
            Obj("body" :> Bool(TRUE) @@ "messageIdBytes" :> Null
                @@ "extra_1_2" :> Bool(FALSE) @@ "correlationId" :> Null)),
       Peer(<<Byte(10), Byte(7)>> \o encodeAmf3Utf8(Text("DSK", 3))
              \o <<Byte(64)>> \o EncodeAmf3Null \o <<Byte(0), Byte(0)>>,
            Obj("timeToLive" :> Null)),
       Peer(<<Byte(10), Byte(7)>> \o encodeAmf3Utf8(Text("AC", 2))
              \o EncodeAmf3(Arr(<<Null>>)), Arr(<<Null>>)),
       Peer(Marker(7) \o encodeAmf3Utf8(Text("xml", 3)), Text("xml", 3)),
       \* a text cut off after two of its three bytes: AMF3 takes it, with a zero
       Peer(<<Byte(6)>> \o encodeAmf3Uint29(7) \o Body(Text("cut", 2)), Text("cut", 3)),
       Peer(Marker(7) \o encodeAmf3Uint29(7) \o Body(Text("cut", 2)), Text("cut", 3)),
       \* a class nobody handles
       Peer(<<Byte(10), Byte(7)>> \o encodeAmf3Utf8(Text("other", 5)), [t |-> "none"]) >>

PeerAmf0 ==
    << Peer(<<Byte(11), <<"f64", 5>>, <<"zone", 0>>>>, Float(5)),
       Peer(<<Byte(15), <<"u32", 3>>>> \o Body(Text("xml", 3)), Text("xml", 3)),
       Peer(Marker(16) \o EncodeAmf0String(Text("c", 1), FALSE)
              \o Tail(EncodeAmf0Object("a" :> Null, <<"a">>)),
            [t |-> "typed", class |-> Text("c", 1), v |-> ("a" :> Null)]),
       Peer(EncodeAmf0Amf3Marker \o PeerAmf3[1].w, PeerAmf3[1].v),
       Peer(EncodeAmf0Amf3Marker \o PeerAmf3[2].w, PeerAmf3[2].v),
       \* a text cut off: AMF0 refuses it
       Peer(<<Byte(15), <<"u32", 3>>>> \o Body(Text("cut", 2)), [t |-> "none"]),
       Peer(Marker(4), [t |-> "none"]) >>

PeerMessages(ver) == IF ver = 0 THEN PeerAmf0 ELSE PeerAmf3

-----------------------------------------------------------------------------
\* EncodeBatch goes on to the next value, or fails and nothing is sent.
WriteValue(i, ord) ==
    LET w == Encode(aver, Samples[i], ord)
    IN  /\ own /\ ~sealed /\ outcome = "" /\ written < MaxValues
        /\ written' = written + 1
        /\ IF EncodeFails(w) THEN outcome' = "refused" /\ UNCHANGED <<asent, wire>>
           ELSE /\ asent' = Append(asent, Samples[i]) /\ wire' = wire \o w
                /\ UNCHANGED outcome
        /\ UNCHANGED <<aver, own, sealed, decoder, fresh, aread>>

Seal ==
    /\ ~sealed /\ outcome = "" /\ asent # <<>>
    /\ sealed' = TRUE
    /\ UNCHANGED <<aver, written, asent, own, wire, decoder, fresh, aread, outcome>>

PeerWrites(i) ==
    /\ ~sealed /\ outcome = "" /\ asent = <<>> /\ written < MaxValues
    /\ written' = written + 1
    /\ asent' = <<PeerMessages(aver)[i].v>> /\ wire' = PeerMessages(aver)[i].w
    /\ own' = FALSE /\ sealed' = TRUE
    /\ UNCHANGED <<aver, decoder, fresh, aread, outcome>>

\* DecodeBatch, one value: it ends with the first error.
DecodeNext ==
    LET res == Decode(aver, wire, decoder)
    IN  /\ sealed /\ outcome = ""
        /\ IF res.r = "ok" THEN /\ aread' = Append(aread, res.v) /\ wire' = res.w
                                /\ decoder' = res.d /\ UNCHANGED outcome
           ELSE outcome' = res.r /\ UNCHANGED <<aread, wire, decoder>>
        /\ UNCHANGED <<aver, written, asent, own, sealed, fresh>>

\* The next message of the connection.
NextMessage ==
    /\ outcome # "" /\ written < MaxValues
    /\ fresh' = (decoder = NewDecoder)
    /\ asent' = <<>> /\ own' = TRUE /\ sealed' = FALSE /\ wire' = <<>>
    /\ aread' = <<>> /\ outcome' = ""
    /\ UNCHANGED <<aver, written, decoder>>

AmfNext ==
    \/ \E i \in DOMAIN Samples, ord \in Orders : WriteValue(i, ord)
    \/ Seal
    \/ \E i \in DOMAIN PeerMessages(aver) : PeerWrites(i)
    \/ DecodeNext
    \/ NextMessage

AmfSpec == AmfInit /\ [][AmfNext]_amfVars

-----------------------------------------------------------------------------
(* MetaDataReform.                                                         *)

SetDataFrame == Text("@setDataFrame", 13)
SetFrameFrame == EncodeAmf0String(SetDataFrame, TRUE)

\* ADD puts the name @setDataFrame in front unless it is there, DEL takes it
\* away; a message that does not start with a string is an error.
MetaDataReform(p, flag) ==
    Then(DecodeAmf0(p, NewDecoder), LAMBDA a :
        IF a.v.t # "str" THEN Bad("err")
        ELSE Good(IF flag = "ADD"
                  THEN IF a.v = SetDataFrame THEN p ELSE SetFrameFrame \o p
                  ELSE IF a.v = SetDataFrame THEN SubSeq(p, 1 + Len(SetFrameFrame), Len(p))
                  ELSE p, <<>>, NewDecoder))

-----------------------------------------------------------------------------
(* Properties.                                                             *)

\* Type correctness; no more values are read than a message holds.
AmfTypeOK ==
    /\ aver \in {0, 3} /\ written \in 0..MaxValues
    /\ own \in BOOLEAN /\ sealed \in BOOLEAN /\ fresh \in BOOLEAN
    /\ outcome \in {"", "eof", "err", "panic", "refused"}
    /\ own => Len(aread) <= Len(asent)

RECURSIVE Plain(_, _)

\* What a reader of version ver sees of a value: the types that are merged.
Plain(ver, val) ==
    CASE val.t \in {"int32", "uint32", "int64"} ->
            IF ver = 3 /\ val.t # "int64" /\ val.v \in 0..AMF3_INTEGER_MAX
            THEN Num("int32", val.v) ELSE Float(val.v)
      [] val.t = "undefined" -> Null
      [] val.t = "bytes" -> IF ver = 0 THEN Null ELSE val
      [] val.t = "date" -> [val EXCEPT !.v = (@ \div 1000) * 1000]
      [] val.t = "arr" -> Arr([i \in DOMAIN val.v |-> Plain(ver, val.v[i])])
      [] val.t \in {"obj", "typed", "ecma"} -> Obj([k \in DOMAIN val.v |-> Plain(ver, val.v[k])])
      [] OTHER -> val

SameValue(a, b) == a.t = b.t /\ a = b

\* AMF3's integers are signed in the decoder and not in the encoder.
Misread(val) == aver = 3 /\ val.t \in {"int32", "uint32"} /\ val.v \in 268435456..AMF3_INTEGER_MAX

\* The values read are the values written, in their order: every kind, every
\* nesting, at every boundary of the length and integer formats and whatever
\* order the map was visited in; but for AMF3 integers from 2^28 to 2^29 - 1.
RoundTrip ==
    own => \A i \in DOMAIN aread :
               Misread(asent[i]) \/ SameValue(aread[i], Plain(aver, asent[i]))

RECURSIVE EndsEmpty(_, _)

\* The last thing the decoder reads of a value is a string of no bytes.
EndsEmpty(ver, val) ==
    CASE val.t = "str" -> val.len = 0
      [] val.t = "bytes" -> ver = 3 /\ val.v.len = 0
      [] val.t = "arr" -> IF val.v = <<>> THEN ver = 3 ELSE EndsEmpty(ver, val.v[Len(val.v)])
      [] val.t \in {"obj", "ecma"} ->
            ver = 3 /\ LET props == Visit(val.v, Sorted)
                       IN  props = <<>> \/ EndsEmpty(ver, val.v[props[Len(props)]])
      [] OTHER -> FALSE

\* A message is read to its end: no value is lost and none read twice.  The
\* exceptions are a property with an empty name, which AMF0 cannot carry, and
\* a message that ends with an empty string, whose last value DecodeBatch
\* loses, with an error that its callers do not take for the end.
ReadToEnd ==
    (own /\ sealed /\ outcome # "") =>
        IF aver = 0 /\ \E i \in DOMAIN asent : asent[i] = Obj("" :> Null)
        THEN outcome = "err"
        ELSE IF EndsEmpty(aver, asent[Len(asent)])
        THEN outcome = "err" /\ Len(aread) = Len(asent) - 1
        ELSE outcome = "eof" /\ Len(aread) = Len(asent)

\* The decoder follows a peer's references to strings and traits, reads
\* dynamic and external objects, and fails on what it does not support; an
\* AMF3 text cut off by the end of the message is made up with zeros, where
\* AMF0 fails (decoder_amf3.go does not look at the count of Read); on
\* the first message, for its tables are never emptied, and the numbers a
\* peer uses count from the start of each message.
PeerIsRead ==
    (~own /\ fresh /\ outcome # "") =>
        IF asent[1].t = "none" THEN outcome = "err" /\ aread = <<>>
        ELSE outcome = "eof" /\ Len(aread) = 1 /\ SameValue(aread[1], asent[1])

\* A metadata message in either form has the other form, and no third one:
\* taking the name away undoes putting it there and the other way round, and
\* a message that passes several relays (ADD each time) or players' servers
\* (DEL each time) stays as the first made it.
MetaDataSurvives ==
    LET Reform(p, flag) == MetaDataReform(p, flag).v
    IN  (aver = 0 /\ own /\ sealed /\ aread = <<>> /\ outcome = "" /\ Len(asent) > 1
           /\ asent[1].t = "str" /\ asent[2].t = "str" /\ asent[2].len # 0
           /\ asent[2] # SetDataFrame) =>
               /\ Reform(Reform(wire, "ADD"), "ADD") = Reform(wire, "ADD")
               /\ Reform(Reform(wire, "DEL"), "DEL") = Reform(wire, "DEL")
               /\ Reform(Reform(wire, "ADD"), "DEL") = Reform(wire, "DEL")
               /\ Reform(Reform(wire, "DEL"), "ADD") = Reform(wire, "ADD")
               /\ Reform(wire, "ADD") # Reform(wire, "DEL")

\* What is written to a message comes out of it, from this program's encoder,
\* from a peer's and after a reform of its metadata.
MessagesSurvive == RoundTrip /\ ReadToEnd /\ PeerIsRead /\ MetaDataSurvives
=============================================================================

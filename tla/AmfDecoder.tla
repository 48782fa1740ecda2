----------------------------- MODULE AmfDecoder -----------------------------
(***************************************************************************)
(* The AMF0 and AMF3 decoders of protocol/amf, with the tables of strings, *)
(* objects and traits that AMF3 values refer back to.  A decoder function  *)
(* takes the tokens left and the Decoder; one that meets another token     *)
(* than it reads has lost its place and fails.                             *)
(***************************************************************************)
EXTENDS AmfEncoder, TLC

NewDecoder == [strings |-> <<>>, objects |-> <<>>, traits |-> <<>>]

\* What a decoder function returns: an error, or the value, the tokens that
\* follow and the Decoder.
Bad(e) == [r |-> e]
Good(v, w, d) == [r |-> "ok", v |-> v, w |-> w, d |-> d]
Then(res, F(_)) == IF res.r = "ok" THEN F(res) ELSE res
Value(res, F(_)) == Then(res, LAMBDA a : Good(F(a.v), a.w, a.d))

\* An error is passed on in the text of a new one, which hides io.EOF.
Wrap(res) == IF res.r = "eof" THEN Bad("err") ELSE res

ReadToken(kind, w, d) ==
    IF w = <<>> THEN Bad("eof")
    ELSE IF Head(w)[1] # kind THEN Bad("err")
    ELSE Good(Head(w)[2], Tail(w), d)

ReadByte(w, d) == ReadToken("byte", w, d)

\* Read of a bytes.Reader fails at its end, also when no byte is wanted; AMF0's
\* ReadBytes also when fewer came than were wanted.
ReadBytes(n, w, d) ==
    IF w = <<>> THEN Bad("eof")
    ELSE IF n = 0 THEN Good(EmptyText, w, d)
    ELSE Then(ReadToken("body", w, d),
              LAMBDA a : IF a.v.len = n THEN a ELSE Bad("err"))

-----------------------------------------------------------------------------
(* AMF0.  Decoded numbers are float64.                                     *)

Float(n) == Num("float64", n)

DecodeAmf0Number(w, d) == Wrap(Value(ReadToken("f64", w, d), Float))

DecodeAmf0Boolean(w, d) ==
    Then(ReadByte(w, d), LAMBDA a :
        IF a.v \in {0, 1} THEN Good(Bool(a.v = 1), a.w, a.d) ELSE Bad("err"))

DecodeAmf0String(w, d) ==
    Wrap(Then(ReadToken("u16", w, d), LAMBDA a : ReadBytes(a.v, a.w, a.d)))

DecodeAmf0Null(w, d) == Good(Null, w, d)
DecodeAmf0Undefined(w, d) == Good(Null, w, d)
DecodeAmf0Unsupported(w, d) == Good(Null, w, d)

DecodeAmf0Date(w, d) ==
    Wrap(Then(DecodeAmf0Number(w, d), LAMBDA a :
         Then(ReadToken("zone", a.w, a.d), LAMBDA b : Good(a.v, b.w, b.d))))

DecodeAmf0LongString(w, d) ==
    Wrap(Then(ReadToken("u32", w, d), LAMBDA a : ReadBytes(a.v, a.w, a.d)))

DecodeAmf0XmlDocument(w, d) == DecodeAmf0LongString(w, d)

RECURSIVE DecodeAmf0(_, _)
RECURSIVE DecodeAmf0Props(_, _, _)
RECURSIVE DecodeAmf0Elems(_, _, _, _)
RECURSIVE DecodeAmf3(_, _)

\* Keys and values until an empty key, which the end marker must follow.
DecodeAmf0Props(w, d, f) ==
    Then(DecodeAmf0String(w, d), LAMBDA key :
        IF key.v = EmptyText
        THEN Wrap(Then(ReadByte(key.w, key.d), LAMBDA m :
                IF m.v = 9 THEN Good(Obj(f), m.w, m.d) ELSE Bad("err")))
        ELSE Then(Wrap(DecodeAmf0(key.w, key.d)), LAMBDA val :
                DecodeAmf0Props(val.w, val.d, (key.v.v :> val.v) @@ f)))

DecodeAmf0Object(w, d) == DecodeAmf0Props(w, d, <<>>)

\* The length is read and not used.
DecodeAmf0EcmaArray(w, d) ==
    Wrap(Then(ReadToken("u32", w, d), LAMBDA a : DecodeAmf0Object(a.w, a.d)))

DecodeAmf0Elems(n, w, d, s) ==
    IF n = 0 THEN Good(Arr(s), w, d)
    ELSE Then(Wrap(DecodeAmf0(w, d)), LAMBDA a : DecodeAmf0Elems(n - 1, a.w, a.d, Append(s, a.v)))

DecodeAmf0StrictArray(w, d) ==
    Wrap(Then(ReadToken("u32", w, d), LAMBDA a : DecodeAmf0Elems(a.v, a.w, a.d, <<>>)))

DecodeAmf0TypedObject(w, d) ==
    Wrap(Then(DecodeAmf0String(w, d), LAMBDA a :
         Value(DecodeAmf0Object(a.w, a.d), LAMBDA o :
               [t |-> "typed", class |-> a.v, v |-> o.v])))

DecodeAmf0(w, d) ==
    Then(ReadByte(w, d), LAMBDA a :
        CASE a.v = 0 -> DecodeAmf0Number(a.w, a.d)
          [] a.v = 1 -> DecodeAmf0Boolean(a.w, a.d)
          [] a.v = 2 -> DecodeAmf0String(a.w, a.d)
          [] a.v = 3 -> DecodeAmf0Object(a.w, a.d)
          [] a.v = 5 -> DecodeAmf0Null(a.w, a.d)
          [] a.v = 6 -> DecodeAmf0Undefined(a.w, a.d)
          [] a.v = 8 -> DecodeAmf0EcmaArray(a.w, a.d)
          [] a.v = 10 -> DecodeAmf0StrictArray(a.w, a.d)
          [] a.v = 11 -> DecodeAmf0Date(a.w, a.d)
          [] a.v = 12 -> DecodeAmf0LongString(a.w, a.d)
          [] a.v = 13 -> DecodeAmf0Unsupported(a.w, a.d)
          [] a.v = 15 -> DecodeAmf0XmlDocument(a.w, a.d)
          [] a.v = 16 -> DecodeAmf0TypedObject(a.w, a.d)
          [] a.v = 17 -> DecodeAmf3(a.w, a.d)
          [] OTHER -> Bad("err"))

-----------------------------------------------------------------------------
(* AMF3.                                                                   *)

RECURSIVE U29Bytes(_, _, _, _)

\* The i-th byte of an integer of which the bytes before it make acc.
U29Bytes(i, acc, w, d) ==
    Then(ReadByte(w, d), LAMBDA b :
        IF i = 4 THEN Good(acc * 256 + b.v, b.w, b.d)
        ELSE IF b.v < 128 THEN Good(acc * 128 + b.v, b.w, b.d)
        ELSE U29Bytes(i + 1, acc * 128 + (b.v - 128), b.w, b.d))

decodeU29(w, d) == U29Bytes(1, 0, w, d)

decodeReferenceInt(w, d) ==
    Wrap(Value(decodeU29(w, d), LAMBDA n : [isRef |-> n % 2 = 0, refVal |-> n \div 2]))

\* An index past the end of a table panics.
Lookup(table, i, w, d) ==
    IF i < Len(table) THEN Good(table[i + 1], w, d) ELSE Bad("panic")

Remember(res) == Then(res, LAMBDA a : Good(a.v, a.w, [a.d EXCEPT !.objects = Append(@, a.v)]))

DecodeAmf3Undefined(w, d) == Good(Null, w, d)
DecodeAmf3Null(w, d) == Good(Null, w, d)
DecodeAmf3False(w, d) == Good(Bool(FALSE), w, d)
DecodeAmf3True(w, d) == Good(Bool(TRUE), w, d)

DecodeAmf3Integer(w, d) ==
    Value(decodeU29(w, d), LAMBDA n :
        Num("int32", IF n > 268435455 THEN n - 536870912 ELSE n))

DecodeAmf3Double(w, d) == Wrap(Value(ReadToken("f64", w, d), Float))

\* Read into a buffer of n bytes, without a look at how many came: a text that
\* ends with the message before it has its length is taken, with zeros after it.
ReadUnchecked(n, w, d) ==
    IF w = <<>> THEN Bad("eof")
    ELSE IF n = 0 THEN Good(EmptyText, w, d)
    ELSE Then(ReadToken("body", w, d), LAMBDA a :
            IF a.v.len = n \/ (a.v.len < n /\ a.w = <<>>)
            THEN Good([a.v EXCEPT !.len = n], a.w, a.d) ELSE Bad("err"))

DecodeAmf3String(w, d) ==
    Then(decodeReferenceInt(w, d), LAMBDA a :
        IF a.v.isRef THEN Lookup(a.d.strings, a.v.refVal, a.w, a.d)
        ELSE Wrap(Then(ReadUnchecked(a.v.refVal, a.w, a.d), LAMBDA b :
                Good(b.v, b.w, IF b.v = EmptyText THEN b.d
                               ELSE [b.d EXCEPT !.strings = Append(@, b.v)]))))

\* A reference to an entry of the object table with another type fails.
OfType(res, t) == Then(res, LAMBDA a : IF a.v.t = t THEN a ELSE Bad("err"))

DecodeAmf3Date(w, d) ==
    Then(decodeReferenceInt(w, d), LAMBDA a :
        IF a.v.isRef THEN OfType(Lookup(a.d.objects, a.v.refVal, a.w, a.d), "date")
        ELSE Remember(Wrap(Value(ReadToken("f64", a.w, a.d), LAMBDA n :
                [t |-> "date", v |-> (n \div 1000) * 1000]))))

DecodeAmf3Xml(w, d) ==
    Then(decodeReferenceInt(w, d), LAMBDA a :
        IF a.v.isRef THEN OfType(Lookup(a.d.objects, a.v.refVal, a.w, a.d), "str")
        ELSE Then(Wrap(ReadUnchecked(a.v.refVal, a.w, a.d)), LAMBDA b :
                IF b.v = EmptyText THEN b ELSE Remember(b)))

DecodeAmf3ByteArray(w, d) ==
    Then(decodeReferenceInt(w, d), LAMBDA a :
        IF a.v.isRef THEN OfType(Lookup(a.d.objects, a.v.refVal, a.w, a.d), "bytes")
        ELSE Remember(Wrap(Value(ReadUnchecked(a.v.refVal, a.w, a.d), LAMBDA b :
                [t |-> "bytes", v |-> b]))))

RECURSIVE DecodeAmf3Elems(_, _, _, _)
RECURSIVE DecodeAmf3Strings(_, _, _, _)
RECURSIVE DecodeAmf3Props(_, _, _, _)
RECURSIVE DecodeAmf3Dynamic(_, _, _)

DecodeAmf3Elems(n, w, d, s) ==
    IF n = 0 THEN Good(Arr(s), w, d)
    ELSE Then(Wrap(DecodeAmf3(w, d)), LAMBDA a : DecodeAmf3Elems(n - 1, a.w, a.d, Append(s, a.v)))

\* The index of a reference is halved a second time.
DecodeAmf3Array(w, d) ==
    Then(decodeReferenceInt(w, d), LAMBDA a :
        IF a.v.isRef THEN OfType(Lookup(a.d.objects, a.v.refVal \div 2, a.w, a.d), "arr")
        ELSE Then(Wrap(DecodeAmf3String(a.w, a.d)), LAMBDA key :
                IF key.v # EmptyText THEN Bad("err")
                ELSE Remember(DecodeAmf3Elems(a.v.refVal, key.w, key.d, <<>>))))

DecodeAmf3Strings(n, w, d, s) ==
    IF n = 0 THEN Good(s, w, d)
    ELSE Then(Wrap(DecodeAmf3String(w, d)), LAMBDA a :
            DecodeAmf3Strings(n - 1, a.w, a.d, Append(s, a.v.v)))

\* The trait an object starts with: one of the table, or a new one.
DecodeAmf3Trait(refVal, w, d) ==
    IF refVal % 2 = 0 THEN Lookup(d.traits, refVal \div 2, w, d)
    ELSE Then(Wrap(DecodeAmf3String(w, d)), LAMBDA class :
         Then(DecodeAmf3Strings(refVal \div 8, class.w, class.d, <<>>), LAMBDA props :
            LET trait == [class |-> class.v.v, ext |-> (refVal \div 2) % 2 = 1,
                          dynamic |-> (refVal \div 4) % 2 = 1, props |-> props.v]
            IN  Good(trait, props.w, [props.d EXCEPT !.traits = Append(@, trait)])))

DecodeAmf3Props(props, w, d, f) ==
    IF props = <<>> THEN Good(Obj(f), w, d)
    ELSE Then(Wrap(DecodeAmf3(w, d)), LAMBDA a :
            DecodeAmf3Props(Tail(props), a.w, a.d, (Head(props) :> a.v) @@ f))

DecodeAmf3Dynamic(w, d, f) ==
    Then(Wrap(DecodeAmf3String(w, d)), LAMBDA key :
        IF key.v = EmptyText THEN Good(Obj(f), key.w, key.d)
        ELSE Then(Wrap(DecodeAmf3(key.w, key.d)), LAMBDA a :
                DecodeAmf3Dynamic(a.w, a.d, (key.v.v :> a.v) @@ f)))

-----------------------------------------------------------------------------
(* Externalizable objects: flag bytes that say which fields follow.        *)

RECURSIVE readFlags(_, _, _)
RECURSIVE DecodeFields(_, _, _, _, _, _)
RECURSIVE DecodeFieldSets(_, _, _, _, _)

readFlags(w, d, s) ==
    Then(ReadByte(w, d), LAMBDA a :
        IF a.v >= 128 THEN readFlags(a.w, a.d, Append(s, a.v))
        ELSE Good(Append(s, a.v), a.w, a.d))

\* Fields p, p + 1, ... of the i-th flag byte; past the named ones, to bit 5.
DecodeFields(flags, names, i, p, at, f) ==
    IF p > 5 /\ p >= Len(names) THEN Good(Obj(f), at.w, at.d)
    ELSE IF (flags \div 2^p) % 2 = 0 THEN DecodeFields(flags, names, i, p + 1, at, f)
    ELSE Then(Wrap(DecodeAmf3(at.w, at.d)), LAMBDA a :
            LET field == IF p < Len(names) THEN names[p + 1]
                         ELSE "extra_" \o ToString(i - 1) \o "_" \o ToString(p)
            IN  DecodeFields(flags, names, i, p + 1, a, (field :> a.v) @@ f))

DecodeFieldSets(flagSet, fieldSets, i, at, f) ==
    IF i > Len(flagSet) THEN Good(Obj(f), at.w, at.d)
    ELSE Then(DecodeFields(flagSet[i], IF i <= Len(fieldSets) THEN fieldSets[i] ELSE <<>>,
                           i, 0, at, f),
              LAMBDA a : DecodeFieldSets(flagSet, fieldSets, i + 1, a, a.v.v))

decodeExternal(w, d, f, fieldSets) ==
    Then(Wrap(readFlags(w, d, <<>>)), LAMBDA a : DecodeFieldSets(a.v, fieldSets, 1, a, f))

decodeAbstractMessage(w, d) ==
    decodeExternal(w, d, <<>>,
        << <<"body", "clientId", "destination", "headers", "messageId", "timeStamp",
             "timeToLive">>,
           <<"clientIdBytes", "messageIdBytes">> >>)

decodeAsyncMessage(w, d) ==
    Then(decodeAbstractMessage(w, d), LAMBDA a :
        decodeExternal(a.w, a.d, a.v.v, << <<"correlationId", "correlationIdBytes">> >>))

decodeAcknowledgeMessage(w, d) ==
    Then(decodeAsyncMessage(w, d), LAMBDA a : decodeExternal(a.w, a.d, a.v.v, <<>>))

decodeArrayCollection(w, d) == Wrap(DecodeAmf3(w, d))

\* No handler is registered for any other class.
DecodeAmf3External(class, w, d) ==
    CASE class = "DSA" -> decodeAsyncMessage(w, d)
      [] class = "DSK" -> decodeAcknowledgeMessage(w, d)
      [] class = "AC" -> Remember(decodeArrayCollection(w, d))
      [] OTHER -> Bad("err")

\* The object table gets nil in place of the object, which is not made yet.
DecodeAmf3Object(w, d) ==
    Then(decodeReferenceInt(w, d), LAMBDA a :
        IF a.v.isRef THEN Lookup(a.d.objects, a.v.refVal \div 2, a.w, a.d)
        ELSE Then(DecodeAmf3Trait(a.v.refVal, a.w, a.d), LAMBDA tr :
             LET at == Remember(Good(Null, tr.w, tr.d))
             IN  IF tr.v.ext THEN DecodeAmf3External(tr.v.class, at.w, at.d)
                 ELSE Then(DecodeAmf3Props(tr.v.props, at.w, at.d, <<>>), LAMBDA o :
                         IF tr.v.dynamic THEN DecodeAmf3Dynamic(o.w, o.d, o.v.v) ELSE o)))

DecodeAmf3(w, d) ==
    Then(ReadByte(w, d), LAMBDA a :
        CASE a.v = 0 -> DecodeAmf3Undefined(a.w, a.d)
          [] a.v = 1 -> DecodeAmf3Null(a.w, a.d)
          [] a.v = 2 -> DecodeAmf3False(a.w, a.d)
          [] a.v = 3 -> DecodeAmf3True(a.w, a.d)
          [] a.v = 4 -> DecodeAmf3Integer(a.w, a.d)
          [] a.v = 5 -> DecodeAmf3Double(a.w, a.d)
          [] a.v = 6 -> DecodeAmf3String(a.w, a.d)
          [] a.v \in {7, 11} -> DecodeAmf3Xml(a.w, a.d)
          [] a.v = 8 -> DecodeAmf3Date(a.w, a.d)
          [] a.v = 9 -> DecodeAmf3Array(a.w, a.d)
          [] a.v = 10 -> DecodeAmf3Object(a.w, a.d)
          [] a.v = 12 -> DecodeAmf3ByteArray(a.w, a.d)
          [] OTHER -> Bad("err"))

Decode(ver, w, d) == IF ver = 0 THEN DecodeAmf0(w, d) ELSE DecodeAmf3(w, d)
=============================================================================

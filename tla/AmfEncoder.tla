----------------------------- MODULE AmfEncoder -----------------------------
(***************************************************************************)
(* The AMF0 and AMF3 encoders of protocol/amf.  Bytes are tokens: a marker *)
(* or flag byte, a fixed-width number, the body of a string.  Numbers are  *)
(* small integers or stand at the boundaries where the formats change.     *)
(* The recursive operators are the code's own recursion on nested values.  *)
(***************************************************************************)
EXTENDS Integers, Sequences

(* Values and tokens.                                                      *)

Num(kind, n) == [t |-> kind, v |-> n]    \* kind: int32, uint32, int64, float64
Null == [t |-> "null"]
Bool(b) == [t |-> "bool", v |-> b]
Text(k, n) == [t |-> "str", v |-> k, len |-> n]
Arr(s) == [t |-> "arr", v |-> s]
Obj(f) == [t |-> "obj", v |-> f]         \* f: from property names to values

EmptyText == Text("", 0)
Name(k) == Text(k, IF k = "" THEN 0 ELSE 1)

AMF0_STRING_MAX == 65535
AMF3_INTEGER_MAX == 536870911

Byte(b) == <<"byte", b>>
Marker(m) == <<Byte(m)>>
Body(s) == IF s.len = 0 THEN <<>> ELSE << <<"body", s>> >>

-----------------------------------------------------------------------------
(* The AMF0 encoder.                                                       *)

EncodeAmf0Number(n) == <<Byte(0), <<"f64", n>>>>
EncodeAmf0Boolean(b) == <<Byte(1), Byte(IF b THEN 1 ELSE 0)>>
EncodeAmf0String(s, encodeMarker) ==
    (IF encodeMarker THEN Marker(2) ELSE <<>>) \o <<<<"u16", s.len % 65536>>>> \o Body(s)
EncodeAmf0Null == Marker(5)
EncodeAmf0Undefined == Marker(6)
EncodeAmf0LongString(s) == <<Byte(12), <<"u32", s.len>>>> \o Body(s)
EncodeAmf0Unsupported == Marker(13)
EncodeAmf0Amf3Marker == Marker(17)

\* The order in which Go visits a map, here one order for all maps of a call.
Visit(f, ord) == SelectSeq(ord, LAMBDA k : k \in DOMAIN f)

Failed == <<"failed">>
EncodeFails(w) == \E i \in DOMAIN w : w[i] = "failed"

RECURSIVE EncodeAmf0(_, _)
RECURSIVE EncodeAmf0Props(_, _, _)
RECURSIVE EncodeAmf0Elems(_, _)

EncodeAmf0Props(f, keys, ord) ==
    IF keys = <<>> THEN EncodeAmf0String(EmptyText, FALSE) \o Marker(9)
    ELSE EncodeAmf0String(Name(Head(keys)), FALSE) \o EncodeAmf0(f[Head(keys)], ord)
         \o EncodeAmf0Props(f, Tail(keys), ord)

EncodeAmf0Object(f, ord) == Marker(3) \o EncodeAmf0Props(f, Visit(f, ord), ord)

EncodeAmf0EcmaArray(f, ord) ==
    <<Byte(8), <<"u32", Len(Visit(f, ord))>>>> \o EncodeAmf0Props(f, Visit(f, ord), ord)

EncodeAmf0Elems(s, ord) ==
    IF s = <<>> THEN <<>> ELSE EncodeAmf0(Head(s), ord) \o EncodeAmf0Elems(Tail(s), ord)

EncodeAmf0StrictArray(s, ord) ==
    <<Byte(10), <<"u32", Len(s)>>>> \o EncodeAmf0Elems(s, ord)

\* The router, by the value's kind; dates and typed objects are refused.
EncodeAmf0(val, ord) ==
    CASE val.t = "null" -> EncodeAmf0Null
      [] val.t = "str" -> IF val.len <= AMF0_STRING_MAX THEN EncodeAmf0String(val, TRUE)
                          ELSE EncodeAmf0LongString(val)
      [] val.t = "bool" -> EncodeAmf0Boolean(val.v)
      [] val.t \in {"int32", "uint32", "int64", "float64"} -> EncodeAmf0Number(val.v)
      [] val.t = "arr" -> EncodeAmf0StrictArray(val.v, ord)
      [] val.t = "obj" -> EncodeAmf0Object(val.v, ord)
      [] OTHER -> Failed

-----------------------------------------------------------------------------
(* The AMF3 encoder.  It writes no references.                             *)

\* Seven bits of n with the mark that another byte follows.
More(n, unit) == Byte(128 + ((n \div unit) % 128))

\* Mutant: the boundary between two and three bytes is off by one.
encodeAmf3Uint29_Off(n) ==
    CASE n <= 127 -> <<Byte(n)>>
      [] n > 127 /\ n <= 16384 -> <<More(n, 128), Byte(n % 128)>>
      [] n > 16384 /\ n <= 2097151 -> <<More(n, 16384), More(n, 128), Byte(n % 128)>>
      [] OTHER -> <<More(n, 4194304), More(n, 32768), More(n, 256), Byte(n % 256)>>

encodeAmf3Uint29(n) ==
    CASE n <= 127 -> <<Byte(n)>>
      [] n > 127 /\ n <= 16383 -> <<More(n, 128), Byte(n % 128)>>
      [] n > 16383 /\ n <= 2097151 -> <<More(n, 16384), More(n, 128), Byte(n % 128)>>
      [] n > 2097151 /\ n <= 536870911 ->
            <<More(n, 4194304), More(n, 32768), More(n, 256), Byte(n % 256)>>
      [] OTHER -> Failed

encodeAmf3Utf8(s) == encodeAmf3Uint29(2 * s.len + 1) \o Body(s)

EncodeAmf3Undefined == Marker(0)
EncodeAmf3Null == Marker(1)
EncodeAmf3False == Marker(2)
EncodeAmf3True == Marker(3)
EncodeAmf3Integer(n) == Marker(4) \o encodeAmf3Uint29(n)
EncodeAmf3Double(n) == <<Byte(5), <<"f64", n>>>>
EncodeAmf3String(s) == Marker(6) \o encodeAmf3Utf8(s)
EncodeAmf3ByteArray(s) == Marker(12) \o encodeAmf3Utf8(s)

\* Whole seconds, in milliseconds.
EncodeAmf3Date(ms) == <<Byte(8), Byte(1), <<"f64", (ms \div 1000) * 1000>>>>

RECURSIVE EncodeAmf3(_)
RECURSIVE EncodeAmf3Elems(_)
RECURSIVE EncodeAmf3Names(_)

EncodeAmf3Elems(s) ==
    IF s = <<>> THEN <<>> ELSE EncodeAmf3(Head(s)) \o EncodeAmf3Elems(Tail(s))

EncodeAmf3Names(s) ==
    IF s = <<>> THEN <<>> ELSE encodeAmf3Utf8(Name(Head(s))) \o EncodeAmf3Names(Tail(s))

EncodeAmf3Array(s) ==
    Marker(9) \o encodeAmf3Uint29(2 * Len(s) + 1) \o encodeAmf3Utf8(EmptyText)
              \o EncodeAmf3Elems(s)

Sorted == <<"", "a", "b">>

\* A sealed trait with the sorted property names, then the values.
EncodeAmf3Object(class, f) ==
    LET props == Visit(f, Sorted)
    IN  Marker(10) \o encodeAmf3Uint29(3 + 16 * Len(props)) \o encodeAmf3Utf8(class)
        \o EncodeAmf3Names(props) \o EncodeAmf3Elems([i \in DOMAIN props |-> f[props[i]]])

EncodeAmf3(val) ==
    CASE val.t = "null" -> EncodeAmf3Null
      [] val.t = "str" -> EncodeAmf3String(val)
      [] val.t = "bool" -> IF val.v THEN EncodeAmf3True ELSE EncodeAmf3False
      [] val.t \in {"int32", "uint32"} ->
            IF val.v >= 0 /\ val.v <= AMF3_INTEGER_MAX THEN EncodeAmf3Integer(val.v)
            ELSE EncodeAmf3Double(val.v)
      [] val.t \in {"int64", "float64"} -> EncodeAmf3Double(val.v)
      [] val.t = "arr" -> EncodeAmf3Array(val.v)
      [] val.t = "obj" -> EncodeAmf3Object(EmptyText, val.v)
      [] val.t = "date" -> EncodeAmf3Date(val.v)
      [] val.t = "typed" -> EncodeAmf3Object(val.class, val.v)
      [] OTHER -> Failed
=============================================================================

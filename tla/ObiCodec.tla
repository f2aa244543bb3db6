------------------------------ MODULE ObiCodec ------------------------------
(***************************************************************************)
(* The JavaScript library of the Oracle Binary Interface                   *)
(* (src/obi/obi.js/index.js): schemas are parsed into a tree of codecs,    *)
(* which encode values into a buffer and decode them from it.              *)
(*                                                                         *)
(* A schema is a sequence of tokens (white space is removed by the         *)
(* constructor of Obi).  A value is a number, a sequence of characters,    *)
(* bytes or values, or a record of fields.  A user of the library encodes  *)
(* several values one after the other into one buffer, which may lose its  *)
(* end on the way, and decodes them again.                                 *)
(***************************************************************************)
EXTENDS Integers, Sequences, SequencesExt

CONSTANTS
  Base,          \* values of a byte: 1 << 8 in the code
  LengthBytes,   \* bytes of the length prefix: those of a u32 in the code
  IntegerTokens, \* token of an integer type -> its size in bytes
  Cases,         \* [schema, input, output, side]: a schema of two sides, the
                 \* types they denote, and the side that is used
  ValuesOf(_),   \* the values that are encoded for a type
  MaxValues      \* bound: values encoded into one buffer

ASSUME BaseAssumption == Base \in Nat \ {0, 1} /\ LengthBytes \in Nat \ {0}
ASSUME MaxValuesAssumption == MaxValues \in Nat \ {0}

VARIABLES
  case,    \* the member of Cases under test
  stage,   \* "new", "open", "decoding", "done", "thrown", "refused"
  obi,     \* the codec of the side under test
  sent,    \* values encoded so far
  cut,     \* whether the buffer lost bytes at its end
  buff,    \* the buffer, of which decoding leaves the remaining part
  got      \* values decoded so far

vars == <<case, stage, obi, sent, cut, buff, got>>

-----------------------------------------------------------------------------
(* Types, and the schema that denotes each of them. *)

IntegerType(token) == [kind |-> "integer", token |-> token]
VectorType(t)      == [kind |-> "vector", of |-> t]
StructType(fields) == [kind |-> "struct", fields |-> fields]
StringType         == [kind |-> "string"]
BytesType          == [kind |-> "bytes"]
NoType             == [kind |-> "throws"]

RECURSIVE SchemaOf(_)
SchemaOf(t) ==
  CASE t.kind = "integer" -> <<t.token>>
    [] t.kind = "string"  -> <<"string">>
    [] t.kind = "bytes"   -> <<"bytes">>
    [] t.kind = "vector"  -> <<"[">> \o SchemaOf(t.of) \o <<"]">>
    [] t.kind = "struct"  ->
         LET Field(i) == t.fields[i].name \o <<":">> \o SchemaOf(t.fields[i].type)
                           \o <<IF i = Len(t.fields) THEN "}" ELSE ",">>
         IN  <<"{">> \o FlattenSeq([i \in 1 .. Len(t.fields) |-> Field(i)])

-----------------------------------------------------------------------------
(* The parser. *)

Surrounded(schema, open, close) ==
  Len(schema) >= 2 /\ Head(schema) = open /\ Last(schema) = close

NoField == [name |-> << >>, type |-> << >>]

(* Mutant: inner braces are not counted. *)
ScanFieldFlat(acc, c) ==
  CASE c = ":" -> [acc EXCEPT !.fill = "type"]
    [] c \in {",", "}"} ->
         [acc EXCEPT !.fields = Append(@, acc.kv),
                     !.kv = NoField, !.fill = "name"]
    [] OTHER -> [acc EXCEPT !.kv[acc.fill] = Append(@, c)]

(* One character of the loop in the constructor of ObiStruct: braces are    *)
(* counted, brackets are not; outside of inner braces ":" ends a name, and  *)
(* "," or "}" ends a field.                                                 *)
ScanField(acc, c) ==
  LET inner == acc.curlyCount > 0
      depth == IF c = "{" THEN acc.curlyCount + 1
               ELSE IF inner /\ c = "}" THEN acc.curlyCount - 1
               ELSE acc.curlyCount
  IN  CASE ~inner /\ c = ":" -> [acc EXCEPT !.fill = "type"]
        [] ~inner /\ c \in {",", "}"} ->
             [acc EXCEPT !.fields = Append(@, acc.kv),
                         !.kv = NoField, !.fill = "name"]
        [] OTHER ->
             [acc EXCEPT !.curlyCount = depth,
                         !.kv[acc.fill] = Append(@, c)]

SplitFields(schema) ==
  FoldLeft(ScanField,
           [curlyCount |-> 0, kv |-> NoField, fill |-> "name", fields |-> << >>],
           Tail(schema)).fields

(* ObiSpec.fromSpec: the first implementation whose expression matches; a   *)
(* schema that none matches throws, and so does one with such a part.       *)
RECURSIVE fromSpec(_)
fromSpec(schema) ==
  CASE Len(schema) = 1 /\ Head(schema) \in DOMAIN IntegerTokens ->
         IntegerType(Head(schema))
    [] Surrounded(schema, "[", "]") ->
         LET internalObi == fromSpec(SubSeq(schema, 2, Len(schema) - 1))
         IN  IF internalObi = NoType THEN NoType ELSE VectorType(internalObi)
    [] Surrounded(schema, "{", "}") ->
         LET kvs    == SplitFields(schema)
             fields == [i \in 1 .. Len(kvs) |->
                          [kvs[i] EXCEPT !.type = fromSpec(@)]]
         IN  IF \E i \in 1 .. Len(fields) : fields[i].type = NoType
             THEN NoType ELSE StructType(fields)
    [] schema = <<"string">> -> StringType
    [] schema = <<"bytes">>  -> BytesType
    [] OTHER -> NoType

-----------------------------------------------------------------------------
(* Encoding. *)

(* BigInt division and remainder round toward zero.                         *)
BigIntRem(v) == IF v < 0 THEN -((-v) % Base) ELSE v % Base
BigIntDiv(v) == IF v < 0 THEN -((-v) \div Base) ELSE v \div Base

(* Mutant: the digits are not reversed. *)
RECURSIVE EncodeIntegerUnreversed(_, _)
EncodeIntegerUnreversed(v, size) ==
  IF size = 0 THEN << >>
  ELSE <<BigIntRem(v) % Base>> \o EncodeIntegerUnreversed(BigIntDiv(v), size - 1)

(* The size lowest digits, most significant first; Buffer.from takes each   *)
(* number modulo the values of a byte.                                      *)
RECURSIVE EncodeInteger(_, _)
EncodeInteger(v, size) ==
  IF size = 0 THEN << >>
  ELSE Append(EncodeInteger(BigIntDiv(v), size - 1), BigIntRem(v) % Base)

(* Buffer.from(string) is UTF-8, while the length of a string counts its    *)
(* UTF-16 units.  Characters below AsciiChars take one byte; the last one   *)
(* stands for the others, with one unit and two bytes.                      *)
AsciiChars == Base - 2
WideChar == AsciiChars
Replacement == AsciiChars + 1

Utf8(c) == IF c = WideChar THEN <<Base - 2, Base - 1>> ELSE <<c>>

EncodeText(chars) == FlattenSeq([i \in 1 .. Len(chars) |-> Utf8(chars[i])])

RECURSIVE Encode(_, _)
Encode(t, v) ==
  CASE t.kind = "integer" -> EncodeInteger(v, IntegerTokens[t.token])
    [] t.kind = "vector"  ->
         EncodeInteger(Len(v), LengthBytes)
           \o FlattenSeq([i \in 1 .. Len(v) |-> Encode(t.of, v[i])])
    [] t.kind = "struct"  ->
         FlattenSeq([i \in 1 .. Len(t.fields) |->
                       Encode(t.fields[i].type, v[t.fields[i].name])])
    [] t.kind = "string"  -> EncodeInteger(Len(v), LengthBytes) \o EncodeText(v)
    [] t.kind = "bytes"   -> EncodeInteger(Len(v), LengthBytes) \o v

-----------------------------------------------------------------------------
(* Decoding: the value and the remaining buffer, or an exception. *)

Thrown         == [ok |-> FALSE]
Decoded(v, rest) == [ok |-> TRUE, value |-> v, remaining |-> rest]

(* Mutant: the remaining buffer starts one byte early. *)
SliceOffByOne(b, from) == SubSeq(b, IF from = 0 THEN 1 ELSE from, Len(b))

(* Buffer.slice stops at the end of the buffer and never throws.            *)
Slice(b, from) == SubSeq(b, from + 1, Len(b))
SliceTo(b, to) == SubSeq(b, 1, IF to < Len(b) THEN to ELSE Len(b))

(* Mutant: bytes beyond the end are read as zero. *)
DecodeIntegerPadded(b, size) ==
  Decoded(FoldLeft(LAMBDA acc, byte : acc * Base + byte, 0,
                   [i \in 1 .. size |-> IF i <= Len(b) THEN b[i] ELSE 0]),
          Slice(b, size))

(* readUInt8 throws beyond the end.  The sign of the type is not looked at. *)
DecodeInteger(b, size) ==
  IF Len(b) < size THEN Thrown
  ELSE Decoded(FoldLeft(LAMBDA acc, byte : acc * Base + byte, 0, SliceTo(b, size)),
               Slice(b, size))

(* Buffer.toString: bytes that are no UTF-8 become replacement characters.  *)
RECURSIVE DecodeText(_)
DecodeText(b) ==
  IF b = << >> THEN << >>
  ELSE IF Head(b) < AsciiChars THEN <<Head(b)>> \o DecodeText(Tail(b))
  ELSE IF SliceTo(b, 2) = Utf8(WideChar) THEN <<WideChar>> \o DecodeText(Slice(b, 2))
  ELSE <<Replacement>> \o DecodeText(Tail(b))

(* The loops of ObiVector.decode and ObiStruct.decode: codecs applied one   *)
(* after the other to what the previous one left.                           *)
RECURSIVE Decode(_, _), DecodeAll(_, _)
DecodeAll(ts, b) ==
  IF ts = << >> THEN Decoded(<< >>, b)
  ELSE LET first == Decode(Head(ts), b)
           rest  == DecodeAll(Tail(ts), first.remaining)
       IN  IF ~first.ok THEN Thrown
           ELSE IF ~rest.ok THEN Thrown
           ELSE Decoded(<<first.value>> \o rest.value, rest.remaining)

Decode(t, b) ==
  LET length == DecodeInteger(b, LengthBytes)
  IN  CASE t.kind = "integer" -> DecodeInteger(b, IntegerTokens[t.token])
        [] t.kind = "struct"  ->
             LET fields == DecodeAll([i \in 1 .. Len(t.fields) |-> t.fields[i].type], b)
                 Index(name) == CHOOSE i \in 1 .. Len(t.fields) : t.fields[i].name = name
             IN  IF ~fields.ok THEN Thrown
                 ELSE Decoded([name \in {t.fields[i].name : i \in 1 .. Len(t.fields)} |->
                                 fields.value[Index(name)]],
                              fields.remaining)
        [] ~length.ok         -> Thrown
        [] t.kind = "vector"  ->
             DecodeAll([i \in 1 .. length.value |-> t.of], length.remaining)
        [] t.kind = "string"  ->
             Decoded(DecodeText(SliceTo(length.remaining, length.value)),
                     Slice(length.remaining, length.value))
        [] t.kind = "bytes"   ->
             Decoded(SliceTo(length.remaining, length.value),
                     Slice(length.remaining, length.value))

-----------------------------------------------------------------------------
(* The class Obi, and a user of it. *)

Init ==
  /\ case \in Cases
  /\ stage = "new"
  /\ obi = NoType
  /\ sent = << >>
  /\ cut = FALSE
  /\ buff = << >>
  /\ got = << >>

(* The first part of split('/'), and what follows it.                       *)
UpToSlash(schema) ==
  LET slash == SelectInSeq(schema, LAMBDA c : c = "/")
  IN  IF slash = 0 THEN schema ELSE SubSeq(schema, 1, slash - 1)

AfterSlash(schema) == SubSeq(schema, Len(UpToSlash(schema)) + 2, Len(schema))

(* The first two parts of split('/'); a third one is not looked at.         *)
SideSchemas(schema) ==
  [input |-> UpToSlash(schema), output |-> UpToSlash(AfterSlash(schema))]

(* The constructor parses both sides; a missing one throws.                 *)
NewObi ==
  /\ stage = "new"
  /\ LET sides     == SideSchemas(case.schema)
         inputObi  == fromSpec(sides.input)
         outputObi == fromSpec(sides.output)
     IN  IF NoType \in {inputObi, outputObi}
         THEN stage' = "thrown" /\ UNCHANGED obi
         ELSE /\ stage' = "open"
              /\ obi' = IF case.side = "input" THEN inputObi ELSE outputObi
  /\ UNCHANGED <<case, sent, cut, buff, got>>

(* encodeInput or encodeOutput, its result appended to the buffer.          *)
EncodeValue ==
  /\ stage = "open"
  /\ Len(sent) < MaxValues
  /\ \E v \in ValuesOf(obi) :
       /\ sent' = Append(sent, v)
       /\ buff' = buff \o Encode(obi, v)
  /\ UNCHANGED <<case, stage, obi, cut, got>>

(* The buffer reaches the reader, whole or without its end.                 *)
Deliver ==
  /\ stage = "open"
  /\ Len(sent) > 0
  /\ \E n \in 0 .. Len(buff) :
       /\ buff' = SubSeq(buff, 1, n)
       /\ cut' = (n < Len(buff))
  /\ stage' = "decoding"
  /\ UNCHANGED <<case, obi, sent, got>>

(* decode of the codec: one value, the remaining buffer is kept.            *)
DecodeValue ==
  /\ stage = "decoding"
  /\ Len(got) < Len(sent)
  /\ LET result == Decode(obi, buff)
     IN  IF ~result.ok
         THEN stage' = "thrown" /\ UNCHANGED <<buff, got>>
         ELSE /\ got' = Append(got, result.value)
              /\ buff' = result.remaining
              /\ stage' = IF Len(got') = Len(sent) THEN "done" ELSE stage
  /\ UNCHANGED <<case, obi, sent, cut>>

(* "if (remaining)": every Buffer is a true value, an empty one too.        *)
IsTrue(remaining) == TRUE

(* decodeInput and decodeOutput decode one value and throw if anything is   *)
(* left, which by IsTrue is always.                                         *)
DecodeWhole ==
  /\ stage = "decoding"
  /\ got = << >>
  /\ LET result == Decode(obi, buff)
     IN  IF ~result.ok
         THEN stage' = "thrown" /\ UNCHANGED got
         ELSE IF IsTrue(result.remaining)
         THEN stage' = "refused" /\ UNCHANGED got
         ELSE stage' = "done" /\ got' = <<result.value>>
  /\ UNCHANGED <<case, obi, sent, cut, buff>>

Next == NewObi \/ EncodeValue \/ Deliver \/ DecodeValue \/ DecodeWhole

Spec == Init /\ [][Next]_vars

-----------------------------------------------------------------------------
(* The constructor finds the type that a schema denotes, however structs    *)
(* and vectors are nested in each other: commas and colons of an inner      *)
(* struct are told apart by counting braces only.  A schema without a type  *)
(* for each side throws.                                                    *)
SchemaParsed ==
  stage # "new" => IF NoType \in {case.input, case.output}
                   THEN stage = "thrown" ELSE obi = case[case.side]

(* The text in a value is ASCII: its UTF-16 length is its UTF-8 length.     *)
RECURSIVE IsAscii(_, _)
IsAscii(t, v) ==
  CASE t.kind = "vector" -> \A i \in 1 .. Len(v) : IsAscii(t.of, v[i])
    [] t.kind = "struct" ->
         \A i \in 1 .. Len(t.fields) :
            IsAscii(t.fields[i].type, v[t.fields[i].name])
    [] t.kind = "string" -> \A i \in 1 .. Len(v) : v[i] < AsciiChars
    [] OTHER -> TRUE

(* w is v with its numbers reduced to the size of their types; what becomes *)
(* of a negative number is left open.                                       *)
RECURSIVE Matches(_, _, _)
Matches(t, v, w) ==
  CASE t.kind = "integer" -> v >= 0 => w = v % Base ^ IntegerTokens[t.token]
    [] t.kind = "vector"  ->
         Len(v) = Len(w) /\ \A i \in 1 .. Len(v) : Matches(t.of, v[i], w[i])
    [] t.kind = "struct"  ->
         \A i \in 1 .. Len(t.fields) :
            LET name == t.fields[i].name
            IN  Matches(t.fields[i].type, v[name], w[name])
    [] OTHER -> v = w

AllAscii(n) == \A i \in 1 .. n : IsAscii(obi, sent[i])

(* Values decoded one after the other from one buffer are those that were   *)
(* encoded.  A number that does not fit its type, or is negative, changes   *)
(* itself and nothing around it; only text beyond ASCII displaces what      *)
(* follows it.                                                              *)
RoundTrip ==
  \A i \in 1 .. Len(got) : ~cut /\ AllAscii(i) => Matches(obi, sent[i], got[i])

(* Codecs read exactly what they wrote: decoding as many values as were     *)
(* encoded never throws and leaves nothing.                                 *)
SelfDelimiting ==
  obi # NoType /\ ~cut /\ AllAscii(Len(sent)) =>
    /\ stage # "thrown"
    /\ stage = "done" => buff = << >>

RECURSIVE EndsInSlice(_)
EndsInSlice(t) ==
  CASE t.kind \in {"string", "bytes"} -> TRUE
    [] t.kind = "vector" -> EndsInSlice(t.of)
    [] t.kind = "struct" -> EndsInSlice(Last(t.fields).type)
    [] OTHER -> FALSE

(* A buffer that lost its end is never decoded into as many values as were  *)
(* encoded: readUInt8 throws.  Only a type that ends in a string or bytes   *)
(* is decoded without notice, since slice does not throw.                   *)
TruncationNoticed ==
  cut /\ ~EndsInSlice(obi) /\ AllAscii(Len(sent)) => stage # "done"
=============================================================================

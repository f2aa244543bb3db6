----------------------------- MODULE MCObiCodec -----------------------------
(***************************************************************************)
(* Bounded types and values for ObiCodec: every shape of nesting of vector *)
(* and struct of depth two, with numbers below, in and above the range of  *)
(* their type.                                                             *)
(***************************************************************************)
EXTENDS ObiCodec, FiniteSets

Tokens == [token \in {"u8", "u16", "i8", "i16"} |->
             IF token \in {"u8", "i8"} THEN 1 ELSE 2]

Field(name, t) == [name |-> <<name>>, type |-> t]

U8  == IntegerType("u8")
U16 == IntegerType("u16")

Leaves == {IntegerType(token) : token \in DOMAIN Tokens} \cup {StringType, BytesType}

Shallow ==
  {VectorType(t) : t \in {U16, StringType}}
    \cup {StructType(<<Field("a", U8), Field("b", t)>>) : t \in {IntegerType("i16"), StringType}}
    \cup {StructType(<<Field("a", BytesType), Field("b", U16)>>)}

Nested ==
  {VectorType(t) : t \in Shallow}
    \cup {StructType(<<Field("a", t), Field("c", U8)>>) : t \in Shallow}
    \cup {StructType(<<Field("a", U8), Field("c", VectorType(t))>>) : t \in Shallow}

Case(input, output, side) ==
  [schema |-> SchemaOf(input) \o <<"/">> \o SchemaOf(output),
   input |-> input, output |-> output, side |-> side]

(* Schemas with an empty struct, a field that is empty or has no type, a    *)
(* bracket that is not closed, or one side only.                            *)
Malformed ==
  {<<"{", "}", "/", "u8">>, <<"{", "a", ":", "u8", ",", "}", "/", "u8">>,
   <<"{", "a", ":", "u8", ",", "b", "}", "/", "u8">>, <<"[", "u8", "/", "u8">>, <<"u8">>}

(* Whatever comes after a second slash is not read. *)
ThreeParts(input, output, side) ==
  LET two == Case(input, output, side)
  IN  [two EXCEPT !.schema = @ \o <<"/", "[">>]

AllCases ==
  {ThreeParts(U16, t, "output") : t \in Shallow}
    \cup {Case(t, U8, "input") : t \in Leaves \cup Shallow \cup Nested}
    \cup {Case(U16, t, "output") : t \in Shallow}
    \cup {[schema |-> schema, input |-> NoType, output |-> U8, side |-> "output"] :
            schema \in Malformed}

RECURSIVE SmallValues(_)
SmallValues(t) ==
  CASE t.kind = "integer" -> {-1, 1, Base ^ Tokens[t.token] + 1} \cup {Base + 2}
    [] t.kind = "string"  -> {<< >>, <<1>>, <<1, WideChar>>}
    [] t.kind = "bytes"   -> {<< >>, <<3, 1>>}
    [] t.kind = "vector"  ->
         LET vs == SmallValues(t.of)
             v  == CHOOSE v \in vs : IsAscii(t.of, v)
         IN  {<< >>} \cup {<<v, w>> : w \in vs}
    [] t.kind = "struct"  -> \* of two fields
         {[name \in {t.fields[1].name, t.fields[2].name} |->
             IF name = t.fields[1].name THEN v ELSE w] :
            v \in SmallValues(t.fields[1].type), w \in SmallValues(t.fields[2].type)}
=============================================================================

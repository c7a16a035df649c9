---------------------------- MODULE ProtobufJson ----------------------------
(***************************************************************************)
(* The command-line tool's conversions: a request given as JSON is encoded *)
(* as protobuf, an answer is decoded without its schema and shown as JSON. *)
(* A JSON value is a pair of its type and its content; an object is the    *)
(* sequence of its members, whose keys are field numbers: "1" and "01" are *)
(* two members with one number.  Integers have WordBits bits where the     *)
(* program has 64, tags TagBits where it has 32.                           *)
(***************************************************************************)
EXTENDS Integers, Sequences, SequencesExt, FiniteSets

CONSTANTS
  WordBits,   \* 64
  TagBits,    \* 32
  Values,     \* the JSON values given as requests
  Refused     \* what a conversion returns when it fails

ASSUME WordAssumption == WordBits \in Nat /\ TagBits \in 4 .. WordBits

VARIABLES
  json,   \* the request
  wire,   \* its encoding
  view    \* what is shown of an answer that holds the same bytes

cliVars == <<json, wire, view>>

Null == <<"null">>
Number64(n) == <<"number", n>>
Text(bytes) == <<"text", bytes>>
Array(elems) == <<"array", elems>>
Object(members) == <<"object", members>>
Unsupported == <<"float">>    \* a number that is no integer of 64 bits

\* A key that is no number.
NoField == -1
-----------------------------------------------------------------------------
RECURSIVE Varint(_), VarintInclusive(_), Accepted(_), Encode(_, _)

\* Variant: the bound of one byte is one too high.
VarintInclusive(n) ==
  IF n <= 128 THEN <<n>> ELSE <<128 + (n % 128)>> \o VarintInclusive(n \div 128)

\* encode_varint.
Varint(n) == IF n < 128 THEN <<n>> ELSE <<128 + (n % 128)>> \o Varint(n \div 128)

\* An i64 as u64.
Unsigned(n) == n % 2^WordBits

\* write_tag, in 32 bits; field 0 has none.
Tag(field, type) ==
  IF field = 0 THEN <<>> ELSE Varint((field * 8 + type) % 2^TagBits)

Delimited(field, bytes) ==
  IF field = 0 THEN bytes ELSE Tag(field, 2) \o Varint(Len(bytes)) \o bytes

\* encode_value fails on a number it cannot hold and on a key that is no number.
Accepted(v) ==
  CASE v[1] = "float"  -> FALSE
    [] v[1] = "array"  -> \A i \in DOMAIN v[2] : Accepted(v[2][i])
    [] v[1] = "object" -> \A i \in DOMAIN v[2] : v[2][i][1] # NoField /\ Accepted(v[2][i][2])
    [] OTHER -> TRUE

\* encode_value.
Encode(field, v) ==
  CASE v[1] = "null"   -> <<>>
    [] v[1] = "bool"   -> Tag(field, 0) \o Varint(IF v[2] THEN 1 ELSE 0)
    [] v[1] = "number" -> Tag(field, 0) \o Varint(Unsigned(v[2]))
    [] v[1] = "text"   -> Tag(field, 2) \o Varint(Len(v[2])) \o v[2]
    [] v[1] = "array"  -> FlattenSeq([i \in DOMAIN v[2] |-> Encode(field, v[2][i])])
    [] v[1] = "object" ->
         Delimited(field, FlattenSeq([i \in DOMAIN v[2] |-> Encode(v[2][i][1], v[2][i][2])]))
-----------------------------------------------------------------------------
RECURSIVE ReadVarint(_, _, _, _), Decode(_, _), Utf8(_)

\* read_varint: the value and the position after it.  A group shifted past the
\* word's width is an error, what is shifted out of it is lost.
ReadVarint(b, pos, shift, value) ==
  IF pos > Len(b) THEN Refused
  ELSE LET sum == (value + (b[pos] % 128) * 2^shift) % 2^WordBits
       IN IF b[pos] < 128 THEN <<sum, pos + 1>>
          ELSE IF shift + 7 >= WordBits THEN Refused
          ELSE ReadVarint(b, pos + 1, shift + 7, sum)

\* from_utf8, for characters of one or two bytes.
Utf8(b) ==
  \/ b = <<>>
  \/ b[1] < 128 /\ Utf8(Tail(b))
  \/ Len(b) > 1 /\ b[1] \in 194 .. 223 /\ b[2] \in 128 .. 191 /\ Utf8(SubSeq(b, 3, Len(b)))

\* A field number's value, or the array of its values.
Group(fields) ==
  LET of(f) == SelectSeq(fields, LAMBDA e : e[1] = f)
  IN [f \in {fields[i][1] : i \in DOMAIN fields} |->
        IF Len(of(f)) = 1 THEN of(f)[1][2]
                          ELSE Array([i \in DOMAIN of(f) |-> of(f)[i][2]])]

\* decode_length_delimited: a message if it is one and not an empty one, else
\* text if it is, else base64.
Guess(b) ==
  LET fields == Decode(b, 1)
  IN IF fields # Refused /\ fields # <<>> THEN Object(Group(fields))
     ELSE IF Utf8(b) THEN Text(b)
     ELSE <<"base64", b>>

\* protobuf_decode: the fields in the order they come.
Decode(b, pos) ==
  IF pos > Len(b) THEN <<>>
  ELSE LET tag == ReadVarint(b, pos, 0, 0)
           field == tag[1] \div 8
           type == tag[1] % 8
           at == tag[2]
           number == ReadVarint(b, at, 0, 0)
           then(value, next) ==
             LET rest == Decode(b, next)
             IN IF rest = Refused THEN Refused ELSE <<<<field, value>>>> \o rest
           fixed(n) == IF at + n - 1 > Len(b) THEN Refused
                       ELSE then(<<"fixed", SubSeq(b, at, at + n - 1)>>, at + n)
       IN IF tag = Refused THEN Refused
          ELSE CASE type = 1 -> fixed(8)
                 [] type = 5 -> fixed(4)
                 [] type = 0 -> IF number = Refused THEN Refused
                                ELSE then(Number64(number[1]), number[2])
                 [] type = 2 -> IF number = Refused \/ number[2] + number[1] - 1 > Len(b)
                                THEN Refused
                                ELSE then(Guess(SubSeq(b, number[2], number[2] + number[1] - 1)),
                                          number[2] + number[1])
                 [] OTHER -> Refused
-----------------------------------------------------------------------------
CliInit ==
  /\ json \in Values
  /\ wire = <<>>
  /\ view = <<>>

\* json_to_protobuf.
EncodeRequest ==
  /\ wire = <<>>
  /\ wire' = IF Accepted(json) THEN <<Encode(0, json)>> ELSE <<Refused>>
  /\ UNCHANGED <<json, view>>

\* print, of an answer whose body is the request.
ShowAnswer ==
  /\ wire # <<>> /\ wire # <<Refused>> /\ view = <<>>
  /\ view' = LET fields == Decode(wire[1], 1)
             IN <<IF fields = Refused THEN Refused ELSE Object(Group(fields))>>
  /\ UNCHANGED <<json, wire>>

RECURSIVE Fields(_, _), TagNumbers(_, _)

\* What a value comes back as, without its encoding: its fields and, for each,
\* the value as far as bytes can tell it.  null leaves nothing, a bool is a
\* number, an array is its elements and an array in an array is flattened, an
\* object without fields is the empty text, and field 0 is no field: an object
\* there becomes part of the one around it.
Fields(field, v) ==
  LET members == FlattenSeq([i \in DOMAIN v[2] |-> Fields(v[2][i][1], v[2][i][2])])
      elems == FlattenSeq([i \in DOMAIN v[2] |-> Fields(field, v[2][i])])
      as(w) == <<<<field, w>>>>
  IN CASE v[1] = "null"   -> <<>>
       [] v[1] = "bool"   -> as(Number64(IF v[2] THEN 1 ELSE 0))
       [] v[1] = "number" -> as(Number64(Unsigned(v[2])))
       [] v[1] = "text"   -> as(Guess(v[2]))
       [] v[1] = "array"  -> elems
       [] v[1] = "object" ->
            IF field = 0 THEN members
            ELSE as(IF members = <<>> THEN Text(<<>>) ELSE Object(Group(members)))

\* The field numbers of the tags that encoding a value writes; 0 stands for a
\* value that goes without one.
TagNumbers(field, v) ==
  CASE v[1] = "null"   -> {}
    [] v[1] = "array"  -> UNION {TagNumbers(field, v[2][i]) : i \in DOMAIN v[2]}
    [] v[1] = "object" ->
         (IF field = 0 THEN {} ELSE {field})
           \cup UNION {TagNumbers(v[2][i][1], v[2][i][2]) : i \in DOMAIN v[2]}
    [] OTHER -> {field}

\* The numbers that a tag holds beside the three bits of its type: those of
\* protobuf.  The encoder takes larger ones too.
TagHolds == 1 .. 2^(TagBits - 3) - 1

\* A request whose field numbers fit their tags comes back as it was, up to what
\* protobuf without a schema cannot tell apart: whatever the nesting, no field is
\* lost, split or moved, and a text that happens to spell a message disturbs
\* nothing around it.  What becomes of a number that does not fit is the subject
\* of FieldNumbersKept.
RoundTrip ==
  view # <<>> /\ TagNumbers(0, json) \subseteq TagHolds
    => view = <<Object(Group(Fields(0, json)))>>

\* "field numbers as keys" (request.rs:41): what the encoder accepts is shown under
\* the numbers it was given, and under no others.  It is not: write_tag shifts the
\* number in 32 bits, and its high bits are lost without an error.
FieldNumbersKept ==
  view # <<>> /\ 0 \notin TagNumbers(0, json) =>
    /\ view[1] # Refused
    /\ LET fields == Fields(0, json)
       IN DOMAIN view[1][2] = {fields[i][1] : i \in DOMAIN fields}
=============================================================================

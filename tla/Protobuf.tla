------------------------------- MODULE Protobuf -------------------------------
(***************************************************************************)
(* The part of the protobuf wire format that the generated code of         *)
(* src/generated/proto uses: what SerializeToString writes, what           *)
(* ByteSizeLong announces, and what ParseFromString reads.                 *)
(*                                                                         *)
(* A schema is a sequence of fields: field number n of the .proto file is  *)
(* the n-th element.  A message is a function from field names to values:  *)
(* an integer, a string (a sequence of bytes), a sequence of integers or a *)
(* sequence of messages, by the kind of the field.                         *)
(***************************************************************************)
EXTENDS Integers, Sequences, SequencesExt, Selection

Varints == 0        \* wire types
Delimited == 2

Int64(name) == [name |-> name, kind |-> "int"]
Int32(name) == [name |-> name, kind |-> "int32"]
String(name) == [name |-> name, kind |-> "string"]
RepeatedInt64(name) == [name |-> name, kind |-> "ints"]
Repeated(name, schema) == [name |-> name, kind |-> "messages", schema |-> schema]

IsNumber(field) == field.kind \in {"int", "int32"}
Default(field) == IF IsNumber(field) THEN 0 ELSE <<>>
Names(schema) == {schema[n].name : n \in DOMAIN schema}
NumberOf(schema, name) == CHOOSE n \in DOMAIN schema : schema[n].name = name

-------------------------------------------------------------------------------
(***************************************************************************)
(* Integers.  A 64-bit two's complement number in groups of seven bits,    *)
(* lowest first, each but the last with 128 added (one of 32 bits is       *)
(* extended to 64).  \div rounds down, so                                  *)
(* dividing a negative number is the arithmetic shift; its tenth group is  *)
(* the sign bit alone.                                                     *)
(***************************************************************************)
Shifted(v) == LET shift[n \in 0..10] == IF n = 0 THEN v ELSE shift[n - 1] \div 128 IN shift

\* The numbers of 64 bits: nine shifts leave the sign only.
Int64s == {v \in Int : Shifted(v)[9] \in {0, -1}}

\* Four groups, 256 megabytes: more than a body or a field of it is long.
MaxLength == 128 * (128 * (128 * 128))

\* What an int32_t keeps of a number, the lowest 32 bits: four groups, and four bits
\* that hold the sign.
Narrowed(v) == (MaxLength * ((((v \div MaxLength) + 8) % 16) - 8)) + (v % MaxLength)
Int32s == {v \in Int64s : Narrowed(v) = v}

VarintSize(v) ==
    IF v < 0 THEN 10
    ELSE CHOOSE n \in 1..10 : Shifted(v)[n] = 0 /\ (n > 1 => Shifted(v)[n - 1] # 0)

Varint(v) ==
    LET size == VarintSize(v)
        group(n) == IF n = 10 THEN 1 ELSE Shifted(v)[n - 1] % 128
    IN  [n \in 1..size |-> IF n = size THEN group(n) ELSE group(n) + 128]

\* The number at the head of b, and the bytes after it.
HasVarint(b) == \E n \in 1..10 : n <= Len(b) /\ b[n] < 128
VarintEnd(b) == CHOOSE n \in 1..10 : n <= Len(b) /\ b[n] < 128 /\ \A k \in 1..(n - 1) : b[k] >= 128
AfterVarint(b) == SubSeq(b, VarintEnd(b) + 1, Len(b))
ReadVarint(b) ==
    LET size == VarintEnd(b)
        value[n \in 1..(size + 1)] ==
            IF n = size + 1 THEN 0
            ELSE IF n = 10 THEN -(b[n] % 2)
            ELSE (128 * value[n + 1]) + (b[n] % 128)
    IN  value[1]

-------------------------------------------------------------------------------
(***************************************************************************)
(* Writing: the fields in the order of their numbers, those that hold      *)
(* their default left out.                                                 *)
(***************************************************************************)
Tag(no, wire) == Varint((8 * no) + wire)
Prefixed(bytes) == Varint(Len(bytes)) \o bytes
Packed(ints) == FlattenSeq([n \in DOMAIN ints |-> Varint(ints[n])])

\* Mutant: a number is written when it is above the default.
PlainField_Positive(no, field, v) ==
    IF v = Default(field) \/ (IsNumber(field) /\ v < 0) THEN <<>>
    ELSE CASE IsNumber(field) -> Tag(no, Varints) \o Varint(v)
           [] field.kind = "string" -> Tag(no, Delimited) \o Prefixed(v)
           [] field.kind = "ints" -> Tag(no, Delimited) \o Prefixed(Packed(v))
PlainField(no, field, v) ==
    IF v = Default(field) THEN <<>>
    ELSE CASE IsNumber(field) -> Tag(no, Varints) \o Varint(v)
           [] field.kind = "string" -> Tag(no, Delimited) \o Prefixed(v)
           [] field.kind = "ints" -> Tag(no, Delimited) \o Prefixed(Packed(v))

PlainSerialize(schema, m) ==
    FlattenSeq([n \in DOMAIN schema |-> PlainField(n, schema[n], m[schema[n].name])])

\* Messages nest one deep: the fields of an item are plain.
SerializedField(no, field, v) ==
    IF field.kind = "messages"
    THEN FlattenSeq([i \in DOMAIN v |->
            Tag(no, Delimited) \o Prefixed(PlainSerialize(field.schema, v[i]))])
    ELSE PlainField(no, field, v)

Serialize(schema, m) ==
    FlattenSeq([n \in DOMAIN schema |-> SerializedField(n, schema[n], m[schema[n].name])])

(***************************************************************************)
(* The size that ByteSizeLong computes without writing anything, field by  *)
(* field (every tag of this program is one byte).                          *)
(***************************************************************************)
PrefixedSize(size) == VarintSize(size) + size
Total(sizes) == LET sum[n \in 0..Len(sizes)] == IF n = 0 THEN 0 ELSE sum[n - 1] + sizes[n]
                IN  sum[Len(sizes)]

\* Mutant: every length is taken for one byte.
PlainFieldSize_ShortLength(field, v) ==
    IF v = Default(field) THEN 0
    ELSE CASE IsNumber(field) -> 1 + VarintSize(v)
           [] field.kind = "string" -> 2 + Len(v)
           [] field.kind = "ints" -> 2 + Total([n \in DOMAIN v |-> VarintSize(v[n])])
PlainFieldSize(field, v) ==
    IF v = Default(field) THEN 0
    ELSE CASE IsNumber(field) -> 1 + VarintSize(v)
           [] field.kind = "string" -> 1 + PrefixedSize(Len(v))
           [] field.kind = "ints" -> 1 + PrefixedSize(Total([n \in DOMAIN v |-> VarintSize(v[n])]))

PlainSize(schema, m) ==
    Total([n \in DOMAIN schema |-> PlainFieldSize(schema[n], m[schema[n].name])])

FieldSize(field, v) ==
    IF field.kind = "messages"
    THEN Len(v) + Total([i \in DOMAIN v |-> PrefixedSize(PlainSize(field.schema, v[i]))])
    ELSE PlainFieldSize(field, v)

ByteSize(schema, m) ==
    Total([n \in DOMAIN schema |-> FieldSize(schema[n], m[schema[n].name])])

-------------------------------------------------------------------------------
(***************************************************************************)
(* Reading.  The bytes are taken apart into fields; one that the schema has *)
(* not, or has with another wire type, is skipped (the program keeps it as *)
(* an unknown field that nothing asks for).  A number or a string takes    *)
(* its last value, a repeated field all of them.  It fails when the bytes  *)
(* end inside a field, at the field number 0, and at a wire type that no   *)
(* message of this program has.                                            *)
(***************************************************************************)
Broken == [wire |-> -1]

Suffix(b, n) == SubSeq(b, Len(b) - n + 1, Len(b))

FirstField(b) ==
    LET tag == ReadVarint(b)
        number == ReadVarint(AfterVarint(b))    \* the value, or the size of the body
        after == AfterVarint(AfterVarint(b))
    IN  IF ~HasVarint(b) \/ ~HasVarint(AfterVarint(b)) \/ tag \div 8 = 0 THEN Broken
        ELSE IF tag % 8 = Varints
        THEN [no |-> tag \div 8, wire |-> Varints, value |-> number, rest |-> Len(after)]
        ELSE IF tag % 8 = Delimited /\ number \in 0..Len(after)
        THEN [no |-> tag \div 8, wire |-> Delimited, value |-> SubSeq(after, 1, number),
              rest |-> Len(after) - number]
        ELSE Broken

\* fields[n]: the fields in the last n bytes of b.
FieldsIn(b) ==
    LET fields[n \in 0..Len(b)] ==
            LET field == FirstField(Suffix(b, n))
            IN  IF n = 0 THEN <<>>
                ELSE IF field = Broken THEN <<Broken>>
                ELSE <<[no |-> field.no, wire |-> field.wire, value |-> field.value]>>
                         \o fields[field.rest]
    IN  fields[Len(b)]

Unpacked(b) ==
    LET ints[n \in 0..Len(b)] ==
            IF ~HasVarint(Suffix(b, n)) THEN <<>>
            ELSE <<ReadVarint(Suffix(b, n))>> \o ints[Len(AfterVarint(Suffix(b, n)))]
    IN  ints[Len(b)]

OfWire(found, wire) == Selected(found, {i \in DOMAIN found : found[i].wire = wire})
LastOr(default, found) == IF found = <<>> THEN default ELSE Last(found).value

PlainValue(field, found) ==
    CASE field.kind = "int" -> LastOr(0, OfWire(found, Varints))
      [] field.kind = "int32" -> Narrowed(LastOr(0, OfWire(found, Varints)))
      [] field.kind = "string" -> LastOr(<<>>, OfWire(found, Delimited))
      [] field.kind = "ints" -> FlattenSeq([i \in DOMAIN found |->
            IF found[i].wire = Varints THEN <<found[i].value>> ELSE Unpacked(found[i].value)])

OfNumber(found, no) ==
    Selected(found, {i \in DOMAIN found : found[i] # Broken /\ found[i].no = no})

\* What b holds of the field of that name.
Found(schema, name, b) == OfNumber(FieldsIn(b), NumberOf(schema, name))
Field(schema, name) == schema[NumberOf(schema, name)]

PlainParse(schema, b) ==
    [name \in Names(schema) |-> PlainValue(Field(schema, name), Found(schema, name, b))]

Value(field, found) ==
    IF field.kind # "messages" THEN PlainValue(field, found)
    ELSE LET items == OfWire(found, Delimited)
         IN  [i \in DOMAIN items |-> PlainParse(field.schema, items[i].value)]

Parse(schema, b) ==
    [name \in Names(schema) |-> Value(Field(schema, name), Found(schema, name, b))]
Parses(b) == Broken \notin {FieldsIn(b)[i] : i \in DOMAIN FieldsIn(b)}
===============================================================================

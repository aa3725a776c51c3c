-------------------------------- MODULE Codec --------------------------------
(***************************************************************************)
(* The wire format: Request, Datum, Value and the classes derived from     *)
(* Value, as operators on buffers.  A name is a sequence of bytes.         *)
(*                                                                         *)
(* The buffers that are deserialized here are the ones Serialize makes on  *)
(* the other side.  What the classes do when a length field lies, beyond   *)
(* refusing the buffer, is left out.  Text output (ToString) is left out.  *)
(*                                                                         *)
(* An integer has the width of its class.  Those that TLC uses fit its 32  *)
(* bits, with all the eight bytes of the wide ones.                        *)
(***************************************************************************)
EXTENDS Buffers

CONSTANT MaxNesting     \* bound: levels of values within values

ASSUME NestingAssumption == MaxNesting \in Nat \ {0}

-----------------------------------------------------------------------------
(* Loops *)

\* What op makes of the elements of s, from the last one to the first.
Folded(op(_, _), base, s) ==
    LET last[k \in 0..Len(s)] == IF k = 0 THEN base ELSE op(s[(Len(s) - k) + 1], last[k - 1])
    IN  last[Len(s)]

Plus(m, n) == m + n
Total(sizes) == Folded(Plus, 0, sizes)

Followed(part, parts) == part \o parts
Joined(parts) == Folded(Followed, <<>>, parts)

\* What is read by one more call at the place where the last one ended.
Longer(read, next) == Read(read.used + next.used, Append(read.what, next.what))

-----------------------------------------------------------------------------
(* Value types *)

ValueTypeUndefined == 0
ValueTypeStr == 9
ValueTypeArr == 10

\* sizeof(value) of Value64S, 64U, 32S, 32U, 16S, 16U, 8U and 8S, by their type.
IntSize == <<8, 8, 4, 4, 2, 2, 1, 1>>
IntTypes == DOMAIN IntSize

SignedTypes == {1, 3, 5, 8}

\* A value has the fields of all the classes: value of the integers, str of
\* ValueStr (of ValueUndefined the raw data), array of ValueArr.
CreateValue(type) ==
    [type |-> IF type \in IntTypes \cup {ValueTypeStr, ValueTypeArr} THEN type
                                                                    ELSE ValueTypeUndefined,
     value |-> 0, str |-> <<>>, array |-> <<>>]

MakeInt(type, n) == [CreateValue(type) EXCEPT !.value = n]
MakeStr(bytes) == [CreateValue(ValueTypeStr) EXCEPT !.str = bytes]

\* The null pointer where a Value* is expected.
Null == [CreateValue(ValueTypeUndefined) EXCEPT !.type = -1]

\* The integers of a class.
IntsOf(type) ==
    IF type \in SignedTypes THEN {n \in Int : Shifted(n, IntSize[type] - 1) \in -128..127}
                            ELSE {n \in Nat : Fits(n, IntSize[type])}

\* What is not of the class of v is as CreateValue left it.
OfItsClass(v) ==
    /\ IF v.type \in IntTypes THEN v.value \in IntsOf(v.type) ELSE v.value = 0
    /\ v.type \in {ValueTypeUndefined, ValueTypeStr} \/ v.str = <<>>
    /\ v.type = ValueTypeArr \/ v.array = <<>>

Types == IntTypes \cup {ValueTypeUndefined, ValueTypeStr, ValueTypeArr}

\* The values with so many levels, those in an array one level below it.
ValuesTo[levels \in Nat] ==
    IF levels = 0 THEN {}
    ELSE {v \in [type : Types, value : Int, str : Seq(Byte8), array : Seq(ValuesTo[levels - 1])] :
             OfItsClass(v)}

\* A virtual method of Value that calls itself for the elements of an array.
OnValues(method(_, _)) ==
    LET to[levels \in Nat] ==
            IF levels = 0 THEN <<>>
            ELSE [v \in ValuesTo[levels] |->
                     method(v, [i \in DOMAIN v.array |-> to[levels - 1][v.array[i]]])]
    IN  to[MaxNesting]

\* CopyFrom.  A ValueUndefined keeps its own length, which is zero, and so
\* takes over none of the raw data.
CopyOf(v, copies) ==
    [v EXCEPT !.str = IF v.type = ValueTypeUndefined THEN <<>> ELSE @, !.array = copies]
CopyValue(v) == OnValues(CopyOf)[v]

\* The methods of ValueArr: New, Push and Set.  Indices start at 0.
ArrNew(count) ==
    [CreateValue(ValueTypeArr) EXCEPT !.array = [i \in 1..count |-> CreateValue(ValueTypeUndefined)]]
ArrPush(a, v) == [a EXCEPT !.array = Append(@, CopyValue(v))]
ArrSet(a, index, v) ==
    IF index >= Len(a.array) \/ v = Null THEN a
                                         ELSE [a EXCEPT !.array[index + 1] = CopyValue(v)]

-----------------------------------------------------------------------------
(* Numbers *)

WithHigher(byte, high) == byte + 256 * high

Number(bytes, signed) ==
    Folded(WithHigher, IF signed /\ bytes[Len(bytes)] >= 128 THEN -1 ELSE 0, bytes)

-----------------------------------------------------------------------------
(* Sizes.  The buffers are allocated by them before they are filled. *)

SizeOf(v, sizes) ==
    IF v.type \in IntTypes THEN IntSize[v.type]
    ELSE IF v.type = ValueTypeStr THEN Len(v.str) + 4
    ELSE IF v.type = ValueTypeArr THEN 4 + Total([i \in DOMAIN sizes |-> sizes[i] + 5])
    ELSE Len(v.str)

GetSizeInternal(v) == OnValues(SizeOf)[v]

ValueSize(v) == GetSizeInternal(v) + 5

\* A mutant: the two bytes of the name's length are forgotten.
MutDatumSize(d) == 4 + Len(d.name) + ValueSize(d.value)
DatumSize(d) == 6 + Len(d.name) + ValueSize(d.value)

RequestSize(r) == 10 + Len(r.name) + Total([i \in DOMAIN r.arguments |-> DatumSize(r.arguments[i])])

-----------------------------------------------------------------------------
(* Serialize *)

BytesOf(v, parts) ==
    LET Internal ==
            IF v.type \in IntTypes THEN Le(v.value, IntSize[v.type])
            ELSE IF v.type = ValueTypeStr THEN Le(Len(v.str), 4) \o v.str
            ELSE IF v.type = ValueTypeArr THEN Le(Len(parts), 4) \o Joined(parts)
            ELSE v.str
    IN  <<v.type>> \o Le(GetSizeInternal(v), 4) \o Internal

SerializeValue(v) == OnValues(BytesOf)[v]

SerializeDatum(d) ==
    Le(DatumSize(d), 4) \o Le(Len(d.name), 2) \o d.name \o SerializeValue(d.value)

SerializeRequest(r) ==
    Le(RequestSize(r), 4) \o Le(r.id, 4) \o Le(Len(r.name), 2) \o r.name
        \o Joined([i \in DOMAIN r.arguments |-> SerializeDatum(r.arguments[i])])

-----------------------------------------------------------------------------
(* Deserialize *)

\* A mutant: Value8S reads its byte the way Value8U does.
MutIntFrom(v, data, size) ==
    IF Len(data) < size THEN Read(0, v)
    ELSE Read(size, [v EXCEPT !.value = Number(SubSeq(data, 1, size), v.type \in {1, 3, 5})])
IntFrom(v, data, size) ==
    IF Len(data) < size THEN Read(0, v)
    ELSE Read(size, [v EXCEPT !.value = Number(SubSeq(data, 1, size), v.type \in SignedTypes)])

StrFrom(v, data) ==
    IF Len(data) < 4 \/ Len(data) # Field(data, 0, 4) + 4 THEN Read(0, v)
    ELSE Read(Len(data), [v EXCEPT !.str = After(data, 4, Len(data))])

\* The elements of an array, one after the other; an invalid one invalidates
\* all.
Element(read, next) == IF read.used = 0 \/ next.used = 0 THEN Read(0, <<>>) ELSE Longer(read, next)

ArrFrom(v, data, valueFrom) ==
    LET reads[i \in 0..Field(data, 0, 4)] ==
            IF i = 0 THEN Read(4, <<>>)
            ELSE LET read == reads[i - 1]
                 IN  Element(read, valueFrom[After(data, read.used, Len(data))])
        last == reads[Field(data, 0, 4)]
    IN  Read(last.used, [v EXCEPT !.array = last.what])

DeserializeInternal(v, data, valueFrom) ==
    IF v.type \in IntTypes THEN IntFrom(v, data, IntSize[v.type])
    ELSE IF v.type = ValueTypeStr THEN StrFrom(v, data)
    ELSE IF v.type = ValueTypeArr THEN ArrFrom(v, data, valueFrom)
    ELSE Read(Len(data), [v EXCEPT !.str = data])

\* What the class makes of the data is not looked at: the five bytes of the
\* header count as used.
WithHeader(read) == Read(read.used + 5, read.what)

ValueFrom(v, data, len, valueFrom) ==
    IF data[1] # v.type \/ len + 5 > Len(data) THEN Read(0, Null)
    ELSE WithHeader(DeserializeInternal(v, After(data, 5, 5 + len), valueFrom))

\* Value::Deserialize, with so many levels of calls for the elements of arrays.
\* The callers read the type before the length of the buffer is checked; when
\* there is no byte for it the check fails.
ValueReads[levels \in Nat] ==
    IF levels = 0 THEN [data \in Seq(Byte8) |-> Read(0, Null)]
    ELSE [data \in Seq(Byte8) |->
             IF Len(data) < 5 THEN Read(0, Null)
             ELSE ValueFrom(CreateValue(data[1]), data, Field(data, 1, 4), ValueReads[levels - 1])]

\* Every level of calls has a byte less.
DeserializeValue(data) == ValueReads[Len(data)][data]

NamedValue(name, read, total) ==
    IF read.used = 0 THEN read ELSE Read(total, [name |-> name, value |-> read.what])

DatumFrom(data, total, name_length) ==
    IF Len(data) < total \/ name_length > total THEN Read(0, Null)
    ELSE NamedValue(After(data, 6, 6 + name_length),
                    DeserializeValue(After(data, 6 + name_length, total)), total)

DeserializeDatum(data) ==
    IF Len(data) < 6 THEN Read(0, Null)
    ELSE DatumFrom(data, Field(data, 0, 4), Field(data, 4, 2))

\* The arguments, up to the first that is invalid.  Each has eleven bytes at least.
Argument(read, next) == IF next.used = 0 THEN read ELSE Longer(read, next)

Datums(data) ==
    LET reads[k \in 0..(Len(data) \div 11)] ==
            IF k = 0 THEN Read(0, <<>>)
            ELSE LET read == reads[k - 1]
                 IN  Argument(read, DeserializeDatum(After(data, read.used, Len(data))))
    IN  reads[Len(data) \div 11]

RequestFrom(id, name, end, read) ==
    Read(end + read.used, [id |-> id, name |-> name, arguments |-> read.what])

DeserializeRequest(data) ==
    IF Len(data) < 10 \/ Field(data, 0, 4) > Len(data) \/ Field(data, 8, 2) > Len(data)
    THEN Read(0, NewRequest(<<>>))
    ELSE LET end == 10 + Field(data, 8, 2)
         IN  RequestFrom(Field(data, 4, 4), After(data, 10, end), end,
                         Datums(After(data, end, Len(data))))

-----------------------------------------------------------------------------
(* Request *)

\* Datum::SetValue of a copy; no value is an undefined one.
SetValue(d, v) ==
    [d EXCEPT !.value = IF v = Null THEN CreateValue(ValueTypeUndefined) ELSE CopyValue(v)]

NewDatum(name) == [name |-> name, value |-> CreateValue(ValueTypeUndefined)]

\* Request::Set: the first argument of that name is replaced, or one is appended.
IsFirst(i, arguments, name) == arguments[i].name = name /\ \A j \in 1..(i - 1) : arguments[j].name # name
Set(r, name, v) ==
    [r EXCEPT !.arguments =
        IF \A i \in DOMAIN @ : @[i].name # name THEN Append(@, SetValue(NewDatum(name), v))
        ELSE [i \in DOMAIN @ |-> IF IsFirst(i, @, name) THEN SetValue(@[i], v) ELSE @[i]]]

\* Request::CopyFrom, on a new Request.
CopyRequest(original) ==
    LET copy[k \in 0..Len(original.arguments)] ==
            IF k = 0 THEN [NewRequest(original.name) EXCEPT !.id = original.id]
            ELSE Set(copy[k - 1], original.arguments[k].name, original.arguments[k].value)
    IN  copy[Len(original.arguments)]
=============================================================================

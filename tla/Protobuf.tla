------------------------------- MODULE Protobuf -------------------------------
(***************************************************************************)
(* The wire format in which swaps and supplies are stored and in which     *)
(* messages and queries travel, as the generated *.pb.go files write and   *)
(* read it: a sequence of fields, each a tag (field number and wire type)  *)
(* and a value.  Every file has its own copy of the helpers, under names   *)
(* ending in Swap, Genesis, Query and Tx; the copies of swap.pb.go stand   *)
(* for all of them.  A buffer is a sequence of bytes, iNdEx the number of  *)
(* bytes read.  A reader's errors all have one effect and are not told     *)
(* apart.  Here is one pass of Unmarshal's loop; the loop, which a field   *)
(* that holds a message enters again, is in Unmarshalling.                 *)
(***************************************************************************)
EXTENDS Integers, SequencesExt, Functions

CONSTANTS
    WordBits,                \* 64 bits: nine groups of 7 and one more bit
    Int32Bits,               \* the bits of a field number and of a time's nanoseconds
    MinSeconds, MaxSeconds,  \* the years 1 and 9999
    NanosPerSecond,
    Unmarshal(_, _, _)       \* the message of given cases read from bytes over another

ASSUME WidthAssumption ==
    /\ WordBits \in Nat /\ Int32Bits \in Nat
    /\ 8 < Int32Bits /\ Int32Bits < WordBits

Byte == 0 .. 255

\* A one shifted left by n, at most out of a word.
Pow2[n \in 0 .. WordBits] == IF n = 0 THEN 1 ELSE 2 * Pow2[n - 1]

Word   == Pow2[WordBits]
MaxInt == Pow2[WordBits - 1] - 1

Unsigned(x) == x % Word

Signed(x, bits) ==
    LET u == x % Pow2[bits] IN IF u < Pow2[bits - 1] THEN u ELSE u - Pow2[bits]

-------------------------------------------------------------------------------
(* Writing.  The generated code fills a buffer of the message's Size from  *)
(* its end; a Marshal... operator below is what is written, from its start.*)

\* The groups of 7 bits in x: (Len64(x|1) + 6) / 7.
Len64(x) == CHOOSE n \in 1 .. WordBits : x < Pow2[n] /\ \A k \in 1 .. n - 1 : Pow2[k] <= x

sov(x) == (Len64(x) + 6) \div 7

encodeVarint(v) ==
    [k \in 1 .. sov(v) |->
        LET rest == v \div Pow2[7 * (k - 1)] IN IF rest >= 128 THEN (rest % 128) + 128 ELSE rest]

\* A field that is zero, FALSE or empty is not written.
VarintField(tag, v) == IF v = 0 THEN <<>> ELSE <<tag>> \o encodeVarint(Unsigned(v))
BoolField(tag, b)   == IF b THEN <<tag, 1>> ELSE <<>>

\* An embedded message or number is always written, a string when not empty, a
\* list once for each element and a pointer (a list of at most one) when not nil.
Embedded(tag, data)    == <<tag>> \o encodeVarint(Len(data)) \o data
BytesField(tag, data)  == IF data = <<>> THEN <<>> ELSE Embedded(tag, data)
ListField(tag, s, Marshal(_)) == FlattenSeq([i \in DOMAIN s |-> Embedded(tag, Marshal(s[i]))])

VarintSize(v)   == IF v = 0 THEN 0 ELSE 1 + sov(Unsigned(v))
BoolSize(b)     == IF b THEN 2 ELSE 0
EmbeddedSize(l) == 1 + l + sov(l)
BytesSize(data) == IF data = <<>> THEN 0 ELSE EmbeddedSize(Len(data))
ListSize(s, Size(_)) == FoldSeq(LAMBDA e, n : n + EmbeddedSize(Size(e)), 0, s)

\* Marshal: a buffer of the size computed beforehand, filled from its end, of
\* which the first bytes, as many as were written, are returned.
FitsBuffer(size, written) == Len(written) <= size

Filled(size, written) ==
    SubSeq([i \in 1 .. size - Len(written) |-> 0] \o written, 1, Len(written))

-------------------------------------------------------------------------------
(* Reading.                                                                *)

Failed == [ok |-> FALSE, iNdEx |-> 0, value |-> 0]

\* Groups of 7 bits up to one without the continuation bit, which must come
\* before the shift reaches the width of a word; bits beyond the word are lost.
VarintEnds(dAtA, iNdEx) ==
    {n \in 1 .. (WordBits + 6) \div 7 :
        /\ iNdEx + n <= Len(dAtA) /\ dAtA[iNdEx + n] < 128
        /\ \A k \in 1 .. n - 1 : dAtA[iNdEx + k] >= 128}

Varint(dAtA, iNdEx) ==
    IF VarintEnds(dAtA, iNdEx) = {} THEN Failed
    ELSE LET n == CHOOSE k \in VarintEnds(dAtA, iNdEx) : TRUE
         IN  [ok |-> TRUE, iNdEx |-> iNdEx + n,
              value |-> Unsigned(SumFunction([k \in 1 .. n |-> (dAtA[iNdEx + k] % 128) * Pow2[7 * (k - 1)]]))]

\* A length and the bytes it counts; a length is an int, which may be negative
\* or carry the index past the largest int.
Delimited(dAtA, iNdEx) ==
    LET length    == Varint(dAtA, iNdEx)
        n         == Signed(length.value, WordBits)
        postIndex == Signed(length.iNdEx + n, WordBits)
    IN  IF ~ length.ok \/ n < 0 \/ postIndex < 0 \/ postIndex > Len(dAtA) THEN Failed
        ELSE [ok |-> TRUE, iNdEx |-> postIndex, value |-> SubSeq(dAtA, length.iNdEx + 1, postIndex)]

\* One tag of skipSwap's loop with what follows it; the value is the change in
\* the depth of groups.  A length may carry the index past the largest int.
SkipOne(dAtA, iNdEx) ==
    LET wire     == Varint(dAtA, iNdEx)
        wireType == wire.value % 8
        operand  == Varint(dAtA, wire.iNdEx)
        length   == Signed(operand.value, WordBits)
        past     == CASE wireType = 0 -> operand.iNdEx
                      [] wireType = 1 -> wire.iNdEx + 8
                      [] wireType = 2 -> Signed(operand.iNdEx + length, WordBits)
                      [] wireType = 5 -> wire.iNdEx + 4
                      [] OTHER -> wire.iNdEx
        refused  == \/ ~ wire.ok \/ wireType \in {6, 7}
                    \/ wireType \in {0, 2} /\ ~ operand.ok
                    \/ wireType = 2 /\ length < 0
                    \/ past < 0
    IN  IF refused THEN Failed
        ELSE [ok |-> TRUE, iNdEx |-> past,
              value |-> CASE wireType = 3 -> 1 [] wireType = 4 -> -1 [] OTHER -> 0]

\* skipSwap from an index and a depth of groups on: past one field, or one group
\* with everything it holds.  The index may end beyond the buffer, which is left
\* to the caller to notice.
SkipFrom(dAtA) ==
    LET from[iNdEx \in 0 .. Len(dAtA)] ==
            [depth \in Nat |->
                LET one     == SkipOne(dAtA, iNdEx)
                    nesting == depth + one.value
                IN  IF ~ one.ok \/ nesting < 0 THEN Failed
                    ELSE IF nesting = 0 THEN [ok |-> TRUE, iNdEx |-> one.iNdEx, value |-> 0]
                    ELSE IF one.iNdEx > Len(dAtA) THEN Failed
                    ELSE from[one.iNdEx][nesting]]
    IN  from

skip(dAtA) == SkipFrom(dAtA)[0][0]

-------------------------------------------------------------------------------
(* The cases of a message's Unmarshal, in the order of their field numbers *)
(* 1, 2, ...  A field of kind "message", "pointer" or "list" has a message *)
(* of its own, whose cases are `of'; `zero' is what a new message holds.   *)

Case(name, wireType, kind, of, zero) ==
    [name |-> name, wireType |-> wireType, kind |-> kind, of |-> of, zero |-> zero]

\* The empty message.
New(cases) ==
    [name \in {cases[i].name : i \in DOMAIN cases} |->
        cases[CHOOSE i \in DOMAIN cases : cases[i].name = name].zero]

\* time.Time{} is the first second of the year 1.
ZeroTime == [seconds |-> MinSeconds, nanos |-> 0]

Int64(name)       == Case(name, 0, "int", <<>>, 0)
Int32(name)       == Case(name, 0, "int32", <<>>, 0)
Enum(name)        == Case(name, 0, "byte", <<>>, 0)
Bool(name)        == Case(name, 0, "bool", <<>>, FALSE)
Bytes(name)       == Case(name, 2, "bytes", <<>>, <<>>)
SdkInt(name)      == Case(name, 2, "Int", <<>>, <<>>)
StdTime(name)     == Case(name, 2, "time", <<>>, ZeroTime)
Message(name, of) == Case(name, 2, "message", of, New(of))
Pointer(name, of) == Case(name, 2, "pointer", of, <<>>)
List(name, of)    == Case(name, 2, "list", of, <<>>)

\* The groups are or-ed into a variable of the field's type, a byte for an enum.
FromVarint(kind, v) ==
    CASE kind = "int"   -> Signed(v, WordBits)
      [] kind = "int32" -> Signed(v, Int32Bits)
      [] kind = "byte"  -> v % 256
      [] kind = "bool"  -> v # 0

\* sdk.Int travels as its decimal digits, a minus before them; the empty text is nil.
MarshalInt(i) == IF i = <<>> THEN <<48>> ELSE i
IsIntText(data) ==
    \/ data = <<>> \/ \A k \in DOMAIN data : data[k] \in 48 .. 57
    \/ Len(data) > 1 /\ data[1] = 45 /\ \A k \in 2 .. Len(data) : data[k] \in 48 .. 57

\* StdTime is the message google.protobuf.Timestamp.
TimestampCases == << Int64("seconds"), Int32("nanos") >>
MarshalStdTime(t) == VarintField(8, t.seconds) \o VarintField(16, t.nanos)
SizeOfStdTime(t)  == VarintSize(t.seconds) + VarintSize(t.nanos)
IsTime(t) ==
    t.seconds \in MinSeconds .. MaxSeconds - 1 /\ t.nanos \in 0 .. NanosPerSecond - 1

\* The value of a field after its bytes are read over its old value: what is in
\* a message replaces or, for lists, adds to what was there.
Merge(c, old, data) ==
    CASE c.kind = "bytes"   -> [ok |-> TRUE, value |-> data]
      [] c.kind = "Int"     -> [ok |-> IsIntText(data), value |-> data]
      [] c.kind = "time"    -> LET r == Unmarshal(TimestampCases, data, [seconds |-> 0, nanos |-> 0])
                               IN  [ok |-> r.ok /\ IsTime(r.m), value |-> r.m]
      [] c.kind = "message" -> LET r == Unmarshal(c.of, data, old)
                               IN  [ok |-> r.ok, value |-> r.m]
      [] c.kind = "pointer" -> LET r == Unmarshal(c.of, data, IF old = <<>> THEN New(c.of) ELSE old[1])
                               IN  [ok |-> r.ok, value |-> << r.m >>]
      [] c.kind = "list"    -> LET r == Unmarshal(c.of, data, New(c.of))
                               IN  [ok |-> r.ok, value |-> Append(old, r.m)]

\* A field whose number is a case: the wire type must be the case's.
ReadKnown(c, wireType, dAtA, iNdEx, r) ==
    IF c.wireType = 0
      THEN LET v == Varint(dAtA, iNdEx)
           IN  [r EXCEPT !.ok = v.ok /\ wireType = 0, !.iNdEx = v.iNdEx,
                         !.m = [@ EXCEPT ![c.name] = FromVarint(c.kind, v.value)]]
      ELSE LET d == Delimited(dAtA, iNdEx)
           IN  IF ~ d.ok \/ wireType # 2 THEN [r EXCEPT !.ok = FALSE]
               ELSE LET x == Merge(c, r.m[c.name], d.value)
                    IN  [r EXCEPT !.ok = x.ok, !.iNdEx = d.iNdEx, !.m = [@ EXCEPT ![c.name] = x.value]]

SkipUnknownUnchecked(dAtA, r) ==
    LET s == skip(SubSeq(dAtA, r.iNdEx + 1, Len(dAtA)))
    IN  [r EXCEPT !.ok = s.ok, !.iNdEx = @ + s.iNdEx]

\* A field of a newer version of the message is skipped, tag and all, if the
\* buffer holds as much as skip counted.
SkipPast(dAtA, r, s) ==
    IF ~ s.ok \/ r.iNdEx + s.iNdEx > Len(dAtA) THEN [r EXCEPT !.ok = FALSE]
    ELSE [r EXCEPT !.iNdEx = @ + s.iNdEx]

SkipUnknown(dAtA, r) == SkipPast(dAtA, r, skip(SubSeq(dAtA, r.iNdEx + 1, Len(dAtA))))

\* One pass of the loop.  A field number is an int32, whatever the tag holds.
ReadField(cases, dAtA, r) ==
    LET tag      == Varint(dAtA, r.iNdEx)
        fieldNum == Signed(tag.value \div 8, Int32Bits)
        wireType == tag.value % 8
    IN  CASE ~ tag.ok \/ wireType = 4 \/ fieldNum <= 0 -> [r EXCEPT !.ok = FALSE]
          [] tag.ok /\ wireType # 4 /\ fieldNum \in DOMAIN cases ->
                 ReadKnown(cases[fieldNum], wireType, dAtA, tag.iNdEx, r)
          [] OTHER -> SkipUnknown(dAtA, r)
===============================================================================

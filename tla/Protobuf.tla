------------------------------ MODULE Protobuf ------------------------------
(***************************************************************************)
(* The permissive protobuf reader (src/livecore/pb.py) and the reads by    *)
(* logical name on top of it (FieldReader of src/livecore/schema.py).  A   *)
(* byte is a number below 2 * Radix, its upper half marking a varint that  *)
(* goes on; the code has Radix = 128.  A message is the sequence of its    *)
(* bytes, and no bytes at all stand for a message that is not there.       *)
(***************************************************************************)
EXTENDS Naturals, Sequences, FiniteSetsExt, SequencesExt

CONSTANTS
    Radix,       \* a byte of a varint carries a digit below Radix
    MaxDigits,   \* a varint has at most this many bytes (10)
    Utf8         \* the texts, as a function from the bytes that encode one

ASSUME ProtobufAssumption == Radix \in Nat \ {0} /\ MaxDigits \in Nat \ {0}

\* Wire types.
VARINT == 0
FIXED64 == 1
LENGTH == 2
FIXED32 == 5

Truncated == <<>>

\* The number whose digits these bytes carry, the lowest first.
Digits(s) ==
    LET from[k \in 1..(Len(s) + 1)] ==
            IF k > Len(s) THEN 0 ELSE (s[k] % Radix) + Radix * from[k + 1]
    IN  from[1]

\* A varint from i on that ends at the first of these places.
VarintTo(buf, i, ends) ==
    IF ends = {} THEN Truncated ELSE <<Digits(SubSeq(buf, i, Min(ends))), Min(ends) + 1>>

\* Bug: the last byte of the buffer ends the varint.
ReadVarintOpen(buf, i) ==
    VarintTo(buf, i, {k \in i..(i + MaxDigits - 1) :
                         k <= Len(buf) /\ (buf[k] < Radix \/ k = Len(buf))})

\* _read_varint: the value and the index after it.
ReadVarint(buf, i) ==
    VarintTo(buf, i, {k \in i..(i + MaxDigits - 1) : k <= Len(buf) /\ buf[k] < Radix})

\* The bytes from i on, if the buffer has that many.
Take(buf, i, size) ==
    IF i + size - 1 > Len(buf) THEN Truncated ELSE <<SubSeq(buf, i, i + size - 1), i + size>>

\* One entry: PbValue, with the int and the bytes it can be asked for.
PbValue(number, wire, int, bytes) ==
    [number |-> number, wire_type |-> wire, int |-> int, bytes |-> bytes]

Sized(buf, size) == IF size = Truncated THEN Truncated ELSE Take(buf, size[2], size[1])

\* The value at i and the index after it, in _parse's four cases.
ReadValue(buf, wire, i) ==
    CASE wire = VARINT -> ReadVarint(buf, i)
      [] wire = LENGTH -> Sized(buf, ReadVarint(buf, i))
      [] wire = FIXED32 -> Take(buf, i, 4)
      [] wire = FIXED64 -> Take(buf, i, 8)
      [] OTHER -> Truncated

Pb(number, wire, value) ==
    IF wire = VARINT THEN PbValue(number, wire, value, <<>>) ELSE PbValue(number, wire, 0, value)

\* The entry at i and the index after it: the key, and the value it announces.
Entry(buf, i) ==
    LET key == ReadVarint(buf, i)
        value == ReadValue(buf, key[1] % 8, key[2])
    IN  IF key = Truncated THEN Truncated
        ELSE IF key[1] \div 8 = 0 \/ value = Truncated THEN Truncated
        ELSE <<Pb(key[1] \div 8, key[1] % 8, value[1]), value[2]>>

\* The loop of _parse from each index on: up to the first entry that cannot be read.
ParseFrom(buf) ==
    LET from[i \in 1..(Len(buf) + 1)] ==
            LET entry == Entry(buf, i)
            IN  IF entry = Truncated THEN <<>> ELSE <<entry[1]>> \o from[entry[2]]
    IN  from

Parse(buf) == ParseFrom(buf)[1]

Values(buf, number) == SelectSeq(Parse(buf), LAMBDA e : e.number = number)

NoValue == PbValue(0, VARINT, 0, <<>>)

\* first(); an entry that is not there reads as NoValue, as the callers do.
First(entries) == IF entries = <<>> THEN NoValue ELSE Head(entries)

AsText(value) == IF value.bytes \in DOMAIN Utf8 THEN Utf8[value.bytes] ELSE ""

\* The varints of a packed list, up to the first that cannot be read.
Packed(buf) ==
    LET from[i \in 1..(Len(buf) + 1)] ==
            LET read == ReadVarint(buf, i)
            IN  IF read = Truncated THEN <<>> ELSE <<read[1]>> \o from[read[2]]
    IN  from[1]

\* integers(): single varints and packed ones, in the order they come.
Integers(entries) ==
    LET Of(e) == IF e.wire_type = VARINT THEN <<e.int>>
                 ELSE IF e.wire_type = LENGTH THEN Packed(e.bytes) ELSE <<>>
    IN  FlattenSeq([k \in DOMAIN entries |-> Of(entries[k])])

-----------------------------------------------------------------------------
(* FieldReader.  A field path is a sequence of field numbers; a command's   *)
(* schema has fields, lists of such maps and ignored numbers.  A reader is  *)
(* a message as the schema tells it: the entries of each logical name.      *)

NoSchema == [fields |-> <<>>, lists |-> <<>>, ignore |-> {}]

\* The message that a chain of numbers leads to.
Descend(blob, segments) ==
    FoldLeft(LAMBDA message, number : First(Values(message, number)).bytes, blob, segments)

EntriesAt(blob, path) == Values(Descend(blob, Front(path)), Last(path))

Reader(s, blob) ==
    [entries |-> [name \in DOMAIN s.fields |-> EntriesAt(blob, s.fields[name])], lists |-> s.lists]

CommandReader(schema, cmd, blob) ==
    Reader(IF cmd \in DOMAIN schema THEN schema[cmd] ELSE NoSchema, blob)

Entries(r, name) == IF name \in DOMAIN r.entries THEN r.entries[name] ELSE <<>>

ReadInt(r, name) == First(Entries(r, name)).int
ReadText(r, name) == AsText(First(Entries(r, name)))
Ints(r, name) == Integers(Entries(r, name))

\* messages() and items(): one reader for each non-empty element of a list.
Elements(entries, fields) ==
    LET Of(e) == IF e.bytes = <<>> THEN <<>> ELSE <<Reader([NoSchema EXCEPT !.fields = fields], e.bytes)>>
    IN  FlattenSeq([k \in DOMAIN entries |-> Of(entries[k])])

Items(r, name) == IF name \in DOMAIN r.lists THEN Elements(Entries(r, name), r.lists[name]) ELSE <<>>
=============================================================================

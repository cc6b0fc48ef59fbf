------------------------------ MODULE Records ------------------------------
(***************************************************************************)
(* One record from the caller's hand to a data file: decoded and coerced   *)
(* (dynamic.go, cbor.go) or bound from a struct (bind.go), checked for     *)
(* poison (poison.go), encoded (canon/record.go), re-encoded when the      *)
(* table's shape has moved on (canon/remap.go), decoded again, built into  *)
(* a column and adapted to the type the file stores (schemamap).           *)
(*                                                                         *)
(* Widths are parameters: a long has WordBits, an int IntBits, a double    *)
(* holds MantissaBits of a number and a float FloatBits. A number is       *)
(* written in base two, with at most MaxFrac fraction digits, and a        *)
(* floating-point value is an integer in units of 2^-MaxFrac. Text and     *)
(* bytes are members of Contents, known by what they read as.              *)
(***************************************************************************)
EXTENDS Integers, Sequences, FiniteSets, SequencesExt

CONSTANTS
    WordBits, IntBits, MantissaBits, FloatBits,
    MaxFrac,
    MaxDouble, MaxFloat, \* the first magnitudes, in units, past each type
    ClockScale,          \* microseconds in a millisecond
    MaxValueLen,         \* MaxValueBytes
    Contents,            \* what a text or byte string can be, numbered
    Shapes,              \* the shapes the table may have
    Openings,            \* those a writer opens under
    Sent(_)              \* and the records sent to each

ASSUME RecordsAssumption ==
    /\ {WordBits, IntBits, MantissaBits, FloatBits, MaxFrac} \subseteq Nat \ {0}
    /\ {MaxDouble, MaxFloat, ClockScale, MaxValueLen} \subseteq Nat \ {0}
    /\ FloatBits <= MantissaBits /\ MantissaBits < WordBits - 1 /\ IntBits < WordBits
    /\ Openings \subseteq Shapes

VARIABLES
    opened,  \* the shape of the writer the record is sent to
    offer,   \* the record as its producer wrote it
    stage,   \* "none", "staged", "built", "refused" or "failed"
    why,     \* the kind of the refusal or the failure
    shape,   \* the shape the payload is written in
    payload, \* the canonical payload
    file     \* the values in the data file

record == <<opened, offer, stage, why, shape, payload, file>>

-----------------------------------------------------------------------------
(* Values. A Go value is its type and a number: for text and bytes the        *)
(* number of the contents.                                                    *)

TwoTo(n) == LET power[i \in 0..n] == IF i = 0 THEN 1 ELSE 2 * power[i - 1] IN power[n]
Unit == TwoTo(MaxFrac)
NaN == 8 * MaxDouble
Infinity == 4 * MaxDouble
Abs(n) == IF n < 0 THEN -n ELSE n
Signed(sign, n) == IF sign < 0 THEN -n ELSE n

Nil == [go |-> "nil", v |-> 0]
Go(type, v) == [go |-> type, v |-> v]

InBits(n, bits) == -TwoTo(bits - 1) <= n /\ n < TwoTo(bits - 1)
Bits(n, bits) == n % TwoTo(bits)
FromBits(b, bits) == IF b >= TwoTo(bits - 1) THEN b - TwoTo(bits) ELSE b
Wrapped(n) == FromBits(Bits(n, WordBits), WordBits)

\* The nearest value a mantissa of so many bits holds, ties to the even one.
Rounded(u, bits) ==
    LET m == Abs(u)
        step == TwoTo(CHOOSE k \in 0..m :
                    m < TwoTo(k + bits) /\ (k = 0 \/ m >= TwoTo(k + bits - 1)))
        low == (m \div step) * step
        up == \/ 2 * (m - low) > step
              \/ 2 * (m - low) = step /\ (m \div step) % 2 = 1
    IN Signed(u, IF up THEN low + step ELSE low)

Finite(u) == Abs(u) < MaxDouble

\* float32(f): rounded to fewer bits, and past the type's range an infinity.
Narrowed(u) ==
    IF u = NaN THEN NaN
    ELSE IF Abs(u) >= MaxFloat \/ Abs(Rounded(u, FloatBits)) >= MaxFloat
    THEN Signed(u, Infinity)
    ELSE Rounded(u, FloatBits)

\* A numeral as written: n digits' worth, so many after the point, an exponent
\* or none. Its value in units, and the double strconv reads it as.
Numeral(n, frac, exp) == [n |-> n, frac |-> frac, exp |-> exp]
UnitsOf(t) == t.n * TwoTo(MaxFrac - t.frac)
Numerals == [n : Int, frac : 0..MaxFrac, exp : BOOLEAN]
ParsesAsInt(t) == t.frac = 0 /\ ~t.exp
DoubleOf(t) == Rounded(UnitsOf(t), MantissaBits)

-----------------------------------------------------------------------------
(* Shapes.                                                                    *)

Kinds == {"boolean", "int", "long", "float", "double", "decimal", "timestamptz", "string", "binary"}
Column == [id : Nat \ {0}, name : STRING, kind : Kinds, required : BOOLEAN,
           precision : Nat, scale : Nat]

ASSUME ShapesAssumption ==
    \A s \in Shapes :
        /\ s \in Seq(Column) /\ s # <<>>
        /\ \A i, j \in DOMAIN s : i # j => s[i].id # s[j].id /\ s[i].name # s[j].name

Ids(s) == {s[i].id : i \in DOMAIN s}
Position(s, id) == CHOOSE i \in DOMAIN s : s[i].id = id

GoType(kind) ==
    CASE kind = "boolean" -> "bool"      [] kind = "int" -> "int32"
      [] kind = "float" -> "float32"     [] kind = "double" -> "float64"
      [] kind = "string" -> "string"     [] kind = "binary" -> "bytes"
      [] OTHER -> "int64"

\* Only text that is UTF-8 is a number, an instant or base64, and encoding/json
\* makes of the other what is none of them.
Reads(c) == Contents[c].number \/ Contents[c].instant \/ Contents[c].base64 # 0
ASSUME ContentsAssumption ==
    \A c \in DOMAIN Contents :
        /\ Contents[c].len \in Nat /\ Contents[c].utf8 \in BOOLEAN
        /\ Contents[c].base64 \in DOMAIN Contents \union {0} /\ 0 \notin DOMAIN Contents
        /\ Contents[c].number => Contents[c].t \in Numerals
        /\ Contents[c].instant => Contents[c].millis \in Int /\ InBits(Contents[c].millis, WordBits)
        /\ IF Contents[c].utf8 THEN Contents[c].replaced = c
           ELSE /\ ~Reads(c) /\ Contents[c].replaced \in DOMAIN Contents
                /\ ~Reads(Contents[c].replaced)

-----------------------------------------------------------------------------
(* Outcomes: a value or a row, or the kind of the refusal.                    *)

Got(x) == [why |-> "none", x |-> x]
No(kind) == [why |-> kind, x |-> Nil]
Then(r, Rest(_)) == IF r.why # "none" THEN r ELSE Rest(r.x)

\* The value of every part, or the first refusal among them.
All(parts) ==
    LET bad == {i \in DOMAIN parts : parts[i].why # "none"}
    IN IF bad = {} THEN Got([i \in DOMAIN parts |-> parts[i].x])
       ELSE No(parts[CHOOSE i \in bad : \A j \in bad : i <= j].why)

-----------------------------------------------------------------------------
(* The doors. A value on the wire is what its producer wrote: is, and the     *)
(* numeral or number with it.                                                 *)

Wire(is, v) == [is |-> is, t |-> Numeral(v, 0, FALSE)]
Written(t) == [is |-> "number", t |-> t]

\* A Record's value: a Go value, or the digits of a json.Number.
Digits(t) == [go |-> "Number", v |-> 0, t |-> t]
Plain(type, v) == [go |-> type, v |-> v, t |-> Numeral(0, 0, FALSE)]

\* encoding/json with UseNumber: text that is not UTF-8 is not refused, its
\* bad bytes are replaced.
FromJSON(w) ==
    Got(CASE w.is = "null" -> Plain("nil", 0)
          [] w.is = "number" -> Digits(w.t)
          [] w.is = "string" -> Plain("string", Contents[w.t.n].replaced)
          [] OTHER -> Plain(w.is, w.t.n))

\* A CBOR integer becomes its own digits: uint64 and int64 cover one bit more
\* upwards than downwards, and past them the decoder answers with a bignum.
CBORIntegerAsFloat(n) ==
    IF n < -TwoTo(WordBits - 1) THEN No("type")
    ELSE Got(Plain("float64", Rounded(n * Unit, MantissaBits)))
CBORInteger(n) ==
    IF n < -TwoTo(WordBits - 1) THEN No("type") ELSE Got(Digits(Numeral(n, 0, FALSE)))

FromCBOR(w) ==
    CASE w.is = "null" -> Got(Plain("nil", 0))
      [] w.is = "integer" -> CBORInteger(w.t.n)
      [] w.is = "string" -> IF Contents[w.t.n].utf8 THEN Got(Plain("string", w.t.n)) ELSE No("malformed")
      [] w.is \in {"bool", "float64", "bytes"} -> Got(Plain(w.is, w.t.n))
      [] OTHER -> No("type")        \* a tag, undefined, an array or a map

\* decodeLine and decodeCBORItem: one value, which is a map, and its fields.
Decoded(o) ==
    IF o.body # "map" THEN No("malformed")
    ELSE All([i \in DOMAIN o.fields |->
                IF o.door = "json" THEN FromJSON(o.fields[i]) ELSE FromCBOR(o.fields[i])])

IntegralFloat(u) ==
    IF u = NaN \/ (Finite(u) /\ u % Unit # 0) THEN No("inexact")
    ELSE IF Abs(u) > TwoTo(MantissaBits) * Unit THEN No("inexact")
    ELSE Got(u \div Unit)

Integer(raw) ==
    IF raw.go = "float64" THEN IntegralFloat(raw.v)
    ELSE IF raw.go # "Number" THEN No("type")
    ELSE IF ParsesAsInt(raw.t)
    THEN IF InBits(raw.t.n, WordBits) THEN Got(raw.t.n) ELSE No("range")
    ELSE IF ~Finite(DoubleOf(raw.t)) THEN No("range")
    ELSE IntegralFloat(DoubleOf(raw.t))

Float(raw) ==
    IF raw.go = "float64" THEN Got(raw.v)
    ELSE IF raw.go # "Number" THEN No("type")
    ELSE IF ~Finite(DoubleOf(raw.t)) THEN No("range")
    ELSE Got(DoubleOf(raw.t))

\* scaleDecimal: the sign is put back after the digits have been parsed.
Scaled(t, scale) ==
    IF t.exp \/ t.frac > scale THEN No("inexact")
    ELSE LET unscaled == t.n * TwoTo(scale - t.frac)
         IN IF Abs(unscaled) < TwoTo(WordBits - 1) THEN Got(unscaled) ELSE No("range")

Decimal(raw, scale) ==
    CASE raw.go = "Number" -> Scaled(raw.t, scale)
      [] raw.go = "string" -> IF Contents[raw.v].number THEN Scaled(Contents[raw.v].t, scale)
                              ELSE No("malformed")
      [] OTHER -> No("type")

Timestamp(raw) ==
    IF raw.go # "string" THEN Integer(raw)
    ELSE IF ~Contents[raw.v].instant THEN No("malformed")
    ELSE IF Contents[raw.v].finer THEN No("inexact")
    ELSE Got(Contents[raw.v].millis)

Exactly(type, raw) == IF raw.go = type THEN Got(raw.v) ELSE No("type")

Binary(raw) ==
    IF raw.go = "string"
    THEN IF Contents[raw.v].base64 = 0 THEN No("malformed") ELSE Got(Contents[raw.v].base64)
    ELSE Exactly("bytes", raw)

Coerced(column, raw) ==
    LET k == column.kind
        read == CASE k \in {"int", "long"} -> Integer(raw)
                  [] k \in {"float", "double"} -> Float(raw)
                  [] k = "decimal" -> Decimal(raw, column.scale)
                  [] k = "timestamptz" -> Timestamp(raw)
                  [] k = "binary" -> Binary(raw)
                  [] OTHER -> Exactly(GoType(k), raw)
        Fits(n) == IF k = "int" /\ ~InBits(n, IntBits) THEN No("range")
                   ELSE Got(Go(GoType(k), IF k = "float" THEN Narrowed(n) ELSE n))
    IN Then(read, Fits)

\* dynamicCodec.Bind: keys are names, absent ones null.
Bound(names, fields, s) ==
    IF \E i \in DOMAIN names : \A j \in DOMAIN s : s[j].name # names[i] THEN No("unknown")
    ELSE All([j \in DOMAIN s |->
            IF \E i \in DOMAIN names : names[i] = s[j].name /\ fields[i].go # "nil"
            THEN Coerced(s[j], fields[CHOOSE i \in DOMAIN names : names[i] = s[j].name])
            ELSE IF ~s[j].required THEN Got(Nil)
            ELSE No(IF \E i \in DOMAIN names : names[i] = s[j].name THEN "null" ELSE "missing")])

\* binder.Bind: the struct's fields have the columns' own types.
StructRow(fields) == Got([j \in DOMAIN fields |->
    IF fields[j].is = "null" THEN Nil ELSE Go(fields[j].is, fields[j].t.n)])

\* checkPoison.
Poison(column, value) ==
    IF value = Nil THEN "none"
    ELSE IF column.kind = "string" /\ ~Contents[value.v].utf8 THEN "utf8"
    ELSE IF column.kind \in {"string", "binary"} /\ Contents[value.v].len > MaxValueLen THEN "length"
    ELSE IF column.kind = "decimal" /\ Abs(value.v) >= TwoTo(column.precision) THEN "decimal"
    ELSE "none"
Unpoisoned(row, s) ==
    All([j \in DOMAIN s |-> IF Poison(s[j], row[j]) = "none" THEN Got(row[j]) ELSE No(Poison(s[j], row[j]))])

-----------------------------------------------------------------------------
(* The canonical payload: a version, and for each column a presence byte if   *)
(* it is optional, a length if its width is not fixed, and its value.         *)

Width(kind) ==
    CASE kind = "boolean" -> 1 [] kind = "int" -> IntBits [] kind = "float" -> IntBits
      [] kind \in {"string", "binary"} -> 0 [] OTHER -> WordBits

Token(what, width, bits) == [what |-> what, width |-> width, bits |-> bits]
Version == Token("version", 0, 1)

Value(column, value) ==
    IF Width(column.kind) = 0
    THEN <<Token("length", 0, Contents[value.v].len), Token("value", Contents[value.v].len, value.v)>>
    ELSE IF column.kind \in {"boolean", "float", "double"}
    THEN <<Token("value", Width(column.kind), value.v)>>    \* a float's own bits
    ELSE <<Token("value", Width(column.kind), Bits(value.v, Width(column.kind)))>>

Encoded(s, row) ==
    LET Part(j) == IF row[j] = Nil THEN <<Token("presence", 0, 0)>>
                   ELSE (IF s[j].required THEN <<>> ELSE <<Token("presence", 0, 1)>>)
                        \o Value(s[j], row[j])
    IN IF \E j \in DOMAIN s : row[j] = Nil /\ s[j].required THEN No("encode")
       ELSE Got(<<Version>> \o FlattenSeq([j \in DOMAIN s |-> Part(j)]))

\* The value of a column whose tokens begin at i, and where the next one begins.
ReadValue(column, tokens, i) ==
    LET fixed == Width(column.kind) # 0
        at == IF fixed THEN i ELSE i + 1
        width == IF fixed THEN Width(column.kind) ELSE tokens[i].bits
        raw == tokens[at].bits
    IN [at |-> at + 1,
        ok |-> tokens[at].what = "value" /\ tokens[at].width = width,
        x |-> Go(GoType(column.kind),
                 IF column.kind \in {"int", "long", "decimal", "timestamptz"}
                 THEN FromBits(raw, width) ELSE raw)]

\* One column more of a row.
ReadColumn(acc, column, tokens) ==
    IF ~acc.ok \/ acc.at > Len(tokens) THEN [acc EXCEPT !.ok = FALSE]
    ELSE IF ~column.required /\ tokens[acc.at] = Token("presence", 0, 0)
    THEN [acc EXCEPT !.at = @ + 1, !.row = Append(@, Nil)]
    ELSE IF ~column.required /\ tokens[acc.at] # Token("presence", 0, 1)
    THEN [acc EXCEPT !.ok = FALSE]
    ELSE LET r == ReadValue(column, tokens, IF column.required THEN acc.at ELSE acc.at + 1)
         IN [at |-> r.at, ok |-> r.ok, row |-> Append(acc.row, r.x)]

Decode(s, tokens) ==
    LET read[j \in 0..Len(s)] ==
            IF j = 0 THEN [at |-> 2, ok |-> tokens[1] = Version, row |-> <<>>]
            ELSE ReadColumn(read[j - 1], s[j], tokens)
        end == read[Len(s)]
    IN IF end.ok /\ end.at = Len(tokens) + 1 THEN Got(end.row) ELSE No("payload")

\* CompatibleShapes: by field id, every column kept, none newly required, none
\* of another type.
SameType(a, b) == a.kind = b.kind /\ a.precision = b.precision /\ a.scale = b.scale
Compatible(from, to) ==
    /\ Ids(from) \subseteq Ids(to)
    /\ \A j \in DOMAIN to :
        IF to[j].id \in Ids(from) THEN SameType(from[Position(from, to[j].id)], to[j])
        ELSE ~to[j].required

\* Remap: by field id, never by position or name.
CarriedByPosition(from, to, row, j) == IF j \in DOMAIN row THEN row[j] ELSE Nil
Carried(from, to, row, j) == row[Position(from, to[j].id)]

Remapped(from, to, row) ==
    IF ~Compatible(from, to) THEN No("shape")
    ELSE All([j \in DOMAIN to |->
            IF to[j].id \notin Ids(from) THEN Got(Nil)
            ELSE IF Carried(from, to, row, j) = Nil /\ to[j].required THEN No("required")
            ELSE Got(Carried(from, to, row, j))])

Transcoded(from, to, tokens) ==
    LET Encode(row) == Encoded(to, row)
        Move(row) == Then(Remapped(from, to, row), Encode)
    IN Then(Decode(from, tokens), Move)

-----------------------------------------------------------------------------
(* The column of a data file.                                                 *)

\* FileSchema: the type a file stores a declared column as.
Stored(kind) ==
    CASE kind = "timestamptz" -> "micros" [] kind = "decimal" -> "decimal128"
      [] OTHER -> GoType(kind)

\* storageAdaptationFor and the adaptation itself: int64 to microseconds and to
\* a 128-bit decimal, and otherwise nothing but the same type.
Adapted(value, want) ==
    IF value = Nil \/ value.go = want THEN Got(value)
    ELSE IF value.go # "int64" THEN No("adapt")
    ELSE CASE want = "micros" -> Got(Go(want, Wrapped(value.v * ClockScale)))
           [] want = "decimal128" ->
                Got(Go(want, (IF value.v < 0 THEN -1 ELSE 0) * TwoTo(WordBits) + Bits(value.v, WordBits)))
           [] OTHER -> No("adapt")

\* A struct's fields from a decoded row, and a dynamic writer's columns from it:
\* every value has its column's Go type, and a struct has no null for a column
\* that is required.
Typed(s, row, j) ==
    IF row[j] = Nil \/ row[j].go = GoType(s[j].kind) THEN Got(row[j]) ELSE No("value")
StructValues(s, row) ==
    All([j \in DOMAIN s |->
        IF row[j] = Nil /\ s[j].required THEN No("value") ELSE Typed(s, row, j)])
ColumnValues(s, row) == All([j \in DOMAIN s |-> Typed(s, row, j)])

Built(s, values) == All([j \in DOMAIN s |-> Adapted(values[j], Stored(s[j].kind))])

-----------------------------------------------------------------------------
(* One record's life.                                                         *)

\* What a producer sends: through which door, one map or not, and a value under
\* each of its names. A struct has no names and a field for every column.
NoOffer == [door |-> "none", body |-> "map", names |-> <<>>, fields |-> <<>>]

\* A value has a contents or a number, a double is one, and a struct's field is
\* of its column's Go type.
JSONTypes == {"null", "bool", "number", "string", "array"}
CBORTypes == {"null", "bool", "integer", "float64", "string", "bytes", "array", "tag", "undefined"}
Sendable(w) == w.is \in {"string", "bytes"} => w.t.n \in DOMAIN Contents
FromDoor(door, w) ==
    IF door = "json" THEN w.is \in JSONTypes
    ELSE w.is \in CBORTypes /\ (w.is = "float64" /\ Finite(w.t.n) => Rounded(w.t.n, MantissaBits) = w.t.n)
OfColumn(column, w) ==
    /\ w.is \in {"null", GoType(column.kind)}
    /\ GoType(column.kind) \in {"int32", "int64"} => InBits(w.t.n, Width(column.kind))
ASSUME SentAssumption ==
    \A s \in Openings : \A o \in Sent(s) :
        /\ o \in [door : {"typed", "json", "cbor"}, body : STRING, names : Seq(STRING),
                 fields : Seq([is : STRING, t : Numerals])]
        /\ \A i \in DOMAIN o.fields : Sendable(o.fields[i])
        /\ IF o.door = "typed" THEN Len(o.fields) = Len(s) /\ \A i \in DOMAIN s : OfColumn(s[i], o.fields[i])
           ELSE /\ Len(o.fields) = Len(o.names) /\ \A i \in DOMAIN o.fields : FromDoor(o.door, o.fields[i])
                /\ \A i, j \in DOMAIN o.names : i # j => o.names[i] # o.names[j]

RecordInit ==
    /\ opened \in Openings /\ shape = opened
    /\ offer = NoOffer /\ stage = "none" /\ why = "none"
    /\ payload = <<>> /\ file = <<>>

\* A door's verdict: the row bound, unpoisoned and encoded, or a refusal.
Verdict(o, s) ==
    LET Bind(fields) == Bound(o.names, fields, s)
        Check(row) == Unpoisoned(row, s)
        Encode(row) == Encoded(s, row)
        bound == IF o.door = "typed" THEN StructRow(o.fields) ELSE Then(Decoded(o), Bind)
    IN Then(Then(bound, Check), Encode)

\* Insert, InsertJSON, InsertCBOR: refused before anything is staged, or staged.
Offer ==
    /\ stage = "none"
    /\ \E o \in Sent(opened) : \E verdict \in {Verdict(o, shape)} :
        /\ offer' = o
        /\ IF verdict.why # "none"
           THEN stage' = "refused" /\ why' = verdict.why /\ UNCHANGED payload
           ELSE stage' = "staged" /\ payload' = verdict.x /\ UNCHANGED why
    /\ UNCHANGED <<opened, shape, file>>

\* A restart under another shape, with a writer of either kind: refused at open
\* unless compatible, and the row is re-encoded when its batch is next prepared.
Recode ==
    /\ stage = "staged"
    /\ \E to \in Shapes \ {shape} :
        /\ Compatible(shape, to)
        /\ \E moved \in {Transcoded(shape, to, payload)} :
           IF moved.why # "none" THEN stage' = "failed" /\ why' = moved.why /\ UNCHANGED <<shape, payload>>
           ELSE shape' = to /\ payload' = moved.x /\ UNCHANGED <<stage, why>>
    /\ UNCHANGED <<opened, offer, file>>

Build ==
    /\ stage = "staged"
    /\ LET Fields(row) == StructValues(shape, row)
           Columns(row) == ColumnValues(shape, row)
           Cells(values) == Built(shape, values) IN
       \E row \in {Decode(shape, payload)} :
       \E built \in {Then(Then(row, Fields), Cells), Then(Then(row, Columns), Cells)} :
        IF built.why # "none" THEN stage' = "failed" /\ why' = built.why /\ UNCHANGED file
        ELSE stage' = "built" /\ file' = built.x /\ UNCHANGED why
    /\ UNCHANGED <<opened, offer, shape, payload>>

RecordNext == Offer \/ Recode \/ Build
RecordSpec == RecordInit /\ [][RecordNext]_record

-----------------------------------------------------------------------------
(* What a record means, by the columns it is declared for.                    *)

RecordTypeOK ==
    /\ stage \in {"none", "staged", "built", "refused", "failed"}
    /\ (stage \in {"refused", "failed"}) = (why # "none")
    /\ shape \in Shapes /\ opened \in Openings
    /\ stage = "built" => Len(file) = Len(shape)

\* What the producer wrote for a column; absent is null.
Sender(i) ==
    IF offer.door = "typed" THEN offer.fields[i]
    ELSE IF \E n \in DOMAIN offer.names : offer.names[n] = opened[i].name
    THEN offer.fields[CHOOSE n \in DOMAIN offer.names : offer.names[n] = opened[i].name]
    ELSE Wire("null", 0)

Exact(w) ==
    CASE w.is = "number" -> UnitsOf(w.t)
      [] w.is = "float64" -> w.t.n
      [] w.is = "string" -> UnitsOf(Contents[w.t.n].t)
      [] OTHER -> w.t.n * Unit

Millis(w) == IF w.is = "string" THEN Contents[w.t.n].millis ELSE Exact(w) \div Unit

\* The value a reader of the file has to find, in exact arithmetic.
Meant(door, column, w) ==
    IF w.is = "null" THEN Nil
    ELSE Go(Stored(column.kind),
        CASE column.kind \in {"int", "long"} -> Exact(w) \div Unit
          [] column.kind = "decimal" ->
                IF door = "typed" THEN w.t.n ELSE (Exact(w) * TwoTo(column.scale)) \div Unit
          [] column.kind = "timestamptz" -> Millis(w) * ClockScale
          [] column.kind = "binary" /\ w.is = "string" -> Contents[w.t.n].base64
          [] OTHER -> w.t.n)

\* What is known not to come back as it was written: a binary float column by
\* its nature; a number with a point or an exponent that no double holds
\* (integralFloat); an instant whose microseconds pass a long
\* (rescaleTimestamp); JSON text that is not UTF-8 (encoding/json).
Rounds(column, w) ==
    /\ column.kind \in {"int", "long", "timestamptz"} /\ w.is = "number"
    /\ ~ParsesAsInt(w.t) /\ DoubleOf(w.t) # UnitsOf(w.t)
Overflows(column, w) ==
    /\ column.kind = "timestamptz" /\ w.is # "null"
    /\ ~InBits(Millis(w) * ClockScale, WordBits)
Replaced(door, column, w) ==
    /\ column.kind = "string" /\ door = "json"
    /\ w.is = "string" /\ ~Contents[w.t.n].utf8
Loses(door, column, w) ==
    \/ column.kind \in {"float", "double"}
    \/ Rounds(column, w) \/ Overflows(column, w) \/ Replaced(door, column, w)

FoundAt(i) == file[Position(shape, opened[i].id)]

\* The whole path, Bind to AdaptColumn: what is in the file under a column's id
\* is what the producer wrote for that column, through any door, across a
\* re-encoding to a shape with other names, positions and columns, and a column
\* the record never had is null. What Loses names is excepted.
StoredAsWritten ==
    stage = "built" =>
        /\ \A i \in DOMAIN opened :
            ~Loses(offer.door, opened[i], Sender(i)) => FoundAt(i) = Meant(offer.door, opened[i], Sender(i))
        /\ \A j \in DOMAIN shape : shape[j].id \notin Ids(opened) => file[j] = Nil

\* SCHEMA.md's closed table taken at its word: a value is refused or it is
\* stored as it was written, an integer column's included.
IntegersExact ==
    stage = "built" =>
        \A i \in DOMAIN opened :
            opened[i].kind \in {"int", "long"} => FoundAt(i) = Meant(offer.door, opened[i], Sender(i))

\* checkPoison and the closed coercion table: an accepted record is never the
\* one a later encode, decode, remap or build chokes on - but for a null where
\* a newer shape requires a value - and nothing in a file is outside its own
\* column's type.
AcceptedIsStorable ==
    /\ stage = "failed" => why = "required"
    /\ stage = "built" =>
        \A j \in DOMAIN shape : file[j] # Nil =>
            /\ shape[j].kind = "decimal" => Abs(file[j].v) < TwoTo(shape[j].precision)
            /\ shape[j].kind = "string" => Contents[file[j].v].utf8
            /\ shape[j].kind \in {"string", "binary"} => Contents[file[j].v].len <= MaxValueLen

\* What a door accepts reaches the file, as the producer wrote it.
AcceptedIsStored == AcceptedIsStorable /\ StoredAsWritten

\* The JSON spelling of a CBOR value, if it has one: a byte string has it only
\* for a binary column, in base64. An integer below a long's range is left out
\* for a floating-point column: the decoder makes a bignum of it, which the CBOR
\* door refuses where the JSON door reads the digits.
Twins(column, w) ==
    CASE w.is = "integer" ->
            IF w.t.n < -TwoTo(WordBits - 1) /\ column.kind \in {"float", "double"} THEN {} ELSE {Written(Numeral(w.t.n, 0, FALSE))}
      [] w.is = "float64" ->
            IF Finite(w.t.n) /\ column.kind # "decimal" THEN {Written(Numeral(w.t.n, MaxFrac, FALSE))} ELSE {}
      [] w.is = "bytes" ->
            IF column.kind = "binary"
            THEN {Wire("string", c) : c \in {c \in DOMAIN Contents : Contents[c].base64 = w.t.n}} ELSE {}
      [] w.is \in {"tag", "undefined"} -> {}
      [] w.is = "string" -> IF Contents[w.t.n].utf8 THEN {w} ELSE {}
      [] OTHER -> {w}

\* The record's fields in JSON, each in a spelling it has there.
Spellings ==
    LET spelled == UNION {Twins(opened[i], offer.fields[i]) : i \in DOMAIN opened}
    IN {f \in [DOMAIN opened -> spelled] : \A i \in DOMAIN opened : f[i] \in Twins(opened[i], offer.fields[i])}

\* cborValue: the CBOR doors are the JSON doors in other bytes. A record spelled
\* in both is refused by both or stored as the same payload by both - a large
\* integer, which must not pass through a float, included.
DoorsAgree ==
    (/\ offer.door = "cbor" /\ stage \in {"refused", "staged"} /\ shape = opened
     /\ Len(offer.names) = Len(opened) /\ \A i \in DOMAIN opened : offer.names[i] = opened[i].name) =>
        \A fields \in Spellings :
            LET twin == Verdict([offer EXCEPT !.door = "json", !.fields = fields], opened)
            IN IF stage = "refused" THEN twin.why # "none" ELSE twin = Got(payload)
=============================================================================

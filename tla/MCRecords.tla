----------------------------- MODULE MCRecords -----------------------------
(***************************************************************************)
(* An instance of Declarations, Framing and Records. What declares a       *)
(* table, a record's bytes and its values are separate abstractions, so    *)
(* they meet in one place: every declaration is made, one of them takes    *)
(* streams; every stream is cut, and the record of one of them goes on,    *)
(* with any values, through a door, a payload and a file.                  *)
(***************************************************************************)
EXTENDS Declarations, Framing, Records

-----------------------------------------------------------------------------
(* Every stream of up to five bytes, every longer one of text, and items that *)
(* are longer than the buffer may become, over a limit of three and a slack   *)
(* of two: a record of exactly the limit with its two bytes of terminator     *)
(* fills the buffer, which doubles once on the way.                           *)

MCText == {"brace", "x", "nl", "cr"}
MCBytes == MCText \union {"two", "four", "indefinite"}
MCInputs ==
    UNION {[1..n -> MCBytes] : n \in 0..5} \union UNION {[1..n -> MCText] : n \in {6, 7}}
      \union {<<"nl", "six">> \o s : s \in UNION {[1..n -> {"x", "indefinite"}] : n \in 2..6}}
MCHeads == {"two", "four", "six"}
MCItemLen == [h \in MCHeads |-> CASE h = "two" -> 2 [] h = "four" -> 4 [] h = "six" -> 6]

\* The stream whose record is followed to the file.
Followed == <<"two", "x">>
MCOneRecord == {Followed}

-----------------------------------------------------------------------------
(* Text and bytes: a plain text, one that is not UTF-8 and what encoding/json *)
(* makes of it, one that is digits and base64 at once and the bytes it        *)
(* decodes to, one too long, two instants, and three more numbers.            *)

Text(len) ==
    [utf8 |-> TRUE, len |-> len, replaced |-> 0, number |-> FALSE, t |-> Numeral(0, 0, FALSE),
     instant |-> FALSE, finer |-> FALSE, millis |-> 0, base64 |-> 0]
DigitText(len, t) == [Text(len) EXCEPT !.number = TRUE, !.t = t]
InstantText(ms, finer) == [Text(3) EXCEPT !.instant = TRUE, !.millis = ms, !.finer = finer]

MCContents ==
    LET c == << Text(1), [Text(1) EXCEPT !.utf8 = FALSE], Text(3),
                [DigitText(2, Numeral(2, 0, FALSE)) EXCEPT !.base64 = 5], [Text(2) EXCEPT !.utf8 = FALSE],
                Text(4), InstantText(2, FALSE), InstantText(2, TRUE),
                DigitText(3, Numeral(5, 2, FALSE)), DigitText(3, Numeral(-20, 0, FALSE)),
                DigitText(3, Numeral(1, 0, TRUE)) >>
    IN [i \in DOMAIN c |-> [c[i] EXCEPT !.replaced = IF c[i].utf8 THEN i ELSE 3]]

-----------------------------------------------------------------------------
(* Shapes: a column under test and an optional long. Later the first column   *)
(* has another name and a new column has come between them; or the long has   *)
(* become required.                                                           *)

MCColumns ==
    {[id |-> 1, name |-> "a", kind |-> k, required |-> r, precision |-> 0, scale |-> 0] :
        k \in Kinds \ {"decimal"}, r \in BOOLEAN}
    \union {[id |-> 1, name |-> "a", kind |-> "decimal", required |-> r, precision |-> p, scale |-> 1] :
        r \in BOOLEAN, p \in {2, 3}}

Long(id, name, required) ==
    [id |-> id, name |-> name, kind |-> "long", required |-> required, precision |-> 0, scale |-> 0]

MCFirst(c) == <<c, Long(3, "t", FALSE)>>
MCLater(c) == <<[c EXCEPT !.name = "b"], Long(2, "a", FALSE), Long(3, "t", FALSE)>>
MCStrict(c) == <<c, Long(3, "t", TRUE)>>
MCShapes == UNION {{MCFirst(c), MCLater(c), MCStrict(c)} : c \in MCColumns}

-----------------------------------------------------------------------------
(* What is sent: every number up to a magnitude past a long's and a double's  *)
(* range to the columns that take numbers, a few to the others.               *)

Reach == 20
MCNumerals ==
    UNION {{Numeral(n, f, FALSE) : n \in -Reach * 2^f..Reach * 2^f} : f \in 0..MaxFrac}
    \union {Numeral(n, 0, TRUE) : n \in -Reach..Reach}
MCFewNumerals == {Numeral(1, 0, FALSE), Numeral(5, 2, FALSE)}
MCDoubles ==
    {u \in -MaxDouble + 1..MaxDouble - 1 : Rounded(u, MantissaBits) = u} \union {NaN, Infinity, -Infinity}

TakesNumbers(c) == c.kind \notin {"boolean", "string", "binary"}
Wires(is, values) == {Wire(is, v) : v \in values}
Common == Wires("null", {0}) \union Wires("bool", {0, 1}) \union Wires("string", DOMAIN Contents)
          \union Wires("array", {0})

JSONValues(c) == Common \union {Written(t) : t \in IF TakesNumbers(c) THEN MCNumerals ELSE MCFewNumerals}
CBORValues(c) ==
    Common \union Wires("bytes", DOMAIN Contents) \union Wires("tag", {0}) \union Wires("undefined", {0})
    \union Wires("integer", IF TakesNumbers(c) THEN -Reach..Reach ELSE {1})
    \union Wires("float64", IF TakesNumbers(c) THEN MCDoubles ELSE {4})

TypedValues(c) ==
    (IF c.required THEN {} ELSE Wires("null", {0})) \union
    Wires(GoType(c.kind),
        CASE c.kind = "boolean" -> {0, 1}
          [] c.kind = "int" -> -2^(IntBits - 1)..2^(IntBits - 1) - 1
          [] c.kind \in {"string", "binary"} -> DOMAIN Contents
          [] c.kind = "float" -> {Narrowed(u) : u \in MCDoubles}
          [] c.kind = "double" -> MCDoubles
          [] OTHER -> -2^(WordBits - 1)..2^(WordBits - 1) - 1)

One(door) == IF door = "json" THEN Written(Numeral(1, 0, FALSE)) ELSE Wire("integer", 1)
Maps(door, values) ==
    {[door |-> door, body |-> "map", names |-> <<"a", "t">>, fields |-> <<w, t>>] :
        w \in values, t \in {One(door), Wire("null", 0)}}
    \union {[door |-> door, body |-> "map", names |-> n, fields |-> <<One(door)>>] : n \in {<<"a">>, <<"t">>, <<"typo">>}}
    \union {[door |-> door, body |-> b, names |-> <<"a">>, fields |-> <<One(door)>>] : b \in {"null", "two values"}}

MCOpenings == {MCFirst(c) : c \in MCColumns}

MCSent(s) ==
    LET c == s[1] IN Maps("json", JSONValues(c)) \union Maps("cbor", CBORValues(c))
    \union {[door |-> "typed", body |-> "map", names |-> <<>>, fields |-> <<w, t>>] :
            w \in TypedValues(c), t \in {Wire("int64", -1), Wire("null", 0)}}

-----------------------------------------------------------------------------
(* Declarations: documents of two tables with every name of up to two         *)
(* characters and one that spells the mirror's separator, documents of up to  *)
(* two columns, structs of up to two fields.                                  *)

MCLegalChars == {"a"}
MCNameChars == {"a", "_", "A"}
Names(chars, n) == UNION {[1..m -> chars] : m \in 0..n}
Columns == <<<<1>>, <<1, 4>>>>   \* a name of one byte, and one that looks like a length

DocField(name, id, type, p, s, optional) ==
    [name |-> name, fieldid |-> id, type |-> type, precision |-> p, scale |-> s, optional |-> optional]
AField == DocField(<<1>>, 1, "string", 0, 0, FALSE)
Document(ts) == [door |-> "document", tables |-> ts]
DocTable(ns, t, fields) == [namespace |-> ns, table |-> t, fields |-> fields]
Documents(fieldss) == {Document(<<DocTable(<<"a">>, <<"a">>, fs)>>) : fs \in fieldss}

Kinded(i, ids, optionals) ==
    {DocField(Columns[i], id, k, 0, 0, o) :
        k \in (DOMAIN KindTag \ {"decimal"}) \union {"decimal(2)"}, id \in ids, o \in optionals}
    \union {DocField(Columns[i], id, "decimal", p, s, o) : p \in 0..4, s \in 0..4, id \in ids, o \in optionals}

MCDocuments ==
    {Document(<<DocTable(a, b, <<AField>>), DocTable(c, d, <<AField>>)>>) :
        a, b, c, d \in (Names({"a", "_"}, 2) \ {<<>>}) \union {<<"a", "_", "_", "a">>}}
    \union {Document(<<DocTable(a, b, <<AField>>)>>) : a, b \in Names(MCNameChars, 2) \union {[i \in 1..5 |-> "a"]}}
    \union {Document(<<>>)} \union Documents({<<>>})
    \union Documents({<<f>> : f \in Kinded(1, 0..2, BOOLEAN)})
    \union Documents({<<f, g>> : f \in Kinded(1, {1}, {TRUE}), g \in Kinded(1, {2}, {FALSE}) \union Kinded(2, 1..2, {FALSE})})
    \union Documents({<<[AField EXCEPT !.name = <<>>]>>})

GoField(i, id, go, logical, p, s) ==
    [name |-> Columns[i], arrowName |-> Columns[i], go |-> go, pointer |-> FALSE, logical |-> logical,
     precision |-> p, scale |-> s, id |-> id, exported |-> TRUE]
Fields(i, ids) ==
    {GoField(i, id, go, "none", 0, 0) : id \in ids, go \in GoTypes \union {"struct", "uint64"}}
    \union {GoField(i, id, "int64", l, 0, 0) : id \in ids, l \in {"timestamp_ms", "timestamp_us"}}
    \union {GoField(i, id, "int64", "decimal", p, s) : id \in ids, p \in 0..4, s \in 0..4}
Variants(f) ==
    {f, [f EXCEPT !.pointer = TRUE], [f EXCEPT !.exported = FALSE], [f EXCEPT !.arrowName = <<7>>]}
Struct(ns, fs) == [door |-> "struct", table |-> DocTable(ns, <<"a">>, fs)]

MCStructs ==
    {Struct(<<"a">>, <<>>), Struct(<<"_">>, <<GoField(1, 1, "bool", "none", 0, 0)>>)}
    \union {Struct(<<"a">>, <<g>>) : g \in UNION {Variants(f) : f \in Fields(1, {-1, 0, 1, 2})}}
    \union {Struct(<<"a">>, <<f, g>>) : f \in Fields(1, {1}), g \in Fields(2, 1..2)}

MCSources == MCDocuments \union MCStructs

\* The declaration whose stream is read.
Streamed == Document(<<DocTable(<<"a">>, <<"a">>, <<AField>>)>>)

-----------------------------------------------------------------------------
AnyColumn == CHOOSE c \in MCColumns : c.kind = "long"

Init ==
    /\ RecordInit
    /\ FramingInit
    /\ input = Followed \/ opened = MCFirst(AnyColumn)
    /\ \/ input = Followed /\ opened = MCFirst(AnyColumn) /\ DeclarationsInit
       \/ Undeclared(Streamed)

Streaming == source = Streamed /\ reread # <<>>
Delivered == input = Followed /\ refusal.kind = "end"

Next ==
    \/ DeclarationsNext /\ UNCHANGED <<scan, record>>
    \/ Streaming /\ FramingNext /\ UNCHANGED <<declaring, record>>
    \/ Delivered /\ RecordNext /\ UNCHANGED <<declaring, scan>>

Spec == Init /\ [][Next]_<<declaring, scan, record>>

TypeOK == FramingTypeOK /\ RecordTypeOK
============================================================================

------------------------------ MODULE Framing ------------------------------
(***************************************************************************)
(* recordScanner (ingest.go): one buffer over the caller's reader, cut     *)
(* into JSON records, which end at a newline, and CBOR records, whose head *)
(* says how long they are.                                                 *)
(*                                                                         *)
(* A byte is one of the classes the grammar tells apart. A CBOR head is    *)
(* abstracted to the length of the whole item it begins, and the one       *)
(* malformation kept is the byte that opens an indefinite-length item,     *)
(* which is refused wherever it stands in a CBOR record.                   *)
(***************************************************************************)
EXTENDS Naturals, Sequences, FiniteSets

CONSTANTS
    Inputs,    \* the streams: sequences of bytes
    Heads,     \* the CBOR map heads among the bytes
    ItemLen,   \* the length of the item each of them begins
    Limit,     \* MaxRecordBytes
    Slack      \* recordBufferSlack, which is also the first buffer's size

\* The slack holds a line's two bytes of terminator, 64 KiB in the code.
ASSUME FramingAssumption ==
    /\ Inputs \subseteq Seq(STRING)
    /\ Limit \in Nat \ {0} /\ Slack \in Nat /\ Slack >= 2
    /\ ItemLen \in [Heads -> Nat \ {0}]
    /\ Heads \intersect {"sp", "cr", "nl", "brace", "indefinite"} = {}

VARIABLES
    input,     \* what the reader holds
    fed,       \* how many of its bytes have been read
    size,      \* len(buf), 0 before the first read
    start, end,\* the unconsumed part of the buffer
    eof,
    lines,     \* newlines consumed outside records
    phase,     \* "next", "json", "cbor" or "stopped"
    frames,    \* the records handed out, each by its first and last byte
    refusal    \* why the scanner stopped

scan == <<input, fed, size, start, end, eof, lines, phase, frames, refusal>>

Ceiling == Limit + Slack
Spaces == {"sp", "cr", "nl"}
Least(a, b) == IF a < b THEN a ELSE b

Held == end - start                     \* buffered bytes, the last Held read
First == fed - Held + 1                 \* the first of them
At(i) == input[First + i - 1]

\* A refusal: its kind, the record it is about and the line reported, 0 for none.
None == [kind |-> "none", record |-> 0, line |-> 0]
Stop(kind, record, line) == [kind |-> kind, record |-> record, line |-> line]
Number == Len(frames) + 1

FramingIdle(stream) ==
    /\ input = stream /\ fed = 0 /\ size = 0 /\ start = 0 /\ end = 0
    /\ eof = FALSE /\ lines = 0 /\ phase = "next" /\ frames = <<>>
    /\ refusal = None

FramingInit == \E stream \in Inputs : FramingIdle(stream)

Refuse(kind, line) ==
    /\ phase' = "stopped" /\ refusal' = Stop(kind, Number, line)
    /\ UNCHANGED <<input, fed, size, start, end, eof, lines, frames>>

\* What the buffer becomes before a read: made, left alone, moved to its front,
\* or doubled up to the ceiling.
RoomMade ==
    IF size = 0 THEN [size |-> Least(Slack, Ceiling), start |-> 0]
    ELSE IF end < size THEN [size |-> size, start |-> start]
    ELSE IF start > 0 THEN [size |-> size, start |-> 0]
    ELSE [size |-> Least(2 * size, Ceiling), start |-> 0]

BufferFull == size > 0 /\ end = size /\ start = 0 /\ size >= Ceiling

\* One Read of any number of bytes, with or without the end of the input: a
\* reader may report the end with its last bytes or on a read of its own.
Fill ==
    LET room == RoomMade IN
    \E n \in 0..Least(room.size - room.start - Held, Len(input) - fed) :
        \E ended \in BOOLEAN :
            /\ ended => fed + n = Len(input)
            /\ fed' = fed + n /\ size' = room.size
            /\ start' = room.start /\ end' = room.start + Held + n
            /\ eof' = ended
            /\ UNCHANGED <<input, lines, phase, frames, refusal>>

\* A record is counted once its first byte is there.
ReadFails ==
    /\ phase' = "stopped"
    /\ refusal' = Stop("read", IF phase = "next" THEN Len(frames) ELSE Number, 0)
    /\ UNCHANGED <<input, fed, size, start, end, eof, lines, frames>>

\* fill, from any of the three loops that need more bytes.
More ==
    /\ ~eof
    /\ IF BufferFull THEN Refuse("toolarge", lines + 1) ELSE Fill \/ ReadFails

Consume(n) == start' = start + n

\* A record handed out; a CBOR one is on no line.
Deliver(n, skipped, line) ==
    /\ Consume(skipped)
    /\ frames' = Append(frames, [first |-> First, last |-> First + n - 1, line |-> line])
    /\ phase' = "next"
    /\ UNCHANGED <<input, fed, size, end, eof, refusal>>

SkipSpace ==
    /\ phase = "next" /\ Held > 0 /\ At(1) \in Spaces
    /\ Consume(1)
    /\ lines' = IF At(1) = "nl" THEN lines + 1 ELSE lines
    /\ UNCHANGED <<input, fed, size, end, eof, phase, frames, refusal>>

EndOfInput ==
    /\ phase = "next" /\ Held = 0 /\ eof
    /\ phase' = "stopped" /\ refusal' = Stop("end", 0, 0)
    /\ UNCHANGED <<input, fed, size, start, end, eof, lines, frames>>

NeedBytes == phase = "next" /\ Held = 0 /\ More

\* next: the record's encoding is decided by its first byte.
Dispatch ==
    /\ phase = "next" /\ Held > 0 /\ At(1) \notin Spaces
    /\ IF At(1) = "brace" \/ At(1) \in Heads
       THEN /\ phase' = IF At(1) = "brace" THEN "json" ELSE "cbor"
            /\ UNCHANGED <<input, fed, size, start, end, eof, lines, frames, refusal>>
       ELSE Refuse("grammar", IF At(1) = "indefinite" THEN 0 ELSE lines + 1)

Newlines == {i \in 1..Held : At(i) = "nl"}
LineEnd == CHOOSE i \in Newlines : \A j \in Newlines : i <= j

\* A line without its newline, and without the carriage return before it.
LineLenKeepsReturn == LineEnd - 1
LineLen == IF At(LineEnd - 1) = "cr" THEN LineEnd - 2 ELSE LineEnd - 1

JSONRecord ==
    /\ phase = "json"
    /\ IF Newlines # {}
       THEN IF LineLen > Limit THEN Refuse("toolarge", lines + 1)
            ELSE Deliver(LineLen, LineEnd, lines + 1) /\ lines' = lines + 1
       ELSE IF eof
       THEN IF Held > Limit THEN Refuse("toolarge", lines + 1)
            ELSE Deliver(Held, Held, lines + 1) /\ UNCHANGED lines
       ELSE More

\* What UnmarshalFirst says of the buffered bytes: it reads them in order, so a
\* malformation it has reached is reported before the bytes that are missing.
Malformed ==
    \E i \in 2..Least(Held, ItemLen[At(1)]) : At(i) = "indefinite"
Complete == Held >= ItemLen[At(1)]

CBORRecord ==
    /\ phase = "cbor"
    /\ IF Malformed \/ (~Complete /\ eof) THEN Refuse("grammar", 0)
       ELSE IF ~Complete THEN More
       ELSE IF ItemLen[At(1)] > Limit THEN Refuse("toolarge", 0)
       ELSE Deliver(ItemLen[At(1)], ItemLen[At(1)], 0) /\ UNCHANGED lines

FramingNext ==
    SkipSpace \/ EndOfInput \/ NeedBytes \/ Dispatch \/ JSONRecord \/ CBORRecord

FramingSpec == FramingInit /\ [][FramingNext]_scan

-----------------------------------------------------------------------------
(* The framing with the whole input in hand: what the records are, whatever  *)
(* the reads that brought them.                                              *)

\* The first of some positions of the input, or the one past its end.
FirstOf(S) == IF S = {} THEN Len(input) + 1 ELSE CHOOSE q \in S : \A r \in S : q <= r

\* A record beginning at p: where its line or its item ends, and where the
\* next one is looked for.
LineFeed(p) == FirstOf({q \in p..Len(input) : input[q] = "nl"})
TextEnd(p) == IF LineFeed(p) <= Len(input) /\ input[LineFeed(p) - 1] = "cr" THEN LineFeed(p) - 2 ELSE LineFeed(p) - 1
ItemEnd(p) == p + ItemLen[input[p]] - 1
LastOf(p) == IF input[p] = "brace" THEN TextEnd(p) ELSE ItemEnd(p)
NextOf(p) == IF input[p] = "brace" THEN Least(LineFeed(p), Len(input)) + 1 ELSE ItemEnd(p) + 1

\* The line of a position: one more than the newlines before it, those within a
\* record apart.
NewlinesBefore(p) ==
    {q \in 1..p - 1 : input[q] = "nl" /\ \A i \in DOMAIN frames : q \notin frames[i].first..frames[i].last}
LineOf(p) == Cardinality(NewlinesBefore(p)) + 1

\* What a record is refused as; nothing if it is accepted.  Of an item no more
\* is read than the ceiling, and if that is all there is, it depends on the
\* reader whether the end is seen with its last byte.
Answer(kind, line) == [kind |-> kind, line |-> line]
Broken(p, item) == \E q \in p + 1..Least(p + item - 1, Len(input)) : input[q] = "indefinite"
ItemRefusals(p, item) ==
    IF Broken(p, Least(item, Ceiling)) THEN {Answer("grammar", 0)}
    ELSE IF item > Ceiling
    THEN {a \in {Answer("grammar", 0)} : Len(input) - p < Ceiling}
           \union {a \in {Answer("toolarge", LineOf(p))} : Len(input) - p >= Ceiling - 1}
    ELSE IF ItemEnd(p) > Len(input) THEN {Answer("grammar", 0)}
    ELSE {a \in {Answer("toolarge", 0)} : item > Limit}
Refusals(p) ==
    IF input[p] = "brace" THEN {a \in {Answer("toolarge", LineOf(p))} : TextEnd(p) - p + 1 > Limit}
    ELSE IF input[p] \in Heads THEN ItemRefusals(p, ItemLen[input[p]])
    ELSE {Answer("grammar", IF input[p] = "indefinite" THEN 0 ELSE LineOf(p))}

\* Where the record after the i-th is looked for, and where it begins.
Sought(i) == IF i = 0 THEN 1 ELSE NextOf(frames[i].first)
Mark(i) == FirstOf({q \in Sought(i)..Len(input) : input[q] \notin Spaces})

FramingTypeOK ==
    /\ fed \in 0..Len(input) /\ size \in 0..Ceiling
    /\ start \in 0..end /\ end \in 0..size /\ Held <= fed
    /\ phase \in {"next", "json", "cbor", "stopped"}
    /\ refusal.kind \in {"none", "end", "read", "toolarge", "grammar"}

\* recordScanner: the records, and the refusal that ends them, are those of the
\* bytes, however the reads cut them and whatever was moved or grown in between:
\* a record of exactly the limit is accepted, its terminator besides, one more
\* byte is refused, and a line number is the one an operator's editor shows.
\* recordBufferSlack, fill and the field lines are explained by it.  And the
\* buffer stays within the limit and its slack.
FramedAt(i) ==
    LET p == Mark(i - 1)
    IN  /\ p <= Len(input) /\ Refusals(p) = {}
        /\ frames[i] = [first |-> p, last |-> LastOf(p), line |-> IF input[p] = "brace" THEN LineOf(p) ELSE 0]
EndedAt(p) ==
    IF p > Len(input) THEN refusal = Stop("end", 0, 0)
    ELSE \E a \in Refusals(p) : refusal = Stop(a.kind, Number, a.line)
FramedAsWritten ==
    /\ size <= Ceiling
    /\ \A i \in DOMAIN frames : FramedAt(i)
    /\ refusal.kind \notin {"none", "read"} => EndedAt(Mark(Len(frames)))

\* What is said of a refusal's line, "a line number is reported unless the record
\* is known to be a CBOR one" (ingest.go, refuse), does not hold of an item
\* that is longer than the ceiling: fill names a line for it.
LinesAreOfText ==
    refusal.kind = "toolarge" /\ input[Mark(Len(frames))] \in Heads => refusal.line = 0
=============================================================================

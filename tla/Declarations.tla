---------------------------- MODULE Declarations ----------------------------
(***************************************************************************)
(* How a table comes to be declared, by a Go struct (schemamap.Declare) or *)
(* by a schema document (ParseSchemaDocument), and the descriptor that is  *)
(* kept of its shape beside the rows (canon/descriptor.go), from which a   *)
(* later process declares it again.                                        *)
(*                                                                         *)
(* A table's name is a sequence of characters, a shape the sequence of its *)
(* columns, and a descriptor a sequence of numbers: a 32-bit field and a   *)
(* byte are one each, a column's name one to a byte.                       *)
(***************************************************************************)
EXTENDS Integers, Sequences, SequencesExt

CONSTANTS
    Sources,         \* what may be declared: structs, and documents of tables
    NameChars,       \* the characters a name may be written with
    LegalChars,      \* lower-case letters and digits, among them
    MaxNameLength,
    MaxPrecision,    \* 18 in the code
    MaxFieldId       \* math.MaxInt32

ASSUME DeclarationsAssumption ==
    /\ LegalChars \subseteq NameChars /\ "_" \in NameChars \ LegalChars
    /\ {MaxNameLength, MaxPrecision, MaxFieldId} \subseteq Nat \ {0}

\* A column of a document, and a field of a struct.
DocumentFields ==
    [name : Seq(Nat), fieldid : Int, type : STRING, precision : Nat, scale : Nat, optional : BOOLEAN]
StructFields ==
    [name : Seq(Nat), arrowName : Seq(Nat), go : STRING, pointer : BOOLEAN, logical : STRING,
     precision : Nat, scale : Nat, id : Int, exported : BOOLEAN]
Stating(fields) == [namespace : Seq(NameChars), table : Seq(NameChars), fields : Seq(fields)]

\* An id fits its word; only a decimal is written with a precision and a scale;
\* and no struct gives two columns one name.
ASSUME SourcesAssumption ==
    \A s \in Sources :
        \/ /\ s.door = "document" /\ s.tables \in Seq(Stating(DocumentFields))
           /\ \A i \in DOMAIN s.tables : \A j \in DOMAIN s.tables[i].fields :
                LET f == s.tables[i].fields[j]
                IN  f.fieldid <= MaxFieldId /\ (f.type = "decimal" \/ (f.precision = 0 /\ f.scale = 0))
        \/ /\ s.door = "struct" /\ s.table \in Stating(StructFields)
           /\ LET f == s.table.fields
              IN  \A i, j \in DOMAIN f : i # j => f[i].name # f[j].name

VARIABLES
    source,   \* what is declared
    tables,   \* the tables declared, a name and a shape each
    refused,  \* the kind of the refusal, or "none"
    described, \* the shapes the writers are open with
    stored,   \* the descriptors persisted with the tables' rows
    reread    \* what a later process makes of them

declaring == <<source, tables, refused, described, stored, reread>>

(***************************************************************************)
(* Outcomes.                                                               *)
(***************************************************************************)
Accepted(x) == [why |-> "none", x |-> x]
RefusedAs(kind) == [why |-> kind, x |-> <<>>]

\* The refusal that comes first, in the order the parts are met.
FirstRefusal(parts) ==
    CHOOSE i \in DOMAIN parts : parts[i].why # "none" /\ \A j \in 1..i - 1 : parts[j].why = "none"
Every(parts) ==
    IF \E i \in DOMAIN parts : parts[i].why # "none" THEN RefusedAs(parts[FirstRefusal(parts)].why)
    ELSE Accepted([i \in DOMAIN parts |-> parts[i].x])

(***************************************************************************)
(* Names: ValidateName, and the mirror's TableName.                        *)
(***************************************************************************)
Separator == <<"_", "_">>
ValidateNameLeading(name) ==
    /\ Len(name) \in 1..MaxNameLength
    /\ \A i \in DOMAIN name : name[i] \in LegalChars \union {"_"}
ValidateName(name) ==
    /\ Len(name) \in 1..MaxNameLength
    /\ \A i \in DOMAIN name : name[i] \in LegalChars \/ (name[i] = "_" /\ i > 1)

HasSeparator(name) == \E i \in 1..Len(name) - 1 : name[i] = "_" /\ name[i + 1] = "_"
Mirrorable(t) == ~HasSeparator(t.namespace) /\ ~HasSeparator(t.table)
TableName(t) == t.namespace \o Separator \o t.table

(***************************************************************************)
(* Columns: an Iceberg field, with the precision and scale of a decimal.   *)
(***************************************************************************)
KindTag ==
    [boolean |-> 1, int |-> 2, long |-> 3, float |-> 4, double |-> 5,
     decimal |-> 6, timestamptz |-> 7, string |-> 8, binary |-> 9]
KindOf(tag) == CHOOSE k \in DOMAIN KindTag : KindTag[k] = tag

Field(id, name, kind, precision, scale, required) ==
    [id |-> id, name |-> name, kind |-> kind, precision |-> precision, scale |-> scale,
     required |-> required]

\* newDescriptor: what a shape must be to have a descriptor.
Describable(f) ==
    /\ f.id \in 1..MaxFieldId
    /\ f.name # <<>>
    /\ IF f.kind = "decimal" THEN f.precision \in 1..MaxPrecision /\ f.scale \in 0..f.precision
       ELSE f.precision = 0 /\ f.scale = 0
newDescriptor(shape) ==
    IF \A i \in DOMAIN shape : Describable(shape[i]) THEN Accepted(shape) ELSE RefusedAs("unsupported_type")

\* FromFields: the columns in the order of their ids, one to an id.
SortedById(shape) ==
    CHOOSE s \in [DOMAIN shape -> ToSet(shape)] : \A i, j \in DOMAIN s : i < j => s[i].id < s[j].id
FromFields(shape) ==
    IF \E i, j \in DOMAIN shape : i # j /\ shape[i].id = shape[j].id THEN RefusedAs("unsupported_type")
    ELSE newDescriptor(SortedById(shape))

(***************************************************************************)
(* Both doors build Parquet nodes, which the libraries turn into Arrow and *)
(* Iceberg columns.  A node is a column whose kind is the Arrow type it    *)
(* comes to; what the libraries refuse of a decimal newDescriptor refuses  *)
(* too.                                                                    *)
(***************************************************************************)
primitiveNode ==
    [boolean |-> "bool", int |-> "int32", long |-> "int64", float |-> "float32", double |-> "float64",
     decimal |-> "decimal", timestamptz |-> "timestamp_ms", string |-> "string", binary |-> "bytes"]
IcebergKind(arrow) ==
    IF arrow = "timestamp_us" THEN "timestamptz"
    ELSE CHOOSE k \in DOMAIN primitiveNode : primitiveNode[k] = arrow

Nested == {"struct"}

\* checkPreorderFieldIDs: the ids run from 1, in order.
PreorderIds(nodes) == \A i \in DOMAIN nodes : nodes[i].id = i

derive(nodes) ==
    IF nodes = <<>> THEN RefusedAs("no_fields")
    ELSE IF \E i \in DOMAIN nodes : nodes[i].kind \in Nested THEN RefusedAs("nested")
    ELSE IF ~PreorderIds(nodes) THEN RefusedAs("field_id")
    ELSE Accepted([i \in DOMAIN nodes |-> [nodes[i] EXCEPT !.kind = IcebergKind(@)]])

DeclareFields(t) ==
    IF ~ValidateName(t.namespace) \/ ~ValidateName(t.table) THEN RefusedAs("name")
    ELSE derive([i \in DOMAIN t.shape |-> [t.shape[i] EXCEPT !.kind = primitiveNode[@]]])

\* The way through the libraries, against the direct one.
crossCheckSpecs(shape, derived) == FromFields(shape) = derived
OpenDynamicWriter(t) ==
    LET decl == DeclareFields(t)
        derived == FromFields(decl.x)
    IN  IF decl.why # "none" THEN decl
        ELSE IF derived.why # "none" THEN derived
        ELSE IF ~crossCheckSpecs(t.shape, derived) THEN RefusedAs("cross_check")
        ELSE derived

(***************************************************************************)
(* The document: ParseSchemaDocument.                                      *)
(***************************************************************************)
ColumnType(f) ==
    IF f.type \notin DOMAIN KindTag THEN RefusedAs("unknown_type")
    ELSE IF f.type = "decimal" /\ (f.precision \notin 1..MaxPrecision \/ f.scale \notin 0..f.precision)
         THEN RefusedAs("decimal")
    ELSE Accepted(f.type)

DocumentField(fields, i) ==
    LET f == fields[i]
    IN  IF f.name = <<>> \/ \E j \in 1..i - 1 : fields[j].name = f.name THEN RefusedAs("duplicate_field")
        ELSE IF f.fieldid # i THEN RefusedAs("field_id")
        ELSE IF ColumnType(f).why # "none" THEN ColumnType(f)
        ELSE Accepted(Field(f.fieldid, f.name, f.type, f.precision, f.scale, ~f.optional))

newTableSchema(fields) ==
    IF fields = <<>> THEN RefusedAs("no_fields")
    ELSE Every([i \in DOMAIN fields |-> DocumentField(fields, i)])

\* One table of a document: its names, that no earlier one has both, its shape.
DocumentTable(doc, i) ==
    LET t == doc[i]
    IN  IF ~ValidateName(t.namespace) \/ ~ValidateName(t.table) THEN RefusedAs("name")
        ELSE IF \E j \in 1..i - 1 : doc[j].namespace = t.namespace /\ doc[j].table = t.table
             THEN RefusedAs("duplicate_table")
        ELSE IF newTableSchema(t.fields).why # "none" THEN newTableSchema(t.fields)
        ELSE Accepted([namespace |-> t.namespace, table |-> t.table, shape |-> newTableSchema(t.fields).x])

\* A document without a table is no error, and declares nothing.
ParseSchemaDocument(doc) == Every([i \in DOMAIN doc |-> DocumentTable(doc, i)])

(***************************************************************************)
(* The struct: Declare.  A field has its Go type, what its parquet tag     *)
(* says (name, logical type, id) and the name in its arrow tag.            *)
(***************************************************************************)
GoTypes == {"bool", "int32", "int64", "float32", "float64", "string", "bytes"}

TagNode(f) ==
    Field(f.id, f.name, IF f.logical = "none" THEN f.go ELSE f.logical, f.precision, f.scale, ~f.pointer)

\* adaptationFor: what a Go type may be declared as.
AdaptsAny(have, want) == have = want \/ have = "int64"
Adapts(have, want) == have = want \/ (have = "int64" /\ want \in {"timestamp_ms", "decimal"})

CrossChecked(f) == f.name = f.arrowName /\ Adapts(f.go, TagNode(f).kind)

Declare(t) ==
    LET fields == t.fields
        derived == derive([i \in DOMAIN fields |-> TagNode(fields[i])])
    IN  IF ~ValidateName(t.namespace) \/ ~ValidateName(t.table) THEN RefusedAs("name")
        ELSE IF \E i \in DOMAIN fields : ~fields[i].exported THEN RefusedAs("unexported_field")
        ELSE IF \E i \in DOMAIN fields : fields[i].go \notin GoTypes \union Nested THEN RefusedAs("go_type")
        ELSE IF derived.why # "none" THEN derived
        ELSE IF \E i \in DOMAIN fields : ~CrossChecked(fields[i]) THEN RefusedAs("cross_check")
        ELSE Accepted([namespace |-> t.namespace, table |-> t.table, shape |-> derived.x])

OpenWriter(t) == FromFields(t.shape)

(***************************************************************************)
(* The descriptor: encodeDescriptor, decodeDescriptor, ParseDescriptor.    *)
(***************************************************************************)
DescriptorVersion == 1

EncodeField(f) ==
    <<f.id, KindTag[f.kind], IF f.required THEN 1 ELSE 0>>
    \o (IF f.kind = "decimal" THEN <<f.precision, f.scale>> ELSE <<>>)
    \o <<Len(f.name)>> \o f.name
encodeDescriptor(shape) ==
    <<DescriptorVersion, Len(shape)>> \o FlattenSeq([i \in DOMAIN shape |-> EncodeField(shape[i])])

\* The cursor: what is left to read, the columns read, and whether one was
\* malformed.
Cursor(rest) == [rest |-> rest, fields |-> <<>>, bad |-> FALSE]
Damaged(c) == [c EXCEPT !.bad = TRUE]

WellFormedHead(c) ==
    /\ Len(c.rest) >= 3
    /\ c.rest[1] \in 1..MaxFieldId
    /\ c.fields # <<>> => c.rest[1] > Last(c.fields).id
    /\ \E k \in DOMAIN KindTag : KindTag[k] = c.rest[2]
    /\ c.rest[3] \in {0, 1}

DecodeField(c) ==
    LET kind == KindOf(c.rest[2])
        n == IF kind = "decimal" THEN 6 ELSE 4      \* where the name's length is
        from == n + 1
        to == n + c.rest[n]
    IN  IF c.bad \/ ~WellFormedHead(c) THEN Damaged(c)
        ELSE IF Len(c.rest) < n \/ Len(c.rest) < to THEN Damaged(c)
        ELSE [c EXCEPT
                !.rest = SubSeq(@, to + 1, Len(@)),
                !.fields = Append(@,
                    Field(c.rest[1], SubSeq(c.rest, from, to), kind,
                          IF kind = "decimal" THEN c.rest[4] ELSE 0,
                          IF kind = "decimal" THEN c.rest[5] ELSE 0,
                          c.rest[3] = 1))]

decodeDescriptor(b) ==
    IF Len(b) < 2 THEN Damaged(Cursor(b))
    ELSE IF b[1] # DescriptorVersion \/ b[2] = 0 \/ b[2] > Len(b) - 2 THEN Damaged(Cursor(b))
    ELSE LET read[i \in 0..b[2]] ==
                 IF i = 0 THEN Cursor(SubSeq(b, 3, Len(b))) ELSE DecodeField(read[i - 1])
         IN  read[b[2]]

ParseDescriptor(b) ==
    LET c == decodeDescriptor(b)
        d == newDescriptor(c.fields)
    IN  IF c.bad \/ c.rest # <<>> THEN RefusedAs("format")
        ELSE IF d.why # "none" THEN d
        ELSE IF encodeDescriptor(d.x) # b THEN RefusedAs("format")
        ELSE d

\* DeclareFromDescriptor, for the rows and the files of an older process.
DeclareFromDescriptor(t, b) ==
    LET d == ParseDescriptor(b)
    IN  IF d.why # "none" THEN d ELSE DeclareFields([t EXCEPT !.shape = d.x])

-----------------------------------------------------------------------------
Undeclared(s) ==
    /\ source = s
    /\ tables = <<>> /\ refused = "none" /\ described = <<>> /\ stored = <<>> /\ reread = <<>>

DeclarationsInit == \E s \in Sources : Undeclared(s)

Outcome == IF source.door = "document" THEN ParseSchemaDocument(source.tables) ELSE Every(<<Declare(source.table)>>)
Open(t) == IF source.door = "document" THEN OpenDynamicWriter(t) ELSE OpenWriter(t)

\* The tables are declared, or the first refusal ends it.
DeclareTables ==
    /\ tables = <<>> /\ refused = "none"
    /\ tables' = Outcome.x /\ refused' = Outcome.why
    /\ UNCHANGED <<source, described, stored, reread>>

\* The writers open, all of them or none.
OpenWriters ==
    LET open == Every([i \in DOMAIN tables |-> Open(tables[i])])
    IN  /\ tables # <<>> /\ described = <<>> /\ refused = "none"
        /\ refused' = open.why /\ described' = open.x
        /\ UNCHANGED <<source, tables, stored, reread>>

\* AppendBatch: a row is staged, and its shape's descriptor with it.
Stage ==
    /\ described # <<>> /\ stored = <<>>
    /\ stored' = [i \in DOMAIN described |-> encodeDescriptor(described[i])]
    /\ UNCHANGED <<source, tables, refused, described, reread>>

\* A later process finds rows of that shape.
Reopen ==
    /\ stored # <<>> /\ reread = <<>>
    /\ reread' = [i \in DOMAIN stored |-> DeclareFromDescriptor(tables[i], stored[i])]
    /\ UNCHANGED <<source, tables, refused, described, stored>>

DeclarationsNext == DeclareTables \/ OpenWriters \/ Stage \/ Reopen

DeclarationsSpec == DeclarationsInit /\ [][DeclarationsNext]_declaring

-----------------------------------------------------------------------------
(***************************************************************************)
(* Properties.                                                             *)
(***************************************************************************)
\* The one door's declaration in the other's terms.  A document has no word for
\* an Arrow type that no kind comes to.
Spelled(arrow) ==
    IF \E k \in DOMAIN primitiveNode : primitiveNode[k] = arrow THEN IcebergKind(arrow) ELSE arrow
Stated(t) ==
    [namespace |-> t.namespace, table |-> t.table,
     fields |-> [i \in DOMAIN t.fields |->
        LET f == TagNode(t.fields[i])
        IN  [name |-> f.name, type |-> Spelled(f.kind), fieldid |-> f.id, precision |-> f.precision,
             scale |-> f.scale, optional |-> ~f.required]]]
Structured(t) ==
    [namespace |-> t.namespace, table |-> t.table,
     fields |-> [i \in DOMAIN t.shape |->
        LET f == t.shape[i]
            arrow == primitiveNode[f.kind]
        IN  [name |-> f.name, arrowName |-> f.name, pointer |-> ~f.required,
             go |-> IF arrow \in GoTypes THEN arrow ELSE "int64",
             logical |-> IF arrow \in GoTypes THEN "none" ELSE arrow,
             precision |-> f.precision, scale |-> f.scale, id |-> f.id, exported |-> TRUE]]]

\* What one door declares and opens the other declares too, with the same
\* shape: "a table declared by a document and the same table declared by a
\* struct produce the same object names for the same records" (dynamic.go).
\* And a document that parses opens: "every refusal happens here, before any
\* table is touched" (ParseSchemaDocument).
DoorsDeclareAlike ==
    /\ source.door = "document" /\ tables # <<>> =>
          refused = "none" /\ \A i \in DOMAIN tables : Declare(Structured(tables[i])) = Accepted(tables[i])
    /\ source.door = "struct" /\ described # <<>> =>
          ParseSchemaDocument(<<Stated(source.table)>>) = Accepted(tables)

\* The descriptor kept beside the rows is read back, by whatever process comes
\* later, as the shape they were written in (canon/descriptor.go).
ShapeSurvives ==
    \A i \in DOMAIN reread : reread[i] = Accepted(tables[i].shape)

\* A table is declared alike by a document, by a struct, and by the descriptor
\* a later process finds.
DeclaredAlike == DoorsDeclareAlike /\ ShapeSurvives

\* Two tables never share a table of the mirror: neither the check on names nor
\* the refusal of the separator is enough alone (chmirror/ddl.go, TableName).
MirrorTablesApart ==
    \A i, j \in DOMAIN tables :
        i # j /\ Mirrorable(tables[i]) /\ Mirrorable(tables[j]) => TableName(tables[i]) # TableName(tables[j])

=============================================================================

------------------------------ MODULE MCMirror ------------------------------
(***************************************************************************)
(* Small instances of Mirror: the declarations a table goes through, the   *)
(* expiries, and the tables an operator made beforehand.                   *)
(***************************************************************************)
EXTENDS Mirror

Col(name, type, required) == [name |-> name, type |-> type, required |-> required]
at == Col("at", "timestamptz", TRUE)

First == <<at, Col("n", "int", FALSE)>>
Added == First \o <<Col("note", "string", FALSE)>>
Tightened == <<at, Col("n", "int", TRUE)>>
Renamed == <<at, Col("m", "int", FALSE)>>
KeyTaken == <<at, Col("_batch_key", "string", FALSE)>>

Expires(column) == [column |-> column, seconds |-> 60]
Deploy(d, t, local) == [decl |-> d, ttl |-> t, localOnly |-> local]

Deployed ==
    {Deploy(First, NoTTL, FALSE), Deploy(First, NoTTL, TRUE), Deploy(Added, Expires("at"), FALSE),
     Deploy(Tightened, NoTTL, FALSE), Deploy(First, Expires("n"), FALSE), Deploy(KeyTaken, NoTTL, FALSE)}
DeployedRenames == {Deploy(d, NoTTL, FALSE) : d \in {First, Renamed}}

\* A table of the operator's own: the declared columns, one more, no expiry.
Own(dedup) ==
    [columns |-> [n \in {"at", "n", "extra", "_batch_key"} |->
                     IF n = "at" THEN [base |-> "DateTime64", nullable |-> FALSE]
                     ELSE IF n = "n" THEN [base |-> "Int32", nullable |-> TRUE]
                     ELSE [base |-> "String", nullable |-> FALSE]],
     ttl |-> NoTTL, dedup |-> dedup, tokens |-> <<>>, rows |-> <<>>]
OwnWithWindow == {Own(TRUE)}
OwnWithout == {Own(FALSE)}

=============================================================================

---------------------------- MODULE MCEvolution ----------------------------
(***************************************************************************)
(* Small instances of Evolution: the declarations a table goes through.    *)
(***************************************************************************)
EXTENDS Evolution

Col(name, type, required) == [name |-> name, type |-> type, required |-> required]
id == Col("id", "int", TRUE)

First == <<id, Col("n", "int", FALSE)>>
Added == First \o <<Col("note", "string", FALSE)>>
RenamedAndAdded == <<Col("key", "int", TRUE), Col("n", "int", FALSE), Col("note", "string", FALSE)>>
RenamedAndWidened == <<id, Col("m", "long", FALSE)>>
Omitted == <<id>>
Tightened == <<id, Col("n", "int", TRUE)>>

FiveShapes == {First, RenamedAndAdded, RenamedAndWidened, Omitted, Tightened}
TwoShapes == {First, Added}
AddedThenTightened == {First, Added, Tightened}
Promotions == {<<"int", "long">>, <<"float", "double">>}

=============================================================================

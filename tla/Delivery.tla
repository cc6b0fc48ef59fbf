------------------------------ MODULE Delivery ------------------------------
(***************************************************************************)
(* What icelake promises about one table, with no mechanism in it.  An     *)
(* accepted record is pending until it is delivered, in a batch of records *)
(* that reaches the table whole and once, or until its batch turns out not *)
(* to be encodable and is set aside for an operator.  A pending record     *)
(* never just disappears, and a delivered or set aside one never comes     *)
(* back.                                                                   *)
(*                                                                         *)
(* FlushPath is shown to implement this specification.                     *)
(***************************************************************************)
EXTENDS Naturals, Sequences

CONSTANT Record    \* every record the caller may ever hand over

VARIABLES
    pending,       \* records accepted, and neither delivered nor set aside
    table,         \* the batches of the table, in the order they appeared
    setAside       \* records of quarantined batches

deliveryVars == <<pending, table, setAside>>

Contents == UNION {table[i] : i \in DOMAIN table}

Init ==
    /\ pending = {}
    /\ table = <<>>
    /\ setAside = {}

Accept(S) ==
    /\ S \cap (pending \cup Contents \cup setAside) = {}
    /\ pending' = pending \cup S
    /\ UNCHANGED <<table, setAside>>

Deliver(S) ==
    /\ S \subseteq pending
    /\ pending' = pending \ S
    /\ table' = Append(table, S)
    /\ UNCHANGED setAside

SetAside(S) ==
    /\ S \subseteq pending
    /\ pending' = pending \ S
    /\ setAside' = setAside \cup S
    /\ UNCHANGED table

Next ==
    \E S \in (SUBSET Record) \ {{}} : Accept(S) \/ Deliver(S) \/ SetAside(S)

Spec == Init /\ [][Next]_deliveryVars

=============================================================================

---------------------------- MODULE MCFlushPath ----------------------------
(***************************************************************************)
(* Small instances of FlushPath: each record with an encoding of its own,  *)
(* or all records encoding alike, which is a caller repeating a record.    *)
(***************************************************************************)
EXTENDS FlushPath

CONSTANT Repeats   \* do the caller's records encode alike

MCPayload == [r \in 1..4 |-> IF Repeats THEN 0 ELSE r]

=============================================================================

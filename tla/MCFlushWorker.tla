--------------------------- MODULE MCFlushWorker ---------------------------
(***************************************************************************)
(* Small instances of FlushWorker, with its calls as model values.         *)
(***************************************************************************)
EXTENDS FlushWorker, TLC

CONSTANTS f1, f2, c1, c2

OneFlusher == {f1}
TwoFlushers == {f1, f2}
OneCloser == {c1}
TwoClosers == {c1, c2}
NoCalls == {}

ClosersAlike == Permutations(TwoClosers)

=============================================================================

--------------------------- MODULE MCCustomMusic ---------------------------
(* An instance of CustomMusic for TLC. *)
EXTENDS CustomMusic, SequencesExt

MCSongs == 1 .. 3
MCSorted == [S \in SUBSET MCSongs |-> SetToSortSeq(S, <)]
MCOwn == <<101, 102>>
=============================================================================

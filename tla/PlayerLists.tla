---------------------------- MODULE PlayerLists ----------------------------
(***************************************************************************)
(* What the lobby server does with its lists and maps: std::erase of       *)
(* std::remove on a game's players, and the entries of connections_,       *)
(* games_ and remote_games_.                                               *)
(***************************************************************************)
EXTENDS Naturals, Sequences, SequencesExt, FiniteSetsExt, Folds

\* What is left of a list when only what is in S is kept.
Only(list, S) == FoldLeft(LAMBDA kept, x : IF x \in S THEN Append(kept, x) ELSE kept, <<>>, list)

\* A map with an entry put in, and with one erased.
With(f, x, entry) == [y \in DOMAIN f \cup {x} |-> IF y = x THEN entry ELSE f[y]]
Without(f, x) == [y \in DOMAIN f \ {x} |-> f[y]]
=============================================================================

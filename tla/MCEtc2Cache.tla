---------------------------- MODULE MCEtc2Cache ----------------------------
(* Small instances of Etc2Cache. *)
EXTENDS Etc2Cache, TLC

\* Two small textures that fit together and one larger than the memory.
Sizes == [k \in Keys |-> CASE k = "car" -> 1 [] k = "road" -> 2 [] k = "sky" -> 4]
Titles == <<"car", "road">>
ShortTitle == <<"car">>

WriterSymmetry == Permutations(Writers)
=============================================================================

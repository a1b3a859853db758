----------------------------- MODULE MCFederation -----------------------------
(* Small instances of Federation. *)
EXTENDS Federation, TLC

CONSTANTS a1, a2, b1

HomeAndHost == {"A", "B"}
WhereTheyAre == a1 :> "A" @@ a2 :> "A" @@ b1 :> "B"
TheirIds == a1 :> 1 @@ a2 :> 2 @@ b1 :> 1
=============================================================================

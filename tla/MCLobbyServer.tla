--------------------------- MODULE MCLobbyServer ---------------------------
(* Small instances of LobbyServer. *)
EXTENDS LobbyServer, TLC

PersonaSymmetry == Permutations(Personas)
=============================================================================

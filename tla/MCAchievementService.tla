------------------------ MODULE MCAchievementService ------------------------
(* A saved account, and another one that a player signs in with. *)
EXTENDS AchievementService
=============================================================================

--------------------------- MODULE MCBadgeCache ---------------------------
(* Small instances of BadgeCache for TLC. *)
EXTENDS BadgeCache
CONSTANTS b1, b2
=============================================================================

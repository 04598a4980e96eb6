--------------------------- MODULE MCSavingThread ---------------------------
(* Two images, both builds. *)
EXTENDS SavingThread
=============================================================================

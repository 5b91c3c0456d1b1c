--------------------------- MODULE MCStrongNoFree ---------------------------
(* MSQueueStrongNoFree for TLC.                                            *)
EXTENDS MSQueueStrongNoFree
=============================================================================

--------------------------- MODULE MCSmokeSession ---------------------------
(* The instances only give values to constants.                            *)
EXTENDS SmokeSession
=============================================================================

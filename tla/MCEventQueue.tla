---------------------------- MODULE MCEventQueue ----------------------------
(* The smallest word that fits head + count, so that the index arithmetic  *)
(* is exercised right up to its wrap.                                      *)
EXTENDS EventQueue

MCEvent == {"bytes", "fin", "ready"}
=============================================================================

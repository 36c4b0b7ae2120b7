---------------------------- MODULE MCShellSmokes ---------------------------
(* Two byte values; a message is a header of two bytes, or a header and a  *)
(* question of one.                                                        *)
EXTENDS ShellSmokes

MCStreamId == 0 .. 3
MCValidQuestion == {<<0, 0, 1>>}
=============================================================================

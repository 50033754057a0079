---------------------------- MODULE MCUniqueQueue ----------------------------
(* Small instances of UniqueQueue for TLC.                                 *)
EXTENDS UniqueQueue

=============================================================================

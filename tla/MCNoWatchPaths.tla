----------------------------- MODULE MCNoWatchPaths -----------------------------
EXTENDS NoWatchPaths

(* 1 is a working copy with the folders 2 and 3 (2 may be a nested working *)
(* copy); 4 is any other directory and 5 a special folder.                 *)
MCDirs == 1..5
MCParent == <<0, 1, 1, 0, 0>>
MCWCDirs == {1, 2}
=============================================================================

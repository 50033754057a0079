-------------------------- MODULE MCDirectoryWatcher --------------------------
EXTENDS DirectoryWatcher

(* 1 is the drive C:\, 2 the working copy C:\a with the folder 3 (C:\a\x),  *)
(* 4 another working copy, C:\ab.                                           *)
MCDirs == 1..4
MCParent == <<0, 1, 2, 1>>
MCContinues == {<<2, 4>>}
=============================================================================

--------------------------- MODULE MCDirectoryCache ---------------------------
EXTENDS DirectoryCache

(* 1 is C:\w with 2, C:\w\a, and 3, C:\w\a.b; 4 is C:\w\a\x, which comes    *)
(* after 3 in the map.                                                      *)
MCDirs == 1..4
MCParent == <<0, 1, 1, 2>>
MCSaved == {{2, 3, 4}}
MCExclusions == {{}, {2, 3}}
=============================================================================

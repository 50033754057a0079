---------------------------- MODULE MCFolderCrawler ----------------------------
EXTENDS FolderCrawler

(* A working copy 1 with its wc.db 2, the folder 3 with the file 4, and    *)
(* the unversioned 5.                                                      *)
MCParent == <<0, 1, 1, 3, 1>>
MCKind == <<"dir", "wcdb", "dir", "file", "other">>
=============================================================================

------------------------- MODULE MCReaderWriterLock -------------------------
(* Small instances of ReaderWriterLock for TLC.  Liveness is checked in    *)
(* the same run as safety, so the threads are not taken as symmetric.      *)
EXTENDS ReaderWriterLock

=============================================================================

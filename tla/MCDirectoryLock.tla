--------------------------- MODULE MCDirectoryLock ---------------------------
(* Small instances of DirectoryLock. *)
EXTENDS DirectoryLock
=============================================================================

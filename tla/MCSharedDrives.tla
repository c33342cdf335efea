--------------------------- MODULE MCSharedDrives ---------------------------
(* Two slots and a few files and directories for TLC. *)
EXTENDS SharedDrives
=============================================================================

--------------------------- MODULE MCDownloadPipe ---------------------------
(* Instances of DownloadPipe for TLC; the constants are set in the .cfg files. *)
EXTENDS DownloadPipe

=============================================================================

------------------------ MODULE MCDownloadTracking ------------------------
(* TLC instances of DownloadTracking: short windows, both kinds of grab. *)
EXTENDS DownloadTracking
=============================================================================

-------------------------- MODULE MCDownloadLeases --------------------------
(* Instances of DownloadLeases.                                              *)
EXTENDS DownloadLeases

CONSTANTS p1, p2
=============================================================================

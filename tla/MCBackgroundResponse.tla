------------------------ MODULE MCBackgroundResponse ------------------------
(* Instances of BackgroundResponse.                                          *)
EXTENDS BackgroundResponse

CONSTANTS t1, t2
=============================================================================

--------------------------- MODULE MCResponseLog ----------------------------
(* Instances of ResponseLog.                                                 *)
EXTENDS ResponseLog

\* The third of four: it can fork, and be continued.
Third == {3}
=============================================================================

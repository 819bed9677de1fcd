----------------------------------- MODULE MCAuth ------------------------------------
(* Instances of Auth for TLC.                                                         *)
EXTENDS Auth

TwoPins == {"1234", "4321"}
=======================================================================================

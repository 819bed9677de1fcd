----------------------------------- MODULE MCLine ------------------------------------
(* Instances of Line for TLC.                                                         *)
EXTENDS Line

Kinds   == {"coils", "registers", "more"}
Codes   == [coils |-> 1, registers |-> 3, more |-> 3]
Lengths == [coils |-> 3, registers |-> 3, more |-> 4]
=======================================================================================

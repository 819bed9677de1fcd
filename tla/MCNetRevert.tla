--------------------------------- MODULE MCNetRevert ---------------------------------
(* Instances of NetRevert for TLC.                                                    *)
EXTENDS NetRevert, TLC

=======================================================================================

---------------------------------- MODULE MCGateway ----------------------------------
(* Instances of Gateway for TLC: two machines, of which one or both may be allowed.   *)
EXTENDS Gateway, TLC

CONSTANTS homey, laptop

OnOff == {[enabled |-> FALSE, allow |-> {homey}],
          [enabled |-> TRUE, allow |-> {homey}],
          [enabled |-> TRUE, allow |-> {homey, laptop}]}

=======================================================================================

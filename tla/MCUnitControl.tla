--------------------------------- MODULE MCUnitControl ---------------------------------
(* Instances of UnitControl for TLC: one timed mode and one that is not, and a few     *)
(* choices of what may be pressed.                                                     *)
EXTENDS UnitControl, TLC

TwoModes == <<"overpressure", "away">>
Buttons  == [kind : {"mode"}, want : {"normal", "away", "overpressure"}]
Sauna    == [kind : {"timed"}, minutes : {2}]
Setting  == [kind : {"setting"}, minutes : {1}]
Few == {[kind |-> "mode", want |-> "away"], [kind |-> "timed", minutes |-> 2]}
Everything == Buttons \cup Sauna \cup Setting
Alike == Permutations(Requests)

=========================================================================================

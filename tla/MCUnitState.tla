---------------------------------- MODULE MCUnitState ----------------------------------
(* Instances of UnitState and UnitPages for TLC.  The pages, the verdict on the line    *)
(* and the count of the timed modes share no variable, so they are explored one beside  *)
(* the other: in a behaviour only one of them moves.                                    *)
EXTENDS UnitState, UnitPages

VARIABLE part

Durations == [overpressure |-> 2, boost |-> 1]

(* The registers around every boundary between two blocks, all holding something.       *)
Around == 53..57 \cup {66, 135, 140, 141, 164} \cup 210..221 \cup 318..351 \cup 374..398 \cup {538, 710}
Filled == [a \in Around |-> IF a = 57 THEN 9 ELSE 1 + ((a * 5) % 12)]

AWeek(i, from, to, f) ==
    [index |-> i, days |-> 65, startHour |-> from, startMin |-> 59, stopHour |-> to,
     stopMin |-> 0, function |-> f]
TwoWeeks == {AWeek(0, 23, 0, 16), AWeek(19, 6, 18, 100), AWeek(20, 6, 18, 1)}

Eve(y) == [day |-> 31, month |-> 12, year |-> y, hour |-> 23, min |-> 59]
AYear(i, from, to) == [index |-> i, start |-> Eve(from), stop |-> Eve(to), function |-> 5]
TwoYears == {AYear(0, 2006, 2024), AYear(4, 2024, 2100), AYear(5, 2024, 2025)}

FirstAndLast == {0, 4}
SomeSettings ==
    {<<"cooling_block_below", -300>>, <<"cooling_block_below", 5>>, <<"overpressure_minutes", 155>>, <<"service_interval_days", 9990>>,
     <<"setpoint_min", 300>>, <<"setpoint_max", 100>>, <<"setpoint_max", 310>>}
TwoSetpoints == {2125, 2900}
Day(d, m, y) == [year |-> y, month |-> m, day |-> d, hour |-> 23, min |-> 59, sec |-> 59]
LeapDays == {Day(29, 2, 2028), Day(31, 12, 2099)}
FewLadders == {-32768, -1, 99, 100, 101, 32767}

Others == <<pageVars, part>>
MCInit ==
    /\ StateInit
    /\ \/ part = "pages" /\ PagesInit /\ rate = "healthy" /\ snapMode = "normal"
       \/ part = "link" /\ snapMode = "normal" /\ map = <<>> /\ clock = "right" /\ saved = <<>> /\ saves = 0
       \/ part = "timed" /\ rate = "healthy" /\ map = <<>> /\ clock = "right" /\ saved = <<>> /\ saves = 0
MCNext ==
    \/ part = "link" /\ StateNext /\ snapMode' = "normal" /\ UNCHANGED Others
    \/ part = "timed" /\ StateNext /\ rate' = "healthy" /\ UNCHANGED Others
    \/ part = "pages" /\ PagesNext /\ UNCHANGED <<stateVars, part>>
MCSpec == MCInit /\ [][MCNext]_<<stateVars, Others>> /\ StateFairness

=========================================================================================

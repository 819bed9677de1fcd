------------------------------------- MODULE MCBox -------------------------------------
(* Instances of UnitClock, Power, Reboot, SshDoor and WifiRevert for TLC.  What the box *)
(* does about the clock of the unit, its own supply, a restart, the port for ssh and    *)
(* its wifi network shares no variable, so they are explored one beside the other: in a *)
(* behaviour only one of them moves.                                                    *)
EXTENDS UnitClock, Power, Reboot, SshDoor, WifiRevert

VARIABLE part

RightAndTwoWrong == {-1, 0, 1}
EarlyAndLast == {0, 8, 10}
KnownHere == {"home", "odd"}
AcceptedNames == {"home", "wrong"}

MCInit ==
    /\ part \in {"clock", "power", "reboot", "door", "wifi"}
    /\ ClockInit /\ PowerInit /\ RebootInit /\ DoorInit /\ WifiInit
    /\ part # "clock" => box = 0 /\ unit = 0 /\ obeys
    /\ part # "reboot" => hour = 0 /\ ~required /\ policy = [auto |-> FALSE, at |-> 0]
    /\ part # "door" => lasting = "open"
    /\ part # "wifi" => air = "home"

MCNext ==
    \/ part = "clock" /\ ClockNext /\ UNCHANGED <<powerVars, rebootVars, doorVars, wifiVars, part>>
    \/ part = "power" /\ PowerNext /\ UNCHANGED <<clockVars, rebootVars, doorVars, wifiVars, part>>
    \/ part = "reboot" /\ RebootNext /\ UNCHANGED <<clockVars, powerVars, doorVars, wifiVars, part>>
    \/ part = "door" /\ DoorNext /\ UNCHANGED <<clockVars, powerVars, rebootVars, wifiVars, part>>
    \/ part = "wifi" /\ WifiNext /\ UNCHANGED <<clockVars, powerVars, rebootVars, doorVars, part>>

MCSpec ==
    /\ MCInit /\ [][MCNext]_<<clockVars, powerVars, rebootVars, doorVars, wifiVars, part>>
    /\ ClockFairness
=========================================================================================

----------------------------------- MODULE WifiRevert -----------------------------------
(***************************************************************************************)
(* Another wifi network with a way back (packaging/freeway-helper: wifi-connect,        *)
(* wifi-revert, wifi-forget, confirm, pending; packaging/freeway-unwind at boot;        *)
(* internal/netconf/wifi.go and internal/web/wifi.go in front).                         *)
(* A network is its profile's name.  One command of the scripts is one step.  One       *)
(* helper joins at a time, which may be while an earlier network is unconfirmed or its  *)
(* revert runs; Unhurried is the hypothesis that nobody asks for that.                  *)
(*                                                                                     *)
(* NetworkManager is taken to do anything its answers leave open: a join that fails may *)
(* have left the old network and may leave a profile behind, and a radio that is on no  *)
(* network finds any it has a profile for.                                              *)
(***************************************************************************************)
EXTENDS Integers

CONSTANTS Networks,
          Reached,    \* on which somebody reaches the box
          Valid,      \* whose profiles have names the helper's check accepts (valid_ssid)
          NoNetwork,
          Unhurried,  \* nobody asks for anything on top of what is under way or unconfirmed
          MaxOutages  \* bound: power cuts

ASSUME WifiAssumption ==
    /\ Reached \subseteq Networks /\ Valid \subseteq Networks
    /\ NoNetwork \notin Networks /\ MaxOutages \in Nat
    /\ Unhurried \in BOOLEAN

VARIABLES
    known,   \* profiles NetworkManager has
    air,     \* the network the radio is on
    before,  \* WIFI_SAVED: the old network, the new one, and whether its profile existed
    alarm,   \* freeway-wifirevert.timer: "off", "armed", "running"
    join,    \* the helper that joins: where it is, for what, and what it found
    undo,    \* the revert, the timer's or freeway-unwind's, and what it read
    halted,  \* a revert has stopped short and left the file
    confirm, \* where a confirmation is
    started, \* freeway-unwind has run and the daemon is up
    outages,
    kept     \* networks somebody chose: asked for while the box was on none, or confirmed

wifiVars == <<known, air, before, alarm, join, undo, halted, confirm, started, outages, kept>>

NoFile == [conn |-> NoNetwork, new |-> NoNetwork, existed |-> FALSE]
NoJoin == [at |-> "idle", new |-> NoNetwork, old |-> NoNetwork, existed |-> FALSE]
NoUndo == [at |-> "no", file |-> NoFile]

WifiPending == alarm # "off"
WifiQuiet == ~WifiPending /\ join = NoJoin /\ undo = NoUndo /\ confirm = "no"

WifiInit ==
    /\ air \in Reached /\ known = {air} /\ kept = {air}
    /\ before = NoFile /\ alarm = "off"
    /\ join = NoJoin /\ undo = NoUndo /\ halted = FALSE /\ confirm = "no"
    /\ started = TRUE /\ outages = 0

----------------------------------------------------------------------------------------
(* op=wifi-connect                                                                      *)

JoinGoes(at) == join' = [join EXCEPT !.at = at]

JoinEnds == join' = NoJoin

(* By somebody on the network or by cable.                                              *)
AskJoin(n) ==
    /\ started /\ join = NoJoin /\ n \in Valid
    /\ Unhurried => WifiQuiet /\ known \subseteq kept
    /\ join' = [NoJoin EXCEPT !.at = "look", !.new = n]
    /\ UNCHANGED <<known, air, before, alarm, undo, halted, confirm, started, outages, kept>>

(* OLD_WIFI and EXISTED.  A box that is on no network has none to lose, and what it is  *)
(* told to join is kept.                                                                *)
LookRound ==
    /\ join.at = "look"
    /\ join' = [join EXCEPT !.old = air, !.existed = join.new \in known,
                            !.at = IF air = NoNetwork THEN "connect" ELSE "save"]
    /\ kept' = IF air = NoNetwork THEN kept \cup {join.new} ELSE kept
    /\ UNCHANGED <<known, air, before, alarm, undo, halted, confirm, started, outages>>

SaveWifi ==
    /\ join.at = "save"
    /\ before' = [conn |-> join.old, new |-> join.new, existed |-> join.existed]
    /\ halted' = FALSE /\ JoinGoes("rearm")
    /\ UNCHANGED <<known, air, alarm, undo, confirm, started, outages, kept>>

StopAlarm ==
    /\ join.at = "rearm"
    /\ alarm' = "off" /\ JoinGoes("arm")
    /\ UNCHANGED <<known, air, before, undo, halted, confirm, started, outages, kept>>

ArmAlarm ==
    /\ join.at = "arm"
    /\ alarm' = "armed" /\ JoinGoes("connect")
    /\ UNCHANGED <<known, air, before, undo, halted, confirm, started, outages, kept>>

Joined(n) == air' = n /\ known' = known \cup {n}
NotJoined(n) == air' \in {air, NoNetwork} /\ known' \in {known, known \cup {n}}

Connect ==
    /\ join.at = "connect"
    /\ \/ Joined(join.new) /\ JoinEnds
       \/ NotJoined(join.new) /\ JoinGoes("clean")
    /\ UNCHANGED <<before, alarm, undo, halted, confirm, started, outages, kept>>

Deleted(n) == n \in known /\ known' = known \ {n}

(* "[ $EXISTED = 0 ] && nmcli connection delete": a deletion that fails ends the script *)
(* here (set -e), with timer and file in place.                                         *)
CleanUp ==
    /\ join.at = "clean"
    /\ \/ join.existed /\ JoinGoes("disarm") /\ UNCHANGED known
       \/ ~join.existed /\ Deleted(join.new) /\ JoinGoes("disarm")
       \/ ~join.existed /\ JoinEnds /\ UNCHANGED known
    /\ UNCHANGED <<air, before, alarm, undo, halted, confirm, started, outages, kept>>

DisarmJoin ==
    /\ join.at = "disarm"
    /\ alarm' = "off" /\ JoinGoes("forget")
    /\ UNCHANGED <<known, air, before, undo, halted, confirm, started, outages, kept>>

ForgetJoin ==
    /\ join.at = "forget"
    /\ before' = NoFile /\ halted' = FALSE /\ JoinEnds
    /\ UNCHANGED <<known, air, alarm, undo, confirm, started, outages, kept>>

(* A command fails, or systemd ends a helper that takes too long; NetworkManager goes   *)
(* on with what it was told.                                                            *)
JoinDies ==
    /\ join.at \in {"look", "save", "rearm", "arm", "connect"}
    /\ IF join.at = "connect" THEN Joined(join.new) \/ NotJoined(join.new)
       ELSE UNCHANGED <<air, known>>
    /\ JoinEnds
    /\ UNCHANGED <<before, alarm, undo, halted, confirm, started, outages, kept>>

----------------------------------------------------------------------------------------
(* op=confirm and op=wifi-forget                                                        *)

(* From a browser that reaches the box: the networks it knows now are the ones to keep. *)
AskWifiConfirm ==
    /\ started /\ confirm = "no" /\ air \in Reached
    /\ Unhurried => join = NoJoin
    /\ confirm' = "disarm" /\ kept' = kept \cup known
    /\ UNCHANGED <<known, air, before, alarm, join, undo, halted, started, outages>>

DisarmConfirm ==
    /\ confirm = "disarm"
    /\ alarm' = "off" /\ confirm' = "forget"
    /\ UNCHANGED <<known, air, before, join, undo, halted, started, outages, kept>>

ForgetConfirm ==
    /\ confirm = "forget"
    /\ before' = NoFile /\ halted' = FALSE /\ confirm' = "no"
    /\ UNCHANGED <<known, air, alarm, join, undo, started, outages, kept>>

ForgetNetwork(n) ==
    /\ started /\ n \in known \cap Valid
    /\ Unhurried => WifiQuiet
    /\ known' = known \ {n}
    /\ air' = IF air = n THEN NoNetwork ELSE air
    /\ UNCHANGED <<before, alarm, join, undo, halted, confirm, started, outages, kept>>

----------------------------------------------------------------------------------------
(* op=wifi-revert                                                                       *)

UndoGoes(at) == undo' = [undo EXCEPT !.at = at] /\ UNCHANGED <<alarm, halted>>
UndoEnds == undo' = NoUndo /\ alarm' = IF alarm = "running" THEN "off" ELSE alarm

(* The script ends where it is; what it was to undo is left to the next boot.           *)
UndoHalts == UndoEnds /\ halted' = (before # NoFile)

(* 90 s after it was armed, which is longer than the helper that armed it lives.        *)
AlarmGoesOff ==
    /\ alarm = "armed" /\ started
    /\ join.old = NoNetwork \/ join.at \in {"save", "rearm"}
    /\ alarm' = "running"
    /\ undo' = [NoUndo EXCEPT !.at = "read"]
    /\ UNCHANGED <<known, air, before, join, halted, confirm, started, outages, kept>>

(* OLD_WIFI went into the file as NetworkManager names the profile, and is only looked  *)
(* at here.                                                                             *)
ReadBefore ==
    /\ undo.at = "read"
    /\ \/ before = NoFile /\ UndoEnds /\ UNCHANGED halted
       \/ before.conn \in Valid /\ undo' = [at |-> "down", file |-> before] /\ UNCHANGED <<alarm, halted>>
       \/ before.conn \in Networks \ Valid /\ UndoHalts
    /\ UNCHANGED <<known, air, before, join, confirm, started, outages, kept>>

TakeDown ==
    /\ undo.at = "down"
    /\ air' = IF air = undo.file.new THEN NoNetwork ELSE air
    /\ UndoGoes("delete")
    /\ UNCHANGED <<known, before, join, confirm, started, outages, kept>>

(* Here too a deletion that fails ends the script, before the old network is back up.   *)
DeleteNew ==
    /\ undo.at = "delete"
    /\ \/ undo.file.existed /\ UndoGoes("up") /\ UNCHANGED known
       \/ ~undo.file.existed /\ Deleted(undo.file.new) /\ UndoGoes("up")
       \/ ~undo.file.existed /\ UndoHalts /\ UNCHANGED known
    /\ air' = IF air \in known' THEN air ELSE NoNetwork
    /\ UNCHANGED <<before, join, confirm, started, outages, kept>>

BringOldUp ==
    /\ undo.at = "up"
    /\ air' \in ({undo.file.conn} \cap known) \cup {air, NoNetwork}
    /\ UndoGoes("forget")
    /\ UNCHANGED <<known, before, join, confirm, started, outages, kept>>

ForgetUndone ==
    /\ undo.at = "forget"
    /\ before' = NoFile /\ halted' = FALSE /\ UndoEnds
    /\ UNCHANGED <<known, air, join, confirm, started, outages, kept>>

----------------------------------------------------------------------------------------
(* The radio, NetworkManager and the power                                              *)

OutOfReach ==
    /\ air # NoNetwork /\ air' = NoNetwork
    /\ UNCHANGED <<known, before, alarm, join, undo, halted, confirm, started, outages, kept>>

FindsNetwork ==
    /\ air = NoNetwork /\ join = NoJoin /\ air' \in known
    /\ UNCHANGED <<known, before, alarm, join, undo, halted, confirm, started, outages, kept>>

(* Mutant: nothing looks for the file at boot.                                          *)
OutageNoUnwind ==
    /\ outages < MaxOutages /\ outages' = outages + 1
    /\ air' \in known \cup {NoNetwork}
    /\ alarm' = "off" /\ join' = NoJoin /\ confirm' = "no"
    /\ undo' = NoUndo
    /\ started' = FALSE
    /\ UNCHANGED <<known, before, halted, kept>>

(* Files and profiles stay; freeway-unwind undoes what nobody confirmed.                *)
Outage ==
    /\ outages < MaxOutages /\ outages' = outages + 1
    /\ air' \in known \cup {NoNetwork}
    /\ alarm' = "off" /\ join' = NoJoin /\ confirm' = "no"
    /\ undo' = IF before = NoFile THEN NoUndo ELSE [NoUndo EXCEPT !.at = "read"]
    /\ started' = FALSE
    /\ UNCHANGED <<known, before, halted, kept>>

Unwound ==
    /\ ~started /\ undo = NoUndo
    /\ started' = TRUE
    /\ UNCHANGED <<known, air, before, alarm, join, undo, halted, confirm, outages, kept>>

Joining ==
    \/ LookRound \/ SaveWifi \/ StopAlarm \/ ArmAlarm
    \/ Connect \/ CleanUp \/ DisarmJoin \/ ForgetJoin
Undoing == ReadBefore \/ TakeDown \/ DeleteNew \/ BringOldUp \/ ForgetUndone

WifiNext ==
    \/ \E n \in Networks : AskJoin(n)
    \/ Joining \/ JoinDies
    \/ AskWifiConfirm \/ DisarmConfirm \/ ForgetConfirm
    \/ \E n \in Networks : ForgetNetwork(n)
    \/ AlarmGoesOff \/ Undoing
    \/ OutOfReach \/ FindsNetwork \/ Outage \/ Unwound

WifiSpec == WifiInit /\ [][WifiNext]_wifiVars

----------------------------------------------------------------------------------------
(* "Only a box that is on wifi can be lost by changing wifi", and "a box in a cupboard    *)
(* with no way back" is what must not be (freeway-helper:415-417): a box that has left   *)
(* its network for one nobody has been seen on can still go back, and something is about *)
(* to make it -- through joins and reverts that fail half way, confirmations and power    *)
(* cuts; unless a revert has tried and stopped short, which leaves the file to the next  *)
(* boot.                                                                                 *)
AirHasWayBack ==
    air \notin kept \cup {NoNetwork} =>
        /\ before.new = air /\ before.conn \in kept
        /\ WifiPending \/ undo # NoUndo \/ join # NoJoin \/ ~started \/ halted

(* "A box that becomes unreachable comes back by itself" (freeway-unwind:4-6), without   *)
(* the exception.                                                                        *)
AirAlwaysHasWayBack ==
    air \notin kept \cup {NoNetwork} =>
        WifiPending \/ undo # NoUndo \/ join # NoJoin \/ ~started
=========================================================================================

---------------------------------- MODULE NetRevert ----------------------------------
(*************************************************************************************)
(* Changing the box's address with a way back (packaging/freeway-helper: apply,       *)
(* confirm, revert, pending; packaging/freeway-unwind at boot; internal/netconf and   *)
(* internal/web/network.go in front of them).  The helper is one process per request  *)
(* and the revert a transient timer's service: nothing keeps them apart but what each *)
(* does to the saved file and the timer, one command at a time.                       *)
(*                                                                                    *)
(* The daemon asks for 90 s (NetworkRevertAfter) and systemd ends a helper process    *)
(* after 60 s, so no timer fires under the process that armed it.                     *)
(*************************************************************************************)
EXTENDS Integers, FiniteSets

CONSTANTS Settings, \* what the connection may be set to
          Good,     \* the settings with which somebody can reach the box
          Plain,    \* the settings whose values the helper's checks accept
          NoLink,   \* the connection is down
          Nothing,  \* no saved file
          Calls,    \* helper processes at once
          Patient,  \* nobody asks for a change before the last has ended and is confirmed
                    \* or put back
          MaxCuts   \* bound: power cuts

ASSUME NetRevertAssumption ==
    /\ Good \subseteq Settings /\ Plain \subseteq Settings
    /\ NoLink \notin Settings /\ Nothing \notin Settings
    /\ Patient \in BOOLEAN
    /\ MaxCuts \in Nat

VARIABLES
    profile,    \* the connection as NetworkManager keeps it
    live,       \* what the interface is using
    saved,      \* SAVED, the file network-before
    timer,      \* freeway-netrevert.timer
    reverting,  \* where a revert is, the timer's or freeway-unwind's
    taken,      \* what it read from the file
    short,      \* a revert has stopped short of putting the file's settings back
    call,       \* where each helper process is
    wanted,     \* what it is to apply
    remembered, \* what it found before
    bringUp,    \* a backgrounded "nmcli connection up" is under way
    phase,      \* the box is starting, or up
    cuts,       \* power cuts so far
    proven      \* settings somebody has reached the box on and confirmed

netVars  == <<profile, live>>
fileVars == <<saved, timer>>
revVars  == <<reverting, taken, short>>
callVars == <<call, wanted, remembered>>
bootVars == <<phase, cuts>>
vars == <<netVars, fileVars, revVars, callVars, bringUp, bootVars, proven>>

(* What the box uses at first may have been set by hand, with values of any kind.      *)
Init ==
    /\ profile \in Good /\ live = profile /\ proven = {profile}
    /\ saved = Nothing /\ timer = "off"
    /\ reverting = "no" /\ taken = profile /\ short = FALSE
    /\ call = [h \in Calls |-> "idle"]
    /\ wanted = [h \in Calls |-> profile]
    /\ remembered = [h \in Calls |-> profile]
    /\ bringUp = FALSE
    /\ phase = "up" /\ cuts = 0

(* op=pending.  A timer whose service is running is still active.                      *)
Pending == timer # "off"
Reachable == phase = "up" /\ live \in Good
Quiet == ~Pending /\ reverting = "no" /\ \A h \in Calls : call[h] = "idle"

To(h, place) == call' = [call EXCEPT ![h] = place]

---------------------------------------------------------------------------------------
(* op=apply                                                                            *)

(* handleNetworkPut takes requests from whoever reaches it; the page offers none while *)
(* a change is pending.                                                                *)
Ask(h, s) ==
    /\ call[h] = "idle" /\ Reachable /\ s \in Plain /\ s # profile
    /\ Patient => Quiet /\ profile \in proven
    /\ wanted' = [wanted EXCEPT ![h] = s]
    /\ To(h, "remember")
    /\ UNCHANGED <<netVars, fileVars, revVars, remembered, bringUp, bootVars, proven>>

Remember(h) ==
    /\ call[h] = "remember"
    /\ remembered' = [remembered EXCEPT ![h] = profile]
    /\ To(h, "save")
    /\ UNCHANGED <<netVars, fileVars, revVars, wanted, bringUp, bootVars, proven>>

(* Mutant: what is asked for is saved instead.                                         *)
SaveWanted(h) ==
    /\ call[h] = "save"
    /\ saved' = wanted[h]
    /\ short' = FALSE
    /\ To(h, "rearm")
    /\ UNCHANGED <<netVars, timer, reverting, taken, wanted, remembered, bringUp, bootVars, proven>>

Save(h) ==
    /\ call[h] = "save"
    /\ saved' = remembered[h]
    /\ short' = FALSE
    /\ To(h, "rearm")
    /\ UNCHANGED <<netVars, timer, reverting, taken, wanted, remembered, bringUp, bootVars, proven>>

StopTimer(h) ==
    /\ call[h] = "rearm"
    /\ timer' = "off"
    /\ To(h, "arm")
    /\ UNCHANGED <<netVars, saved, revVars, wanted, remembered, bringUp, bootVars, proven>>

(* Mutant: the change before the way back.                                             *)
ArmLate(h) ==
    /\ call[h] = "arm"
    /\ profile' = wanted[h]
    /\ To(h, "modify")
    /\ UNCHANGED <<live, fileVars, revVars, wanted, remembered, bringUp, bootVars, proven>>

(* systemd-run refuses a unit that exists, and set -e ends the script.                 *)
Arm(h) ==
    /\ call[h] = "arm"
    /\ IF timer = "off" /\ reverting = "no"
       THEN timer' = "armed" /\ To(h, "modify")
       ELSE UNCHANGED timer /\ To(h, "idle")
    /\ UNCHANGED <<netVars, saved, revVars, wanted, remembered, bringUp, bootVars, proven>>

Modify(h) ==
    /\ call[h] = "modify"
    /\ profile' = wanted[h]
    /\ bringUp' = TRUE
    /\ To(h, "idle")
    /\ UNCHANGED <<live, fileVars, revVars, wanted, remembered, bootVars, proven>>

(* Any command of apply may fail, and set -e ends it there.  Confirm's cannot.         *)
Dies(h) ==
    /\ call[h] \in {"remember", "save", "rearm", "arm", "modify"}
    /\ To(h, "idle")
    /\ UNCHANGED <<netVars, fileVars, revVars, wanted, remembered, bringUp, bootVars, proven>>

(* "nmcli connection up": the link comes up with the profile as it is by then, or not. *)
Up == live' \in {profile, NoLink}

BringUp ==
    /\ bringUp
    /\ bringUp' = FALSE
    /\ Up
    /\ UNCHANGED <<profile, fileVars, revVars, callVars, bootVars, proven>>

(* Somebody pulls the cable, or the router restarts.                                   *)
LinkLost ==
    /\ live # NoLink
    /\ live' = NoLink
    /\ UNCHANGED <<profile, fileVars, revVars, callVars, bringUp, bootVars, proven>>

(* NetworkManager retries a connection that is down by itself.                         *)
Autoconnect ==
    /\ live = NoLink
    /\ live' = profile
    /\ UNCHANGED <<profile, fileVars, revVars, callVars, bringUp, bootVars, proven>>

---------------------------------------------------------------------------------------
(* op=confirm                                                                          *)

(* The browser has reached the box on its new settings, the evidence that they work    *)
(* (netconf.go:339-340); neither the daemon nor the helper asks whether one is pending. *)
AskConfirm(h) ==
    /\ call[h] = "idle" /\ Reachable /\ live = profile
    /\ Patient => \A g \in Calls : call[g] = "idle"
    /\ proven' = proven \cup {live}
    /\ To(h, "disarm")
    /\ UNCHANGED <<netVars, fileVars, revVars, wanted, remembered, bringUp, bootVars>>

(* The timer's service is not stopped with it.                                         *)
Disarm(h) ==
    /\ call[h] = "disarm"
    /\ timer' = "off"
    /\ To(h, "forget")
    /\ UNCHANGED <<netVars, saved, revVars, wanted, remembered, bringUp, bootVars, proven>>

(* Mutant: confirming stops the timer only.                                            *)
ForgetNothing(h) ==
    /\ call[h] = "forget"
    /\ To(h, "idle")
    /\ UNCHANGED <<netVars, fileVars, revVars, wanted, remembered, bringUp, bootVars, proven>>

Forget(h) ==
    /\ call[h] = "forget"
    /\ saved' = Nothing /\ short' = FALSE
    /\ To(h, "idle")
    /\ UNCHANGED <<netVars, timer, reverting, taken, wanted, remembered, bringUp, bootVars, proven>>

---------------------------------------------------------------------------------------
(* op=revert                                                                           *)

Fire ==
    /\ timer = "armed" /\ phase = "up"
    /\ \A h \in Calls : call[h] # "modify"
    /\ timer' = "running"
    /\ reverting' = "read"
    /\ UNCHANGED <<netVars, saved, taken, short, callVars, bringUp, bootVars, proven>>

(* The revert ends, and the timer with it.                                             *)
RevertEnds == reverting' = "no" /\ timer' = IF timer = "running" THEN "off" ELSE timer

(* ... with nothing done: the file stays for the next boot.                            *)
StopsShort == RevertEnds /\ short' = (saved # Nothing)

(* What apply found was saved as it was: settings with several addresses, or that are   *)
(* neither automatic nor manual, do not pass the checks on the way out.                 *)
ReadSaved ==
    /\ reverting = "read"
    /\ \/ saved = Nothing /\ RevertEnds /\ UNCHANGED <<taken, short>>
       \/ saved \in Plain /\ taken' = saved /\ reverting' = "modify" /\ UNCHANGED <<timer, short>>
       \/ saved \in Settings \ Plain /\ StopsShort /\ UNCHANGED taken
    /\ UNCHANGED <<netVars, saved, callVars, bringUp, bootVars, proven>>

(* nmcli may refuse as well, and set -e ends the script.                               *)
PutBack ==
    /\ reverting = "modify"
    /\ \/ profile' = taken /\ reverting' = "up" /\ short' = FALSE /\ UNCHANGED timer
       \/ StopsShort /\ UNCHANGED profile
    /\ UNCHANGED <<live, saved, taken, callVars, bringUp, bootVars, proven>>

(* Should it fail, the script ends with the file still there.                          *)
RevertUp ==
    /\ reverting = "up"
    /\ \/ live' = profile /\ reverting' = "forget" /\ UNCHANGED timer
       \/ live' = NoLink /\ RevertEnds
    /\ UNCHANGED <<profile, saved, taken, short, callVars, bringUp, bootVars, proven>>

RevertForget ==
    /\ reverting = "forget"
    /\ saved' = Nothing /\ short' = FALSE
    /\ RevertEnds
    /\ UNCHANGED <<netVars, taken, callVars, bringUp, bootVars, proven>>

---------------------------------------------------------------------------------------
(* Power cuts and freeway-unwind                                                       *)

(* Mutant: nothing looks for the file at boot.                                         *)
PowerCutNoUnwind ==
    /\ cuts < MaxCuts
    /\ cuts' = cuts + 1
    /\ phase' = "boot"
    /\ timer' = "off" /\ bringUp' = FALSE
    /\ call' = [h \in Calls |-> "idle"]
    /\ reverting' = "no"
    /\ Up
    /\ UNCHANGED <<profile, saved, taken, short, wanted, remembered, proven>>

(* Processes and transient units are gone, files stay; a saved file is gone back to.   *)
PowerCut ==
    /\ cuts < MaxCuts
    /\ cuts' = cuts + 1
    /\ phase' = "boot"
    /\ timer' = "off" /\ bringUp' = FALSE
    /\ call' = [h \in Calls |-> "idle"]
    /\ reverting' = IF saved = Nothing THEN "no" ELSE "read"
    /\ Up
    /\ UNCHANGED <<profile, saved, taken, short, wanted, remembered, proven>>

(* freeway-unwind has ended, well or not, and freewayd starts.                         *)
Started ==
    /\ phase = "boot" /\ reverting = "no"
    /\ phase' = "up"
    /\ UNCHANGED <<netVars, fileVars, revVars, callVars, bringUp, cuts, proven>>

---------------------------------------------------------------------------------------
Apply(h) == Remember(h) \/ Save(h) \/ StopTimer(h) \/ Arm(h) \/ Modify(h)
Confirm(h) == Disarm(h) \/ Forget(h)
Revert == ReadSaved \/ PutBack \/ RevertUp \/ RevertForget

Next ==
    \/ \E h \in Calls : (\E s \in Settings : Ask(h, s)) \/ AskConfirm(h)
                           \/ Apply(h) \/ Confirm(h) \/ Dies(h)
    \/ BringUp \/ LinkLost \/ Autoconnect
    \/ Fire \/ Revert
    \/ PowerCut \/ Started

Spec == Init /\ [][Next]_vars

(* Processes run, timers fire, NetworkManager retries; people press or do not.         *)
Fairness ==
    /\ \A h \in Calls : WF_vars(Apply(h) \/ Confirm(h))
    /\ WF_vars(BringUp) /\ WF_vars(Autoconnect)
    /\ WF_vars(Fire) /\ WF_vars(Revert) /\ WF_vars(Started)

FairSpec == Spec /\ Fairness

---------------------------------------------------------------------------------------
TypeOK ==
    /\ profile \in Settings /\ live \in Settings \cup {NoLink}
    /\ saved \in Settings \cup {Nothing}
    /\ timer \in {"off", "armed", "running"}
    /\ reverting \in {"no", "read", "modify", "up", "forget"}
    /\ taken \in Settings /\ short \in BOOLEAN
    /\ call \in [Calls -> {"idle", "remember", "save", "rearm", "arm", "modify",
                           "disarm", "forget"}]
    /\ wanted \in [Calls -> Settings] /\ remembered \in [Calls -> Settings]
    /\ bringUp \in BOOLEAN
    /\ phase \in {"boot", "up"} /\ cuts \in 0..MaxCuts
    /\ proven \in SUBSET Good

(* "A box that becomes unreachable the instant the new settings apply still comes      *)
(* back" (netconf.go:299-303): whenever the box would use settings nobody has          *)
(* confirmed, ones that were confirmed are saved, and something is going to put them   *)
(* back -- through power cuts, failing commands and confirmations at any moment -- or   *)
(* has tried and stopped short, which leaves them to the next boot.                    *)
WayBack ==
    profile \notin proven =>
        /\ saved \in proven
        /\ timer # "off" \/ reverting # "no" \/ phase = "boot" \/ short

(* "Confirming deletes the file.  Reverting deletes the file" (freeway-unwind:16-19):  *)
(* a file that stays, with nothing under way that would read or delete it, never holds *)
(* settings other than the box's own, so the next boot changes nothing by it; unless it *)
(* is the way back of a revert that stopped short.                                     *)
LeftoverIsHarmless ==
    saved # Nothing /\ Quiet /\ phase = "up" /\ ~short => saved = profile

(* Settings nobody confirms do not last, and a box nobody reaches comes back, but for   *)
(* a revert that stops short.                                                          *)
UnconfirmedEnds == profile \notin proven ~> profile \in proven \/ short
ComesBack == live \notin Good ~> live \in Good \/ short

(* "Every risky change to this box arms a revert before it applies, so a box that      *)
(* becomes unreachable comes back by itself" (freeway-unwind:4-6), whatever the helper  *)
(* found in the profile.                                                               *)
AlwaysComesBack == live \notin Good ~> live \in Good

=======================================================================================

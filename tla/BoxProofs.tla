---------------------------------- MODULE BoxProofs ----------------------------------
(* Proofs about what the box does for itself: NetRevert, WifiRevert, SshDoor, Reboot,  *)
(* Power and UnitClock, which share no variable. Each is proved for any values of its  *)
(* constants; NetRevert for people who ask for no change on top of another, SshDoor    *)
(* for helpers that do not overlap.                                                    *)
EXTENDS NetRevert, WifiRevert, SshDoor, Reboot, Power, UnitClock,
        FiniteSetTheorems, SequenceTheorems, WellFoundedInduction, TLAPS

--------------------------------------------------------------------------------------
(* NetRevert                                                                           *)

(* Where a helper is in applying settings.                                             *)
Applying == {"remember", "save", "rearm", "arm"}

(* What a helper process may rely on.                                                  *)
Stage(h) ==
    /\ call[h] \in Applying => timer = "off"
    /\ call[h] = "modify" => timer = "armed"
    /\ call[h] \in Applying \cup {"modify"} => reverting = "no"
    /\ call[h] # "idle" => profile \in proven
    /\ call[h] = "save" => remembered[h] = profile
    /\ call[h] \in {"rearm", "arm", "modify"} => saved = profile

(* One request at a time, which Patient gives.                                         *)
Alone == \A h, g \in Calls : call[h] # "idle" /\ call[g] # "idle" => h = g

(* Only settings that were confirmed are kept or put back.                             *)
Kept ==
    /\ saved \in proven \cup {Nothing}
    /\ reverting \in {"modify", "up", "forget"} => taken \in proven /\ saved \in {taken, Nothing}
    /\ reverting \in {"up", "forget"} => profile = taken

(* While the box is on settings nobody confirmed, or a file holds others, something is  *)
(* under way -- the timer, a revert, or the end of a confirmation -- or has stopped     *)
(* short.                                                                              *)
UnderWay ==
    /\ profile \notin proven =>
          saved \in proven /\ (timer # "off" \/ reverting # "no" \/ short)
    /\ saved \notin {Nothing, profile} =>
          timer # "off" \/ reverting # "no" \/ short \/ \E h \in Calls : call[h] = "forget"

(* WayBack depends on who still has to read the file or start the timer, so on how far *)
(* every helper and the revert have got.                                               *)
IInv ==
    /\ Patient
    /\ TypeOK /\ Alone /\ Kept /\ UnderWay
    /\ \A h \in Calls : Stage(h)

--------------------------------------------------------------------------------------
(* The box starts with settings that are good and nothing under way.                   *)
LEMMA InitType == Init => TypeOK
<1> SUFFICES ASSUME Init PROVE TypeOK
  OBVIOUS
<1>1. profile \in Settings /\ profile \in Good /\ 0 \in 0 .. MaxCuts
  BY NetRevertAssumption DEF Init
<1>2. call \in [Calls -> {"idle", "remember", "save", "rearm", "arm", "modify", "disarm", "forget"}]
  BY DEF Init
<1>3. wanted \in [Calls -> Settings] /\ remembered \in [Calls -> Settings]
  BY <1>1 DEF Init
<1>4. QED
  BY <1>1, <1>2, <1>3 DEF Init, TypeOK

(* And with the invariant.                                                             *)
LEMMA InitIInv == Patient /\ Init => IInv
<1> SUFFICES ASSUME Patient, Init PROVE IInv
  OBVIOUS
<1>1. TypeOK
  BY InitType
<1>2. Alone /\ \A h \in Calls : Stage(h)
  BY DEF Init, Alone, Stage, Applying
<1>3. Kept /\ UnderWay
  BY DEF Init, Kept, UnderWay
<1>4. QED
  BY <1>1, <1>2, <1>3 DEF IInv

(* Types, however impatient people are.                                                *)
LEMMA StepType == TypeOK /\ [Next]_vars => TypeOK'
<1> SUFFICES ASSUME TypeOK, [Next]_vars PROVE TypeOK'
  OBVIOUS
<1> USE NetRevertAssumption DEF TypeOK, netVars, fileVars, revVars, callVars, bootVars, To
<1>1. ASSUME NEW h \in Calls, NEW s \in Settings, Ask(h, s) PROVE TypeOK'
  BY <1>1 DEF Ask
<1>2. ASSUME NEW h \in Calls, AskConfirm(h) PROVE TypeOK'
  BY <1>2 DEF AskConfirm, Reachable
<1>3. ASSUME NEW h \in Calls, Apply(h) PROVE TypeOK'
  <2>1. CASE Remember(h) \/ Save(h)
    BY <2>1 DEF Remember, Save
  <2>2. CASE StopTimer(h) \/ Modify(h)
    BY <2>2 DEF StopTimer, Modify
  <2>3. CASE Arm(h)
    BY <2>3 DEF Arm
  <2>4. QED
    BY <1>3, <2>1, <2>2, <2>3 DEF Apply
<1>4. ASSUME NEW h \in Calls, Confirm(h) \/ Dies(h) PROVE TypeOK'
  <2>1. CASE Confirm(h)
    BY <2>1 DEF Confirm, Disarm, Forget
  <2>2. CASE Dies(h)
    BY <2>2 DEF Dies
  <2>3. QED
    BY <1>4, <2>1, <2>2
<1>5. CASE BringUp \/ LinkLost \/ Autoconnect \/ Fire
  BY <1>5 DEF BringUp, Up, LinkLost, Autoconnect, Fire
<1>6. CASE Revert
  BY <1>6 DEF Revert, ReadSaved, PutBack, RevertUp, RevertForget, RevertEnds, StopsShort
<1>7. CASE PowerCut \/ Started
  <2>1. CASE PowerCut
    <3>1. call' \in [Calls -> {"idle", "remember", "save", "rearm", "arm", "modify", "disarm", "forget"}]
      BY <2>1 DEF PowerCut
    <3>2. cuts' \in 0 .. MaxCuts
      BY <2>1 DEF PowerCut
    <3>3. QED
      BY <2>1, <3>1, <3>2 DEF PowerCut, Up
  <2>2. CASE Started
    BY <2>2 DEF Started
  <2>3. QED
    BY <1>7, <2>1, <2>2
<1>8. CASE UNCHANGED vars
  BY <1>8 DEF vars
<1>9. QED
  BY <1>1, <1>2, <1>3, <1>4, <1>5, <1>6, <1>7, <1>8 DEF Next

(* Every step of a helper, the timer, a revert, the link and the power keeps the       *)
(* invariant.                                                                          *)
LEMMA StepIInv == IInv /\ [Next]_vars => IInv'
<1> SUFFICES ASSUME IInv, [Next]_vars PROVE IInv'
  OBVIOUS
<1>t. TypeOK'
  BY StepType DEF IInv
<1> USE <1>t, NetRevertAssumption
    DEF IInv, Alone, Kept, UnderWay, Stage, Applying, netVars, fileVars, revVars, callVars, bootVars, To
<1>1. ASSUME NEW h \in Calls, NEW s \in Settings, Ask(h, s) PROVE IInv'
  BY <1>1 DEF Ask, Quiet, Pending, TypeOK
<1>2. ASSUME NEW h \in Calls, AskConfirm(h) PROVE IInv'
  BY <1>2 DEF AskConfirm, TypeOK
<1>3. ASSUME NEW h \in Calls, Remember(h) PROVE IInv'
  BY <1>3 DEF Remember, TypeOK
<1>4. ASSUME NEW h \in Calls, Save(h) PROVE IInv'
  BY <1>4 DEF Save, TypeOK
<1>5. ASSUME NEW h \in Calls, StopTimer(h) PROVE IInv'
  BY <1>5 DEF StopTimer, TypeOK
<1>6. ASSUME NEW h \in Calls, Arm(h) PROVE IInv'
  BY <1>6 DEF Arm, TypeOK
<1>7. ASSUME NEW h \in Calls, Modify(h) PROVE IInv'
  BY <1>7 DEF Modify, TypeOK
<1>8. ASSUME NEW h \in Calls, Dies(h) PROVE IInv'
  BY <1>8 DEF Dies, TypeOK
<1>9. ASSUME NEW h \in Calls, Disarm(h) PROVE IInv'
  BY <1>9 DEF Disarm, TypeOK
<1>10. ASSUME NEW h \in Calls, Forget(h) PROVE IInv'
  BY <1>10 DEF Forget, TypeOK
<1>11. CASE BringUp \/ LinkLost \/ Autoconnect
  BY <1>11 DEF BringUp, LinkLost, Autoconnect
<1>12. CASE Fire
  BY <1>12 DEF Fire, TypeOK
<1>13. CASE ReadSaved
  BY <1>13 DEF ReadSaved, RevertEnds, StopsShort, TypeOK
<1>14. CASE PutBack
  BY <1>14 DEF PutBack, RevertEnds, StopsShort, TypeOK
<1>15. CASE RevertUp
  BY <1>15 DEF RevertUp, RevertEnds, TypeOK
<1>16. CASE RevertForget
  BY <1>16 DEF RevertForget, RevertEnds, TypeOK
<1>17. CASE PowerCut
  BY <1>17 DEF PowerCut, TypeOK
<1>18. CASE Started \/ UNCHANGED vars
  BY <1>18 DEF Started, vars
<1>19. QED
  BY <1>1, <1>2, <1>3, <1>4, <1>5, <1>6, <1>7, <1>8, <1>9, <1>10, <1>11, <1>12, <1>13, <1>14,
     <1>15, <1>16, <1>17, <1>18
  DEF Next, Apply, Confirm, Revert

--------------------------------------------------------------------------------------
(* Every variable keeps its type, one change at a time or not.                         *)
THEOREM TypeCorrect == Spec => []TypeOK
  BY InitType, StepType, PTL DEF Spec

(* The inductive invariant, for people who ask for no change on top of another.         *)
THEOREM Invariance == Patient /\ Spec => []IInv
  BY InitIInv, StepIInv, PTL DEF Spec

(* Settings nobody confirmed always have a way back to some that were confirmed        *)
(* (netconf.go:299-303), whatever fails and whenever the power is cut: one that is under *)
(* way, or, after a revert that stopped short, one that is left to the next boot.       *)
THEOREM AlwaysAWayBack == Patient /\ Spec => []WayBack
<1>1. IInv => WayBack
  BY DEF IInv, UnderWay, WayBack
<1>2. QED
  BY <1>1, Invariance, PTL

(* A saved file that nothing will read or delete is what the box uses already          *)
(* (freeway-unwind:16-19), unless a revert stopped short of it.                        *)
THEOREM NoHarmLeft == Patient /\ Spec => []LeftoverIsHarmless
<1>1. IInv => LeftoverIsHarmless
  BY DEF IInv, UnderWay, LeftoverIsHarmless, Quiet, Pending
<1>2. QED
  BY <1>1, Invariance, PTL

--------------------------------------------------------------------------------------
(* WifiRevert                                                                          *)

(* The records of the file, of a join and of a revert.                                 *)
Names == Networks \cup {NoNetwork}
Files == [conn : Names, new : Names, existed : BOOLEAN]
Joins == [at : {"idle", "look", "save", "rearm", "arm", "connect", "clean", "disarm", "forget"},
          new : Names, old : Names, existed : BOOLEAN]
Undos == [at : {"no", "read", "down", "delete", "up", "forget"}, file : Files]

(* The types.                                                                          *)
WifiTypeOK ==
    /\ known \subseteq Networks /\ kept \subseteq Networks
    /\ air \in known \cup {NoNetwork}
    /\ before \in Files
    /\ alarm \in {"off", "armed", "running"}
    /\ join \in Joins
    /\ undo \in Undos /\ halted \in BOOLEAN
    /\ confirm \in {"no", "disarm", "forget"}
    /\ started \in BOOLEAN

(* A profile nobody chose to keep is the one the file names as new, and the timer, a    *)
(* revert or the helper that made it is about, or a revert has stopped short.          *)
Accounted ==
    \A n \in known \ kept :
        /\ before.new = n /\ ~before.existed /\ before.conn \in kept
        /\ alarm # "off" \/ undo # NoUndo \/ join # NoJoin \/ halted

(* The file a join saves.                                                              *)
JoinFile == [conn |-> join.old, new |-> join.new, existed |-> join.existed]

(* What the helper that joins may rely on.                                             *)
JoinStage ==
    /\ join.at = "idle" <=> join = NoJoin
    /\ join # NoJoin => undo = NoUndo /\ confirm = "no" /\ join.new \in Networks
    /\ join.at \notin {"idle", "clean"} => known \subseteq kept
    /\ join.at \in {"look", "save", "rearm"} => alarm = "off"
    /\ join # NoJoin /\ join.old = NoNetwork => alarm = "off"
    /\ join.at \in {"save", "rearm", "arm"} => join.old \in kept
    /\ join.at \in {"save", "rearm", "arm", "connect"} => (join.existed <=> join.new \in known)
    /\ join.at \in {"rearm", "arm"} => before = JoinFile
    /\ join.at \in {"connect", "clean"} =>
          join.new \in kept \/ (alarm # "off" /\ before = JoinFile /\ join.old \in kept)
    /\ join.at = "clean" => /\ known \subseteq kept \cup {join.new}
                            /\ join.existed => join.new \in kept
                            /\ ~join.existed => air # join.new

(* And the revert.  Who confirms keeps all there is.                                   *)
UndoStage ==
    /\ undo.at = "no" <=> undo = NoUndo
    /\ undo.at \in {"down", "delete"} => undo.file = before \/ known \subseteq kept
    /\ undo.at \in {"up", "forget"} => known \subseteq kept
    /\ confirm # "no" => known \subseteq kept

(* AirHasWayBack is not inductive: whether the file, the timer and the profiles agree  *)
(* depends on how far the join, the revert and the confirmation have got.              *)
WifiInv == Unhurried /\ WifiTypeOK /\ Accounted /\ JoinStage /\ UndoStage

--------------------------------------------------------------------------------------
(* The records after a step.                                                           *)
LEMMA RecordTypes ==
    /\ NoJoin \in Joins /\ NoFile \in Files /\ NoUndo \in Undos
    /\ \A j \in Joins, at \in {"look", "save", "rearm", "arm", "connect", "clean", "disarm", "forget"} :
          [j EXCEPT !.at = at] \in Joins
    /\ \A u \in Undos, at \in {"read", "down", "delete", "up", "forget"} : [u EXCEPT !.at = at] \in Undos
    /\ \A f \in Files : [at |-> "down", file |-> f] \in Undos
  BY DEF Joins, Undos, Files, Names, NoJoin, NoUndo, NoFile

(* The box starts on a network it knows, with nothing under way.                       *)
LEMMA WifiInitInv == Unhurried /\ WifiInit => WifiInv
<1> SUFFICES ASSUME Unhurried, WifiInit PROVE WifiInv
  OBVIOUS
<1>1. WifiTypeOK
  BY WifiAssumption, RecordTypes DEF WifiInit, WifiTypeOK
<1>2. Accounted
  BY DEF WifiInit, Accounted
<1>3. JoinStage /\ UndoStage
  BY DEF WifiInit, JoinStage, UndoStage, NoJoin, NoUndo, NoFile
<1>4. QED
  BY <1>1, <1>2, <1>3 DEF WifiInv

(* Every step of a join, a revert, a confirmation, the air and the power keeps the     *)
(* invariant.                                                                          *)
LEMMA WifiNextInv == WifiInv /\ [WifiNext]_wifiVars => WifiInv'
<1> SUFFICES ASSUME WifiInv, [WifiNext]_wifiVars PROVE WifiInv'
  OBVIOUS
<1> USE WifiAssumption
    DEF WifiInv, WifiTypeOK, Accounted, JoinStage, UndoStage, Names, Files, Joins, Undos, JoinFile,
        NoFile, NoJoin, NoUndo, JoinGoes
<1>1. ASSUME NEW n \in Networks, AskJoin(n) PROVE WifiInv'
  BY <1>1 DEF AskJoin, WifiQuiet, WifiPending
<1>2. ASSUME NEW n \in Networks, ForgetNetwork(n) PROVE WifiInv'
  BY <1>2 DEF ForgetNetwork, WifiQuiet, WifiPending
<1>3. CASE LookRound
  <2>1. WifiTypeOK'
    <3>1. air \in Names /\ (join.new \in known) \in BOOLEAN
      OBVIOUS
    <3>2. join' \in Joins
      BY <1>3, <3>1 DEF LookRound
    <3>3. kept' \subseteq Networks
      BY <1>3 DEF LookRound
    <3>4. QED
      BY <1>3, <3>2, <3>3 DEF LookRound
  <2>2. Accounted'
    BY <1>3 DEF LookRound
  <2>3. JoinStage'
    BY <1>3 DEF LookRound
  <2>4. UndoStage'
    BY <1>3 DEF LookRound
  <2>5. QED
    BY <2>1, <2>2, <2>3, <2>4
<1>4. CASE SaveWifi
  BY <1>4 DEF SaveWifi
<1>5. CASE StopAlarm
  BY <1>5 DEF StopAlarm
<1>6. CASE ArmAlarm
  BY <1>6 DEF ArmAlarm
<1>7. CASE Connect
  <2>1. WifiTypeOK'
    <3>1. join' \in Joins
      <4>1. join' = NoJoin \/ join' = [join EXCEPT !.at = "clean"]
        BY ONLY <1>7 DEF Connect, JoinEnds, JoinGoes
      <4>2. join \in Joins
        OBVIOUS
      <4>3. QED
        <5> HIDE DEF Joins, Undos, NoJoin, NoUndo
        <5> QED
          BY ONLY <4>1, <4>2, RecordTypes
    <3>2. known' \subseteq Networks /\ air' \in known' \cup {NoNetwork}
      BY <1>7 DEF Connect, Joined, NotJoined
    <3>3. QED
      BY <1>7, <3>1, <3>2 DEF Connect
  <2>2. Accounted'
    BY <1>7 DEF Connect, Joined, NotJoined, JoinEnds
  <2>3. JoinStage'
    BY <1>7 DEF Connect, Joined, NotJoined, JoinEnds
  <2>4. UndoStage'
    BY <1>7 DEF Connect, Joined, NotJoined, JoinEnds
  <2>5. QED
    BY <2>1, <2>2, <2>3, <2>4
<1>8. CASE CleanUp
  <2>1. WifiTypeOK'
    <3>1. join' \in Joins
      <4>1. join' = NoJoin \/ join' = [join EXCEPT !.at = "disarm"]
        BY ONLY <1>8 DEF CleanUp, JoinEnds, JoinGoes
      <4>2. join \in Joins
        OBVIOUS
      <4>3. QED
        <5> HIDE DEF Joins, Undos, NoJoin, NoUndo
        <5> QED
          BY ONLY <4>1, <4>2, RecordTypes
    <3>2. known' \subseteq Networks /\ air' \in known' \cup {NoNetwork}
      BY <1>8 DEF CleanUp, Deleted
    <3>3. QED
      BY <1>8, <3>1, <3>2 DEF CleanUp
  <2>2. Accounted'
    BY <1>8 DEF CleanUp, JoinEnds, Deleted
  <2>3. JoinStage'
    BY <1>8 DEF CleanUp, JoinEnds, Deleted
  <2>4. UndoStage'
    BY <1>8 DEF CleanUp, JoinEnds, Deleted
  <2>5. QED
    BY <2>1, <2>2, <2>3, <2>4
<1>9. CASE DisarmJoin
  BY <1>9 DEF DisarmJoin
<1>10. CASE ForgetJoin
  BY <1>10 DEF ForgetJoin, JoinEnds
<1>11. CASE JoinDies
  BY <1>11 DEF JoinDies, Joined, NotJoined, JoinEnds
<1>12. CASE AskWifiConfirm
  BY <1>12 DEF AskWifiConfirm, WifiPending
<1>13. CASE DisarmConfirm
  BY <1>13 DEF DisarmConfirm
<1>14. CASE ForgetConfirm
  <2>1. WifiTypeOK'
    <3>1. before' \in Files
      <4>. HIDE DEF Files, NoFile
      <4>. QED BY <1>14, RecordTypes DEF ForgetConfirm
    <3>2. QED
      <4>. HIDE DEF Files, Joins, Undos, NoFile
      <4>. QED BY <1>14, <3>1 DEF ForgetConfirm
  <2>2. Accounted' /\ UndoStage'
    BY <1>14 DEF ForgetConfirm
  <2>3. JoinStage'
    BY <1>14 DEF ForgetConfirm
  <2>4. QED
    BY <2>1, <2>2, <2>3
<1>15. CASE AlarmGoesOff
  <2>1. join = NoJoin
    BY <1>15 DEF AlarmGoesOff
  <2>2. WifiTypeOK'
    BY <1>15 DEF AlarmGoesOff
  <2>3. Accounted'
    BY <1>15 DEF AlarmGoesOff
  <2>4. JoinStage' /\ UndoStage'
    BY <1>15, <2>1 DEF AlarmGoesOff
  <2>5. QED
    BY <2>2, <2>3, <2>4
<1>16. CASE ReadBefore
  <2>1. WifiTypeOK'
    <3>1. undo' \in Undos
      <4>. HIDE DEF Undos, NoUndo, NoFile, Files
      <4>. QED BY <1>16, RecordTypes DEF ReadBefore, UndoEnds, UndoHalts
    <3>2. alarm' \in {"off", "armed", "running"}
      BY <1>16 DEF ReadBefore, UndoEnds, UndoHalts
    <3>3. halted' \in BOOLEAN
      <4>1. halted' = halted \/ halted' = (before # NoFile)
        BY ONLY <1>16 DEF ReadBefore, UndoHalts
      <4>2. QED
        BY <4>1
    <3>4. known' = known /\ air' = air /\ before' = before /\ join' = join /\ kept' = kept
      BY <1>16 DEF ReadBefore
    <3>5. confirm' = confirm /\ started' = started
      BY <1>16 DEF ReadBefore
    <3>6. QED
      BY <3>1, <3>2, <3>3, <3>4, <3>5
  <2>2. Accounted'
    <3>1. known' = known /\ kept' = kept /\ before' = before /\ join' = join
      BY <1>16 DEF ReadBefore
    <3>2. ASSUME NEW n \in known \ kept PROVE undo' # NoUndo \/ halted'
      <4>1. before # NoFile
        BY <3>2
      <4>2. undo' = [at |-> "down", file |-> before] \/ halted' = (before # NoFile)
        BY <1>16, <4>1 DEF ReadBefore, UndoHalts
      <4>3. CASE undo' = [at |-> "down", file |-> before]
        BY <4>3
      <4>4. CASE halted' = (before # NoFile)
        BY ONLY <4>1, <4>4, Zenon
      <4>5. QED
        BY ONLY <4>2, <4>3, <4>4
    <3>3. QED
      BY <3>1, <3>2
  <2>3. JoinStage'
    BY <1>16 DEF ReadBefore, UndoEnds, UndoHalts
  <2>4. UndoStage'
    BY <1>16 DEF ReadBefore, UndoEnds, UndoHalts
  <2>5. QED
    BY <2>1, <2>2, <2>3, <2>4
<1>17. CASE TakeDown
  BY <1>17 DEF TakeDown, UndoGoes
<1>18. CASE DeleteNew
  <2>1. WifiTypeOK'
    <3>1. undo' \in Undos
      <4>1. undo' = NoUndo \/ undo' = [undo EXCEPT !.at = "up"]
        BY ONLY <1>18 DEF DeleteNew, UndoEnds, UndoHalts, UndoGoes
      <4>2. undo \in Undos
        OBVIOUS
      <4>3. QED
        <5> HIDE DEF Joins, Undos, NoJoin, NoUndo
        <5> QED
          BY ONLY <4>1, <4>2, RecordTypes
    <3>2. alarm' \in {"off", "armed", "running"}
      BY <1>18 DEF DeleteNew, UndoEnds, UndoHalts, UndoGoes
    <3>3. known' \subseteq Networks /\ air' \in known' \cup {NoNetwork}
      BY <1>18 DEF DeleteNew, Deleted
    <3>4. halted' \in BOOLEAN
      <4>1. halted' = halted \/ halted' = (before # NoFile)
        BY ONLY <1>18 DEF DeleteNew, UndoGoes, UndoHalts
      <4>2. QED
        BY <4>1
    <3>5. before' = before /\ join' = join /\ kept' = kept /\ confirm' = confirm /\ started' = started
      BY <1>18 DEF DeleteNew
    <3>6. QED
      BY <3>1, <3>2, <3>3, <3>4, <3>5
  <2>2. Accounted'
    <3>1. kept' = kept /\ before' = before /\ join' = join /\ known' \subseteq known
      BY <1>18 DEF DeleteNew, Deleted
    <3>2. ASSUME NEW n \in known \ kept PROVE undo' # NoUndo \/ halted'
      <4>1. before # NoFile
        BY <3>2
      <4>2. undo' = [undo EXCEPT !.at = "up"] \/ halted' = (before # NoFile)
        BY ONLY <1>18 DEF DeleteNew, UndoGoes, UndoHalts
      <4>3. CASE undo' = [undo EXCEPT !.at = "up"]
        BY <4>3
      <4>4. CASE halted' = (before # NoFile)
        BY ONLY <4>1, <4>4, Zenon
      <4>5. QED
        BY ONLY <4>2, <4>3, <4>4
    <3>3. QED
      BY <3>1, <3>2
  <2>3. JoinStage'
    BY <1>18 DEF DeleteNew, Deleted, UndoGoes, UndoHalts, UndoEnds
  <2>4. UndoStage'
    BY <1>18 DEF DeleteNew, Deleted, UndoGoes, UndoHalts, UndoEnds
  <2>5. QED
    BY <2>1, <2>2, <2>3, <2>4
<1>19. CASE BringOldUp
  BY <1>19 DEF BringOldUp, UndoGoes
<1>20. CASE ForgetUndone
  BY <1>20 DEF ForgetUndone, UndoEnds
<1>21. CASE OutOfReach
  BY <1>21 DEF OutOfReach
<1>22. CASE FindsNetwork
  BY <1>22 DEF FindsNetwork
<1>23. CASE Outage
  <2>1. WifiTypeOK'
    BY <1>23 DEF Outage
  <2>2. Accounted'
    BY <1>23 DEF Outage
  <2>3. JoinStage'
    BY <1>23 DEF Outage
  <2>4. UndoStage'
    BY <1>23 DEF Outage
  <2>5. QED
    BY <2>1, <2>2, <2>3, <2>4
<1>24. CASE Unwound
  BY <1>24 DEF Unwound
<1>25. CASE UNCHANGED wifiVars
  BY <1>25 DEF wifiVars
<1>26. QED
  BY <1>1, <1>2, <1>3, <1>4, <1>5, <1>6, <1>7, <1>8, <1>9, <1>10, <1>11, <1>12, <1>13, <1>14, <1>15, <1>16, <1>17, <1>18, <1>19, <1>20, <1>21, <1>22, <1>23, <1>24, <1>25 DEF WifiNext, Joining, Undoing

(* The inductive invariant, for people who ask for nothing on top of another change,   *)
(* any networks and any number of outages.                                             *)
THEOREM WifiInvariance == Unhurried /\ WifiSpec => []WifiInv
  BY WifiInitInv, WifiNextInv, PTL DEF WifiSpec

(* A box that has left its network for one nobody has been seen on can go back and is  *)
(* about to (freeway-helper:415-417), whichever commands fail and whenever the power   *)
(* is cut; after a revert that stopped short, at the next boot.                        *)
THEOREM AirComesBack == Unhurried /\ WifiSpec => []AirHasWayBack
<1>1. WifiInv => AirHasWayBack
  BY DEF WifiInv, WifiTypeOK, Accounted, AirHasWayBack, WifiPending
<1>2. QED
  BY <1>1, WifiInvariance, PTL

--------------------------------------------------------------------------------------
(* SshDoor                                                                             *)

(* What a helper process does, and what for.                                           *)
Jobs == {j \in [at : {"done", "write", "remove", "flush", "read", "add", "stamp"},
                to : {"file", "open", "closed"}, minutes : Nat] : j.at = "write" => j.to # "file"}

(* The types.                                                                          *)
DoorTypeOK ==
    /\ lasting \in {"open", "closed"}
    /\ until \in Nat \cup {NotOpened}
    /\ accept \in BOOLEAN
    /\ job \in [Helpers -> Jobs]
    /\ bell \in BOOLEAN /\ broken \in BOOLEAN
    /\ start \in {"policy", "card", "daemon", "up"}
    /\ crossed \in {"no", "going", "past"}

(* No helper is at work while another is.                                              *)
OneAtATime == \A h, g \in Working : h = g

(* What a helper that works alone has done so far.                                     *)
DoorStage(j) ==
    /\ j.at \in {"write", "remove", "read"} => j.minutes = 0
    /\ j.at \in {"add", "stamp"} => j.to # "file"
    /\ j.at = "remove" => j.to \in {"file", lasting}
    /\ j.at = "flush" => j.to = "open" \/ j.minutes = 0
    /\ j.at \in {"flush", "read", "add"} /\ j.minutes = 0 =>
          until = NotOpened /\ j.to \in {"file", lasting}
    /\ j.at = "read" => ~accept
    /\ j.at = "add" => j.to = "open"
    /\ j.at = "stamp" => accept /\ j.minutes > 0

(* DoorIsAsSaid speaks of the moments between helpers, so what each has done so far    *)
(* has to be known, unless they overlap.                                               *)
DoorInv ==
    /\ DoorTypeOK /\ DoorIsAsSaid
    /\ crossed # "going" => OneAtATime /\ \A h \in Helpers : DoorStage(job[h])

--------------------------------------------------------------------------------------
(* The parts of a job.                                                                 *)
LEMMA JobTypes ==
    /\ NoJob \in Jobs /\ NoJob.at = "done"
    /\ \A j \in Jobs, at \in {"remove", "flush", "read", "add", "stamp"} :
          /\ [j EXCEPT !.at = at] \in Jobs
          /\ [j EXCEPT !.at = at].at = at
          /\ [j EXCEPT !.at = at].to = j.to
          /\ [j EXCEPT !.at = at].minutes = j.minutes
  BY DEF Jobs, NoJob

(* One helper goes on or ends, and no other is at work.                                *)
LEMMA OneJob ==
    ASSUME DoorTypeOK, OneAtATime, NEW h \in Helpers, NEW j \in Jobs,
           job[h].at # "done" \/ Working = {},
           job' = [job EXCEPT ![h] = j]
    PROVE  /\ job' \in [Helpers -> Jobs] /\ OneAtATime'
           /\ Working' = {} <=> j.at = "done"
           /\ DoorStage(j)' => \A g \in Helpers : DoorStage(job[g])'
<1> USE DEF DoorTypeOK
<1>1. job' \in [Helpers -> Jobs] /\ job'[h] = j
  OBVIOUS
<1>2. \A g \in Helpers : g # h => job'[g].at = "done"
  BY DEF OneAtATime, Working
<1>3. OneAtATime' /\ (Working' = {} <=> j.at = "done")
  BY <1>1, <1>2 DEF OneAtATime, Working
<1>4. ASSUME DoorStage(j)', NEW g \in Helpers PROVE DoorStage(job[g])'
  <2>1. CASE g = h
    BY <1>1, <1>4, <2>1
  <2>2. CASE g # h
    BY <1>2, <2>2 DEF DoorStage
  <2>3. QED
    BY <2>1, <2>2
<1>5. QED
  BY <1>1, <1>3, <1>4

(* The box starts with its port as the policy says.                                    *)
LEMMA DoorInitInv == DoorInit => DoorInv
<1> SUFFICES ASSUME DoorInit PROVE DoorInv
  OBVIOUS
<1>1. job \in [Helpers -> Jobs] /\ \A h \in Helpers : job[h].at = "done"
  BY JobTypes DEF DoorInit
<1>2. DoorTypeOK
  BY <1>1 DEF DoorInit, DoorTypeOK
<1>3. OneAtATime /\ DoorIsAsSaid /\ \A h \in Helpers : DoorStage(job[h])
  BY <1>1 DEF DoorInit, OneAtATime, DoorIsAsSaid, AsSaid, DoorStage, Working
<1>4. QED
  BY <1>2, <1>3 DEF DoorInv

(* Types, whoever else is at work; and helpers stop overlapping when all have ended.   *)
LEMMA CommandType ==
    ASSUME DoorTypeOK, NEW h \in Helpers, Command(h)
    PROVE  DoorTypeOK' /\ (crossed = "going" /\ crossed' # "going" => Working' = {} /\ crossed' = "past")
<1> DEFINE Ats == {"remove", "flush", "read", "add", "stamp"}
<1>1. \/ \E at \in Ats : Goes(h, at)
      \/ job' = [job EXCEPT ![h] = [at |-> "add", to |-> "open", minutes |-> 0]] /\ UNCHANGED <<broken, crossed>>
      \/ broken' \in BOOLEAN /\ \E alone \in {"no", crossed} : Leaves(h, alone)
  <2>1. CASE WritePolicy(h) \/ RemoveDeadline(h)
    BY <2>1 DEF WritePolicy, RemoveDeadline
  <2>2. CASE Flush(h)
    <3>1. Goes(h, "read") \/ Goes(h, "add") \/ Ends(h)
      BY <2>2 DEF Flush, DoorTypeOK, Jobs
    <3>2. QED
      BY <3>1 DEF Ends
  <2>3. CASE ReadPolicy(h)
    BY <2>3 DEF ReadPolicy, Takes, Ends
  <2>4. CASE AddRule(h) \/ Stamp(h)
    BY <2>4 DEF AddRule, Stamp, Ends
  <2>5. CASE Breaks(h)
    BY <2>5 DEF Breaks
  <2>6. QED
    BY <2>1, <2>2, <2>3, <2>4, <2>5 DEF Command
<1>2. /\ job' \in [Helpers -> Jobs] /\ broken' \in BOOLEAN /\ crossed' \in {"no", "going", "past"}
      /\ crossed = "going" /\ crossed' # "going" => Working' = {} /\ crossed' = "past"
  <2>1. CASE \E at \in Ats : Goes(h, at)
    <3>1. PICK at \in Ats : Goes(h, at)
      BY <2>1
    <3>2. [job[h] EXCEPT !.at = at] \in Jobs
      BY JobTypes DEF DoorTypeOK
    <3>3. job' = [job EXCEPT ![h] = [job[h] EXCEPT !.at = at]] /\ UNCHANGED <<broken, crossed>>
      BY <3>1 DEF Goes
    <3>4. QED
      BY <3>2, <3>3 DEF DoorTypeOK
  <2>2. CASE job' = [job EXCEPT ![h] = [at |-> "add", to |-> "open", minutes |-> 0]] /\ UNCHANGED <<broken, crossed>>
    <3>1. [at |-> "add", to |-> "open", minutes |-> 0] \in Jobs
      BY DEF Jobs
    <3>2. QED
      BY <2>2, <3>1 DEF DoorTypeOK
  <2>3. ASSUME broken' \in BOOLEAN, NEW alone \in {"no", crossed}, Leaves(h, alone)
        PROVE  /\ job' \in [Helpers -> Jobs] /\ broken' \in BOOLEAN /\ crossed' \in {"no", "going", "past"}
               /\ crossed = "going" /\ crossed' # "going" => Working' = {} /\ crossed' = "past"
    <3>1. job' = [job EXCEPT ![h] = NoJob] /\ job' \in [Helpers -> Jobs] /\ job'[h].at = "done"
      BY <2>3, JobTypes DEF Leaves, DoorTypeOK
    <3>2. crossed' \in {"no", "going", "past"}
      BY <2>3 DEF Leaves, DoorTypeOK
    <3>3. ASSUME crossed = "going", crossed' # "going" PROVE Working' = {} /\ crossed' = "past"
      <4>1. Working = {h} /\ crossed' = "past"
        BY <2>3, <3>3 DEF Leaves
      <4>2. \A g \in Helpers : job'[g].at = "done"
        BY <3>1, <4>1 DEF Working, DoorTypeOK
      <4>3. QED
        BY <4>1, <4>2 DEF Working
    <3>4. QED
      BY <2>3, <3>1, <3>2, <3>3
  <2>4. QED
    BY <1>1, <2>1, <2>2, <2>3
<1>3. lasting' \in {"open", "closed"} /\ until' \in Nat \cup {NotOpened} /\ accept' \in BOOLEAN
      /\ bell' \in BOOLEAN /\ start' \in {"policy", "card", "daemon", "up"}
  <2>1. job[h].at = "write" => job[h].to \in {"open", "closed"}
    BY DEF DoorTypeOK, Jobs
  <2>2. job[h].minutes \in Nat
    BY DEF DoorTypeOK, Jobs
  <2>3. QED
    BY <2>1, <2>2 DEF DoorTypeOK, Command, WritePolicy, RemoveDeadline, Flush, ReadPolicy, AddRule, Stamp, Breaks
<1>4. QED
  BY <1>2, <1>3 DEF DoorTypeOK

(* A helper's next command, or its failure (freeway-helper): the policy's file, the    *)
(* rule for the port, the time it is open until.                                       *)
LEMMA CommandInv ==
    ASSUME DoorInv, crossed # "going", NEW h \in Helpers, Command(h) PROVE DoorInv'
<1> DEFINE j == job[h]
<1>t. /\ DoorTypeOK /\ OneAtATime /\ DoorStage(j) /\ j \in Jobs
      /\ j.to \in {"file", "open", "closed"} /\ j.minutes \in Nat
      /\ DoorTypeOK'
  BY CommandType DEF DoorInv, DoorTypeOK, Jobs
<1>1. CASE WritePolicy(h)
  <2>1. PICK k \in Jobs : k = [j EXCEPT !.at = "remove"] /\ k.at = "remove" /\ k.to = j.to /\ k.minutes = j.minutes
    BY <1>t, JobTypes
  <2>2. job' = [job EXCEPT ![h] = k]
    BY <1>1, <2>1 DEF WritePolicy, Goes
  <2>3. j.at # "done" /\ lasting' = j.to /\ j.to \in {"open", "closed"} /\ j.minutes = 0
    BY <1>1, <1>t DEF WritePolicy, DoorStage, Jobs
  <2> HIDE DEF j
  <2>4. DoorStage(k)'
    BY <2>1, <2>3 DEF DoorStage
  <2>5. job' \in [Helpers -> Jobs] /\ OneAtATime' /\ Working' # {} /\ \A g \in Helpers : DoorStage(job[g])'
    BY <1>t, <2>1, <2>2, <2>3, <2>4, OneJob DEF j
  <2>6. QED
    BY <1>1, <1>t, <2>3, <2>5 DEF DoorInv, DoorIsAsSaid
<1>2. CASE RemoveDeadline(h)
  <2>1. PICK k \in Jobs : k = [j EXCEPT !.at = "flush"] /\ k.at = "flush" /\ k.to = j.to /\ k.minutes = j.minutes
    BY <1>t, JobTypes
  <2>2. job' = [job EXCEPT ![h] = k]
    BY <1>2, <2>1 DEF RemoveDeadline, Goes
  <2>3. j.at = "remove" /\ until' = NotOpened /\ lasting' = lasting
    BY <1>2 DEF RemoveDeadline
  <2> HIDE DEF j
  <2>4. DoorStage(k)'
    BY <1>t, <2>1, <2>3 DEF DoorStage
  <2>5. job' \in [Helpers -> Jobs] /\ OneAtATime' /\ Working' # {} /\ \A g \in Helpers : DoorStage(job[g])'
    BY <1>t, <2>1, <2>2, <2>3, <2>4, OneJob DEF j
  <2>6. QED
    BY <1>2, <1>t, <2>5 DEF DoorInv, DoorIsAsSaid
<1>3. CASE Flush(h)
  <2>1. j.at = "flush" /\ accept' = FALSE /\ UNCHANGED <<lasting, until, bell, start>>
    BY <1>3 DEF Flush
  <2>2. CASE j.to = "closed"
    <3>1. job' = [job EXCEPT ![h] = NoJob] /\ broken' = FALSE
      BY <1>3, <2>2 DEF Flush, Ends, Leaves
    <3>2. DoorStage(NoJob)'
      BY JobTypes DEF DoorStage
    <3>3. job' \in [Helpers -> Jobs] /\ OneAtATime' /\ \A g \in Helpers : DoorStage(job[g])'
      BY <1>t, <2>1, <3>1, <3>2, JobTypes, OneJob
    <3>4. until = NotOpened /\ lasting = "closed"
      BY <1>t, <2>1, <2>2 DEF DoorStage
    <3>5. QED
      BY <1>t, <2>1, <3>1, <3>3, <3>4 DEF DoorInv, DoorIsAsSaid, AsSaid
  <2>3. ASSUME NEW at \in {"read", "add"}, j.to = IF at = "read" THEN "file" ELSE "open",
               job' = [job EXCEPT ![h] = [j EXCEPT !.at = at]], broken' = broken
        PROVE DoorInv'
    <3>0. at \in {"remove", "flush", "read", "add", "stamp"}
      BY <2>3
    <3> HIDE DEF j
    <3>k. /\ [j EXCEPT !.at = at] \in Jobs /\ [j EXCEPT !.at = at].at = at
          /\ [j EXCEPT !.at = at].to = j.to /\ [j EXCEPT !.at = at].minutes = j.minutes
      BY <1>t, <3>0, JobTypes, Zenon
    <3>1. PICK k \in Jobs : k = [j EXCEPT !.at = at] /\ k.at = at /\ k.to = j.to /\ k.minutes = j.minutes
      BY <3>k, Zenon
    <3> HIDE DEF j
    <3>2. DoorStage(k)'
      BY <1>t, <2>1, <2>3, <3>1 DEF DoorStage
    <3>3. job' \in [Helpers -> Jobs] /\ OneAtATime' /\ Working' # {} /\ \A g \in Helpers : DoorStage(job[g])'
      BY <1>t, <2>1, <2>3, <3>0, <3>1, <3>2, OneJob DEF j
    <3>4. QED
      BY <1>t, <2>1, <2>3, <3>3 DEF DoorInv, DoorIsAsSaid, AsSaid
  <2>4. \/ j.to = "closed"
        \/ j.to = "file" /\ job' = [job EXCEPT ![h] = [j EXCEPT !.at = "read"]] /\ broken' = broken
        \/ j.to = "open" /\ job' = [job EXCEPT ![h] = [j EXCEPT !.at = "add"]] /\ broken' = broken
    BY <1>3, <1>t DEF Flush, Goes
  <2>5. QED
    BY <2>2, <2>3, <2>4
<1>4. CASE ReadPolicy(h)
  <2>1. j.at = "read" /\ j.minutes = 0 /\ ~accept /\ until = NotOpened
        /\ UNCHANGED <<lasting, until, accept, bell, start>>
    BY <1>4, <1>t DEF ReadPolicy, DoorStage
  <2>2. CASE lasting = "open"
    <3> DEFINE k == [at |-> "add", to |-> "open", minutes |-> 0]
    <3>1. k \in Jobs /\ job' = [job EXCEPT ![h] = k] /\ broken' = broken
      BY <1>4, <2>2 DEF ReadPolicy, Takes, Jobs
    <3>2. DoorStage(k)'
      BY <2>1, <2>2 DEF DoorStage
    <3>3. job' \in [Helpers -> Jobs] /\ OneAtATime' /\ Working' # {} /\ \A g \in Helpers : DoorStage(job[g])'
      BY <1>t, <2>1, <3>1, <3>2, OneJob
    <3>4. QED
      BY <1>t, <2>1, <3>1, <3>3 DEF DoorInv, DoorIsAsSaid, AsSaid
  <2>3. CASE lasting # "open"
    <3>1. job' = [job EXCEPT ![h] = NoJob] /\ broken' = FALSE
      BY <1>4, <2>3 DEF ReadPolicy, Ends, Leaves
    <3>2. DoorStage(NoJob)'
      BY JobTypes DEF DoorStage
    <3>3. job' \in [Helpers -> Jobs] /\ OneAtATime' /\ \A g \in Helpers : DoorStage(job[g])'
      BY <1>t, <2>1, <3>1, <3>2, JobTypes, OneJob
    <3>4. QED
      BY <1>t, <2>1, <2>3, <3>1, <3>3 DEF DoorInv, DoorIsAsSaid, AsSaid
  <2>4. QED
    BY <2>2, <2>3
<1>5. CASE AddRule(h)
  <2>1. j.at = "add" /\ j.to = "open" /\ accept' = TRUE /\ UNCHANGED <<lasting, until, bell, start>>
    BY <1>5, <1>t DEF AddRule, DoorStage
  <2>2. CASE j.minutes = 0
    <3>1. job' = [job EXCEPT ![h] = NoJob] /\ broken' = FALSE
      BY <1>5, <2>2 DEF AddRule, Ends, Leaves
    <3>2. DoorStage(NoJob)'
      BY JobTypes DEF DoorStage
    <3>3. job' \in [Helpers -> Jobs] /\ OneAtATime' /\ \A g \in Helpers : DoorStage(job[g])'
      BY <1>t, <2>1, <3>1, <3>2, JobTypes, OneJob
    <3>4. until = NotOpened /\ lasting = "open"
      BY <1>t, <2>1, <2>2 DEF DoorStage
    <3>5. QED
      BY <1>t, <2>1, <3>1, <3>3, <3>4 DEF DoorInv, DoorIsAsSaid, AsSaid
  <2>3. CASE j.minutes # 0
    <3>1. PICK k \in Jobs : k = [j EXCEPT !.at = "stamp"] /\ k.at = "stamp" /\ k.to = j.to /\ k.minutes = j.minutes
      BY <1>t, JobTypes
    <3>2. job' = [job EXCEPT ![h] = k] /\ broken' = broken
      BY <1>5, <2>3, <3>1 DEF AddRule, Goes
    <3> HIDE DEF j
    <3>3. DoorStage(k)'
      BY <1>t, <2>1, <2>3, <3>1 DEF DoorStage
    <3>4. job' \in [Helpers -> Jobs] /\ OneAtATime' /\ Working' # {} /\ \A g \in Helpers : DoorStage(job[g])'
      BY <1>t, <2>1, <3>1, <3>2, <3>3, OneJob DEF j
    <3>5. QED
      BY <1>t, <2>1, <3>2, <3>4 DEF DoorInv, DoorIsAsSaid, AsSaid
  <2>4. QED
    BY <2>2, <2>3
<1>6. CASE Stamp(h)
  <2>1. /\ j.at = "stamp" /\ accept /\ j.minutes > 0 /\ until' = j.minutes
        /\ job' = [job EXCEPT ![h] = NoJob] /\ UNCHANGED <<lasting, accept, bell, start>> /\ broken' = FALSE
    BY <1>6, <1>t DEF Stamp, DoorStage, Ends, Leaves
  <2>2. DoorStage(NoJob)'
    BY JobTypes DEF DoorStage
  <2>3. job' \in [Helpers -> Jobs] /\ OneAtATime' /\ \A g \in Helpers : DoorStage(job[g])'
    BY <1>t, <2>1, <2>2, JobTypes, OneJob
  <2>4. until' \in Nat /\ until' > 0 /\ until' # NotOpened
    BY <1>t, <2>1 DEF NotOpened
  <2>5. DoorIsAsSaid'
    BY <2>1, <2>4 DEF DoorIsAsSaid, AsSaid
  <2>6. QED
    BY <1>t, <2>3, <2>5 DEF DoorInv
<1>7. CASE Breaks(h)
  <2>1. /\ j.at # "done" /\ job' = [job EXCEPT ![h] = NoJob] /\ broken' = TRUE
        /\ UNCHANGED <<lasting, until, accept, bell, start>>
    BY <1>7 DEF Breaks, Leaves
  <2>2. DoorStage(NoJob)'
    BY JobTypes DEF DoorStage
  <2>3. job' \in [Helpers -> Jobs] /\ OneAtATime' /\ \A g \in Helpers : DoorStage(job[g])'
    BY <1>t, <2>1, <2>2, JobTypes, OneJob
  <2>4. QED
    BY <1>t, <2>1, <2>3 DEF DoorInv, DoorIsAsSaid, AsSaid
<1>8. QED
  BY <1>1, <1>2, <1>3, <1>4, <1>5, <1>6, <1>7 DEF Command

(* A helper that starts has done nothing.                                              *)
LEMMA BeginsInv ==
    ASSUME DoorInv, NEW h \in Helpers, MayStart(h),
           Open(h) \/ Decide(h) \/ Shut(h),
           UNCHANGED <<lasting, until, accept>>, bell' \in BOOLEAN,
           start' \in {"policy", "card", "daemon", "up"}
    PROVE  DoorInv'
<1>1. DoorTypeOK /\ job[h].at = "done"
  BY DEF DoorInv, MayStart
<1>c. crossed' = (IF Working = {} THEN crossed ELSE "going") /\ broken' = broken
  BY DEF Open, Decide, Shut, Begins
<1>2. PICK j \in Jobs : /\ job' = [job EXCEPT ![h] = j]
                        /\ \/ j.at = "flush" /\ j.to = "open" /\ j.minutes > 0
                           \/ j.at = "write" /\ j.to \in {"open", "closed"} /\ j.minutes = 0
                           \/ j.at = "remove" /\ j.to = "file" /\ j.minutes = 0
  <2>1. CASE Open(h)
    <3>1. PICK n \in Minutes : job' = [job EXCEPT ![h] = [at |-> "flush", to |-> "open", minutes |-> n]]
      BY <2>1 DEF Open, Begins, Takes
    <3>2. n \in Nat /\ n > 0
      BY DoorAssumption
    <3>3. [at |-> "flush", to |-> "open", minutes |-> n] \in Jobs
      BY <3>2 DEF Jobs
    <3>4. QED
      BY <3>1, <3>2, <3>3
  <2>2. CASE Decide(h)
    <3>1. PICK p \in {"open", "closed"} : job' = [job EXCEPT ![h] = [at |-> "write", to |-> p, minutes |-> 0]]
      BY <2>2 DEF Decide, Begins, Takes
    <3>2. [at |-> "write", to |-> p, minutes |-> 0] \in Jobs
      BY DEF Jobs
    <3>3. QED
      BY <3>1, <3>2
  <2>3. CASE Shut(h)
    <3>1. [at |-> "remove", to |-> "file", minutes |-> 0] \in Jobs
      BY DEF Jobs
    <3>2. QED
      BY <2>3, <3>1 DEF Shut, Begins, Takes
  <2>4. QED
    BY <2>1, <2>2, <2>3
<1>3. DoorStage(j)' /\ j.at # "done"
  BY <1>2 DEF DoorStage, Jobs
<1>4. DoorTypeOK'
  BY <1>1, <1>2, <1>c DEF DoorTypeOK
<1>5. CASE Working = {}
  <2>1. OneAtATime
    BY <1>5 DEF OneAtATime
  <2>2. OneAtATime' /\ Working' # {} /\ (DoorStage(j)' => \A g \in Helpers : DoorStage(job[g])')
    BY <1>1, <1>2, <1>3, <1>5, <2>1, OneJob
  <2>3. QED
    BY <1>3, <1>4, <2>2 DEF DoorInv, DoorIsAsSaid
<1>6. CASE Working # {}
  BY <1>4, <1>c, <1>6 DEF DoorInv, DoorIsAsSaid
<1>7. QED
  BY <1>5, <1>6

(* Every step of the helpers, the timer, the power and the start keeps the invariant.  *)
LEMMA DoorNextInv == DoorInv /\ [DoorNext]_doorVars => DoorInv'
<1> SUFFICES ASSUME DoorInv, [DoorNext]_doorVars PROVE DoorInv'
  OBVIOUS
<1>t. DoorTypeOK /\ bell \in BOOLEAN /\ broken \in BOOLEAN /\ start \in {"policy", "card", "daemon", "up"}
  BY DEF DoorInv, DoorTypeOK
<1>1. ASSUME NEW h \in Helpers, Command(h) PROVE DoorInv'
  <2>1. CASE crossed = "going"
    <3>1. DoorTypeOK' /\ (crossed' # "going" => Working' = {} /\ crossed' = "past")
      BY <1>t, <1>1, <2>1, CommandType
    <3>2. Working' = {} => OneAtATime' /\ \A g \in Helpers : DoorStage(job[g])'
      BY DEF OneAtATime, Working, DoorStage
    <3>3. QED
      BY <3>1, <3>2 DEF DoorInv, DoorIsAsSaid
  <2>2. CASE crossed # "going"
    BY <1>1, <2>2, CommandInv
  <2>3. QED
    BY <2>1, <2>2
<1>2. ASSUME NEW h \in Pages, PageAsks(h) PROVE DoorInv'
  <2>1. h \in Helpers
    BY DEF Helpers
  <2>2. /\ MayStart(h) /\ (Open(h) \/ Decide(h) \/ Shut(h))
        /\ UNCHANGED <<lasting, until, accept>> /\ UNCHANGED <<bell, start>>
    BY <1>2 DEF PageAsks
  <2>3. QED
    BY <1>t, <2>1, <2>2, BeginsInv
<1>3. CASE Expire
  <2>1. CASE until # NotOpened /\ until <= 0
    <3>1. "timer" \in Helpers
      BY DEF Helpers
    <3>2. MayStart("timer") /\ Shut("timer") /\ UNCHANGED <<lasting, until, accept>> /\ UNCHANGED start /\ bell' = FALSE
      BY <1>3, <2>1 DEF Expire, Shut
    <3>3. QED
      BY <1>t, <3>1, <3>2, BeginsInv
  <2>2. CASE ~(until # NotOpened /\ until <= 0)
    <3>1. /\ bell' = FALSE /\ (until = NotOpened \/ until > 0)
          /\ UNCHANGED <<job, lasting, until, accept, start, broken, crossed>>
      BY <1>3, <1>t, <2>2 DEF Expire, DoorTypeOK, NotOpened
    <3>2. QED
      BY <1>t, <3>1 DEF DoorInv, DoorTypeOK, OneAtATime, DoorIsAsSaid, AsSaid, DoorStage, Working
  <2>3. QED
    BY <2>1, <2>2
<1>4. CASE MinutePasses
  <2>1. /\ Working = {} /\ bell' = TRUE /\ until' = (IF until > 0 THEN until - 1 ELSE until)
        /\ UNCHANGED <<lasting, accept, job, start, broken, crossed>>
    BY <1>4 DEF MinutePasses
  <2>2. until' \in Nat \cup {NotOpened} /\ (until' = NotOpened <=> until = NotOpened)
    BY <1>t, <2>1 DEF DoorTypeOK, NotOpened
  <2>3. \A g \in Helpers : DoorStage(job[g])'
    BY <2>1 DEF DoorStage, Working
  <2>4. QED
    BY <2>1, <2>2, <2>3 DEF DoorInv, DoorTypeOK, OneAtATime, DoorIsAsSaid, AsSaid, Working
<1>5. CASE SupplyCut
  <2>1. job' \in [Helpers -> Jobs] /\ \A g \in Helpers : job'[g].at = "done"
    BY <1>5, JobTypes DEF SupplyCut
  <2>2. OneAtATime' /\ \A g \in Helpers : DoorStage(job[g])'
    BY <2>1 DEF OneAtATime, Working, DoorStage
  <2>3. QED
    BY <1>5, <2>1, <2>2 DEF SupplyCut, DoorInv, DoorTypeOK, DoorIsAsSaid
<1>6. CASE ApplyPolicy
  <2>1. "boot" \in Helpers
    BY DEF Helpers
  <2>2. /\ MayStart("boot") /\ Shut("boot") /\ UNCHANGED <<lasting, until, accept>>
        /\ UNCHANGED bell /\ start' = "card"
    BY <1>6 DEF ApplyPolicy
  <2>3. QED
    BY <1>t, <2>1, <2>2, BeginsInv
<1>7. CASE ReadCard
  <2>1. "card" \in Helpers
    BY DEF Helpers
  <2>2. MayStart("card") /\ UNCHANGED <<lasting, until, accept>> /\ UNCHANGED bell /\ start' = "daemon"
    BY <1>7 DEF ReadCard
  <2>3. CASE Open("card") \/ Decide("card")
    BY <1>t, <2>1, <2>2, <2>3, BeginsInv
  <2>4. CASE UNCHANGED <<job, broken, crossed>>
    BY <2>2, <2>4 DEF DoorInv, DoorTypeOK, OneAtATime, DoorIsAsSaid, AsSaid, DoorStage, Working
  <2>5. QED
    BY <1>7, <2>3, <2>4 DEF ReadCard
<1>8. CASE DaemonStarts
  BY <1>8 DEF DaemonStarts, DoorInv, DoorTypeOK, OneAtATime, DoorIsAsSaid, AsSaid, DoorStage, Working
<1>9. CASE UNCHANGED doorVars
  BY <1>9 DEF doorVars, DoorInv, DoorTypeOK, OneAtATime, DoorIsAsSaid, AsSaid, DoorStage, Working
<1>10. QED
  BY <1>1, <1>2, <1>3, <1>4, <1>5, <1>6, <1>7, <1>8, <1>9 DEF DoorNext

(* Whenever no helper is at work and one has ended well and alone since the last that  *)
(* failed or overlapped, what answers on the port differs from the policy exactly while *)
(* an opening runs (ssh.go:24-26), and no opening is over without the timer about to   *)
(* end it: for any durations and any number of openings, requests at once and power     *)
(* cuts.                                                                               *)
THEOREM DoorTruthful == DoorSpec => []DoorIsAsSaid
<1>1. DoorInv => DoorIsAsSaid
  BY DEF DoorInv
<1>2. QED
  BY DoorInitInv, DoorNextInv, <1>1, PTL DEF DoorSpec

--------------------------------------------------------------------------------------
(* Reboot                                                                              *)

(* The types.                                                                          *)
RebootTypeOK ==
    /\ hour \in 0 .. Day - 1
    /\ toClock \in -Slack .. Minute /\ toPoll \in Int
    /\ required \in BOOLEAN /\ policy \in Policies /\ atStart \in Policies /\ readable \in BOOLEAN
    /\ announced \in BOOLEAN
    /\ watch \in {"on", "going", "ended"} /\ owed \in BOOLEAN

(* A restart that is due waits for no more than what is left of the minute the clock is *)
(* looked at in, and what the tick may be late by.                                      *)
InTime ==
    owed /\ Roomy(policy.at) =>
        /\ required /\ policy.auto /\ readable /\ watch # "ended" /\ policy.at <= hour
        /\ watch = "on" => hour - policy.at + toClock < Minute
        /\ watch = "going" => InWindow(policy.at)

(* GoneInTime is not inductive: how much of the window is left when the watch looks     *)
(* depends on where in the minute it does.                                             *)
RebootInv == RebootTypeOK /\ InTime

(* Time goes round.                                                                    *)
LEMMA NextHour == hour \in 0 .. Day - 1 => (hour + 1) % Day = IF hour + 1 < Day THEN hour + 1 ELSE 0
<1> SUFFICES ASSUME hour \in 0 .. Day - 1 PROVE (hour + 1) % Day = IF hour + 1 < Day THEN hour + 1 ELSE 0
  OBVIOUS
<1>0. Day \in Nat /\ hour \in Int /\ 0 <= hour /\ hour <= Day - 1
  BY RebootAssumption

<1>1. CASE hour + 1 < Day
  BY <1>0, <1>1
<1>2. CASE hour + 1 = Day
  BY <1>0, <1>2
<1>3. QED
  BY <1>0, <1>1, <1>2

(* What can be chosen.                                                                 *)
LEMMA ChosenTime == \A p \in Policies : p.auto \in BOOLEAN /\ p.at \in Nat /\ p.at < Day
<1> SUFFICES ASSUME NEW p \in Policies PROVE p.auto \in BOOLEAN /\ p.at \in Nat /\ p.at < Day
  OBVIOUS
<1>1. p.auto \in BOOLEAN /\ p.at \in Hours
  BY DEF Policies
<1>2. p.at \in 0 .. Day - 1
  BY <1>1, RebootAssumption
<1>3. QED
  BY <1>1, <1>2, RebootAssumption

(* A restart that is in time is in its window.                                         *)
LEMMA InTimeEnough == RebootTypeOK /\ InTime /\ owed /\ Roomy(policy.at) => InWindow(policy.at)
  BY RebootAssumption, ChosenTime DEF RebootTypeOK, InTime, InWindow, Roomy, Minute

(* What the tickers are set to, on time or late.                                       *)
LEMMA Beats == Minute \in -Slack .. Minute /\ Poll \in Int /\ \A c \in -Slack .. 0 : c + Minute \in -Slack .. Minute
  BY RebootAssumption DEF Minute

(* The daemon starts with no restart owed.                                             *)
LEMMA RebootInitInv == RebootInit => RebootInv
<1> SUFFICES ASSUME RebootInit PROVE RebootInv
  OBVIOUS
<1>1. RebootTypeOK
  BY Beats DEF RebootInit, RebootTypeOK
<1>2. QED
  BY <1>1 DEF RebootInit, RebootInv, InTime

(* Every step of the clock, the tickers, apt, the settings page and the watch keeps    *)
(* the invariant.                                                                      *)
LEMMA RebootNextInv == RebootInv /\ [RebootNext]_rebootVars => RebootInv'
<1> SUFFICES ASSUME RebootInv, [RebootNext]_rebootVars PROVE RebootInv'
  OBVIOUS
<1>t. /\ RebootTypeOK /\ InTime
      /\ Day \in Nat /\ Slack \in Nat /\ Window \in Nat /\ Window >= Minute + Slack /\ Minute \in Nat
      /\ policy.at \in Nat /\ policy.at < Day /\ policy.auto \in BOOLEAN
  BY RebootAssumption, ChosenTime DEF RebootInv, RebootTypeOK, Minute
<1> USE DEF RebootTypeOK, RebootInv
<1>1. CASE TimePasses
  <2>1. hour' = (IF hour + 1 < Day THEN hour + 1 ELSE 0)
    BY <1>1, NextHour DEF TimePasses
  <2>2. RebootTypeOK'
    BY <1>1, <1>t, <2>1 DEF TimePasses, configVars
  <2>3. InTime'
    <3>1. SUFFICES ASSUME owed', Roomy(policy.at)
                   PROVE  /\ required /\ policy.auto /\ readable /\ watch = "on" /\ policy.at <= hour'
                          /\ hour' - policy.at + toClock' < Minute
      BY <1>1 DEF TimePasses, InTime, configVars
    <3>2. /\ required /\ policy.auto /\ readable /\ watch = "on" /\ toClock' = toClock - 1
          /\ owed \/ hour' = policy.at
      BY <1>1, <3>1 DEF TimePasses
    <3>3. CASE hour' = policy.at
      BY <3>2, <3>3, <1>t
    <3>4. CASE owed
      <4>1. hour - policy.at + toClock < Minute /\ policy.at <= hour /\ InWindow(policy.at)
            /\ toClock > -Slack
        BY <1>t, <1>1, <3>1, <3>2, <3>4, InTimeEnough DEF InTime, TimePasses
      <4>2. hour + 1 < Day
        BY <3>1, <4>1, <1>t DEF Roomy
      <4>3. QED
        BY <2>1, <3>2, <4>1, <4>2, <1>t
    <3>5. QED
      BY <3>2, <3>3, <3>4
  <2>4. QED
    BY <2>2, <2>3
<1>0. ASSUME NEW h \in 0 .. Day - 1, ClockIsSet(h) PROVE RebootInv'
  BY <1>0, <1>t DEF ClockIsSet, InTime, configVars
<1>2. CASE PackageAsks
  BY <1>2, <1>t DEF PackageAsks, InTime, configVars
<1>3. ASSUME NEW p \in Policies, SetPolicy(p) PROVE RebootInv'
  BY <1>3, <1>t DEF SetPolicy, InTime
<1>11. CASE FileEdited
  BY <1>11, <1>t DEF FileEdited, InTime
<1>4. CASE PollTick
  <2>1. toPoll' \in Int
    BY <1>4, RebootAssumption DEF PollTick
  <2>2. InTime'
    BY <1>4, <1>t DEF PollTick, InTime, InWindow, configVars
  <2>3. QED
    BY <1>4, <1>t, <2>1, <2>2 DEF PollTick, configVars
<1>5. CASE ClockTick
  <2>1. /\ watch = "on" /\ toClock <= 0 /\ toClock' = toClock + Minute
        /\ UNCHANGED <<hour, toPoll, required, policy, atStart, readable, owed>>
        /\ \/ required /\ Due(InForce) /\ announced' = TRUE /\ watch' = "going"
           \/ ~(required /\ Due(InForce)) /\ announced' = announced /\ watch' = watch
    BY <1>5 DEF ClockTick, GoIfDue, configVars
  <2>2. RebootTypeOK'
    <3>1. toClock \in -Slack .. 0
      BY <1>t, <2>1
    <3>2. toClock' \in -Slack .. Minute
      BY <2>1, <3>1, Beats
    <3>3. QED
      BY <1>t, <2>1, <3>2
  <2>3. owed /\ Roomy(policy.at) => required /\ Due(InForce) /\ InWindow(policy.at)
    BY <1>t, InTimeEnough DEF InTime, Due, InForce
  <2>4. InTime'
    BY <1>t, <2>1, <2>3 DEF InTime, InWindow
  <2>5. QED
    BY <1>t, <2>1, <2>2, <2>4
<1>6. CASE BoxRestarts
  BY <1>6, <1>t, Beats DEF BoxRestarts, Starts, InTime
<1>7. CASE RebootFails
  BY <1>7, <1>t DEF RebootFails, InTime, configVars
<1>8. CASE DaemonRestarts
  BY <1>8, <1>t, Beats DEF DaemonRestarts, Starts, InTime
<1>9. CASE UNCHANGED rebootVars
  BY <1>9, <1>t DEF rebootVars, InTime, InWindow
<1>10. QED
  BY <1>0, <1>1, <1>2, <1>3, <1>4, <1>5, <1>6, <1>7, <1>8, <1>9, <1>11 DEF RebootNext

(* A restart that was owed when its time came has been made before the window has      *)
(* shut, where midnight leaves room for a late tick, and none is made but one that was  *)
(* asked for and announced, in the window and under the automatic policy of the file,   *)
(* or of the start if the file does not load (reboot.go, main.go:184-197): for any day, *)
(* window, poll and lateness of the ticks, as long as the window is a minute and that   *)
(* lateness long.                                                                      *)
THEOREM PromiseKept == RebootSpec => PromiseIsKept
<1>1. RebootInv => GoneInTime
  BY InTimeEnough DEF RebootInv, GoneInTime
<1>2. [RebootNext]_rebootVars => [OnlyThen]_rebootVars
  <2> SUFFICES ASSUME RebootNext, watch # "going", watch' = "going"
               PROVE  OnlyThen
    BY DEF OnlyThen
  <2>1. ClockTick
    BY DEF RebootNext, TimePasses, ClockIsSet, PackageAsks, SetPolicy, FileEdited, PollTick,
           BoxRestarts, RebootFails, DaemonRestarts, Starts
  <2>2. required /\ Due(InForce) /\ announced'
    BY <2>1 DEF ClockTick, GoIfDue
  <2>3. QED
    BY <2>2 DEF OnlyThen, InForce
<1>3. QED
  BY RebootInitInv, RebootNextInv, <1>1, <1>2, PTL DEF RebootSpec, PromiseIsKept

--------------------------------------------------------------------------------------
(* Power                                                                               *)

(* A line of the kernel's ring, and what the sampler keeps.                            *)
Ring    == [sagged : BOOLEAN, age : 0 .. OverAfter]
Samples == [now : BOOLEAN, events : Nat, last : 0 .. OverAfter]

(* The types.                                                                          *)
PowerTypeOK ==
    /\ ring \in Seq(Ring)
    /\ supply \in {"fine", "low"} /\ sagAge \in 0 .. OverAfter
    /\ state \in Samples /\ seenAge \in 0 .. OverAfter
    /\ settled \in BOOLEAN /\ raised \in BOOLEAN
    /\ beat \in {"none", "told"}

(* The lines in the ring are in the order they were written in, and say what happened. *)
RingOrder == \A i, j \in 1 .. Len(ring) : i < j => ring[j].age <= ring[i].age
RingTrue ==
    /\ \A i \in 1 .. Len(ring) : ring[i].sagged => sagAge <= ring[i].age
    /\ ring # <<>> => (ring[Len(ring)].sagged <=> supply = "low")

(* What is left of the sags in the ring holds the last that has been seen, or a later  *)
(* one.                                                                                *)
Seen ==
    /\ state.last = seenAge /\ sagAge <= seenAge
    /\ (\E i \in 1 .. Len(ring) : ring[i].sagged) =>
           \E i \in 1 .. Len(ring) : ring[i].sagged /\ ring[i].age <= seenAge
    /\ state.events = 0 => ~raised /\ seenAge = OverAfter

(* ConditionIsRight is not inductive: a sag whose line has been wrapped away counts    *)
(* only through what the sampler has kept of it.                                       *)
PowerInv == PowerTypeOK /\ RingOrder /\ RingTrue /\ Seen /\ ConditionIsRight
--------------------------------------------------------------------------------------
(* A set of numbers that is not empty has a least one.                                 *)
LEMMA LeastOf ==
    ASSUME NEW S \in SUBSET Nat, S # {}
    PROVE  Min(S) \in S /\ \A y \in S : Min(S) <= y
<1>1. \E x \in S : \A y \in S : ~(<<y, x>> \in OpToRel(<, Nat))
  BY NatLessThanWellFounded, WFMin
<1>2. PICK x \in S : \A y \in S : ~(<<y, x>> \in OpToRel(<, Nat))
  BY <1>1
<1>3. \A y \in S : x <= y
  <2>1. SUFFICES ASSUME NEW y \in S, y < x PROVE FALSE
    OBVIOUS
  <2>2. <<y, x>> \in OpToRel(<, Nat)
    BY <2>1 DEF OpToRel
  <2>3. QED
    BY <1>2, <2>2
<1>4. QED
  BY <1>3 DEF Min

(* The lesser of two ages is that of the later sag.                                    *)
LEMMA LeastOfTwo ==
    ASSUME NEW a \in Nat, NEW b \in Nat
    PROVE  Min({a, b}) = IF a <= b THEN a ELSE b
<1>1. Min({a, b}) \in {a, b} /\ Min({a, b}) <= a /\ Min({a, b}) <= b
  BY LeastOf, {a, b} \in SUBSET Nat
<1>2. QED
  BY <1>1

(* Ages grow alike, up to where the condition is over.                                 *)
LEMMA Ageing ==
    /\ \A n \in 0 .. OverAfter : Older(n) \in 0 .. OverAfter /\ Older(n) \in Nat
    /\ \A m, n \in 0 .. OverAfter : m <= n => Older(m) <= Older(n)
    /\ Older(OverAfter) = OverAfter
  BY PowerAssumption DEF Older

(* What a count of the ring's lines says (parse, power.go).                            *)
LEMMA Counting ==
    ASSUME NEW lines \in Seq(Ring)
    PROVE  /\ Counted(lines) \in Samples
           /\ Counted(lines).now <=> lines # <<>> /\ lines[Len(lines)].sagged
           /\ Counted(lines).events = 0 <=> ~\E i \in 1 .. Len(lines) : lines[i].sagged
           /\ Counted(lines).last = Newest(lines)
           /\ Newest(lines) \in 0 .. OverAfter
           /\ \A i \in 1 .. Len(lines) : lines[i].sagged => Newest(lines) <= lines[i].age
           /\ Newest(lines) = OverAfter \/ \E i \in 1 .. Len(lines) : lines[i].sagged /\ lines[i].age = Newest(lines)
<1> DEFINE S == {j \in 1 .. Len(lines) : lines[j].sagged}
<1>1. Len(lines) \in Nat /\ \A i \in 1 .. Len(lines) : lines[i].sagged \in BOOLEAN /\ lines[i].age \in 0 .. OverAfter
  <2>1. Len(lines) \in Nat /\ \A i \in 1 .. Len(lines) : lines[i] \in Ring
    BY ElementOfSeq, LenProperties
  <2>2. \A r \in Ring : r.sagged \in BOOLEAN /\ r.age \in 0 .. OverAfter
    BY DEF Ring
  <2>3. QED
    BY <2>1, <2>2
<1>2. IsFiniteSet(S)
  <2>1. IsFiniteSet(1 .. Len(lines))
    BY <1>1, FS_Interval, 1 \in Int, Len(lines) \in Int
  <2>2. S \subseteq 1 .. Len(lines)
    OBVIOUS
  <2>3. QED
    BY <2>1, <2>2, FS_Subset
<1>3. Cardinality(S) \in Nat /\ (Cardinality(S) = 0 <=> S = {})
  BY <1>2, FS_CardinalityType, FS_EmptySet
<1>4. /\ Ages(lines) \cup {OverAfter} \in SUBSET Nat /\ Ages(lines) \cup {OverAfter} \subseteq 0 .. OverAfter
  BY <1>1, PowerAssumption DEF Ages
<1>5. /\ Newest(lines) \in Ages(lines) \cup {OverAfter}
      /\ \A y \in Ages(lines) \cup {OverAfter} : Newest(lines) <= y
  BY <1>4, LeastOf, Ages(lines) \cup {OverAfter} # {} DEF Newest
<1>6. (lines # <<>>) => Len(lines) \in 1 .. Len(lines)
  BY <1>1, EmptySeq
<1>7. (lines # <<>> /\ lines[Len(lines)].sagged) \in BOOLEAN
  OBVIOUS
<1>8. Counted(lines) = [now |-> lines # <<>> /\ lines[Len(lines)].sagged, events |-> Cardinality(S), last |-> Newest(lines)]
  BY DEF Counted
<1>9. Counted(lines) \in Samples
  BY <1>3, <1>4, <1>5, <1>8 DEF Samples
<1>10. Counted(lines).events = Cardinality(S) /\ Counted(lines).last = Newest(lines)
       /\ Counted(lines).now = (lines # <<>> /\ lines[Len(lines)].sagged)
  <2> DEFINE n == lines # <<>> /\ lines[Len(lines)].sagged
             c == Cardinality(S)
  <2>1. Counted(lines) = [now |-> n, events |-> c, last |-> Newest(lines)]
    BY <1>8
  <2> HIDE DEF n, c
  <2>2. Counted(lines).events = c /\ Counted(lines).last = Newest(lines) /\ Counted(lines).now = n
    BY ONLY <2>1, SMT
  <2>3. QED
    BY <2>2 DEF n, c
<1>11. S = {} <=> ~\E i \in 1 .. Len(lines) : lines[i].sagged
  OBVIOUS
<1>12. \A i \in 1 .. Len(lines) : lines[i].sagged => lines[i].age \in Ages(lines)
  BY DEF Ages
<1>13. \A a \in Ages(lines) : \E i \in 1 .. Len(lines) : lines[i].sagged /\ lines[i].age = a
  BY DEF Ages
<1>14. QED
  BY <1>3, <1>4, <1>5, <1>9, <1>10, <1>11, <1>12, <1>13

(* The watcher starts with nothing seen.                                               *)
LEMMA PowerInitInv == PowerInit => PowerInv
<1> SUFFICES ASSUME PowerInit PROVE PowerInv
  OBVIOUS
<1>1. OverAfter \in 0 .. OverAfter /\ NothingSeen \in Samples
  BY PowerAssumption DEF NothingSeen, Samples
<1>2. ring \in Seq(Ring) /\ Len(ring) = 0 /\ beat = "none"
  BY DEF PowerInit
<1>3. state.last = OverAfter /\ state.events = 0
  BY DEF PowerInit, NothingSeen
<1>4. PowerTypeOK
  BY <1>1, <1>2 DEF PowerInit, PowerTypeOK
<1>5. RingOrder /\ RingTrue /\ Seen /\ ConditionIsRight
  BY <1>1, <1>2, <1>3, PowerAssumption DEF PowerInit, RingOrder, RingTrue, Seen, ConditionIsRight
<1>6. QED
  BY <1>4, <1>5 DEF PowerInv

(* Where the ring has wrapped, the greater count and the later sag are kept.           *)
LEMMA Mixing ==
    ASSUME NEW c \in Samples, NEW o \in Samples
    PROVE  LET e == [c EXCEPT !.events = o.events, !.last = Min({@, o.last})]
           IN  /\ e \in Samples /\ e.now = c.now /\ e.events = o.events
               /\ e.last = IF c.last <= o.last THEN c.last ELSE o.last
<1>1. /\ c = [now |-> c.now, events |-> c.events, last |-> c.last]
      /\ c.now \in BOOLEAN /\ o.events \in Nat /\ c.last \in 0 .. OverAfter /\ o.last \in 0 .. OverAfter
  BY DEF Samples
<1>2. Min({c.last, o.last}) = IF c.last <= o.last THEN c.last ELSE o.last
  BY <1>1, LeastOfTwo, c.last \in Nat, o.last \in Nat
<1>3. Min({c.last, o.last}) \in 0 .. OverAfter
  BY <1>1, <1>2
<1> DEFINE m == Min({c.last, o.last})
           e == [c EXCEPT !.events = o.events, !.last = m]
<1>4. e \in Samples /\ e.now = c.now /\ e.events = o.events /\ e.last = m
  <2> HIDE DEF m
  <2> QED
    BY <1>1, <1>3 DEF m, Samples
<1>5. QED
  BY <1>2, <1>4

(* What the sampler knows after it has read the ring, of which some may be gone.       *)
LEMMA Sampling ==
    ASSUME NEW o \in Samples, NEW lines \in Seq(Ring)
    PROVE  LET e == Sampled(o, lines)
               some == \E i \in 1 .. Len(lines) : lines[i].sagged
           IN  /\ e \in Samples
               /\ e.now <=> lines # <<>> /\ lines[Len(lines)].sagged
               /\ e.events = 0 <=> o.events = 0 /\ ~some
               /\ \/ e.last = Newest(lines) /\ (o.events = 0 \/ some)
                  \/ o.events # 0 /\ e.last = IF Newest(lines) <= o.last THEN Newest(lines) ELSE o.last
<1> DEFINE c == Counted(lines)
           some == \E i \in 1 .. Len(lines) : lines[i].sagged
<1>1. /\ c \in Samples /\ (c.now <=> lines # <<>> /\ lines[Len(lines)].sagged)
      /\ (c.events = 0 <=> ~some) /\ c.last = Newest(lines)
  BY Counting
<1>2. c.events \in Nat /\ o.events \in Nat
  BY <1>1 DEF Samples
<1>3. Sampled(o, lines) = IF c.events < o.events THEN [c EXCEPT !.events = o.events, !.last = Min({@, o.last})] ELSE c
  BY DEF Sampled
<1> HIDE DEF c, some
<1>4. CASE c.events < o.events
  <2> DEFINE e == Sampled(o, lines)
  <2>1. /\ e \in Samples /\ e.now = c.now /\ e.events = o.events
        /\ e.last = IF c.last <= o.last THEN c.last ELSE o.last
    <3> DEFINE x == [c EXCEPT !.events = o.events, !.last = Min({@, o.last})]
    <3>1. /\ x \in Samples /\ x.now = c.now /\ x.events = o.events
          /\ x.last = IF c.last <= o.last THEN c.last ELSE o.last
      BY <1>1, Mixing
    <3>2. e = x
      BY <1>3, <1>4
    <3> HIDE DEF x, e
    <3>3. QED
      BY <3>1, <3>2
  <2>2. o.events # 0
    BY <1>2, <1>4
  <2>3. QED
    BY <1>1, <2>1, <2>2 DEF some
<1>5. CASE ~(c.events < o.events)
  BY <1>1, <1>2, <1>3, <1>5 DEF some
<1>6. QED
  BY <1>4, <1>5

(* The ring an interval later.                                                         *)
LEMMA Aged ==
    ASSUME NEW s \in Seq(Ring)
    PROVE  LET t == [i \in 1..Len(s) |-> [s[i] EXCEPT !.age = Older(@)]]
           IN  /\ t \in Seq(Ring) /\ Len(t) = Len(s)
               /\ \A i \in 1 .. Len(s) : t[i].sagged = s[i].sagged /\ t[i].age = Older(s[i].age)
<1> DEFINE t == [i \in 1..Len(s) |-> [s[i] EXCEPT !.age = Older(@)]]
<1>1. Len(s) \in Nat /\ \A i \in 1 .. Len(s) : s[i] \in Ring
  BY ElementOfSeq, LenProperties
<1>2. ASSUME NEW r \in Ring
      PROVE  /\ [r EXCEPT !.age = Older(@)] \in Ring /\ [r EXCEPT !.age = Older(@)].sagged = r.sagged
             /\ [r EXCEPT !.age = Older(@)].age = Older(r.age)
  <2>1. r = [sagged |-> r.sagged, age |-> r.age] /\ r.sagged \in BOOLEAN /\ Older(r.age) \in 0 .. OverAfter
    BY Ageing DEF Ring
  <2>2. QED
    BY <2>1 DEF Ring
<1>3. \A i \in 1 .. Len(s) : t[i] = [s[i] EXCEPT !.age = Older(@)]
  OBVIOUS
<1>4. \A i \in 1 .. Len(s) : t[i] \in Ring
  BY <1>1, <1>2, <1>3
<1>5. t \in [1 .. Len(s) -> Ring]
  <2> HIDE DEF Ring
  <2> QED
    BY <1>4
<1>6. t \in Seq(Ring) /\ Len(t) = Len(s)
  <2>1. t \in Seq(Ring)
    BY <1>1, <1>5, SeqDef
  <2>2. QED
    BY <2>1, <1>1, LenProperties
<1>7. QED
  BY <1>1, <1>2, <1>3, <1>6

(* Every step of the supply, the ring, the sampler and the clock keeps the invariant.  *)
LEMMA PowerNextInv == PowerInv /\ [PowerNext]_powerVars => PowerInv'
<1> SUFFICES ASSUME PowerInv, [PowerNext]_powerVars PROVE PowerInv'
  OBVIOUS
<1>t. PowerTypeOK /\ RingOrder /\ RingTrue /\ Seen
  BY DEF PowerInv
<1>r. /\ Len(ring) \in Nat /\ \A i \in 1 .. Len(ring) : ring[i] \in Ring
      /\ \A i \in 1 .. Len(ring) : ring[i].sagged \in BOOLEAN /\ ring[i].age \in 0 .. OverAfter
  <2>1. ring \in Seq(Ring)
    BY <1>t DEF PowerTypeOK
  <2>2. Len(ring) \in Nat /\ \A i \in 1 .. Len(ring) : ring[i] \in Ring
    BY <2>1, ElementOfSeq, LenProperties
  <2>3. QED
    BY <2>2 DEF Ring
(* A line is written. *)
<1>a. ASSUME NEW b \in BOOLEAN, ring' = Append(ring, [sagged |-> b, age |-> 0])
      PROVE  /\ ring' \in Seq(Ring) /\ Len(ring') = Len(ring) + 1 /\ ring' # <<>>
             /\ \A i \in 1 .. Len(ring) : ring'[i] = ring[i]
             /\ ring'[Len(ring')].sagged = b /\ ring'[Len(ring')].age = 0
             /\ RingOrder'
  <2> DEFINE r == [sagged |-> b, age |-> 0]
  <2>1. r \in Ring /\ r.sagged = b /\ r.age = 0
    BY PowerAssumption DEF Ring
  <2>2. ring \in Seq(Ring)
    BY <1>t DEF PowerTypeOK
  <2> HIDE DEF r
  <2>3. /\ ring' \in Seq(Ring) /\ Len(ring') = Len(ring) + 1
        /\ \A i \in 1 .. Len(ring) : ring'[i] = ring[i]
        /\ ring'[Len(ring) + 1] = r
    BY <1>a, <2>1, <2>2, AppendProperties DEF r
  <2>4. ring' # <<>>
    BY <2>3, <1>r, EmptySeq
  <2>5. RingOrder'
    BY <1>t, <1>r, <2>1, <2>3 DEF RingOrder
  <2>6. QED
    BY <2>1, <2>3, <2>4, <2>5
<1>1. CASE Sag
  <2>1. /\ ring' \in Seq(Ring) /\ Len(ring') = Len(ring) + 1 /\ ring' # <<>>
        /\ \A i \in 1 .. Len(ring) : ring'[i] = ring[i]
        /\ ring'[Len(ring')].sagged = TRUE /\ ring'[Len(ring')].age = 0
        /\ RingOrder'
    BY <1>1, <1>a DEF Sag
  <2>2. /\ supply' = "low" /\ sagAge' = 0 /\ beat' = "none" /\ UNCHANGED <<state, settled, raised, seenAge>>
    BY <1>1 DEF Sag
  <2>3. PowerTypeOK'
    BY <1>t, <2>1, <2>2, PowerAssumption DEF PowerTypeOK
  <2>4. RingTrue'
    BY <1>r, <2>1, <2>2 DEF RingTrue
  <2>5. Seen'
    <3>1. Len(ring') \in 1 .. Len(ring')
      BY <1>r, <2>1
    <3>2. seenAge \in 0 .. OverAfter
      BY <1>t DEF PowerTypeOK
    <3>3. QED
      BY <1>t, <2>1, <2>2, <3>1, <3>2 DEF Seen
  <2>6. QED
    BY <2>1, <2>2, <2>3, <2>4, <2>5 DEF PowerInv, ConditionIsRight
<1>2. CASE Normalise
  <2>1. /\ ring' \in Seq(Ring) /\ Len(ring') = Len(ring) + 1 /\ ring' # <<>>
        /\ \A i \in 1 .. Len(ring) : ring'[i] = ring[i]
        /\ ring'[Len(ring')].sagged = FALSE /\ ring'[Len(ring')].age = 0
        /\ RingOrder'
    BY <1>2, <1>a DEF Normalise
  <2>2. /\ supply' = "fine" /\ beat' = "none" /\ UNCHANGED <<sagAge, state, settled, raised, seenAge>>
    BY <1>2 DEF Normalise
  <2>3. PowerTypeOK'
    BY <1>t, <2>1, <2>2, PowerAssumption DEF PowerTypeOK
  <2>4. \A i \in 1 .. Len(ring') : ring'[i].sagged => i \in 1 .. Len(ring) /\ ring'[i] = ring[i]
    BY <1>r, <2>1
  <2>5. RingTrue'
    BY <1>t, <1>r, <2>1, <2>2, <2>4 DEF RingTrue
  <2>6. Seen'
    <3>1. \A i \in 1 .. Len(ring) : i \in 1 .. Len(ring') /\ ring'[i] = ring[i]
      BY <1>r, <2>1
    <3>2. QED
      BY <1>t, <2>2, <2>4, <3>1 DEF Seen
  <2>7. QED
    BY <2>1, <2>2, <2>3, <2>5, <2>6 DEF PowerInv, ConditionIsRight
<1>3. CASE Wrap
  <2>0. ring \in Seq(Ring) /\ ring # <<>>
    BY <1>t, <1>3 DEF PowerTypeOK, Wrap
  <2>1. /\ ring' \in Seq(Ring) /\ Len(ring') = Len(ring) - 1
        /\ \A i \in 1 .. Len(ring') : ring'[i] = ring[i + 1]
    BY <1>3, <2>0, HeadTailProperties DEF Wrap
  <2>2. beat' = "none" /\ UNCHANGED <<supply, sagAge, state, settled, raised, seenAge>>
    BY <1>3 DEF Wrap
  <2>3. PowerTypeOK'
    BY <1>t, <2>1, <2>2 DEF PowerTypeOK
  <2>4. RingOrder'
    <3>1. SUFFICES ASSUME NEW i \in 1 .. Len(ring'), NEW j \in 1 .. Len(ring'), i < j
                   PROVE  ring'[j].age <= ring'[i].age
      BY DEF RingOrder
    <3>2. i \in Int /\ j \in Int /\ 1 <= i /\ i < j /\ j <= Len(ring) - 1
      BY <1>r, <2>1, <3>1
    <3>3. i + 1 \in 1 .. Len(ring) /\ j + 1 \in 1 .. Len(ring) /\ i + 1 < j + 1
      BY <1>r, <3>2
    <3>4. QED
      BY <1>t, <2>1, <3>3 DEF RingOrder
  <2>5. ring' # <<>> => Len(ring') \in 1 .. Len(ring') /\ ring'[Len(ring')] = ring[Len(ring)]
    <3>1. SUFFICES ASSUME ring' # <<>> PROVE Len(ring') \in 1 .. Len(ring') /\ ring'[Len(ring')] = ring[Len(ring)]
      OBVIOUS
    <3>2. Len(ring') \in Nat \ {0}
      BY <2>1, <3>1, EmptySeq
    <3>3. QED
      BY <2>1, <3>2, <1>r
  <2>6. RingTrue'
    BY <1>t, <1>r, <2>0, <2>1, <2>2, <2>5 DEF RingTrue
  <2>7. Seen'
    <3>1. ASSUME NEW i \in 1 .. Len(ring'), ring'[i].sagged
          PROVE  \E k \in 1 .. Len(ring') : ring'[k].sagged /\ ring'[k].age <= seenAge
      <4>1. i + 1 \in 1 .. Len(ring) /\ ring[i + 1].sagged
        BY <1>r, <2>1, <3>1
      <4>2. PICK m \in 1 .. Len(ring) : ring[m].sagged /\ ring[m].age <= seenAge
        BY <1>t, <4>1 DEF Seen
      <4>3. CASE m > 1
        <5>1. m - 1 \in 1 .. Len(ring') /\ ring'[m - 1] = ring[m]
          BY <1>r, <2>1, <4>3
        <5>2. QED
          BY <4>2, <5>1
      <4>4. CASE m = 1
        <5>1. ring[i + 1].age <= ring[m].age
          BY <1>t, <1>r, <4>1, <4>4 DEF RingOrder
        <5>2. ring'[i].age <= seenAge
          BY <1>t, <1>r, <2>1, <4>1, <4>2, <5>1 DEF PowerTypeOK
        <5>3. QED
          BY <3>1, <5>2
      <4>5. QED
        BY <4>3, <4>4
    <3>2. QED
      BY <1>t, <2>2, <3>1 DEF Seen
  <2>8. QED
    BY <2>2, <2>3, <2>4, <2>6, <2>7 DEF PowerInv, ConditionIsRight
<1>4. CASE WatcherRestarts
  <2>1. NothingSeen \in Samples /\ NothingSeen.last = OverAfter /\ NothingSeen.events = 0
    BY PowerAssumption DEF NothingSeen, Samples
  <2>2. /\ state' = NothingSeen /\ settled' = FALSE /\ raised' = FALSE /\ beat' = "none" /\ seenAge' = OverAfter
        /\ UNCHANGED <<ring, supply, sagAge>>
    BY <1>4 DEF WatcherRestarts
  <2>3. PowerTypeOK'
    <3>1. OverAfter \in 0 .. OverAfter
      BY PowerAssumption
    <3>2. QED
      BY <1>t, <2>1, <2>2, <3>1 DEF PowerTypeOK
  <2>4. RingOrder' /\ RingTrue'
    BY <1>t, <2>2 DEF RingOrder, RingTrue
  <2>5. Seen'
    BY <1>t, <1>r, <2>1, <2>2 DEF Seen, PowerTypeOK
  <2>6. QED
    BY <2>2, <2>3, <2>4, <2>5 DEF PowerInv, ConditionIsRight
<1>5. CASE Beat
  <2> DEFINE lines == [i \in 1..Len(ring) |-> [ring[i] EXCEPT !.age = Older(@)]]
             aged  == [state EXCEPT !.last = Older(@)]
             reads == /\ state' = Sampled(aged, lines)
                      /\ seenAge' = Min({Older(seenAge), Newest(lines)})
                      /\ beat' = IF settled THEN "told" ELSE "none"
             fails == /\ state' = aged
                      /\ seenAge' = Older(seenAge)
                      /\ beat' = "none"
             some  == \E i \in 1 .. Len(lines) : lines[i].sagged
  <2>1. /\ ring' = lines /\ sagAge' = Older(sagAge) /\ (reads \/ fails) /\ settled' = TRUE
        /\ raised' = (IF settled THEN Standing(state') ELSE raised) /\ supply' = supply
    BY <1>5 DEF Beat
  <2>2. /\ lines \in Seq(Ring) /\ Len(lines) = Len(ring)
        /\ \A i \in 1 .. Len(ring) : lines[i].sagged = ring[i].sagged /\ lines[i].age = Older(ring[i].age)
    BY <1>t, Aged DEF PowerTypeOK
  <2>3. state \in Samples /\ state.last = seenAge /\ seenAge \in 0 .. OverAfter /\ sagAge \in 0 .. OverAfter
        /\ supply \in {"fine", "low"}
    BY <1>t DEF PowerTypeOK, Seen
  <2>4. aged \in Samples /\ aged.last = Older(seenAge) /\ aged.events = state.events
    <3>1. Older(state.last) \in 0 .. OverAfter
      BY <2>3, Ageing
    <3>2. QED
      BY <2>3, <3>1 DEF Samples
  <2>5. settled \in BOOLEAN /\ raised \in BOOLEAN /\ (state.events = 0 => ~raised /\ seenAge = OverAfter)
    BY <1>t DEF PowerTypeOK, Seen
  <2>6. (ring = <<>> <=> Len(ring) = 0) /\ (lines = <<>> <=> Len(lines) = 0)
    BY <1>t, <2>2, EmptySeq DEF PowerTypeOK
  <2> HIDE DEF lines, aged
  <2>7. /\ Newest(lines) \in 0 .. OverAfter /\ Newest(lines) \in Nat
        /\ \A i \in 1 .. Len(lines) : lines[i].sagged => Newest(lines) <= lines[i].age
        /\ Newest(lines) = OverAfter \/ \E i \in 1 .. Len(lines) : lines[i].sagged /\ lines[i].age = Newest(lines)
    <3>1. \A n \in 0 .. OverAfter : n \in Nat
      BY PowerAssumption
    <3>2. QED
      BY <2>2, <3>1, Counting
  <2>8. RingOrder'
    BY <1>t, <1>r, <2>1, <2>2, Ageing DEF RingOrder
  <2>9. RingTrue'
    <3>1. \A i \in 1 .. Len(lines) : lines[i].sagged => Older(sagAge) <= lines[i].age
      BY <1>t, <1>r, <2>2, <2>3, Ageing DEF RingTrue
    <3>2. lines # <<>> => (lines[Len(lines)].sagged <=> supply = "low")
      BY <1>t, <1>r, <2>2, <2>6 DEF RingTrue
    <3>3. QED
      BY <2>1, <3>1, <3>2 DEF RingTrue
  <2>10. Older(sagAge) <= Older(seenAge) /\ Older(sagAge) \in 0 .. OverAfter /\ Older(seenAge) \in 0 .. OverAfter
         /\ Older(seenAge) \in Nat
    BY <1>t, <2>3, Ageing DEF Seen
  <2>11. some => Newest(lines) <= Older(seenAge)
    <3>1. SUFFICES ASSUME some PROVE Newest(lines) <= Older(seenAge)
      OBVIOUS
    <3>2. PICK k \in 1 .. Len(ring) : ring[k].sagged /\ ring[k].age <= seenAge
      BY <1>t, <2>2, <3>1 DEF Seen
    <3>3. lines[k].sagged /\ lines[k].age = Older(ring[k].age) /\ Older(ring[k].age) <= Older(seenAge)
      BY <1>r, <2>2, <2>3, <3>2, Ageing
    <3>4. Newest(lines) <= lines[k].age /\ ring[k].age \in 0 .. OverAfter /\ Older(ring[k].age) \in 0 .. OverAfter
      BY <1>r, <2>2, <2>7, <3>3, Ageing
    <3>5. QED
      BY <2>7, <2>10, <3>3, <3>4
  <2>12. ASSUME state' \in Samples, state'.last = seenAge', seenAge' \in 0 .. OverAfter,
                Older(sagAge) <= seenAge',
                some => \E i \in 1 .. Len(lines) : lines[i].sagged /\ lines[i].age <= seenAge',
                state'.events = 0 => state.events = 0 /\ seenAge' = OverAfter,
                beat' \in {"none", "told"}, ConditionIsRight'
         PROVE  PowerInv'
    <3>1. raised' \in BOOLEAN /\ (state'.events = 0 => ~raised')
      BY <2>1, <2>5, <2>12 DEF Standing, Samples
    <3>2. PowerTypeOK'
      BY <2>1, <2>2, <2>3, <2>10, <2>12, <3>1 DEF PowerTypeOK
    <3>3. Seen'
      BY <2>1, <2>12, <3>1 DEF Seen
    <3>4. QED
      BY <2>8, <2>9, <2>12, <3>2, <3>3 DEF PowerInv
  <2>13. CASE reads
    <3>1. /\ state' \in Samples
          /\ state'.now <=> lines # <<>> /\ lines[Len(lines)].sagged
          /\ state'.events = 0 <=> aged.events = 0 /\ ~some
          /\ \/ state'.last = Newest(lines) /\ (aged.events = 0 \/ some)
             \/ aged.events # 0 /\ state'.last = IF Newest(lines) <= aged.last THEN Newest(lines) ELSE aged.last
      BY <2>2, <2>4, <2>13, Sampling
    <3>2. seenAge' = IF Older(seenAge) <= Newest(lines) THEN Older(seenAge) ELSE Newest(lines)
      BY <2>7, <2>10, <2>13, LeastOfTwo
    <3>3. ~some => Newest(lines) = OverAfter
      BY <2>7
    <3>4. state.events = 0 => Older(seenAge) = OverAfter
      BY <2>5, Ageing
    <3>5. state'.last = seenAge'
      BY <2>4, <2>7, <2>10, <2>11, <3>1, <3>2, <3>3, <3>4
    <3>6. seenAge' \in 0 .. OverAfter /\ Older(sagAge) <= seenAge'
      <4>1. Older(sagAge) <= Newest(lines)
        <5>1. CASE some
          BY <2>1, <2>7, <2>9, <2>10, <5>1 DEF RingTrue
        <5>2. CASE ~some
          BY <2>10, <3>3, <5>2
        <5>3. QED
          BY <5>1, <5>2
      <4>2. QED
        BY <2>7, <2>10, <3>2, <4>1
    <3>7. some => \E i \in 1 .. Len(lines) : lines[i].sagged /\ lines[i].age <= seenAge'
      <4>1. some => \E i \in 1 .. Len(lines) : lines[i].sagged /\ lines[i].age <= Newest(lines)
        <5>1. SUFFICES ASSUME some PROVE \E i \in 1 .. Len(lines) : lines[i].sagged /\ lines[i].age <= Newest(lines)
          OBVIOUS
        <5>2. CASE Newest(lines) = OverAfter
          <6>1. PICK i \in 1 .. Len(lines) : lines[i].sagged
            BY <5>1
          <6>2. lines[i].age <= OverAfter
            BY <1>r, <2>2, Ageing
          <6>3. QED
            BY <5>2, <6>1, <6>2
        <5>3. CASE \E i \in 1 .. Len(lines) : lines[i].sagged /\ lines[i].age = Newest(lines)
          BY <2>7, <5>3
        <5>4. QED
          BY <2>7, <5>2, <5>3
      <4>2. some => seenAge' = Newest(lines)
        BY <2>7, <2>10, <2>11, <3>2
      <4>3. QED
        BY <4>1, <4>2
    <3>8. state'.events = 0 => state.events = 0 /\ seenAge' = OverAfter
      BY <2>4, <3>1, <3>2, <3>3, <3>4
    <3>9. ConditionIsRight'
      <4>1. SUFFICES ASSUME beat' = "told"
                     PROVE  /\ raised' <=> seenAge' < OverAfter \/ (lines # <<>> /\ lines[Len(lines)].sagged)
                            /\ raised' => Older(sagAge) < OverAfter \/ supply = "low"
        BY <2>1 DEF ConditionIsRight
      <4>2. raised' = (IF state'.events = 0 THEN raised ELSE state'.now \/ state'.last < OverAfter)
        BY <2>1, <2>13, <4>1 DEF Standing
      <4>3. (lines # <<>> /\ lines[Len(lines)].sagged) => some /\ supply = "low"
        <5>1. SUFFICES ASSUME lines # <<>>, lines[Len(lines)].sagged PROVE some /\ supply = "low"
          OBVIOUS
        <5>2. Len(lines) \in 1 .. Len(lines)
          BY <1>r, <2>2, <2>6, <5>1
        <5>3. QED
          BY <2>1, <2>9, <5>1, <5>2 DEF RingTrue
      <4>4. CASE state'.events = 0
        <5>1. ~raised' /\ seenAge' = OverAfter /\ ~some
          BY <2>5, <3>1, <3>8, <4>2, <4>4
        <5>2. ~(seenAge' < OverAfter)
          BY <3>6, <5>1
        <5>3. QED
          BY <4>3, <5>1, <5>2
      <4>5. CASE state'.events # 0
        <5>1. raised' <=> seenAge' < OverAfter \/ (lines # <<>> /\ lines[Len(lines)].sagged)
          BY <3>1, <3>5, <4>2, <4>5
        <5>2. seenAge' < OverAfter => Older(sagAge) < OverAfter
          BY <2>10, <3>6, PowerAssumption
        <5>3. QED
          BY <4>3, <5>1, <5>2
      <4>6. QED
        BY <4>4, <4>5
    <3>10. beat' \in {"none", "told"}
      BY <2>13
    <3>11. QED
      BY <2>12, <3>1, <3>5, <3>6, <3>7, <3>8, <3>9, <3>10
  <2>14. CASE fails
    <3>1. state' \in Samples /\ state'.last = seenAge' /\ seenAge' \in 0 .. OverAfter /\ Older(sagAge) <= seenAge'
      BY <2>4, <2>10, <2>14
    <3>2. some => \E i \in 1 .. Len(lines) : lines[i].sagged /\ lines[i].age <= seenAge'
      <4>1. SUFFICES ASSUME some PROVE \E i \in 1 .. Len(lines) : lines[i].sagged /\ lines[i].age <= Older(seenAge)
        BY <2>14
      <4>2. PICK k \in 1 .. Len(ring) : ring[k].sagged /\ ring[k].age <= seenAge
        BY <1>t, <2>2, <4>1 DEF Seen
      <4>3. lines[k].sagged /\ lines[k].age = Older(ring[k].age) /\ Older(ring[k].age) <= Older(seenAge)
        BY <1>r, <2>2, <2>3, <4>2, Ageing
      <4>4. QED
        BY <2>2, <4>3
    <3>3. state'.events = 0 => state.events = 0 /\ seenAge' = OverAfter
      BY <2>4, <2>5, <2>14, Ageing
    <3>4. beat' = "none" /\ ConditionIsRight'
      BY <2>14 DEF ConditionIsRight
    <3>5. QED
      BY <2>12, <3>1, <3>2, <3>3, <3>4
  <2>15. QED
    BY <2>1, <2>13, <2>14
<1>6. CASE UNCHANGED powerVars
  BY <1>6 DEF powerVars, PowerInv, PowerTypeOK, RingOrder, RingTrue, Seen, ConditionIsRight
<1>7. QED
  BY <1>1, <1>2, <1>3, <1>4, <1>5, <1>6 DEF PowerNext

(* After every turn of the clock the condition is up exactly while a sag that was      *)
(* seen, or is in the log, is recent, or the supply is low (power.go:151-227): for any *)
(* length of the condition, and however long the log grows, wraps or cannot be read.   *)
THEOREM ConditionStands == PowerSpec => []ConditionIsRight
<1>1. PowerInv => ConditionIsRight
  BY DEF PowerInv
<1>2. QED
  BY PowerInitInv, PowerNextInv, <1>1, PTL DEF PowerSpec

--------------------------------------------------------------------------------------
(* UnitClock                                                                           *)

(* Where a try is while it has the unit to itself, and what is known of one.           *)
Busy  == {"wait", "settle", "read", "conclude"}
Tries == [at : Busy \cup {"idle", "failed"}, target : Offsets, far : BOOLEAN, upset : BOOLEAN]

(* The types.                                                                          *)
ClockTypeOK ==
    /\ box \in Offsets /\ unit \in Offsets /\ obeys \in BOOLEAN
    /\ pending \in Offsets \cup {NoOffset}
    /\ settable \in {"unknown", "yes", "no"}
    /\ syncing \in BOOLEAN
    /\ try \in [Callers -> Tries]

(* Unit.syncing lets one caller in at a time.                                          *)
OneSync ==
    /\ \A c \in Callers : try[c].at \in Busy => syncing
    /\ \A c, d \in Callers : try[c].at \in Busy /\ try[d].at \in Busy => c = d

(* How far a try nothing has interfered with has got with a unit that obeys.           *)
TryStage(c) ==
    try[c].at \in Busy /\ ~try[c].upset =>
        /\ try[c].target = box
        /\ try[c].at = "settle" => pending = box \/ (pending = NoOffset /\ unit = box)
        /\ try[c].at \in {"read", "conclude"} => pending = NoOffset /\ unit = box
        /\ try[c].at = "conclude" => ~try[c].far

(* A verdict ends a try, so what it rests on has to be known of the try all the way.   *)
ClockInv == ClockTypeOK /\ OneSync /\ (obeys => \A c \in Callers : TryStage(c))

--------------------------------------------------------------------------------------
(* The parts of a try.                                                                 *)
LEMMA TryTypes ==
    /\ NoTry \in Tries /\ NoTry.at = "idle"
    /\ \A t \in Tries : /\ t.at \in Busy \cup {"idle", "failed"} /\ t.target \in Offsets
                        /\ t.far \in BOOLEAN /\ t.upset \in BOOLEAN
  BY ClockAssumption DEF NoTry, Tries, Busy

(* At first nobody tries.                                                              *)
LEMMA ClockInitInv == ClockInit => ClockInv
<1> SUFFICES ASSUME ClockInit PROVE ClockInv
  OBVIOUS
<1>1. try \in [Callers -> Tries] /\ \A c \in Callers : try[c].at \notin Busy
  BY TryTypes DEF ClockInit, Busy
<1>2. QED
  BY <1>1 DEF ClockInit, ClockInv, ClockTypeOK, OneSync, TryStage

(* One caller goes on, or gives up. *)
LEMMA OneTry ==
    ASSUME ClockTypeOK, NEW c \in Callers, NEW t \in Tries, try' = [try EXCEPT ![c] = t]
    PROVE  /\ try' \in [Callers -> Tries] /\ try'[c] = t
           /\ \A d \in Callers : d # c => try'[d] = try[d]
  BY DEF ClockTypeOK

(* SyncClock lets one caller in and sends the others away.                             *)
LEMMA BeginInv ==
    ASSUME ClockInv, NEW c \in Callers, BeginSync(c),
           UNCHANGED <<box, unit, obeys, pending, snap, settable>>
    PROVE  ClockInv'
<1>t. ClockTypeOK /\ OneSync /\ (obeys => \A d \in Callers : TryStage(d))
  BY DEF ClockInv
<1>1. CASE syncing
  <2>1. PICK t \in Tries : t.at = "failed" /\ try' = [try EXCEPT ![c] = t]
    <3>1. [NoTry EXCEPT !.at = "failed"] \in Tries /\ [NoTry EXCEPT !.at = "failed"].at = "failed"
      BY ClockAssumption DEF NoTry, Tries, Busy
    <3>2. QED
      BY <1>1, <3>1 DEF BeginSync
  <2>2. /\ try' \in [Callers -> Tries] /\ try'[c] = t /\ \A d \in Callers : d # c => try'[d] = try[d]
        /\ syncing' = syncing
    BY <1>t, <1>1, <2>1, OneTry DEF BeginSync
  <2>3. \A d \in Callers : try'[d].at \in Busy => try'[d] = try[d]
    BY <2>1, <2>2 DEF Busy
  <2>4. QED
    BY <1>t, <2>2, <2>3 DEF ClockInv, ClockTypeOK, OneSync, TryStage
<1>2. CASE ~syncing
  <2>1. PICK t \in Tries : t.at = "wait" /\ t.target = box /\ try' = [try EXCEPT ![c] = t]
    <3>1. [NoTry EXCEPT !.at = "wait", !.target = box] \in Tries
          /\ [NoTry EXCEPT !.at = "wait", !.target = box].at = "wait"
          /\ [NoTry EXCEPT !.at = "wait", !.target = box].target = box
      BY <1>t DEF NoTry, Tries, Busy, ClockTypeOK
    <3>2. QED
      BY <1>2, <3>1 DEF BeginSync
  <2>2. /\ try' \in [Callers -> Tries] /\ try'[c] = t /\ \A d \in Callers : d # c => try'[d] = try[d]
        /\ syncing' = TRUE
    BY <1>t, <1>2, <2>1, OneTry DEF BeginSync
  <2>3. \A d \in Callers : d # c => try'[d].at \notin Busy
    BY <1>t, <1>2, <2>2 DEF OneSync
  <2>4. OneSync'
    BY <2>2, <2>3 DEF OneSync
  <2>5. \A d \in Callers : TryStage(d)'
    BY <2>1, <2>2, <2>3 DEF TryStage
  <2>6. QED
    BY <1>t, <2>2, <2>4, <2>5 DEF ClockInv, ClockTypeOK
<1>3. QED
  BY <1>1, <1>2

(* What changes a clock while somebody tries upsets the try.                           *)
LEMMA UpsetInv ==
    ASSUME ClockInv, Upset, box' \in Offsets, unit' \in Offsets,
           UNCHANGED <<obeys, pending, settable, syncing>>
    PROVE  ClockInv'
<1>t. ClockTypeOK /\ OneSync
  BY DEF ClockInv
<1>1. \A c \in Callers : /\ try'[c] \in Tries /\ try'[c].at = try[c].at
                         /\ try'[c].at \in Busy => try'[c].upset
  <2>1. SUFFICES ASSUME NEW c \in Callers
                 PROVE  /\ try'[c] \in Tries /\ try'[c].at = try[c].at
                        /\ try'[c].at \in Busy => try'[c].upset
    OBVIOUS
  <2>2. try[c] \in Tries
    BY <1>t DEF ClockTypeOK
  <2>3. try'[c] = IF try[c].at \in Busy THEN [try[c] EXCEPT !.upset = TRUE] ELSE try[c]
    BY DEF Upset, Busy
  <2>4. QED
    BY <2>2, <2>3 DEF Tries
<1>2. try' \in [Callers -> Tries]
  BY <1>1 DEF Upset
<1>3. QED
  BY <1>t, <1>1, <1>2 DEF ClockInv, ClockTypeOK, OneSync, TryStage

(* Every step of the clocks, the callers and the unit keeps the invariant.             *)
LEMMA ClockNextInv == ClockInv /\ [ClockNext]_clockVars => ClockInv'
<1> SUFFICES ASSUME ClockInv, [ClockNext]_clockVars PROVE ClockInv'
  OBVIOUS
<1>t. ClockTypeOK /\ OneSync /\ (obeys => \A c \in Callers : TryStage(c))
  BY DEF ClockInv
(* A busy caller goes on to t: nobody else is busy.                                    *)
<1>a. ASSUME NEW c \in Callers, try[c].at \in Busy, NEW t \in Tries, try' = [try EXCEPT ![c] = t]
      PROVE  /\ try' \in [Callers -> Tries] /\ try'[c] = t
             /\ \A d \in Callers : d # c => try'[d].at \notin Busy
  <2>1. \A d \in Callers : d # c => try[d].at \notin Busy
    BY <1>t, <1>a DEF OneSync
  <2>2. QED
    BY <1>t, <1>a, <2>1, OneTry
<1>1. CASE StepBox
  BY <1>t, <1>1, UpsetInv DEF StepBox, ClockTypeOK
<1>2. CASE UnitRunsAway
  BY <1>t, <1>2, UpsetInv DEF UnitRunsAway, ClockTypeOK
<1>3. CASE UnitTakes
  <2>1. /\ pending # NoOffset /\ unit' = pending /\ pending' = NoOffset
        /\ UNCHANGED <<box, obeys, settable, syncing, try>>
    BY <1>3 DEF UnitTakes
  <2>2. QED
    BY <1>t, <2>1 DEF ClockInv, ClockTypeOK, OneSync, TryStage
<1>4. CASE Pass
  BY <1>t, <1>4 DEF Pass, ClockInv, ClockTypeOK, OneSync, TryStage
<1>5. CASE Check
  BY <1>5, BeginInv DEF Check, Callers
<1>6. ASSUME NEW reader \in Offsets, NEW confirmed \in BOOLEAN, Press(reader, confirmed) PROVE ClockInv'
  BY <1>6, BeginInv DEF Press, Callers
<1>7. ASSUME NEW c \in Callers, WriteClock(c) PROVE ClockInv'
  <2>0. /\ try[c].at = "wait" /\ try[c].at \in Busy
        /\ pending' = Told(c) /\ UNCHANGED <<box, unit, obeys, settable, syncing>>
    BY <1>7 DEF WriteClock, Busy
  <2>1. PICK t \in Tries : t.at = "settle" /\ t.target = try[c].target /\ t.upset = try[c].upset /\ try' = [try EXCEPT ![c] = t]
    <3>1. PICK u \in Tries : u = try[c]
      BY <1>t DEF ClockTypeOK
    <3>2. [u EXCEPT !.at = "settle"] \in Tries
          /\ LET x == [u EXCEPT !.at = "settle"]
             IN  x.at = "settle" /\ x.target = u.target /\ x.upset = u.upset
      BY DEF Tries, Busy
    <3>3. try' = [try EXCEPT ![c] = [u EXCEPT !.at = "settle"]]
      BY <1>7, <3>1 DEF WriteClock
    <3>4. QED
      BY <3>1, <3>2, <3>3
  <2>2. /\ try' \in [Callers -> Tries] /\ try'[c] = t /\ \A d \in Callers : d # c => try'[d].at \notin Busy
    BY <1>a, <2>0, <2>1
  <2>3. ClockTypeOK'
    BY <1>t, <2>0, <2>1, <2>2, TryTypes DEF ClockTypeOK, Told
  <2>4. OneSync'
    BY <1>t, <2>0, <2>1, <2>2 DEF OneSync, Busy
  <2>5. obeys => TryStage(c)'
    BY <1>t, <2>0, <2>1, <2>2, ClockAssumption DEF TryStage, Busy, ClockTypeOK, Told, InStep
  <2>6. obeys => \A d \in Callers : TryStage(d)'
    BY <2>2, <2>5 DEF TryStage
  <2>7. QED
    BY <1>t, <2>0, <2>3, <2>4, <2>6 DEF ClockInv
<1>8. ASSUME NEW c \in Callers, Settle(c) PROVE ClockInv'
  <2>0. /\ try[c].at = "settle" /\ try[c].at \in Busy
        /\ pending = NoOffset /\ UNCHANGED <<box, unit, obeys, pending, settable, syncing>>
    BY <1>8 DEF Settle, Busy
  <2>1. PICK t \in Tries : t.at = "read" /\ t.target = try[c].target /\ t.upset = try[c].upset /\ try' = [try EXCEPT ![c] = t]
    <3>1. PICK u \in Tries : u = try[c]
      BY <1>t DEF ClockTypeOK
    <3>2. [u EXCEPT !.at = "read"] \in Tries
          /\ LET x == [u EXCEPT !.at = "read"]
             IN  x.at = "read" /\ x.target = u.target /\ x.upset = u.upset
      BY DEF Tries, Busy
    <3>3. try' = [try EXCEPT ![c] = [u EXCEPT !.at = "read"]]
      BY <1>8, <3>1 DEF Settle
    <3>4. QED
      BY <3>1, <3>2, <3>3
  <2>2. /\ try' \in [Callers -> Tries] /\ try'[c] = t /\ \A d \in Callers : d # c => try'[d].at \notin Busy
    BY <1>a, <2>0, <2>1
  <2>3. ClockTypeOK'
    BY <1>t, <2>0, <2>1, <2>2, TryTypes DEF ClockTypeOK, Told
  <2>4. OneSync'
    BY <1>t, <2>0, <2>1, <2>2 DEF OneSync, Busy
  <2>5. obeys => TryStage(c)'
    BY <1>t, <2>0, <2>1, <2>2, ClockAssumption DEF TryStage, Busy, ClockTypeOK, Told, InStep
  <2>6. obeys => \A d \in Callers : TryStage(d)'
    BY <2>2, <2>5 DEF TryStage
  <2>7. QED
    BY <1>t, <2>0, <2>3, <2>4, <2>6 DEF ClockInv
<1>9. ASSUME NEW c \in Callers, ReadClock(c) PROVE ClockInv'
  <2>0. /\ try[c].at = "read" /\ try[c].at \in Busy
        /\ UNCHANGED <<box, unit, obeys, pending, settable, syncing>>
    BY <1>9 DEF ReadClock, Busy
  <2>1. PICK t \in Tries : t.at = "conclude" /\ t.target = try[c].target /\ t.upset = try[c].upset /\ t.far = ~InStep /\ try' = [try EXCEPT ![c] = t]
    <3>1. PICK u \in Tries : u = try[c]
      BY <1>t DEF ClockTypeOK
    <3>i. (~InStep) \in BOOLEAN
      BY DEF InStep
    <3>2. [u EXCEPT !.at = "conclude", !.far = ~InStep] \in Tries
          /\ LET x == [u EXCEPT !.at = "conclude", !.far = ~InStep]
             IN  x.at = "conclude" /\ x.target = u.target /\ x.upset = u.upset /\ x.far = ~InStep
      BY <3>i DEF Tries, Busy
    <3>3. try' = [try EXCEPT ![c] = [u EXCEPT !.at = "conclude", !.far = ~InStep]]
      BY <1>9, <3>1 DEF ReadClock
    <3>4. QED
      BY <3>1, <3>2, <3>3
  <2>2. /\ try' \in [Callers -> Tries] /\ try'[c] = t /\ \A d \in Callers : d # c => try'[d].at \notin Busy
    BY <1>a, <2>0, <2>1
  <2>3. ClockTypeOK'
    BY <1>t, <2>0, <2>1, <2>2, TryTypes DEF ClockTypeOK, Told
  <2>4. OneSync'
    BY <1>t, <2>0, <2>1, <2>2 DEF OneSync, Busy
  <2>5. obeys => TryStage(c)'
    BY <1>t, <2>0, <2>1, <2>2, ClockAssumption DEF TryStage, Busy, ClockTypeOK, Told, InStep
  <2>6. obeys => \A d \in Callers : TryStage(d)'
    BY <2>2, <2>5 DEF TryStage
  <2>7. QED
    BY <1>t, <2>0, <2>3, <2>4, <2>6 DEF ClockInv
<1>10. ASSUME NEW c \in Callers, Conclude(c) PROVE ClockInv'
  <2>0. /\ try[c].at \in Busy
        /\ settable' \in {"yes", "no"} /\ syncing' = FALSE /\ UNCHANGED <<box, unit, obeys, pending>>
    BY <1>10 DEF Conclude, Busy
  <2>1. PICK t \in Tries : t.at \in {"idle", "failed"} /\ try' = [try EXCEPT ![c] = t]
    <3>1. \A at \in {"idle", "failed"} : [NoTry EXCEPT !.at = at] \in Tries /\ [NoTry EXCEPT !.at = at].at = at
      BY ClockAssumption DEF NoTry, Tries, Busy
    <3>2. QED
      BY <1>10, <3>1 DEF Conclude
  <2>2. /\ try' \in [Callers -> Tries] /\ try'[c] = t /\ \A d \in Callers : d # c => try'[d].at \notin Busy
    BY <1>a, <2>0, <2>1
  <2>3. ClockTypeOK'
    BY <1>t, <2>0, <2>1, <2>2, TryTypes DEF ClockTypeOK, Told
  <2>4. OneSync'
    BY <1>t, <2>0, <2>1, <2>2 DEF OneSync, Busy
  <2>5. obeys => TryStage(c)'
    BY <1>t, <2>0, <2>1, <2>2, ClockAssumption DEF TryStage, Busy, ClockTypeOK, Told, InStep
  <2>6. obeys => \A d \in Callers : TryStage(d)'
    BY <2>2, <2>5 DEF TryStage
  <2>7. QED
    BY <1>t, <2>0, <2>3, <2>4, <2>6 DEF ClockInv
<1>11. ASSUME NEW c \in Callers, Fail(c) PROVE ClockInv'
  <2>0. /\ try[c].at \in Busy
        /\ pending' \in {pending, Told(c)} /\ syncing' = FALSE /\ UNCHANGED <<box, unit, obeys, settable>>
    BY <1>11 DEF Fail, Busy
  <2>1. PICK t \in Tries : t.at = "failed" /\ try' = [try EXCEPT ![c] = t]
    <3>1. \A at \in {"idle", "failed"} : [NoTry EXCEPT !.at = at] \in Tries /\ [NoTry EXCEPT !.at = at].at = at
      BY ClockAssumption DEF NoTry, Tries, Busy
    <3>2. QED
      BY <1>11, <3>1 DEF Fail
  <2>2. /\ try' \in [Callers -> Tries] /\ try'[c] = t /\ \A d \in Callers : d # c => try'[d].at \notin Busy
    BY <1>a, <2>0, <2>1
  <2>3. ClockTypeOK'
    BY <1>t, <2>0, <2>1, <2>2, TryTypes DEF ClockTypeOK, Told
  <2>4. OneSync'
    BY <1>t, <2>0, <2>1, <2>2 DEF OneSync, Busy
  <2>5. obeys => TryStage(c)'
    BY <1>t, <2>0, <2>1, <2>2, ClockAssumption DEF TryStage, Busy, ClockTypeOK, Told, InStep
  <2>6. obeys => \A d \in Callers : TryStage(d)'
    BY <2>2, <2>5 DEF TryStage
  <2>7. QED
    BY <1>t, <2>0, <2>3, <2>4, <2>6 DEF ClockInv
<1>12. ASSUME NEW c \in Callers, AfterError(c) PROVE ClockInv'
  <2>1. /\ try[c].at = "failed" /\ try' = [try EXCEPT ![c] = NoTry]
        /\ UNCHANGED <<box, unit, obeys, pending, settable, syncing>>
    BY <1>12 DEF AfterError
  <2>2. /\ try' \in [Callers -> Tries] /\ try'[c] = NoTry /\ \A d \in Callers : d # c => try'[d] = try[d]
    BY <1>t, <2>1, TryTypes, OneTry
  <2>3. \A d \in Callers : try'[d].at \in Busy => try'[d] = try[d]
    BY <2>2, TryTypes DEF Busy
  <2>4. QED
    BY <1>t, <2>1, <2>2, <2>3 DEF ClockInv, ClockTypeOK, OneSync, TryStage
<1>13. CASE UNCHANGED clockVars
  BY <1>13 DEF clockVars, ClockInv, ClockTypeOK, OneSync, TryStage
<1>14. QED
  BY <1>1, <1>2, <1>3, <1>4, <1>5, <1>6, <1>7, <1>8, <1>9, <1>10, <1>11, <1>12, <1>13 DEF ClockNext, Syncs

(* The inductive invariant holds throughout, for any error of either clock and any     *)
(* number of upsets.                                                                   *)
THEOREM ClockInvariance == ClockSpec => []ClockInv
  BY ClockInitInv, ClockNextInv, PTL DEF ClockSpec

(* "This unit ignores clock writes; giving up" (main.go:570) rests on a verdict that   *)
(* is never wrong about a unit that obeys, unless a clock was moved by something else  *)
(* in the very try that ends in it: no other caller's try, and no failed exchange,     *)
(* leads there.                                                                        *)
THEOREM VerdictEarned == ClockSpec => VerdictsAreEarned
<1> DEFINE Earned == settable # "no" /\ settable' = "no" =>
                         ~obeys \/ \E c \in Callers : try[c].at = "conclude" /\ try[c].upset
<1>1. ClockInv /\ [ClockNext]_clockVars => [Earned]_clockVars
  <2> SUFFICES ASSUME ClockInv, ClockNext, settable # "no", settable' = "no", obeys
               PROVE  \E c \in Callers : try[c].at = "conclude" /\ try[c].upset
    BY DEF ClockInv, ClockTypeOK
  <2>1. PICK c \in Callers : Conclude(c)
    BY DEF ClockNext, StepBox, UnitRunsAway, UnitTakes, Pass, Check, Press, Syncs, WriteClock, Settle,
           ReadClock, AfterError, Fail
  <2>2. try[c].at = "conclude" /\ try[c].far
    BY <2>1 DEF Conclude
  <2>3. TryStage(c) /\ try[c].upset \in BOOLEAN /\ try[c].far \in BOOLEAN
    BY TryTypes DEF ClockInv, ClockTypeOK
  <2>4. QED
    BY <2>2, <2>3 DEF TryStage, Busy
<1>2. QED
  BY <1>1, ClockInvariance, PTL DEF ClockSpec, VerdictsAreEarned

======================================================================================

----------------------------------- MODULE Notify -----------------------------------
(*************************************************************************************)
(* Telling somebody, and not telling them again (internal/notify): the Watcher turns *)
(* the unit's latest snapshot into conditions that are raised and cleared, and the   *)
(* Notifier remembers which are raised and whether anybody was told, while the web   *)
(* server changes the channels and the threshold under a message being sent.         *)
(*                                                                                    *)
(* A check works through its calls of Raise and Clear one at a time, and each sends  *)
(* to one channel after another.  Whether a channel takes the message or fails after *)
(* 20 s changes only the counts on the system page and the journal: dispatch reports *)
(* TRUE either way, so it is left out.                                                *)
(*************************************************************************************)
EXTENDS Integers, Sequences, SequencesExt

CONSTANTS Channels,       \* webhooks and mail that may be configured
          Down, Degraded, \* the keys link:down and link:degraded
          Levels,         \* clock:dst and service:due, in the order they are looked at
          Alarms,         \* the keys of the unit's alarms
          ClassA,         \* those that stop the unit
          Thresholds,     \* what the form offers as the least severity to tell of
          DownAfter,      \* ticks before a link that is down is worth a message
          Never           \* downSince.IsZero()

LevelKeys == {Levels[i] : i \in DOMAIN Levels}
Keys == {Down, Degraded} \cup LevelKeys \cup Alarms

ASSUME NotifyAssumption ==
    /\ Levels \in Seq(LevelKeys)
    /\ Down # Degraded
    /\ {Down, Degraded} \cap (LevelKeys \cup Alarms) = {}
    /\ LevelKeys \cap Alarms = {}
    /\ IsFiniteSet(Alarms) /\ ClassA \subseteq Alarms
    /\ Thresholds \subseteq 0 .. 2
    /\ DownAfter \in Nat \ {0} /\ Never \notin Nat

(* Info is 0, Warning 1, Critical 2.                                                   *)
Severity(k) == IF k = Down \/ k \in ClassA THEN 2 ELSE 1

VARIABLES
    snap,      \* what State and Alarms say: the link, and the conditions that are on
    channels, min,          \* Notifier.channels and min
    active,    \* Notifier.active: "off", "raised" (nobody told) or "told"
    at,        \* where the check is
    seen,      \* the alarms it read
    todo,      \* its calls of Raise and Clear, in order
    step,      \* where the first of them is
    out,       \* the channels it has still to send to
    downSince, \* how long ago the link was first seen down
    owed,      \* conditions somebody was told of and nobody told the end of
    fresh,     \* conditions seen off in some snapshot since they were last announced
    upSince    \* how long ago a check last saw the link not down (up to DownAfter)

settings == <<channels, min>>
work     == <<at, seen, todo, step, out>>
ages     == <<downSince, upSince>>
vars == <<snap, settings, active, work, ages, owed, fresh>>

Links == {"unread", "ok", "degraded", "down"}
On == LevelKeys \cup Alarms

(* A check that sees this snapshot has no reason to end k.                             *)
Shown(k, s) == CASE k = Down     -> s.link = "down"
                 [] k = Degraded -> s.link \in {"degraded", "down"}
                 [] OTHER        -> k \in s.on

Init ==
    /\ snap = [link |-> "unread", on |-> {}]
    /\ channels \in SUBSET Channels /\ min \in Thresholds
    /\ active = [k \in Keys |-> "off"]
    /\ at = "wait" /\ seen = {} /\ todo = <<>> /\ step = "call" /\ out = {}
    /\ downSince = Never /\ upSince = 0
    /\ owed = {} /\ fresh = Keys

(* The poller publishes.  A link that is down leaves the values as they were, and a    *)
(* pass that read only part of the unit (degraded) reads the rest as off.              *)
Publish(s) ==
    /\ s # snap /\ s.link # "unread"
    /\ s.link = "down" => s.on = snap.on
    /\ snap' = s
    /\ fresh' = fresh \cup {k \in Keys : ~Shown(k, s)}
    /\ UNCHANGED <<settings, active, work, ages, owed>>

Older(age) == IF age \in 0 .. DownAfter - 1 THEN age + 1 ELSE age

Tick ==
    /\ downSince' = Older(downSince)
    /\ upSince' = Older(upSince)
    /\ UNCHANGED <<snap, settings, active, work, owed, fresh>>

(* handleNotifyPut saves the form, and the notifier takes it at once.                  *)
SetChannels(cs, m) ==
    /\ <<cs, m>> # settings
    /\ channels' = cs /\ min' = m
    /\ UNCHANGED <<snap, active, work, ages, owed, fresh>>

-------------------------------------------------------------------------------------
(* Watcher.check                                                                      *)

Raise(k) == [op |-> "raise", key |-> k]
Clear(k) == [op |-> "clear", key |-> k]

(* Mutant: a link that is down is no longer degraded.                                   *)
LinkCallsDownClears ==
    CASE snap.link = "down"     -> IF downSince = DownAfter THEN <<Clear(Degraded), Raise(Down)>> ELSE <<>>
      [] snap.link = "degraded" -> <<Clear(Down), Raise(Degraded)>>
      [] OTHER                  -> <<Clear(Down), Clear(Degraded)>>

(* checkLink: a link that is down is waited out first.                                 *)
LinkCalls ==
    CASE snap.link = "down"     -> IF downSince = DownAfter THEN <<Raise(Down)>> ELSE <<>>
      [] snap.link = "degraded" -> <<Clear(Down), Raise(Degraded)>>
      [] OTHER                  -> <<Clear(Down), Clear(Degraded)>>

(* Mutant: only a link that is well again ends the wait.                               *)
DownSeenKept ==
    CASE snap.link = "down"     -> IF downSince = Never THEN 0 ELSE downSince
      [] snap.link = "degraded" -> downSince
      [] OTHER                  -> Never

DownSeen ==
    IF snap.link = "down" THEN IF downSince = Never THEN 0 ELSE downSince
                          ELSE Never

(* checkClock and checkService                                                         *)
LevelCalls == [i \in DOMAIN Levels |-> IF Levels[i] \in snap.on THEN Raise(Levels[i])
                                                                  ELSE Clear(Levels[i])]

Idle == todo = <<>>

(* State() is read once for the link, the clock and the service; without a snapshot    *)
(* the check returns.                                                                  *)
Check ==
    /\ at = "wait" /\ snap.link # "unread"
    /\ at' = "state"
    /\ todo' = LinkCalls \o LevelCalls
    /\ downSince' = DownSeen
    /\ upSince' = IF snap.link = "down" THEN upSince ELSE 0
    /\ UNCHANGED <<snap, settings, active, seen, step, out, owed, fresh>>

(* checkAlarms reads its own snapshot, and walks a map: any order.                     *)
ReadAlarms ==
    /\ at = "state" /\ Idle
    /\ at' = "alarms"
    /\ seen' = snap.on \cap Alarms
    /\ \E order \in SetToSeqs(seen') : todo' = [i \in DOMAIN order |-> Raise(order[i])]
    /\ UNCHANGED <<snap, settings, active, step, out, ages, owed, fresh>>

(* Mutant: nothing to do when no alarm is on.                                          *)
SweepIfAny ==
    /\ at = "alarms" /\ Idle
    /\ at' = "sweep"
    /\ \E order \in SetToSeqs({k \in Alarms \ seen : seen # {} /\ active[k] # "off"}) :
           todo' = [i \in DOMAIN order |-> Clear(order[i])]
    /\ UNCHANGED <<snap, settings, active, seen, step, out, ages, owed, fresh>>

(* Anything raised that is no longer on is over.                                       *)
Sweep ==
    /\ at = "alarms" /\ Idle
    /\ at' = "sweep"
    /\ \E order \in SetToSeqs({k \in Alarms \ seen : active[k] # "off"}) :
           todo' = [i \in DOMAIN order |-> Clear(order[i])]
    /\ UNCHANGED <<snap, settings, active, seen, step, out, ages, owed, fresh>>

Done ==
    /\ at = "sweep" /\ Idle
    /\ at' = "wait" /\ seen' = {}
    /\ UNCHANGED <<snap, settings, active, todo, step, out, ages, owed, fresh>>

-------------------------------------------------------------------------------------
(* Notifier.Raise, Clear and dispatch.  "call" is before the call, "threshold" and     *)
(* "channels" are dispatch's two reads of the settings, "send" is its loop.            *)

Calling == todo[1]
Raising == Calling.op = "raise"
Key == Calling.key

(* Back from dispatch: Raise writes down whether anybody was told.                     *)
Return(told) ==
    /\ active' = IF Raising THEN [active EXCEPT ![Key] = IF told THEN "told" ELSE "raised"]
                            ELSE active
    /\ todo' = Tail(todo) /\ step' = "call"

RaiseAgain ==
    /\ ~Idle /\ step = "call" /\ Raising /\ active[Key] # "off"
    /\ todo' = Tail(todo)
    /\ UNCHANGED <<snap, settings, active, at, seen, step, out, ages, owed, fresh>>

RaiseFirst ==
    /\ ~Idle /\ step = "call" /\ Raising /\ active[Key] = "off"
    /\ active' = [active EXCEPT ![Key] = "raised"]
    /\ step' = "threshold"
    /\ UNCHANGED <<snap, settings, at, seen, todo, out, ages, owed, fresh>>

(* Nobody wants to hear that something they were never told about is over.             *)
ClearQuietly ==
    /\ ~Idle /\ step = "call" /\ ~Raising /\ active[Key] # "told"
    /\ active' = [active EXCEPT ![Key] = "off"]
    /\ todo' = Tail(todo)
    /\ UNCHANGED <<snap, settings, at, seen, step, out, ages, owed, fresh>>

ClearAloud ==
    /\ ~Idle /\ step = "call" /\ ~Raising /\ active[Key] = "told"
    /\ active' = [active EXCEPT ![Key] = "off"]
    /\ step' = "threshold"
    /\ UNCHANGED <<snap, settings, at, seen, todo, out, ages, owed, fresh>>

(* Mutant: an all-clear is an Info event like any other.                               *)
TooQuietEither == (IF Raising THEN Severity(Key) ELSE 0) < min

(* An all-clear ignores the threshold.                                                 *)
TooQuiet == Raising /\ Severity(Key) < min

Threshold ==
    /\ ~Idle /\ step = "threshold"
    /\ \/ TooQuiet /\ Return(FALSE)
       \/ ~TooQuiet /\ step' = "channels" /\ UNCHANGED <<active, todo>>
    /\ UNCHANGED <<snap, settings, at, seen, out, ages, owed, fresh>>

Ended == IF Raising THEN owed ELSE owed \ {Key}

(* With nobody to send to an all-clear is lost, and so is what was owed.               *)
NoChannels ==
    /\ ~Idle /\ step = "channels" /\ channels = {}
    /\ Return(FALSE) /\ owed' = Ended
    /\ UNCHANGED <<snap, settings, at, seen, out, ages, fresh>>

TakeChannels ==
    /\ ~Idle /\ step = "channels" /\ channels # {}
    /\ out' = channels /\ step' = "send"
    /\ owed' = IF Raising THEN owed \cup {Key} ELSE owed
    /\ fresh' = IF Raising /\ Shown(Key, snap) THEN fresh \ {Key} ELSE fresh
    /\ UNCHANGED <<snap, settings, active, at, seen, todo, ages>>

Send(c) ==
    /\ ~Idle /\ step = "send" /\ c \in out
    /\ out' = out \ {c}
    /\ UNCHANGED <<snap, settings, active, at, seen, todo, step, ages, owed, fresh>>

Sent ==
    /\ ~Idle /\ step = "send" /\ out = {}
    /\ Return(TRUE) /\ owed' = Ended
    /\ UNCHANGED <<snap, settings, at, seen, out, ages, fresh>>

Watcher ==
    \/ Check \/ ReadAlarms \/ Sweep \/ Done
    \/ RaiseAgain \/ RaiseFirst \/ ClearQuietly \/ ClearAloud
    \/ Threshold \/ NoChannels \/ TakeChannels \/ Sent
    \/ \E c \in Channels : Send(c)

Next ==
    \/ Watcher
    \/ \E link \in Links, on \in SUBSET On : Publish([link |-> link, on |-> on])
    \/ Tick
    \/ \E cs \in SUBSET Channels, m \in Thresholds : SetChannels(cs, m)

Spec == Init /\ [][Next]_vars

(* The watcher's goroutine keeps running, every Send ends within 20 s, and time goes   *)
(* on.                                                                                 *)
FairSpec == Spec /\ WF_vars(Watcher) /\ WF_vars(Tick)

-------------------------------------------------------------------------------------
(* Properties                                                                         *)

Calls == [op : {"raise", "clear"}, key : Keys]

(* Every variable keeps its type, and only a call under way is past "call".            *)
TypeOK ==
    /\ snap \in [link : Links, on : SUBSET On]
    /\ channels \subseteq Channels /\ min \in Thresholds
    /\ active \in [Keys -> {"off", "raised", "told"}]
    /\ at \in {"wait", "state", "alarms", "sweep"} /\ seen \subseteq Alarms
    /\ todo \in Seq(Calls)
    /\ step \in {"call", "threshold", "channels", "send"}
    /\ at = "wait" => Idle
    /\ Idle => step = "call"
    /\ out \subseteq Channels
    /\ downSince \in (0 .. DownAfter) \cup {Never} /\ upSince \in 0 .. DownAfter
    /\ owed \subseteq Keys /\ fresh \subseteq Keys

(* An all-clear goes out only for a condition that was announced, and an announced     *)
(* condition that is not at this moment being ended is remembered as announced, so that *)
(* its end will be told whatever the threshold is by then (notify.go:212-223, 245-249). *)
AllClearsAreExact ==
    /\ ~Idle /\ step = "send" /\ ~Raising => Key \in owed
    /\ \A k \in owed : active[k] = "told" \/ (~Idle /\ step # "call" /\ Key = k)

(* A condition is announced again only when some snapshot since the last announcement  *)
(* showed it off, however long it lasts, however often the link wavers between down     *)
(* and degraded and whatever is saved meanwhile (notify.go:62-64, 181-182).             *)
AlertsAreNews ==
    [][step = "channels" /\ step' = "send" /\ Raising => Key \in fresh]_vars

(* A lost link is reported only when no check saw it up for DownAfter: two short        *)
(* outages do not add up (watch.go:27-28, 102-111).                                     *)
HiccupsAreQuiet ==
    [][step = "call" /\ step' = "threshold" /\ Calling = Raise(Down) => upSince = DownAfter]_vars

Wanted(k) == CASE k = Down     -> snap.link = "down"
               [] k = Degraded -> snap.link = "degraded"
               [] OTHER        -> k \in snap.on

(* A condition that lasts is raised in the end, and one that is over is cleared and     *)
(* its end told if its start was, whatever else is raised in the meantime.              *)
ConditionsAreFollowed ==
    \A k \in Keys :
        /\ <>[](snap.link # "unread" /\ Wanted(k)) => <>[](active[k] # "off")
        /\ <>[](snap.link # "unread" /\ ~Shown(k, snap)) => <>[](active[k] = "off" /\ k \notin owed)

=====================================================================================

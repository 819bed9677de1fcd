----------------------------------- MODULE UnitState -----------------------------------
(***************************************************************************************)
(* What control.Unit makes of a snapshot beyond decoding it: whether the line is       *)
(* called unstable (internal/control/control.go, link and unstableAt) and how long a   *)
(* timed mode has left (internal/control/overpressure.go).  State is called by every   *)
(* page, the recorder and the watchers at once; it remembers what it learnt in atomics *)
(* that are loaded and stored one by one, and in a tracker behind a mutex.             *)
(*                                                                                     *)
(* Time passes in ticks of about a minute.  A call of State takes microseconds, so no  *)
(* tick falls within one.                                                              *)
(***************************************************************************************)
EXTENDS Integers

CONSTANTS Lookers,        \* callers of State at once
          DegradedAfter,  \* ticks the rate must stay past the mark
          Duration        \* ticks each timed mode runs for

TimedModes == DOMAIN Duration
UnitModes == TimedModes \cup {"normal"}
Bands == {"healthy", "between", "past"}   \* below HealthyErrorRate, above DegradedErrorRate

ASSUME StateAssumption ==
    /\ DegradedAfter \in Nat \ {0}
    /\ \A m \in TimedModes : Duration[m] \in Nat \ {0}
    /\ \E m \in TimedModes : \A n \in TimedModes : Duration[n] <= Duration[m]
    /\ "normal" \notin TimedModes

VARIABLES
    rate, enough,  \* bus.Stats: the band of the error rate, and whether the window is full enough
    snapMode,      \* the published snapshot: the mode it shows,
    stale,         \* and whether it is older than staleAfter
    degraded,      \* Unit.degraded
    over,          \* Unit.overSince, as the ticks passed since then, or NotOver for zero
    seen,          \* Unit.seen
    timed,         \* timedModeTracker: mode, known, minutes, and the ticks passed since "since"
    look,          \* each call of State: where it is and what it has loaded
    dip            \* ticks since a call that found the rate below the mark has said so

stateVars == <<rate, enough, snapMode, stale, degraded, over, seen, timed, look, dip>>
lineVars == <<rate, enough>>
snapVars == <<snapMode, stale>>

NotOver == -1
LongAgo == DegradedAfter + 1
Longest == CHOOSE n \in {Duration[m] : m \in TimedModes} :
              \A m \in TimedModes : Duration[m] <= n
NoRun == [mode |-> "none", known |-> FALSE, minutes |-> 0, ticks |-> 0]
Idle  == [at |-> "idle", rate |-> "healthy", mode |-> "normal", since |-> NotOver, first |-> FALSE, dip |-> LongAgo]
Least(a, b) == IF a < b THEN a ELSE b

-----------------------------------------------------------------------------------------
(* The line, the unit and the poller                                                    *)

RateMoves(b) ==
    /\ (rate = "between") # (b = "between")
    /\ rate' = b
    /\ UNCHANGED <<enough, snapVars, degraded, over, seen, timed, look, dip>>

WindowFills ==
    /\ ~enough /\ enough' = TRUE
    /\ UNCHANGED <<rate, snapVars, degraded, over, seen, timed, look, dip>>

(* The unit is in any mode, and a pass that lost the block of the coils shows zeroes,   *)
(* which decode as normal.                                                              *)
Publish(m) ==
    /\ snapMode' = m /\ stale' = FALSE
    /\ UNCHANGED <<lineVars, degraded, over, seen, timed, look, dip>>

Later(n, most) == IF n = NotOver THEN NotOver ELSE Least(n + 1, most)

NobodyLooks == \A l \in Lookers : look[l].at = "idle"

Tick ==
    /\ NobodyLooks
    /\ stale' \in {stale, TRUE}
    /\ over' = Later(over, LongAgo)
    /\ dip' = Least(dip + 1, LongAgo)
    /\ timed' = [timed EXCEPT !.ticks = IF timed.known THEN Least(@ + 1, Longest + 1) ELSE 0]
    /\ UNCHANGED <<rate, enough, snapMode, degraded, seen, look>>

-----------------------------------------------------------------------------------------
(* State, called by l                                                                   *)

Goto(l, at) == look' = [look EXCEPT ![l].at = at]
Linked(l) == look' = [look EXCEPT ![l] = [Idle EXCEPT !.at = "swap", !.mode = look[l].mode]]

(* Decode and bus.Stats.  The rate is asked for only of a line that is neither down nor *)
(* half read; a window not yet full leaves everything as it was.                        *)
Begin(l) ==
    /\ look[l].at = "idle"
    /\ LET judged == ~stale /\ enough
       IN  look' = [look EXCEPT ![l] =
                IF judged THEN [Idle EXCEPT !.at = "load", !.mode = snapMode, !.rate = rate, !.dip = dip]
                ELSE [Idle EXCEPT !.at = "swap", !.mode = snapMode]]
    /\ UNCHANGED <<lineVars, snapVars, degraded, over, seen, timed, dip>>

(* Mutant: the clock starts anew whenever the rate is found past the mark.              *)
LoadNoSince(l) ==
    /\ look[l].at = "load" /\ look[l].rate = "past"
    /\ look' = [look EXCEPT ![l].since = NotOver, ![l].at = "start"]
    /\ UNCHANGED <<lineVars, snapVars, degraded, over, seen, timed, dip>>

(* Below the mark the clock is stopped; past it, its start is loaded.                   *)
LoadSince(l) ==
    /\ look[l].at = "load" /\ look[l].rate = "past"
    /\ look' = [look EXCEPT ![l].since = over, ![l].at = IF over = NotOver THEN "start" ELSE "judge"]
    /\ UNCHANGED <<lineVars, snapVars, degraded, over, seen, timed, dip>>

StoreSince(l) ==
    /\ look[l].at = "start"
    /\ over' = 0
    /\ look' = [look EXCEPT ![l].since = 0, ![l].at = "judge"]
    /\ UNCHANGED <<lineVars, snapVars, degraded, seen, timed, dip>>

Judge(l) ==
    /\ look[l].at = "judge"
    /\ degraded' = (degraded \/ look[l].since >= DegradedAfter)
    /\ Linked(l)
    /\ UNCHANGED <<lineVars, snapVars, over, seen, timed, dip>>

(* Mutant: a dip below the mark does not stop the clock.                                *)
StopOnlyHealthy(l) ==
    /\ look[l].at = "load" /\ look[l].rate # "past"
    /\ over' = IF look[l].rate = "healthy" THEN NotOver ELSE over
    /\ dip' = 0
    /\ IF look[l].rate = "healthy" THEN Goto(l, "forgive") ELSE Linked(l)
    /\ UNCHANGED <<lineVars, snapVars, degraded, seen, timed>>

StopClock(l) ==
    /\ look[l].at = "load" /\ look[l].rate # "past"
    /\ over' = NotOver
    /\ dip' = 0
    /\ IF look[l].rate = "healthy" THEN Goto(l, "forgive") ELSE Linked(l)
    /\ UNCHANGED <<lineVars, snapVars, degraded, seen, timed>>

Forgive(l) ==
    /\ look[l].at = "forgive"
    /\ degraded' = FALSE
    /\ Linked(l)
    /\ UNCHANGED <<lineVars, snapVars, over, seen, timed, dip>>

SwapSeen(l) ==
    /\ look[l].at = "swap"
    /\ look' = [look EXCEPT ![l].first = ~seen, ![l].at = "observe"]
    /\ seen' = TRUE
    /\ UNCHANGED <<lineVars, snapVars, degraded, over, timed, dip>>

(* Mutant: whatever is counted goes on, whichever mode is seen.                         *)
ObservedInherits(m, first) ==
    IF m \in TimedModes
    THEN IF ~timed.known
         THEN [mode |-> m, known |-> ~first, minutes |-> Duration[m], ticks |-> 0]
         ELSE [timed EXCEPT !.mode = m]
    ELSE NoRun

(* observe: a mode not seen before starts a count, any but a timed one ends it.         *)
Observed(m, first) ==
    IF m \in TimedModes
    THEN IF m # timed.mode
         THEN [mode |-> m, known |-> ~first, minutes |-> Duration[m], ticks |-> 0]
         ELSE timed
    ELSE NoRun

Observe(l) ==
    /\ look[l].at = "observe"
    /\ timed' = Observed(look[l].mode, look[l].first)
    /\ look' = [look EXCEPT ![l] = Idle]
    /\ UNCHANGED <<lineVars, snapVars, degraded, over, seen, dip>>

-----------------------------------------------------------------------------------------
StateInit ==
    /\ rate \in Bands /\ enough = FALSE
    /\ snapMode \in UnitModes /\ stale = FALSE
    /\ degraded = FALSE /\ over = NotOver /\ seen = FALSE /\ timed = NoRun
    /\ look = [l \in Lookers |-> Idle]
    /\ dip = LongAgo

Proceed(l) ==
    \/ LoadSince(l) \/ StoreSince(l) \/ Judge(l) \/ StopClock(l) \/ Forgive(l)
    \/ SwapSeen(l) \/ Observe(l)

StateNext ==
    \/ \E b \in Bands : RateMoves(b)
    \/ WindowFills
    \/ \E m \in UnitModes : Publish(m)
    \/ Tick
    \/ \E l \in Lookers : Begin(l) \/ Proceed(l)

StateSpec == StateInit /\ [][StateNext]_stateVars

(* Calls end and do not fill all the time, so that time passes: whatever still counts    *)
(* is counted on, though once all of it is long ago a tick need not change anything, and  *)
(* the snapshot need not grow stale.  The watchers call State at every turn of their     *)
(* clocks; passes that read something come again and again.                             *)
Counted == <<over, dip, timed>>
StateFairness ==
    /\ []<>NobodyLooks /\ SF_Counted(Tick)
    /\ SF_stateVars(stale /\ \E m \in UnitModes : Publish(m))
    /\ \A l \in Lookers : WF_stateVars(Proceed(l)) /\ WF_stateVars(Begin(l))

StateFairSpec == StateSpec /\ StateFairness

-----------------------------------------------------------------------------------------
StateTypeOK ==
    /\ rate \in Bands /\ enough \in BOOLEAN
    /\ snapMode \in UnitModes /\ stale \in BOOLEAN
    /\ degraded \in BOOLEAN /\ seen \in BOOLEAN
    /\ over \in NotOver..LongAgo /\ dip \in 0..LongAgo
    /\ timed.mode \in UnitModes \cup {"none"} /\ timed.known \in BOOLEAN

(* "Only a rate that stays past it for degradeAfter is called unstable; dipping below   *)
(* the mark stops the clock" (control.go:351-352), whoever looked and however their     *)
(* loads and stores interleave: the line is called unstable by a call before which no   *)
(* other has reported a rate below the mark for that long.                              *)
WarningIsEarned ==
    [][~degraded /\ degraded' =>
        \E l \in Lookers : look[l].at = "judge" /\ look[l].dip >= DegradedAfter]_stateVars

(* A line that is bad for good ends up being called unstable and stays so, and one that *)
(* has become good for good ends up forgiven (control.go:341-379), as long as its       *)
(* snapshots are current.                                                               *)
Judged == enough /\ ~stale
LinkSettles ==
    /\ <>[](rate = "past" /\ Judged) => <>[]degraded
    /\ <>[](rate = "healthy" /\ Judged) => <>[]~degraded

(* "So a boost started straight after an overpressure does not inherit the earlier      *)
(* one's duration" (overpressure.go:31-32): a count that is shown is the one shown      *)
(* before, further on, or starts with the whole duration of a mode that was not being   *)
(* counted.                                                                             *)
CountdownIsItsOwn ==
    [][timed'.known =>
        /\ timed'.minutes = Duration[timed'.mode]
        /\ \/ timed.known /\ timed'.mode = timed.mode /\ timed'.ticks >= timed.ticks
           \/ timed'.mode # timed.mode /\ timed'.ticks = 0]_stateVars
=========================================================================================

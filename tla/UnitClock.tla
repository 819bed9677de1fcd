------------------------------------ MODULE UnitClock ------------------------------------
(***************************************************************************************)
(* Setting the unit's clock: SyncClock (internal/control/control.go), the button that   *)
(* asks for it (internal/web/control.go, clock.go) and keepClockInStep                  *)
(* (cmd/freewayd/main.go), which gives up on a unit that ignores what it is told.       *)
(*                                                                                     *)
(* A clock is its offset from the right time.  Offsets that differ do so by more than   *)
(* any tolerance; what is less is drift nobody acts on.  The box's own clock is stepped *)
(* when it finds a time server, and the unit's runs away now and then.                  *)
(***************************************************************************************)
EXTENDS Integers

CONSTANTS Offsets,   \* how wrong a clock may be, 0 being right
          MaxUpsets  \* bound: steps, runaway clocks and failing exchanges

Callers == {"keeper", "person"}
NoOffset == 1000

ASSUME ClockAssumption == Offsets \subseteq Int /\ 0 \in Offsets /\ NoOffset \notin Offsets

VARIABLES
    box, unit,  \* the two clocks
    obeys,      \* whether this unit acts on a write to its clock
    pending,    \* what the unit has been told and its own task has not taken over yet
    snap,       \* the last snapshot: both clocks as they were
    settable,   \* Unit.clockSettable: "unknown", "yes", "no"
    syncing,    \* Unit.syncing
    keeping,    \* keepClockInStep has not given up
    try,        \* each caller of SyncClock
    upsets

clockVars == <<box, unit, obeys, pending, snap, settable, syncing, keeping, try, upsets>>

NoTry == [at |-> "idle", target |-> 0, far |-> FALSE, upset |-> FALSE]
InStep == box = unit

ClockInit ==
    /\ box \in Offsets /\ unit \in Offsets /\ obeys \in BOOLEAN
    /\ pending = NoOffset /\ snap = [box |-> box, unit |-> unit]
    /\ settable = "unknown" /\ syncing = FALSE /\ keeping = TRUE
    /\ try = [c \in Callers |-> NoTry]
    /\ upsets = 0

-----------------------------------------------------------------------------------------
(* The world                                                                            *)

Upset ==
    /\ upsets < MaxUpsets /\ upsets' = upsets + 1
    /\ try' = [c \in Callers |-> IF try[c].at \in {"wait", "settle", "read", "conclude"}
                                 THEN [try[c] EXCEPT !.upset = TRUE] ELSE try[c]]

StepBox ==
    /\ Upset
    /\ box' \in Offsets \ {box}
    /\ UNCHANGED <<unit, obeys, pending, snap, settable, syncing, keeping>>

UnitRunsAway ==
    /\ Upset
    /\ unit' \in Offsets \ {unit}
    /\ UNCHANGED <<box, obeys, pending, snap, settable, syncing, keeping>>

(* The unit's clock task, within the two seconds SyncClock waits.                       *)
UnitTakes ==
    /\ pending # NoOffset
    /\ unit' = pending /\ pending' = NoOffset
    /\ UNCHANGED <<box, obeys, snap, settable, syncing, keeping, try, upsets>>

Pass ==
    /\ snap' = [box |-> box, unit |-> unit]
    /\ UNCHANGED <<box, unit, obeys, pending, settable, syncing, keeping, try, upsets>>

-----------------------------------------------------------------------------------------
(* SyncClock                                                                            *)

(* Mutant: two at a time.                                                               *)
BeginAnyway(c) ==
    /\ syncing' = TRUE
    /\ try' = [try EXCEPT ![c] = [NoTry EXCEPT !.at = "wait", !.target = box]]

(* One at a time; the target is a minute of the box's clock as it is now.               *)
BeginSync(c) ==
    IF syncing
    THEN /\ try' = [try EXCEPT ![c] = [NoTry EXCEPT !.at = "failed"]]
         /\ UNCHANGED syncing
    ELSE /\ syncing' = TRUE
         /\ try' = [try EXCEPT ![c] = [NoTry EXCEPT !.at = "wait", !.target = box]]

(* keepClockInStep, at a turn of its clock: only a drift in the snapshot is acted on.   *)
Check ==
    /\ keeping /\ try["keeper"].at = "idle"
    /\ snap.box # snap.unit
    /\ BeginSync("keeper")
    /\ UNCHANGED <<box, unit, obeys, pending, snap, settable, keeping, upsets>>

(* handleClock: the reader's clock agrees with the unit's and not with the box's.       *)
Suspect(reader) == snap.unit = reader /\ box # reader

Press(reader, confirmed) ==
    /\ try["person"].at = "idle"
    /\ confirmed \/ ~Suspect(reader)
    /\ BeginSync("person")
    /\ UNCHANGED <<box, unit, obeys, pending, snap, settable, keeping, upsets>>

Told(c) == IF obeys THEN try[c].target ELSE pending

WriteClock(c) ==
    /\ try[c].at = "wait"
    /\ pending' = Told(c)
    /\ try' = [try EXCEPT ![c].at = "settle"]
    /\ UNCHANGED <<box, unit, obeys, snap, settable, syncing, keeping, upsets>>

(* The delay is longer than the unit's clock task takes.                                *)
Settle(c) ==
    /\ try[c].at = "settle" /\ pending = NoOffset
    /\ try' = [try EXCEPT ![c].at = "read"]
    /\ UNCHANGED <<box, unit, obeys, pending, snap, settable, syncing, keeping, upsets>>

(* readClock, straight off the bus.                                                     *)
ReadClock(c) ==
    /\ try[c].at = "read"
    /\ try' = [try EXCEPT ![c].at = "conclude", ![c].far = ~InStep]
    /\ UNCHANGED <<box, unit, obeys, pending, snap, settable, syncing, keeping, upsets>>

(* Reread, which leaves the snapshot's own time as it was, and the verdict.             *)
Conclude(c) ==
    /\ try[c].at = "conclude"
    /\ snap' = [snap EXCEPT !.unit = unit]
    /\ settable' = IF try[c].far THEN "no" ELSE "yes"
    /\ syncing' = FALSE
    /\ try' = [try EXCEPT ![c] = [NoTry EXCEPT !.at = IF try[c].far THEN "failed" ELSE "idle"]]
    /\ UNCHANGED <<box, unit, obeys, pending, keeping, upsets>>

(* Mutant: an error leaves SyncClock marked as running.                                 *)
FailBusy(c) ==
    /\ upsets < MaxUpsets /\ upsets' = upsets + 1
    /\ try[c].at \in {"wait", "settle", "read", "conclude"}
    /\ try' = [try EXCEPT ![c] = [NoTry EXCEPT !.at = "failed"]]
    /\ UNCHANGED <<box, unit, obeys, pending, snap, settable, keeping, syncing>>

(* The write, the reading or the re-read fails, or time is up.  A write that fails may  *)
(* have reached the unit all the same.  Nothing is concluded.                           *)
Fail(c) ==
    /\ upsets < MaxUpsets /\ upsets' = upsets + 1
    /\ try[c].at \in {"wait", "settle", "read", "conclude"}
    /\ pending' \in IF try[c].at = "wait" THEN {pending, Told(c)} ELSE {pending}
    /\ syncing' = FALSE
    /\ try' = [try EXCEPT ![c] = [NoTry EXCEPT !.at = "failed"]]
    /\ UNCHANGED <<box, unit, obeys, snap, settable, keeping>>

(* After an error, the keeper gives up for good if the verdict says so by now.          *)
AfterError(c) ==
    /\ try[c].at = "failed"
    /\ keeping' = (keeping /\ (c = "keeper" => settable # "no"))
    /\ try' = [try EXCEPT ![c] = NoTry]
    /\ UNCHANGED <<box, unit, obeys, pending, snap, settable, syncing, upsets>>

-----------------------------------------------------------------------------------------
Syncs(c) == WriteClock(c) \/ Settle(c) \/ ReadClock(c) \/ Conclude(c) \/ AfterError(c)

ClockNext ==
    \/ StepBox \/ UnitRunsAway \/ UnitTakes \/ Pass
    \/ Check
    \/ \E reader \in Offsets, confirmed \in BOOLEAN : Press(reader, confirmed)
    \/ \E c \in Callers : Syncs(c) \/ Fail(c)

ClockSpec == ClockInit /\ [][ClockNext]_clockVars

(* The poller and the keeper's ticker go on, SyncClock's waits are finite.  Whoever     *)
(* presses the button need not.                                                         *)
ClockFairness ==
    /\ WF_clockVars(Pass) /\ SF_clockVars(Check) /\ WF_clockVars(UnitTakes)
    /\ \A c \in Callers : WF_clockVars(Syncs(c))

(* "This unit ignores clock writes; giving up" (main.go:570) rests on the verdict, so a *)
(* unit that obeys is called unsettable only by a try during which a clock was moved by *)
(* something else, whoever tries at the same time and whatever fails.                   *)
VerdictsAreEarned ==
    [][settable # "no" /\ settable' = "no" =>
        ~obeys \/ \E c \in Callers : try[c].at = "conclude" /\ try[c].upset]_clockVars

(* Once nothing is upset any more, the clock of a unit that obeys is put in step and    *)
(* stays there, or the keeper has given up (keepClockInStep).                           *)
StaysInStep == obeys => <>[](InStep \/ ~keeping)
=========================================================================================

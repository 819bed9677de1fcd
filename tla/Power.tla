-------------------------------------- MODULE Power --------------------------------------
(***************************************************************************************)
(* The supply under the box: internal/power counts the kernel's lines about it afresh   *)
(* at every turn of its clock, from a ring buffer that other lines wrap around, and      *)
(* raises a condition that is called over when it has been quiet for long enough.        *)
(* Time is the watcher's interval; ages are counted up to OverAfter.                     *)
(***************************************************************************************)
EXTENDS Integers, Sequences, FiniteSetsExt

CONSTANTS OverAfter, \* intervals without a sag before the condition is over
          MaxSags    \* bound: sags

ASSUME PowerAssumption == OverAfter \in Nat \ {0} /\ MaxSags \in Nat

VARIABLES
    ring,     \* the kernel's lines about the supply, oldest first: what they say and how old
    supply,   \* "fine" or "low"
    sagAge,   \* how long ago it was last found low
    sags,
    state,    \* Watcher.state
    settled,  \* the backlog has been given its half minute
    raised,   \* the condition, at the notifier
    beat,     \* what the last turn of the clock did
    seenAge   \* history: how long ago the last sag was that this watcher has seen

powerVars == <<ring, supply, sagAge, sags, state, settled, raised, beat, seenAge>>

Older(n) == IF n < OverAfter THEN n + 1 ELSE OverAfter
NothingSeen == [now |-> FALSE, events |-> 0, last |-> OverAfter]

PowerInit ==
    /\ ring = <<>> /\ supply = "fine" /\ sagAge = OverAfter /\ sags = 0
    /\ state = NothingSeen /\ settled = FALSE
    /\ raised = FALSE /\ beat = "none" /\ seenAge = OverAfter

-----------------------------------------------------------------------------------------
(* The kernel                                                                           *)

Sag ==
    /\ supply = "fine" /\ sags < MaxSags
    /\ supply' = "low" /\ sags' = sags + 1 /\ sagAge' = 0
    /\ ring' = Append(ring, [sagged |-> TRUE, age |-> 0])
    /\ beat' = "none"
    /\ UNCHANGED <<state, settled, raised, seenAge>>

Normalise ==
    /\ supply = "low"
    /\ supply' = "fine"
    /\ ring' = Append(ring, [sagged |-> FALSE, age |-> 0])
    /\ beat' = "none"
    /\ UNCHANGED <<sagAge, sags, state, settled, raised, seenAge>>

(* Lines about other things push the oldest out.                                        *)
Wrap ==
    /\ ring # <<>> /\ ring' = Tail(ring)
    /\ beat' = "none"
    /\ UNCHANGED <<supply, sagAge, sags, state, settled, raised, seenAge>>

-----------------------------------------------------------------------------------------
(* The watcher                                                                          *)

Ages(lines) == {lines[i].age : i \in {j \in 1..Len(lines) : lines[j].sagged}}
Newest(lines) == Min(Ages(lines) \cup {OverAfter})
Counted(lines) ==
    [now    |-> lines # <<>> /\ lines[Len(lines)].sagged,
     events |-> Cardinality({j \in 1..Len(lines) : lines[j].sagged}),
     last   |-> Newest(lines)]

(* Mutant: the fresh count is believed.                                                 *)
SampledAfresh(old, lines) == Counted(lines)

(* sample: a count lower than the last is a ring that has wrapped.                      *)
Sampled(old, lines) ==
    IF Counted(lines).events < old.events
    THEN [Counted(lines) EXCEPT !.events = old.events, !.last = Min({@, old.last})]
    ELSE Counted(lines)

(* tell: raise, clear, or say nothing.                                                  *)
Standing(s) == IF s.events = 0 THEN raised ELSE s.now \/ s.last < OverAfter

(* A turn of the clock: an interval has passed, and the kernel's log is read or cannot  *)
(* be.  The first turn finds the backlog and says nothing of it.                        *)
Beat ==
    LET lines == [i \in 1..Len(ring) |-> [ring[i] EXCEPT !.age = Older(@)]]
        aged  == [state EXCEPT !.last = Older(@)]
    IN  /\ ring' = lines /\ sagAge' = Older(sagAge)
        /\ \/ /\ state' = Sampled(aged, lines)
              /\ seenAge' = Min({Older(seenAge), Newest(lines)})
              /\ beat' = IF settled THEN "told" ELSE "none"
           \/ /\ state' = aged
              /\ seenAge' = Older(seenAge)
              /\ beat' = "none"
        /\ settled' = TRUE
        /\ raised' = IF settled THEN Standing(state') ELSE raised
        /\ UNCHANGED <<supply, sags>>

(* The daemon starts again, and has forgotten everything.                               *)
WatcherRestarts ==
    /\ state' = NothingSeen /\ settled' = FALSE
    /\ raised' = FALSE /\ beat' = "none" /\ seenAge' = OverAfter
    /\ UNCHANGED <<ring, supply, sagAge, sags>>

PowerNext == Sag \/ Normalise \/ Wrap \/ Beat \/ WatcherRestarts

PowerSpec == PowerInit /\ [][PowerNext]_powerVars

-----------------------------------------------------------------------------------------
(* Whatever has been wrapped away and however often the log could not be read, a turn    *)
(* of the clock that reads it leaves the condition up exactly when it should be: a sag   *)
(* this watcher has seen, or one in the log, is less than OverAfter ago, or the last word in *)
(* the log is that the supply is low; and it is never up over a supply that has been     *)
(* fine for that long (power.go:151-205, 209-227).                                      *)
ConditionIsRight ==
    beat = "told" =>
        /\ raised <=> seenAge < OverAfter \/ (ring # <<>> /\ ring[Len(ring)].sagged)
        /\ raised => sagAge < OverAfter \/ supply = "low"
=========================================================================================

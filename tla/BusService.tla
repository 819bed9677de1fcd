--------------------------------- MODULE BusService ---------------------------------
(***********************************************************************************)
(* What Bus.Do promises a caller (internal/bus/bus.go:17-29, 51-57, 205-256),      *)
(* without queues, priorities or goroutines: the caller's function meets its fate  *)
(* at most once, an answer tells that fate, "closed" tells that it has none and    *)
(* never will, and a caller that gives up learns nothing, while its function may   *)
(* still be run.                                                                   *)
(***********************************************************************************)
CONSTANT Calls

VARIABLES inside, \* the calls that have not returned
          fate,   \* what became of each caller's function
          got     \* what Do returned

vars == <<inside, fate, got>>

Fates == {"ok", "failed", "dropped"}

Init ==
    /\ inside = {}
    /\ fate = [c \in Calls |-> "none"]
    /\ got = [c \in Calls |-> "none"]

Call(c) ==
    /\ c \notin inside
    /\ inside' = inside \cup {c}
    /\ fate' = [fate EXCEPT ![c] = "none"]
    /\ got' = [got EXCEPT ![c] = "none"]

(* Never for a caller that was turned away, and never again once it has been decided. *)
Decide(c, f) ==
    /\ fate[c] = "none" /\ got[c] \in {"none", "ctx"}
    /\ fate' = [fate EXCEPT ![c] = f]
    /\ UNCHANGED <<inside, got>>

Leave(c, r) ==
    /\ c \in inside
    /\ inside' = inside \ {c}
    /\ got' = [got EXCEPT ![c] = r]

TakeAnswer(c) == fate[c] # "none" /\ Leave(c, fate[c]) /\ UNCHANGED fate

TurnAway(c) == fate[c] = "none" /\ Leave(c, "closed") /\ UNCHANGED fate

(* Giving up before the function is on its way decides its fate as well.             *)
GiveUp(c) ==
    /\ Leave(c, "ctx")
    /\ \/ UNCHANGED fate
       \/ fate[c] = "none" /\ fate' = [fate EXCEPT ![c] = "dropped"]

Next ==
    \E c \in Calls :
        \/ Call(c) \/ TakeAnswer(c) \/ TurnAway(c) \/ GiveUp(c)
        \/ \E f \in Fates : Decide(c, f)

Spec == Init /\ [][Next]_vars

=====================================================================================

----------------------------------- MODULE MCBus -----------------------------------
(* An instance of Bus for TLC: a few call identities that are used again and again,   *)
(* some for calls without a deadline and some for calls with one.                     *)
EXTENDS Bus

CONSTANT Patient
ASSUME PatientAssumption == Patient \subseteq Calls

MCNext ==
    \/ \E c \in Calls, p \in Asked : Begin(c, p, c \in Patient)
    \/ \E c \in Calls : Expire(c) \/ Do(c)
    \/ Close
    \/ Loop

MCSpec == Init /\ [][MCNext]_vars /\ Fairness

=====================================================================================

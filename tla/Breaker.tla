----------------------------------- MODULE Breaker -----------------------------------
(*************************************************************************************)
(* The gateway's circuit breaker (internal/gateway/breaker.go) and the requests it    *)
(* lets through or refuses (internal/gateway/server.go, execute), with what becomes of *)
(* them on the bus (internal/bus/bus.go).  Each client has one request at a time, which *)
(* it gives up on after RequestTimeout; a job already on the wire then runs on, with    *)
(* all its attempts, and is nobody's.                                                  *)
(*                                                                                    *)
(* Time passes in whole ticks: retryIn is what is left until retryAt, age how long a  *)
(* client has been waiting.                                                            *)
(*************************************************************************************)
EXTENDS Integers, FiniteSets

CONSTANTS Clients,
          Threshold,     \* failures in a row that open the breaker
          Cooldown,      \* ticks before a request is let through an open breaker
          RequestTimeout \* ticks a client waits for the bus

(* The defaults are 3, 5 s and 4 s (server.go:36-39, breaker.go:47-52).               *)
ASSUME BreakerAssumption ==
    /\ Threshold \in Nat \ {0}
    /\ Cooldown \in Nat \ {0}
    /\ RequestTimeout \in Nat \ {0}
    /\ RequestTimeout < Cooldown

VARIABLES
    up,          \* the unit answers
    consecutive, \* Breaker.consecutive, exact up to Threshold + 1
    retryIn,     \* ticks until Breaker.retryAt
    job,         \* where the request of each client is
    orphan,      \* the job on the wire is one its client has given up on
    age,         \* for how long each client has been waiting
    probe        \* the clients whose request was let through an open breaker

breakerVars == <<up, consecutive, retryIn, job, orphan, age, probe>>

Open == consecutive >= Threshold

asking == {c \in Clients : job[c] # "none"}  \* those inside Bus.Do

(* One job at a time has the port, for as long as it likes.                            *)
WireFree == ~orphan /\ \A c \in Clients : job[c] # "wire"

BreakerInit ==
    /\ up \in BOOLEAN
    /\ consecutive = 0 /\ retryIn = 0
    /\ job = [c \in Clients |-> "none"] /\ orphan = FALSE /\ probe = {}
    /\ age = [c \in Clients |-> 0]

(* A tick passes; no client waits longer than its timeout.                             *)
Elapse ==
    /\ \A c \in asking : age[c] < RequestTimeout
    /\ age' = [c \in Clients |-> IF c \in asking THEN age[c] + 1 ELSE 0]
    /\ retryIn' = IF retryIn = 0 THEN 0 ELSE retryIn - 1
    /\ UNCHANGED <<up, consecutive, job, orphan, probe>>

(* The unit falls silent or comes back.                                                *)
Switch == up' = ~up /\ UNCHANGED <<consecutive, retryIn, job, orphan, age, probe>>

MoveJob(c, place) == job' = [job EXCEPT ![c] = place]

(* Allow returns true, and the request goes to the bus.                                *)
Pass(c) ==
    /\ job[c] = "none" /\ ~Open
    /\ MoveJob(c, "queued")
    /\ UNCHANGED <<up, consecutive, retryIn, orphan, age, probe>>

(* Mutant: the next probe is not put off.                                              *)
ProbeFreely(c) ==
    /\ job[c] = "none" /\ Open /\ retryIn = 0
    /\ MoveJob(c, "queued")
    /\ probe' = probe \cup {c}
    /\ UNCHANGED <<up, consecutive, retryIn, orphan, age>>

(* It is open, but a request is due.  A request that is not is answered at once.       *)
Probe(c) ==
    /\ job[c] = "none" /\ Open /\ retryIn = 0
    /\ retryIn' = Cooldown
    /\ MoveJob(c, "queued")
    /\ probe' = probe \cup {c}
    /\ UNCHANGED <<up, consecutive, orphan, age>>

(* The bus gets to the job.  One whose client is gone it drops without a word.         *)
Take(c) ==
    /\ job[c] = "queued" /\ WireFree
    /\ MoveJob(c, "wire")
    /\ UNCHANGED <<up, consecutive, retryIn, orphan, age, probe>>

(* The job ends: with an answer, which takes a unit that gives one, or without.        *)
Answered(c) ==
    /\ job[c] = "wire" /\ up
    /\ MoveJob(c, "ok")
    /\ UNCHANGED <<up, consecutive, retryIn, orphan, age, probe>>

Unanswered(c) ==
    /\ job[c] = "wire"
    /\ MoveJob(c, "failed")
    /\ UNCHANGED <<up, consecutive, retryIn, orphan, age, probe>>

(* A job nobody waits for ends.                                                        *)
OrphanEnds == orphan /\ orphan' = FALSE /\ UNCHANGED <<up, consecutive, retryIn, job, age, probe>>

Done(c) ==
    /\ MoveJob(c, "none")
    /\ probe' = probe \ {c}
    /\ age' = [age EXCEPT ![c] = 0]
    /\ UNCHANGED up

(* Mutant: a success is not noted.                                                     *)
SuccessUnnoted(c) == job[c] = "ok" /\ Done(c) /\ UNCHANGED <<consecutive, retryIn, orphan>>

Success(c) ==
    /\ job[c] = "ok"
    /\ Done(c)
    /\ consecutive' = 0
    /\ UNCHANGED <<retryIn, orphan>>

(* The job has failed, or the client's time is up wherever its job is: one in the      *)
(* queue will be dropped, one on the wire stays there, and an answer that comes at the  *)
(* same moment may be overlooked.                                                      *)
Failure(c) ==
    /\ job[c] = "failed" \/ (c \in asking /\ age[c] = RequestTimeout)
    /\ Done(c)
    /\ orphan' = (orphan \/ job[c] = "wire")
    /\ consecutive' = IF consecutive > Threshold THEN consecutive ELSE consecutive + 1
    /\ retryIn' = IF consecutive + 1 = Threshold THEN Cooldown ELSE retryIn

Ask(c) == Pass(c) \/ Probe(c)

BusWorks(c) == Take(c) \/ Answered(c) \/ Unanswered(c)

BreakerNext ==
    \/ Elapse \/ Switch \/ OrphanEnds
    \/ \E c \in Clients : Ask(c) \/ BusWorks(c) \/ Success(c) \/ Failure(c)

BreakerSpec == BreakerInit /\ [][BreakerNext]_breakerVars

(* Time passes, the clients keep asking, what the bus runs ends, and the bus fails not   *)
(* every request to a unit that answers (server.go:377-394 with the bus's guarantees). *)
BreakerFairness ==
    /\ WF_breakerVars(Elapse) /\ WF_breakerVars(OrphanEnds)
    /\ \A c \in Clients :
        /\ WF_breakerVars(Ask(c)) /\ WF_breakerVars(Success(c) \/ Failure(c))
        /\ SF_breakerVars(Take(c)) /\ SF_breakerVars(Answered(c)) /\ SF_breakerVars(Success(c))

BreakerFairSpec == BreakerSpec /\ BreakerFairness

---------------------------------------------------------------------------------------
BreakerTypeOK ==
    /\ up \in BOOLEAN
    /\ consecutive \in 0..(Threshold + 1)
    /\ retryIn \in 0..Cooldown
    /\ job \in [Clients -> {"none", "queued", "wire", "ok", "failed"}]
    /\ orphan \in BOOLEAN
    /\ probe \in SUBSET asking
    /\ age \in [Clients -> 0..RequestTimeout]

(* "Exactly one request through per cooldown" (breaker.go:60-61): while a request that  *)
(* was let through an open breaker is on the bus, no other client waits there, whatever *)
(* was under way when the breaker opened, so that what the breaker learns next is the   *)
(* probe's own outcome, and it learns it while it is open.  The probe does not have the *)
(* wire to itself: one job that its client has given up on may still be running.        *)
ProbeIsAlone == probe # {} => Open /\ asking = probe /\ Cardinality(probe) = 1

(* When the unit has come back for good, the breaker does not stay open (breaker.go:   *)
(* 14-17), although nothing but the clients' own requests finds it out.                *)
Recovers == <>[]up => []<>~Open

(* "The bus stays free" (breaker.go:17-19): a probe has the wire to itself.            *)
ProbeHasTheWire == probe # {} => ~orphan

=======================================================================================

------------------------------------ MODULE SshDoor ------------------------------------
(***************************************************************************************)
(* The port for ssh: a lasting policy in a file, openings for a number of minutes with  *)
(* a deadline in another file, a timer that looks at the deadline every minute, and     *)
(* the units that put things right at boot (packaging/freeway-helper, ssh-policy,       *)
(* ssh-open, ssh-expire and ssh-shut; freeway-card; the page's side in internal/netconf *)
(* and internal/web/wifi.go).  The helper is one process per request and nothing keeps  *)
(* two of them apart.  The firewall is in place.                                        *)
(*                                                                                      *)
(* Time is a minute, longer than any helper takes.  The deadline is counted in what is  *)
(* left of it, for it is kept in seconds since boot, which nobody can step.             *)
(***************************************************************************************)
EXTENDS Integers

CONSTANTS Minutes,  \* how long somebody may open the port for
          Pages,    \* requests of the page that may be under way at once
          MaxOpens  \* bound: openings

NotOpened == -1  \* no deadline in /run

ASSUME DoorAssumption ==
    /\ Minutes \subseteq Nat \ {0} /\ MaxOpens \in Nat
    /\ Pages \cap {"boot", "card", "timer"} = {}

VARIABLES
    lasting, \* SSH_POLICY_FILE
    until,   \* SSH_UNTIL_FILE: minutes left, or NotOpened
    accept,  \* the chain accepts
    job,     \* what each helper process has left to do, and what it is to do it with
    bell,    \* the timer's minute is up
    start,   \* what the box has yet to do before the page is there
    broken,  \* a command has failed, and nothing has gone well since
    crossed, \* helpers overlap ("going"), or have, and none has ended well alone since ("past")
    opens

doorVars == <<lasting, until, accept, job, bell, start, broken, crossed, opens>>

Helpers == {"boot", "card", "timer"} \cup Pages
NoJob   == [at |-> "done", to |-> "file", minutes |-> 0]
Working == {h \in Helpers : job[h].at # "done"}
MayStart(h) == job[h].at = "done"

Takes(h, at, to, n) == job' = [job EXCEPT ![h] = [at |-> at, to |-> to, minutes |-> n]]
Begins(h, at, to, n) ==
    /\ Takes(h, at, to, n)
    /\ crossed' = IF Working = {} THEN crossed ELSE "going"
    /\ UNCHANGED broken
Goes(h, at) == job' = [job EXCEPT ![h].at = at] /\ UNCHANGED <<broken, crossed>>
Leaves(h, alone) ==
    /\ job' = [job EXCEPT ![h] = NoJob]
    /\ crossed' = IF crossed # "going" THEN alone ELSE IF Working = {h} THEN "past" ELSE "going"
Ends(h) == Leaves(h, "no") /\ broken' = FALSE

DoorInit ==
    /\ lasting \in {"open", "closed"} /\ accept = (lasting = "open")
    /\ until = NotOpened
    /\ job = [h \in Helpers |-> NoJob]
    /\ bell = FALSE /\ start = "up" /\ broken = FALSE /\ crossed = "no" /\ opens = 0

----------------------------------------------------------------------------------------
(* The helper's commands, one at a time                                                 *)

WritePolicy(h) ==
    /\ job[h].at = "write"
    /\ lasting' = job[h].to
    /\ Goes(h, "remove")
    /\ UNCHANGED <<until, accept, bell, start, opens>>

(* Mutant: a lasting answer leaves a temporary one standing.                            *)
KeepDeadline(h) ==
    /\ job[h].at = "remove"
    /\ until' = IF job[h].to = "file" THEN NotOpened ELSE until
    /\ Goes(h, "flush")
    /\ UNCHANGED <<lasting, accept, bell, start, opens>>

RemoveDeadline(h) ==
    /\ job[h].at = "remove"
    /\ until' = NotOpened
    /\ Goes(h, "flush")
    /\ UNCHANGED <<lasting, accept, bell, start, opens>>

(* "nft flush chain": closed, until a rule is added.                                    *)
Flush(h) ==
    /\ job[h].at = "flush"
    /\ accept' = FALSE
    /\ CASE job[h].to = "closed" -> Ends(h)
         [] job[h].to = "file"   -> Goes(h, "read")
         [] job[h].to = "open"   -> Goes(h, "add")
    /\ UNCHANGED <<lasting, until, bell, start, opens>>

(* ssh_shut returns to the policy, whatever it is by now.                               *)
ReadPolicy(h) ==
    /\ job[h].at = "read"
    /\ IF lasting = "open" THEN Takes(h, "add", "open", 0) /\ UNCHANGED <<broken, crossed>> ELSE Ends(h)
    /\ UNCHANGED <<lasting, until, accept, bell, start, opens>>

AddRule(h) ==
    /\ job[h].at = "add"
    /\ accept' = TRUE
    /\ IF job[h].minutes = 0 THEN Ends(h) ELSE Goes(h, "stamp")
    /\ UNCHANGED <<lasting, until, bell, start, opens>>

Stamp(h) ==
    /\ job[h].at = "stamp"
    /\ until' = job[h].minutes
    /\ Ends(h)
    /\ UNCHANGED <<lasting, accept, bell, start, opens>>

(* Any command may fail, and set -e ends the script there.                              *)
Breaks(h) ==
    /\ job[h].at # "done"
    /\ Leaves(h, crossed)
    /\ broken' = TRUE
    /\ UNCHANGED <<lasting, until, accept, bell, start, opens>>

----------------------------------------------------------------------------------------
(* Requests                                                                             *)

(* ssh-open, ssh-policy, ssh-shut                                                       *)
Open(h) ==
    /\ opens < MaxOpens /\ opens' = opens + 1
    /\ \E n \in Minutes : Begins(h, "flush", "open", n)

Decide(h) ==
    /\ \E p \in {"open", "closed"} : Begins(h, "write", p, 0)
    /\ UNCHANGED opens

Shut(h) == Begins(h, "remove", "file", 0) /\ UNCHANGED opens

(* handleSSHPut *)
PageAsks(h) ==
    /\ start = "up" /\ MayStart(h)
    /\ Open(h) \/ Decide(h) \/ Shut(h)
    /\ UNCHANGED <<lasting, until, accept, bell, start>>

(* freeway-ssh-expire: nothing to do without a deadline, or before it.                  *)
Expire ==
    /\ bell /\ bell' = FALSE
    /\ MayStart("timer")
    /\ IF until # NotOpened /\ until <= 0
       THEN Begins("timer", "remove", "file", 0)
       ELSE UNCHANGED <<job, broken, crossed>>
    /\ UNCHANGED <<lasting, until, accept, start, opens>>

----------------------------------------------------------------------------------------
(* The box                                                                              *)

MinutePasses ==
    /\ Working = {} /\ ~bell
    /\ bell' = TRUE
    /\ until' = IF until > 0 THEN until - 1 ELSE until
    /\ UNCHANGED <<lasting, accept, job, start, broken, crossed, opens>>

(* The power goes.  /run is empty, and the rule file holds whatever the policy was when *)
(* the firewall was set up.                                                             *)
SupplyCut ==
    /\ until' = NotOpened
    /\ accept' \in BOOLEAN
    /\ job' = [h \in Helpers |-> NoJob] /\ bell' = FALSE
    /\ start' = "policy" /\ broken' = TRUE /\ crossed' = "no"
    /\ UNCHANGED <<lasting, opens>>

(* freeway-ssh-policy.service asks ssh-shut,                                            *)
ApplyPolicy ==
    /\ start = "policy" /\ MayStart("boot")
    /\ Shut("boot")
    /\ start' = "card"
    /\ UNCHANGED <<lasting, until, accept, bell>>

(* then freeway-card, if somebody has left a card with ssh=..., asks what it says,      *)
ReadCard ==
    /\ start = "card" /\ job["boot"].at = "done" /\ MayStart("card")
    /\ Open("card") \/ Decide("card") \/ UNCHANGED <<job, broken, crossed, opens>>
    /\ start' = "daemon"
    /\ UNCHANGED <<lasting, until, accept, bell>>

(* and then the daemon starts.                                                          *)
DaemonStarts ==
    /\ start = "daemon" /\ job["card"].at = "done"
    /\ start' = "up"
    /\ UNCHANGED <<lasting, until, accept, job, bell, broken, crossed, opens>>

Command(h) ==
    \/ WritePolicy(h) \/ RemoveDeadline(h) \/ Flush(h) \/ ReadPolicy(h) \/ AddRule(h) \/ Stamp(h)
    \/ Breaks(h)

DoorNext ==
    \/ \E h \in Helpers : Command(h)
    \/ \E h \in Pages : PageAsks(h)
    \/ Expire
    \/ MinutePasses \/ SupplyCut \/ ApplyPolicy \/ ReadCard \/ DaemonStarts

DoorSpec == DoorInit /\ [][DoorNext]_doorVars

----------------------------------------------------------------------------------------
(* "Reachable is whether it is answering right now, which differs from the policy       *)
(* exactly while a temporary opening is running" (ssh.go:24-26), and an opening ends    *)
(* with the minute after its time: through policies changed while it runs, openings on  *)
(* top of each other, power cuts at any command, cards, commands that fail and helpers  *)
(* that overlap, whenever no helper is at work and one has ended well, alone, since the *)
(* last that failed and the last that overlapped with another.                          *)
AsSaid ==
    /\ accept <=> lasting = "open" \/ until # NotOpened
    /\ until # NotOpened => until > 0 \/ bell
DoorIsAsSaid == Working = {} /\ ~broken /\ crossed = "no" => AsSaid

(* The same after helpers that overlap.                                                 *)
OverlapsSettle == Working = {} /\ ~broken => AsSaid
=========================================================================================

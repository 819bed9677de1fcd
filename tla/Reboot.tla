------------------------------------- MODULE Reboot -------------------------------------
(***************************************************************************************)
(* A restart that an update asks for: WatchReboot (internal/hostctl/reboot.go) with its *)
(* two rhythms, the policy it reads afresh from the file (cmd/freewayd/main.go), and    *)
(* the page that sets it (internal/web/system.go).  Time is half a minute.              *)
(***************************************************************************************)
EXTENDS Integers

CONSTANTS Day,     \* length of a day
          Poll,    \* how often the flag is looked at
          Window,  \* RebootWindow, a minute and a half
          Slack,   \* how late a tick may be handled, the other's notification going out
          Hours    \* times of the day somebody may choose

Minute == 2

ASSUME RebootAssumption ==
    /\ Day \in Nat \ {0} /\ Poll \in Nat \ {0} /\ Window \in Nat /\ Slack \in Nat
    /\ Window >= Minute + Slack
    /\ Hours \subseteq 0 .. Day - 1

Policies == [auto : BOOLEAN, at : Hours]

VARIABLES
    hour,      \* time of the day
    toClock, toPoll, \* until the next tick, negative when one is overdue
    required,    \* /var/run/reboot-required
    policy,    \* in the file
    atStart,   \* the policy the daemon started with
    readable,  \* config.Load succeeds
    announced, \* the condition is up
    watch,     \* "on", "going" when Reboot has been called, "ended"
    owed       \* history: since the chosen time came, a restart has been due

rebootVars == <<hour, toClock, toPoll, required, policy, atStart, readable, announced, watch, owed>>
configVars == <<policy, atStart, readable>>

(* DueAt compares with today's target, so a window that reaches midnight ends there.    *)
InWindow(h) == h <= hour /\ hour - h < Window
Due(p) == p.auto /\ InWindow(p.at)

(* The policy of the file, or of the start when the file does not load.                 *)
InForce == IF readable THEN policy ELSE atStart

RebootInit ==
    /\ hour \in 0 .. Day - 1
    /\ toClock = Minute /\ toPoll = Poll
    /\ required \in BOOLEAN
    /\ policy \in Policies /\ atStart = policy /\ readable = TRUE
    /\ announced = FALSE /\ watch = "on" /\ owed = FALSE

-----------------------------------------------------------------------------------------
TimePasses ==
    /\ watch # "going" /\ toClock > -Slack /\ toPoll > -Slack
    /\ hour' = (hour + 1) % Day
    /\ IF watch = "on" THEN toClock' = toClock - 1 /\ toPoll' = toPoll - 1
       ELSE UNCHANGED <<toClock, toPoll>>
    /\ owed' = ((owed \/ hour' = policy.at) /\ required /\ policy.auto /\ readable /\ watch = "on")
    /\ UNCHANGED <<required, configVars, announced, watch>>

(* By hand, by the network, by the season.                                              *)
ClockIsSet(h) ==
    /\ hour' = h /\ owed' = FALSE
    /\ UNCHANGED <<toClock, toPoll, required, configVars, announced, watch>>

PackageAsks ==
    /\ ~required /\ required' = TRUE
    /\ owed' = FALSE
    /\ UNCHANGED <<hour, toClock, toPoll, configVars, announced, watch>>

(* handleRebootPolicy *)
SetPolicy(p) ==
    /\ readable
    /\ policy' = p
    /\ owed' = FALSE
    /\ UNCHANGED <<hour, toClock, toPoll, required, atStart, readable, announced, watch>>

(* Somebody leaves the file as it does not parse or validate, or mends it.              *)
FileEdited ==
    /\ readable' = ~readable
    /\ owed' = FALSE
    /\ UNCHANGED <<hour, toClock, toPoll, required, policy, atStart, announced, watch>>

-----------------------------------------------------------------------------------------
(* WatchReboot.  A ticker keeps to its beat however late a tick is handled.             *)

PollTick ==
    /\ watch = "on" /\ toPoll <= 0
    /\ toPoll' = toPoll + Poll
    /\ announced' = required
    /\ UNCHANGED <<hour, toClock, required, configVars, watch, owed>>

(* The box is about to go, and says so first, whatever the poll has said.               *)
GoIfDue ==
    IF required /\ Due(InForce) THEN announced' = TRUE /\ watch' = "going"
    ELSE UNCHANGED <<announced, watch>>

(* Mutant: one rhythm for both questions.                                               *)
ClockTickOnPoll ==
    /\ watch = "on" /\ toClock <= 0
    /\ toClock' = toClock + Poll
    /\ GoIfDue
    /\ UNCHANGED <<hour, toPoll, required, configVars, owed>>

(* The policy is read from the file again at every tick.                                *)
ClockTick ==
    /\ watch = "on" /\ toClock <= 0
    /\ toClock' = toClock + Minute
    /\ GoIfDue
    /\ UNCHANGED <<hour, toPoll, required, configVars, owed>>

(* Without a configuration that loads the daemon does not start.                        *)
Starts ==
    /\ readable /\ atStart' = policy
    /\ toClock' = Minute /\ toPoll' = Poll
    /\ announced' = FALSE /\ watch' = "on" /\ owed' = FALSE
    /\ UNCHANGED <<hour, policy, readable>>

BoxRestarts == watch = "going" /\ Starts /\ required' = FALSE

(* A restart that fails is not tried again, and nothing is announced any more.          *)
RebootFails ==
    /\ watch = "going" /\ watch' = "ended" /\ owed' = FALSE
    /\ UNCHANGED <<hour, toClock, toPoll, required, configVars, announced>>

DaemonRestarts == Starts /\ UNCHANGED required

RebootNext ==
    \/ TimePasses \/ (\E h \in 0 .. Day - 1 : ClockIsSet(h))
    \/ PackageAsks \/ (\E p \in Policies : SetPolicy(p)) \/ FileEdited
    \/ PollTick \/ ClockTick
    \/ BoxRestarts \/ RebootFails \/ DaemonRestarts

RebootSpec == RebootInit /\ [][RebootNext]_rebootVars

-----------------------------------------------------------------------------------------
(* What is left of the day at h is enough for a tick, were it late.                     *)
Roomy(h) == h + Minute + Slack <= Day

(* "Whether it is 14:40 yet is a promise about a clock" (reboot.go:83-85): if an update  *)
(* asked for a restart and the policy was automatic before the chosen time came, and     *)
(* since then nobody has changed either, nor the clock, nor broken the file, the box has *)
(* gone before the window has shut, however its ticks lie to the minute and however late *)
(* they are handled.  Only 23:59 has no room for a late tick.  And the box goes only     *)
(* then: when a restart is wanted and announced, in the window and under the automatic   *)
(* policy that is in the file, or that was there when the daemon started if the file     *)
(* does not load now.  At the start nothing is owed.                                    *)
GoneInTime == owed /\ Roomy(policy.at) => InWindow(policy.at)
OnlyThen ==
    watch # "going" /\ watch' = "going" =>
        /\ required /\ announced'
        /\ Due(policy) \/ (~readable /\ Due(atStart))
PromiseIsKept == [][GoneInTime' /\ OnlyThen]_rebootVars

(* Not checked, for it fails: the promise at 23:59, and that the file's policy is the    *)
(* one obeyed (main.go:184-186).                                                       *)
AlwaysKept == owed => InWindow(policy.at)
FileIsObeyed == [][watch # "going" /\ watch' = "going" => Due(policy)]_rebootVars
=========================================================================================

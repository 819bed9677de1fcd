----------------------------------- MODULE Gateway -----------------------------------
(*************************************************************************************)
(* The Modbus TCP server (internal/gateway/server.go, acl.go): the switch and the     *)
(* access list as the System page sets them (internal/web/system.go), the listener    *)
(* that starts and stops with the switch, one goroutine per accepted connection, and  *)
(* Close.  Each section of code under Server.mu, ACL.mu or one system call is a step. *)
(*************************************************************************************)
EXTENDS Integers, FiniteSets

CONSTANTS Peers,      \* machines that may connect
          Conns,      \* connections that may exist at once
          Callers,    \* requests to change the gateway's settings, handled at once
          Listeners,  \* listening sockets that may exist at once
          NoListener,
          MaxClients, \* connections the server holds
          Settings    \* what may be asked for: [enabled, allow]

ASSUME GatewayAssumption ==
    /\ NoListener \notin Listeners
    /\ MaxClients \in Nat \ {0}
    /\ Settings \subseteq [enabled : BOOLEAN, allow : SUBSET Peers]
    /\ \A s \in Settings : s.enabled => s.allow # {}   \* handleGatewayPut refuses the others

VARIABLES
    saved,     \* the settings in the configuration file
    acl,       \* the ACL as it is applied
    ln,        \* Server.ln, with stop: the listener that is serving
    open,      \* listening sockets the kernel has open
    loops,     \* of those, the ones whose accept loop still runs
    unbound,   \* a request could not listen, was told so, and none has listened since
    conns,     \* Server.conns
    handler,   \* where the goroutine of each connection is
    peer,      \* who is at the other end
    severed,   \* connections the server has closed from outside their goroutine
    caller,    \* where each settings request is
    asked,     \* what it asks for
    heldLn,    \* the listener stopListening took out
    heldConns, \* the connections it, or Close, copied
    closing,   \* where Close is
    doomed     \* the listener and connections Close copied

lnVars     == <<ln, open, loops, unbound>>
connVars   == <<conns, handler, peer>>
callerVars == <<caller, asked, heldLn, heldConns>>
closeVars  == <<closing, doomed>>
vars == <<saved, acl, lnVars, connVars, severed, callerVars, closeVars>>

Off == [enabled |-> FALSE, allow |-> {}]
AnySettings == [enabled : BOOLEAN, allow : SUBSET Peers]

(* A daemon that is switched on and cannot listen does not start.                      *)
Init ==
    /\ saved \in Settings \cup {Off}
    /\ acl = saved
    /\ ln \in Listeners \cup {NoListener}
    /\ (ln # NoListener) <=> saved.enabled
    /\ open = {ln} \ {NoListener}
    /\ loops = open /\ unbound = FALSE
    /\ conns = {}
    /\ handler = [c \in Conns |-> "none"]
    /\ peer \in [Conns -> Peers]
    /\ severed = {}
    /\ caller = [k \in Callers |-> "idle"]
    /\ asked = [k \in Callers |-> Off]
    /\ heldLn = [k \in Callers |-> NoListener]
    /\ heldConns = [k \in Callers |-> {}]
    /\ closing = "no" /\ doomed = {}

---------------------------------------------------------------------------------------
(* accept and handle                                                                   *)

(* Accept returns a connection and its goroutine starts.                               *)
Accept(c, p) ==
    /\ loops # {} /\ handler[c] = "none"
    /\ handler' = [handler EXCEPT ![c] = "accepted"]
    /\ peer' = [peer EXCEPT ![c] = p]
    /\ UNCHANGED <<saved, acl, lnVars, conns, severed, callerVars, closeVars>>

(* Accept fails otherwise than by a timeout, for want of descriptors for instance: the  *)
(* loop ends, with ln and stop as they were and the socket open.                       *)
AcceptFails(l) ==
    /\ l \in loops
    /\ loops' = loops \ {l}
    /\ UNCHANGED <<saved, acl, ln, open, unbound, connVars, severed, callerVars, closeVars>>

(* The goroutine returns: it leaves the table and closes its connection.               *)
Gone(c) ==
    /\ handler' = [handler EXCEPT ![c] = "none"]
    /\ conns' = conns \ {c}
    /\ severed' = severed \ {c}
    /\ UNCHANGED <<saved, acl, lnVars, peer, callerVars, closeVars>>

TooMany(c) ==
    /\ handler[c] = "accepted" /\ Cardinality(conns) >= MaxClients
    /\ Gone(c)

(* Mutant: the ceiling is not looked at again.                                         *)
EnlistAnyway(c) ==
    /\ handler[c] = "accepted"
    /\ conns' = conns \cup {c}
    /\ handler' = [handler EXCEPT ![c] = "listed"]
    /\ UNCHANGED <<saved, acl, lnVars, peer, severed, callerVars, closeVars>>

Enlist(c) ==
    /\ handler[c] = "accepted" /\ Cardinality(conns) < MaxClients
    /\ conns' = conns \cup {c}
    /\ handler' = [handler EXCEPT ![c] = "listed"]
    /\ UNCHANGED <<saved, acl, lnVars, peer, severed, callerVars, closeVars>>

Allows(p) == acl.enabled /\ p \in acl.allow

Refuse(c) == handler[c] = "listed" /\ ~Allows(peer[c]) /\ Gone(c)

Admit(c) ==
    /\ handler[c] = "listed" /\ Allows(peer[c])
    /\ handler' = [handler EXCEPT ![c] = "serving"]
    /\ UNCHANGED <<saved, acl, lnVars, conns, peer, severed, callerVars, closeVars>>

(* Reading or writing a connection that was closed under the goroutine fails.          *)
Notice(c) == handler[c] = "serving" /\ c \in severed /\ Gone(c)

(* The client hangs up, or has said nothing for IdleTimeout.                           *)
HangUp(c) == handler[c] = "serving" /\ c \notin severed /\ Gone(c)

(* A request is answered, which is all a served connection is for.                     *)
Served(c) == handler[c] = "serving" /\ c \notin severed

---------------------------------------------------------------------------------------
(* handleGatewayPut and Configure                                                      *)

Move(k, place) == caller' = [caller EXCEPT ![k] = place]

(* The settings are saved first.                                                       *)
Put(k, s) ==
    /\ caller[k] = "idle" /\ closing = "no"
    /\ saved' = s
    /\ asked' = [asked EXCEPT ![k] = s]
    /\ Move(k, "set")
    /\ UNCHANGED <<acl, lnVars, connVars, severed, heldLn, heldConns, closeVars>>

SetList(k) ==
    /\ caller[k] = "set"
    /\ acl' = asked[k]
    /\ Move(k, IF asked[k].enabled THEN "check" ELSE "take")
    /\ UNCHANGED <<saved, lnVars, connVars, severed, asked, heldLn, heldConns, closeVars>>

(* Mutant: the listener is always replaced.                                            *)
ListenAgain(k) ==
    /\ caller[k] = "check"
    /\ Move(k, "take")
    /\ UNCHANGED <<saved, acl, lnVars, connVars, severed, asked, heldLn, heldConns, closeVars>>

(* The address is the one in the configuration, so one that listens is left alone.     *)
CheckListening(k) ==
    /\ caller[k] = "check"
    /\ Move(k, IF ln # NoListener THEN "idle" ELSE "take")
    /\ UNCHANGED <<saved, acl, lnVars, connVars, severed, asked, heldLn, heldConns, closeVars>>

AfterStop(k) == IF asked[k].enabled THEN "listen" ELSE "idle"

(* stopListening, under the lock: what there is to close is taken out.                 *)
TakeListener(k) ==
    /\ caller[k] = "take"
    /\ ln' = NoListener
    /\ heldLn' = [heldLn EXCEPT ![k] = ln]
    /\ heldConns' = [heldConns EXCEPT ![k] = IF ln = NoListener THEN {} ELSE conns]
    /\ Move(k, IF ln = NoListener THEN AfterStop(k) ELSE "stop")
    /\ UNCHANGED <<saved, acl, open, loops, unbound, connVars, severed, asked, closeVars>>

(* ... and closed without it.  Closing a connection already gone does nothing.         *)
StopListener(k) ==
    /\ caller[k] = "stop"
    /\ open' = open \ {heldLn[k]}
    /\ loops' = loops \ {heldLn[k]}
    /\ severed' = severed \cup (heldConns[k] \cap conns)
    /\ heldLn' = [heldLn EXCEPT ![k] = NoListener]
    /\ heldConns' = [heldConns EXCEPT ![k] = {}]
    /\ Move(k, AfterStop(k))
    /\ UNCHANGED <<saved, acl, ln, unbound, connVars, asked, closeVars>>

(* net.Listen.  It fails while another socket of ours listens on the address, and for   *)
(* reasons of its own: the port is taken, the address is not there yet.  The request is *)
(* then answered with an error, and the switch and the list stay as they were set.     *)
Listen(k) ==
    /\ caller[k] = "listen"
    /\ \/ /\ open = {}
          /\ \E l \in Listeners : open' = {l} /\ heldLn' = [heldLn EXCEPT ![k] = l]
          /\ Move(k, "install")
          /\ UNCHANGED unbound
       \/ /\ unbound' = TRUE
          /\ Move(k, "idle")
          /\ UNCHANGED <<open, heldLn>>
    /\ UNCHANGED <<saved, acl, ln, loops, connVars, severed, asked, heldConns, closeVars>>

(* The listener is the server's, and its accept loop starts.                           *)
Install(k) ==
    /\ caller[k] = "install"
    /\ ln' = heldLn[k]
    /\ loops' = loops \cup {heldLn[k]}
    /\ unbound' = FALSE
    /\ heldLn' = [heldLn EXCEPT ![k] = NoListener]
    /\ Move(k, "idle")
    /\ UNCHANGED <<saved, acl, open, connVars, severed, asked, heldConns, closeVars>>

---------------------------------------------------------------------------------------
(* Close, after the web server has stopped: no settings request is being handled       *)

(* Mutant: Close waits for the clients rather than hanging up on them.                 *)
CloseTakeNone ==
    /\ closing = "no" /\ \A k \in Callers : caller[k] = "idle"
    /\ closing' = "stop"
    /\ UNCHANGED <<saved, acl, lnVars, connVars, severed, callerVars, doomed>>

CloseTake ==
    /\ closing = "no" /\ \A k \in Callers : caller[k] = "idle"
    /\ closing' = "stop"
    /\ doomed' = conns
    /\ UNCHANGED <<saved, acl, lnVars, connVars, severed, callerVars>>

CloseStop ==
    /\ closing = "stop"
    /\ closing' = "wait"
    /\ open' = open \ {ln}
    /\ loops' = loops \ {ln}
    /\ severed' = severed \cup (doomed \cap conns)
    /\ doomed' = {}
    /\ UNCHANGED <<saved, acl, ln, unbound, connVars, callerVars>>

CloseReturns ==
    /\ closing = "wait" /\ \A c \in Conns : handler[c] = "none"
    /\ closing' = "closed"
    /\ UNCHANGED <<saved, acl, lnVars, connVars, severed, callerVars, doomed>>

---------------------------------------------------------------------------------------
Connection(c) ==
    \/ TooMany(c) \/ Enlist(c) \/ Refuse(c) \/ Admit(c) \/ Notice(c)

Configure(k) ==
    \/ SetList(k) \/ CheckListening(k) \/ TakeListener(k) \/ StopListener(k)
    \/ Listen(k) \/ Install(k)

Next ==
    \/ \E c \in Conns : Connection(c) \/ HangUp(c) \/ \E p \in Peers : Accept(c, p)
    \/ \E k \in Callers : Configure(k) \/ \E s \in Settings : Put(k, s)
    \/ \E l \in Listeners : AcceptFails(l)
    \/ CloseTake \/ CloseStop \/ CloseReturns

Spec == Init /\ [][Next]_vars

(* Every goroutine of the daemon runs; the clients, and Accept, do what they like.     *)
Fairness ==
    /\ \A c \in Conns : WF_vars(Connection(c))
    /\ \A k \in Callers : WF_vars(Configure(k))
    /\ WF_vars(CloseStop) /\ WF_vars(CloseReturns)

FairSpec == Spec /\ Fairness

---------------------------------------------------------------------------------------
Settled == \A k \in Callers : caller[k] = "idle"

TypeOK ==
    /\ saved \in AnySettings /\ acl \in AnySettings
    /\ ln \in Listeners \cup {NoListener}
    /\ open \subseteq Listeners /\ loops \subseteq Listeners /\ unbound \in BOOLEAN
    /\ conns \subseteq Conns /\ severed \subseteq conns
    /\ handler \in [Conns -> {"none", "accepted", "listed", "serving"}]
    /\ peer \in [Conns -> Peers]
    /\ caller \in [Callers -> {"idle", "set", "check", "take", "stop", "listen", "install"}]
    /\ asked \in [Callers -> AnySettings]
    /\ heldLn \in [Callers -> Listeners \cup {NoListener}]
    /\ heldConns \in [Callers -> SUBSET Conns]
    /\ closing \in {"no", "stop", "wait", "closed"}
    /\ doomed \subseteq Conns

(* The table is what the ceiling, stopListening and Close go by: it holds exactly the  *)
(* connections past the ceiling check, and never more than MaxClients                  *)
(* (server.go:22-27, 284-301).                                                         *)
TableIsExact ==
    /\ conns = {c \in Conns : handler[c] \in {"listed", "serving"}}
    /\ Cardinality(conns) <= MaxClients

(* Switched off means off: once a request that turned the gateway off has been         *)
(* answered, nothing listens and no connection is served any more, those included that *)
(* were being accepted while the listener went down (server.go:249-251).  The exception *)
(* is a gateway that could not listen when it was last turned on: with no listener to   *)
(* stop, stopListening hangs up on nobody (263-265).                                   *)
OffServesNobody ==
    Settled /\ ~acl.enabled =>
        /\ open = {}
        /\ unbound \/ \A c \in Conns : ~Served(c)

(* Switched on means on: one socket listens, the one the server knows, unless the last  *)
(* request was answered with the error of net.Listen (server.go:193-201, 234-237).     *)
OnListens ==
    Settled /\ acl.enabled /\ closing = "no" =>
        \/ ln # NoListener /\ open = {ln} /\ ~unbound
        \/ ln = NoListener /\ open = {} /\ unbound

(* What holds of every state of the gateway: the table, the switch and the listener     *)
(* agree (server.go:185-201).                                                           *)
GatewaySafe == TypeOK /\ TableIsExact /\ OffServesNobody /\ OnListens

(* Saving the list, or anything but off, hangs up on nobody who is being served         *)
(* (server.go:227-228).                                                                 *)
SavingDropsNobody ==
    [][\A c \in Conns :
        Served(c) /\ c \in severed' =>
            closing = "stop" \/ \E k \in Callers : ~asked[k].enabled]_vars

(* The daemon's shutdown does not hang on the gateway: unless a connection is on its   *)
(* way into the table while Close is about, all of them go and Close returns           *)
(* (server.go:480-505).                                                                *)
ShutdownEnds ==
    [](closing # "no" => \A c \in Conns : handler[c] # "accepted") =>
        (closing = "stop" ~> closing = "closed")

(* "Close stops accepting and hangs up on the clients ... rather than waiting for them" *)
(* (server.go:480-483): while Close waits, nobody is being served.                     *)
CloseHangsUp == closing = "wait" => \A c \in Conns : ~Served(c)

(* "The list takes effect at once" (server.go:187): once the request is answered, a    *)
(* client that is not on the list is not served.                                       *)
ListTakesEffect ==
    Settled => \A c \in Conns : Served(c) => peer[c] \in acl.allow

(* "Applied now as well as saved" (system.go:217-218): what is saved is what is        *)
(* applied once every request has been answered.                                       *)
SavedIsApplied == Settled => saved = acl

(* "A single failed accept is not a reason to stop serving everyone" (server.go:173):   *)
(* a gateway that is on, and says it is listening, accepts connections.                *)
OnServes == Settled /\ acl.enabled /\ closing = "no" => unbound \/ ln \in loops

(* "A client left connected to a gateway that has been switched off would go on being   *)
(* served, which is the opposite of what the switch says" (server.go:249-251).         *)
OffHangsUp == Settled /\ ~acl.enabled => \A c \in Conns : ~Served(c)

(* "Off means the port is closed rather than open and refusing" (server.go:189-191),   *)
(* with two people at the switch.                                                      *)
OffMeansClosed == Settled /\ ~acl.enabled => open = {}

=======================================================================================

-------------------------------- MODULE GatewayProofs --------------------------------
(* Proofs about Gateway, for any machines, connections, ceiling and settings, as long  *)
(* as one settings request is handled at a time.                                       *)
EXTENDS Gateway, FiniteSetTheorems, TLAPS

OneAtATime == \A j, k \in Callers : j = k

(* The table, of which the ceiling asks the size.                                      *)
Table == TableIsExact /\ IsFiniteSet(conns)

(* Where a request is decides what listens.                                            *)
Sound ==  \* the listener the server knows is the only one
    open = {ln} \ {NoListener}

Unbound == unbound => ln = NoListener  \* ... and there is none after a failure

Stage(k) ==
    /\ caller[k] \in {"idle", "set"} => (ln # NoListener <=> acl.enabled /\ ~unbound)
    /\ caller[k] \in {"idle", "set", "check", "take"} /\ closing = "no" => Sound
    /\ caller[k] \in {"check", "take", "stop", "listen", "install"} => acl = asked[k]
    /\ caller[k] \in {"check", "listen", "install"} => asked[k].enabled
    /\ caller[k] = "take" /\ asked[k].enabled => ln = NoListener
    /\ caller[k] = "stop" => ~asked[k].enabled /\ heldLn[k] # NoListener /\ open = {heldLn[k]}
    /\ caller[k] = "listen" => open = {}
    /\ caller[k] = "install" => heldLn[k] # NoListener /\ open = {heldLn[k]}
    /\ caller[k] \in {"stop", "listen", "install"} => ln = NoListener

Ending ==
    /\ closing # "no" => Settled
    /\ closing = "stop" => Sound
    /\ closing \in {"wait", "closed"} => open = {}

(* With nobody configuring, the same; for Callers may be empty.                        *)
Quiet ==
    Settled => /\ ln # NoListener <=> acl.enabled /\ ~unbound
               /\ closing = "no" => Sound

(* Behind a switch that is off, and that last turned on a listener, only those are      *)
(* served that are about to be hung up on.                                             *)
Barred ==
    ~acl.enabled /\ ~unbound => \A c \in Conns : Served(c) =>
        \E k \in Callers :
            \/ caller[k] = "take" /\ ln # NoListener
            \/ caller[k] = "stop" /\ c \in heldConns[k]

Switch == Unbound /\ Quiet /\ Ending /\ \A k \in Callers : Stage(k)

IInv == OneAtATime /\ TypeOK /\ Table /\ Switch /\ Barred

-------------------------------------------------------------------------------------
LEMMA InitIInv == OneAtATime /\ Init => IInv
<1> SUFFICES ASSUME OneAtATime, Init PROVE IInv
  OBVIOUS
<1> USE GatewayAssumption DEF Init
<1>1. Off \in AnySettings /\ Settings \subseteq AnySettings
  BY DEF Off, AnySettings
<1>2. TypeOK
  <2>1. peer \in [Conns -> Peers] /\ handler \in [Conns -> {"none", "accepted", "listed", "serving"}]
    OBVIOUS
  <2>2. saved \in AnySettings /\ acl \in AnySettings
    BY <1>1
  <2>3. asked \in [Callers -> AnySettings]
    BY <1>1
  <2>4. QED
    BY <2>1, <2>2, <2>3 DEF TypeOK
<1>3. Table
  BY FS_EmptySet DEF Table, TableIsExact
<1>4. Switch
  BY DEF Switch, Unbound, Quiet, Ending, Stage, Settled, Sound
<1>5. Barred
  BY DEF Barred, Served
<1>6. QED
  BY <1>2, <1>3, <1>4, <1>5 DEF IInv

LEMMA NextType == IInv /\ [Next]_vars => TypeOK'
<1> SUFFICES ASSUME IInv, TypeOK, TableIsExact, [Next]_vars PROVE TypeOK'
  BY DEF IInv, Table
<1> USE GatewayAssumption DEF TypeOK, TableIsExact, lnVars, connVars, callerVars, closeVars, Move
<1>1. ASSUME NEW c \in Conns, Connection(c) \/ HangUp(c) PROVE TypeOK'
  BY <1>1 DEF Connection, TooMany, Enlist, Refuse, Admit, Notice, HangUp, Gone
<1>2. ASSUME NEW c \in Conns, NEW p \in Peers, Accept(c, p) PROVE TypeOK'
  BY <1>2 DEF Accept
<1>3. ASSUME NEW k \in Callers, SetList(k) \/ CheckListening(k) PROVE TypeOK'
  BY <1>3 DEF SetList, CheckListening
<1>4. ASSUME NEW k \in Callers, TakeListener(k) PROVE TypeOK'
  BY <1>4 DEF TakeListener, AfterStop
<1>5. ASSUME NEW k \in Callers, StopListener(k) PROVE TypeOK'
  BY <1>5 DEF StopListener, AfterStop
<1>6. ASSUME NEW k \in Callers, Listen(k) \/ Install(k) PROVE TypeOK'
  <2>1. CASE Install(k)
    <3>1. UNCHANGED <<saved, acl, open, connVars, severed, asked, heldConns, closeVars>>
      BY <2>1 DEF Install
    <3>2. /\ ln' \in Listeners \cup {NoListener} /\ unbound' \in BOOLEAN
          /\ heldLn' \in [Callers -> Listeners \cup {NoListener}]
      BY <2>1 DEF Install
    <3>3. loops' \subseteq Listeners
      BY <2>1 DEF Install, IInv, Switch, Stage
    <3>4. caller' \in [Callers -> {"idle", "set", "check", "take", "stop", "listen", "install"}]
      BY <2>1 DEF Install
    <3>5. QED
      BY <3>1, <3>2, <3>3, <3>4
  <2>2. CASE Listen(k)
    <3>1. UNCHANGED <<saved, acl, ln, loops, connVars, severed, asked, heldConns, closeVars>>
      BY <2>2 DEF Listen
    <3>2. /\ open' \subseteq Listeners /\ unbound' \in BOOLEAN
          /\ heldLn' \in [Callers -> Listeners \cup {NoListener}]
      BY <2>2 DEF Listen
    <3>3. caller' \in [Callers -> {"idle", "set", "check", "take", "stop", "listen", "install"}]
      BY <2>2 DEF Listen
    <3>4. QED
      BY <3>1, <3>2, <3>3
  <2>3. QED
    BY <1>6, <2>1, <2>2
<1>7. ASSUME NEW k \in Callers, NEW s \in Settings, Put(k, s) PROVE TypeOK'
  BY <1>7 DEF Put, AnySettings
<1>8. CASE CloseTake \/ CloseStop \/ CloseReturns
  BY <1>8 DEF CloseTake, CloseStop, CloseReturns
<1>9. ASSUME NEW l \in Listeners, AcceptFails(l) PROVE TypeOK'
  BY <1>9 DEF AcceptFails
<1>10. CASE UNCHANGED vars
  BY <1>10 DEF vars
<1>11. QED
  BY <1>1, <1>2, <1>3, <1>4, <1>5, <1>6, <1>7, <1>8, <1>9, <1>10 DEF Next, Configure

LEMMA NextTable == TypeOK /\ Table /\ [Next]_vars => Table'
<1> SUFFICES ASSUME TypeOK, Table, [Next]_vars PROVE Table'
  OBVIOUS
<1> USE GatewayAssumption DEF TypeOK, Table, TableIsExact
<1>1. ASSUME NEW c \in Conns, Gone(c) PROVE Table'
  <2>1. conns' = conns \ {c} /\ handler' = [handler EXCEPT ![c] = "none"]
    BY <1>1 DEF Gone
  <2>2. IsFiniteSet(conns') /\ Cardinality(conns') <= Cardinality(conns)
    <3>1. conns' \subseteq conns
      BY <2>1
    <3>2. QED
      BY <3>1, FS_Subset
  <2>3. Cardinality(conns) \in Nat /\ Cardinality(conns') \in Nat
    BY <2>2, FS_CardinalityType
  <2>4. conns' = {d \in Conns : handler'[d] \in {"listed", "serving"}}
    BY <2>1
  <2>5. QED
    BY <2>2, <2>3, <2>4
<1>2. ASSUME NEW c \in Conns, Enlist(c) PROVE Table'
  <2>1. conns' = conns \cup {c} /\ Cardinality(conns) < MaxClients
    BY <1>2 DEF Enlist
  <2>2. c \notin conns
    BY <1>2 DEF Enlist
  <2>3. IsFiniteSet(conns') /\ Cardinality(conns') = Cardinality(conns) + 1
    BY <2>1, <2>2, FS_AddElement
  <2>4. Cardinality(conns) \in Nat
    BY FS_CardinalityType
  <2>5. conns' = {d \in Conns : handler'[d] \in {"listed", "serving"}}
    BY <1>2, <2>1 DEF Enlist
  <2>6. QED
    BY <2>1, <2>3, <2>4, <2>5
<1>3. ASSUME NEW c \in Conns, Admit(c) \/ \E p \in Peers : Accept(c, p) PROVE Table'
  BY <1>3 DEF Admit, Accept, connVars
<1>4. ASSUME UNCHANGED <<conns, handler>> PROVE Table'
  BY <1>4
<1>5. ASSUME NEW c \in Conns, Connection(c) \/ HangUp(c) PROVE Table'
  BY <1>1, <1>2, <1>3, <1>5 DEF Connection, TooMany, Refuse, Notice, HangUp
<1>6. ASSUME NEW k \in Callers, Configure(k) \/ \E s \in Settings : Put(k, s)
      PROVE  UNCHANGED <<conns, handler>>
  BY <1>6 DEF Configure, SetList, CheckListening, TakeListener, StopListener, Listen, Install, Put, connVars
<1>7. CASE CloseTake \/ CloseStop \/ CloseReturns \/ (\E l \in Listeners : AcceptFails(l)) \/ UNCHANGED vars
  BY <1>4, <1>7 DEF CloseTake, CloseStop, CloseReturns, AcceptFails, vars, connVars
<1>8. QED
  BY <1>3, <1>4, <1>5, <1>6, <1>7 DEF Next

(* Connections come and go without touching the switch or the listener.                *)
LEMMA ConnectionStep ==
  ASSUME NEW c \in Conns, Connection(c) \/ HangUp(c) \/ \E p \in Peers : Accept(c, p)
  PROVE  UNCHANGED <<acl, ln, open, unbound, callerVars, closeVars>>
BY DEF lnVars, Connection, TooMany, Enlist, Refuse, Admit, Notice, HangUp, Gone, Accept

LEMMA NextSwitch == IInv /\ [Next]_vars => Switch'
<1> SUFFICES ASSUME IInv, [Next]_vars PROVE Switch'
  OBVIOUS
<1> USE GatewayAssumption DEF IInv, Switch, Unbound, Quiet, Ending, Stage, Settled, Sound, Move, lnVars, callerVars, closeVars
<1>1. ASSUME UNCHANGED <<acl, ln, open, unbound, callerVars, closeVars>> PROVE Switch'
  BY <1>1
<1>2. ASSUME NEW c \in Conns, Connection(c) \/ HangUp(c) \/ \E p \in Peers : Accept(c, p)
      PROVE  Switch'
  BY <1>1, <1>2, ConnectionStep
<1>3. ASSUME NEW k \in Callers, NEW s \in Settings, Put(k, s) PROVE Switch'
  BY <1>3 DEF Put, OneAtATime, TypeOK
<1>4. ASSUME NEW k \in Callers, SetList(k) PROVE Switch'
  BY <1>4 DEF SetList, OneAtATime, TypeOK
<1>5. ASSUME NEW k \in Callers, CheckListening(k) PROVE Switch'
  BY <1>5 DEF CheckListening, OneAtATime, TypeOK
<1>6. ASSUME NEW k \in Callers, TakeListener(k) PROVE Switch'
  BY <1>6 DEF TakeListener, AfterStop, OneAtATime, TypeOK
<1>7. ASSUME NEW k \in Callers, StopListener(k) PROVE Switch'
  BY <1>7 DEF StopListener, AfterStop, OneAtATime, TypeOK
<1>8. ASSUME NEW k \in Callers, Listen(k) PROVE Switch'
  <2>1. \A j \in Callers : j = k
    BY <1>8 DEF OneAtATime
  <2>2. /\ caller[k] = "listen" /\ open = {} /\ ln = NoListener /\ closing = "no"
        /\ acl = asked[k] /\ asked[k].enabled
    BY <1>8 DEF Listen
  <2>3. UNCHANGED <<acl, ln, asked, closing>>
    BY <1>8 DEF Listen
  <2>4. \/ /\ caller'[k] = "install" /\ heldLn'[k] \in Listeners /\ open' = {heldLn'[k]}
           /\ unbound' = unbound
        \/ caller'[k] = "idle" /\ unbound' = TRUE /\ open' = open
    BY <1>8 DEF Listen, TypeOK
  <2>5. QED
    BY <2>1, <2>2, <2>3, <2>4
<1>9. ASSUME NEW k \in Callers, Install(k) PROVE Switch'
  <2>1. \A j \in Callers : j = k
    BY <1>9 DEF OneAtATime
  <2>2. /\ caller[k] = "install" /\ heldLn[k] # NoListener /\ open = {heldLn[k]}
        /\ closing = "no" /\ acl = asked[k] /\ asked[k].enabled
    BY <1>9 DEF Install
  <2>3. UNCHANGED <<acl, open, closing>> /\ ln' = heldLn[k] /\ unbound' = FALSE
    BY <1>9 DEF Install
  <2>4. caller'[k] = "idle"
    BY <1>9 DEF Install, TypeOK
  <2>5. QED
    BY <2>1, <2>2, <2>3, <2>4
<1>10. CASE CloseTake
  BY <1>10 DEF CloseTake
<1>11. CASE CloseStop
  BY <1>11 DEF CloseStop
<1>12. CASE CloseReturns \/ (\E l \in Listeners : AcceptFails(l)) \/ UNCHANGED vars
  BY <1>1, <1>12 DEF CloseReturns, AcceptFails, vars
<1>13. QED
  BY <1>2, <1>3, <1>4, <1>5, <1>6, <1>7, <1>8, <1>9, <1>10, <1>11, <1>12 DEF Next, Configure

(* Who is hanging up, or about to, on connection c.                                    *)
Dropped(c) ==
    \E k \in Callers : \/ caller[k] = "take" /\ ln # NoListener
                       \/ caller[k] = "stop" /\ c \in heldConns[k]

LEMMA NextBarred == IInv /\ [Next]_vars => Barred'
<1> SUFFICES ASSUME IInv, [Next]_vars, ~acl.enabled', ~unbound', NEW c \in Conns, Served(c)'
             PROVE  Dropped(c)'
  BY DEF Barred, Dropped
<1> USE DEF IInv, Served, Dropped
<1>1. ASSUME UNCHANGED <<acl, ln, unbound, caller, heldConns>>, Served(c) PROVE Dropped(c)'
  BY <1>1 DEF Barred
<1>2. ASSUME NEW d \in Conns, Connection(d) \/ HangUp(d) \/ \E p \in Peers : Accept(d, p)
      PROVE  Dropped(c)'
  <2>1. UNCHANGED <<acl, ln, unbound, caller, heldConns>>
    BY <1>2, ConnectionStep DEF callerVars
  <2>2. Served(c)
    BY <1>2, <2>1 DEF TypeOK, Connection, TooMany, Enlist, Refuse, Admit, Allows, Notice, HangUp, Gone, Accept
  <2>3. QED
    BY <1>1, <2>1, <2>2
<1>3. ASSUME UNCHANGED handler, severed \subseteq severed' PROVE Served(c)
  BY <1>3
<1>4. ASSUME NEW k \in Callers, NEW s \in Settings, Put(k, s) PROVE Dropped(c)'
  <2>1. Served(c) /\ ~acl.enabled /\ ~unbound /\ \A j \in Callers : caller[j] = "idle"
    BY <1>3, <1>4 DEF Put, lnVars, connVars, OneAtATime
  <2>2. QED
    BY <2>1 DEF Barred
<1>5. ASSUME NEW k \in Callers, SetList(k) PROVE Dropped(c)'
  <2>1. Served(c) /\ ln' = ln /\ ~unbound
    BY <1>3, <1>5 DEF SetList, lnVars, connVars
  <2>2. ln # NoListener
    <3>1. \A j \in Callers : caller[j] = "set"
      BY <1>5 DEF SetList, OneAtATime
    <3>2. acl.enabled
      BY <2>1, <3>1 DEF Barred
    <3>3. QED
      BY <1>5, <2>1, <3>2 DEF SetList, Switch, Stage
  <2>3. caller'[k] = "take"
    BY <1>5 DEF SetList, Move, TypeOK
  <2>4. QED
    BY <2>1, <2>2, <2>3
<1>6. ASSUME NEW k \in Callers, CheckListening(k) \/ Listen(k) \/ Install(k) PROVE Dropped(c)'
  <2>1. acl.enabled /\ acl' = acl
    BY <1>6 DEF CheckListening, Listen, Install, Switch, Stage
  <2>2. QED
    BY <2>1
<1>7. ASSUME NEW k \in Callers, TakeListener(k) PROVE Dropped(c)'
  <2>1. Served(c) /\ ~acl.enabled /\ ~unbound
    BY <1>3, <1>7 DEF TakeListener, connVars
  <2>2. ln # NoListener
    <3>1. \A j \in Callers : caller[j] = "take"
      BY <1>7 DEF TakeListener, OneAtATime
    <3>2. QED
      BY <2>1, <3>1 DEF Barred
  <2>3. c \in conns
    BY <2>1 DEF Table, TableIsExact
  <2>4. caller'[k] = "stop" /\ heldConns'[k] = conns
    BY <1>7, <2>2 DEF TakeListener, Move, TypeOK
  <2>5. QED
    BY <2>3, <2>4
<1>8. ASSUME NEW k \in Callers, StopListener(k) PROVE Dropped(c)'
  <2>1. Served(c) /\ ~acl.enabled /\ ~unbound
    BY <1>3, <1>8 DEF StopListener, connVars
  <2>2. c \in heldConns[k]
    <3>1. \A j \in Callers : j = k /\ caller[j] = "stop"
      BY <1>8 DEF StopListener, OneAtATime
    <3>2. QED
      BY <2>1, <3>1 DEF Barred
  <2>3. c \in conns
    BY <2>1 DEF Table, TableIsExact
  <2>4. c \in severed'
    BY <1>8, <2>2, <2>3 DEF StopListener
  <2>5. QED
    BY <2>4
<1>9. CASE CloseTake \/ CloseStop \/ CloseReturns \/ (\E l \in Listeners : AcceptFails(l)) \/ UNCHANGED vars
  <2>1. UNCHANGED <<acl, ln, unbound, caller, heldConns, handler>> /\ severed \subseteq severed'
    BY <1>9 DEF CloseTake, CloseStop, CloseReturns, AcceptFails, vars, lnVars, callerVars, connVars
  <2>2. QED
    BY <1>1, <1>3, <2>1
<1>10. QED
  BY <1>2, <1>4, <1>5, <1>6, <1>7, <1>8, <1>9 DEF Next, Configure

LEMMA Invariance == OneAtATime /\ Spec => []IInv
<1>1. IInv /\ [Next]_vars => IInv'
  BY NextType, NextTable, NextSwitch, NextBarred DEF IInv, Table, OneAtATime
<1>2. QED
  BY InitIInv, <1>1, PTL DEF Spec

-------------------------------------------------------------------------------------
(* The table holds exactly the connections past the ceiling check and never more than  *)
(* the ceiling (server.go:284-301); off listens nowhere, on listens or has told the     *)
(* caller it cannot, and off serves nobody but what a failure to listen left behind     *)
(* (server.go:185-201, 231-265).                                                       *)
THEOREM SwitchIsObeyed == OneAtATime /\ Spec => []GatewaySafe
<1>1. IInv => GatewaySafe
  <2>1. IInv => TypeOK /\ TableIsExact
    BY DEF IInv, Table
  <2>2. IInv => OffServesNobody
    BY DEF IInv, OffServesNobody, Switch, Quiet, Ending, Sound, Barred, Settled, TypeOK
  <2>3. IInv => OnListens
    BY DEF IInv, OnListens, Switch, Unbound, Quiet, Sound, TypeOK
  <2>4. QED
    BY <2>1, <2>2, <2>3 DEF GatewaySafe
<1>2. QED
  BY <1>1, Invariance, PTL

(* Only Close and a request that turns the gateway off hang up on a client that is     *)
(* being served (server.go:227-228).                                                   *)
THEOREM SavingKeepsClients == OneAtATime /\ Spec => SavingDropsNobody
<1>1. ASSUME IInv, [Next]_vars, NEW c \in Conns, Served(c), c \in severed'
      PROVE  closing = "stop" \/ \E k \in Callers : ~asked[k].enabled
  <2>1. c \notin severed
    BY <1>1 DEF Served
  <2>2. ASSUME NEW d \in Conns, Connection(d) \/ HangUp(d) \/ \E p \in Peers : Accept(d, p)
        PROVE  severed' \subseteq severed
    BY <2>2 DEF Connection, TooMany, Enlist, Refuse, Admit, Notice, HangUp, Gone, Accept
  <2>3. ASSUME NEW k \in Callers, StopListener(k) PROVE ~asked[k].enabled
    BY <1>1, <2>3 DEF StopListener, IInv, Switch, Stage
  <2>4. ASSUME NEW k \in Callers,
               \/ SetList(k) \/ CheckListening(k) \/ TakeListener(k) \/ Listen(k) \/ Install(k)
               \/ \E s \in Settings : Put(k, s)
        PROVE  severed' = severed
    BY <2>4 DEF SetList, CheckListening, TakeListener, Listen, Install, Put
  <2>5. CloseStop => closing = "stop"
    BY DEF CloseStop
  <2>6. CloseTake \/ CloseReturns \/ (\E l \in Listeners : AcceptFails(l)) \/ UNCHANGED vars => severed' = severed
    BY DEF CloseTake, CloseReturns, AcceptFails, vars
  <2>7. QED
    BY <1>1, <2>1, <2>2, <2>3, <2>4, <2>5, <2>6 DEF Next, Configure
<1>2. IInv /\ [Next]_vars =>
        [\A c \in Conns : Served(c) /\ c \in severed' =>
            closing = "stop" \/ \E k \in Callers : ~asked[k].enabled]_vars
  BY <1>1
<1>3. QED
  BY <1>2, Invariance, PTL DEF SavingDropsNobody, Spec

=======================================================================================

--------------------------------- MODULE NotifyProofs --------------------------------
(* Proofs about Notify, for any channels, alarms, levels and waiting time.             *)
EXTENDS Notify, FiniteSetTheorems, SequenceTheorems, TLAPS

(* A call is still to be made, or under way.                                           *)
Has(call) == \E i \in 1 .. Len(todo) : todo[i] = call
Sending == ~Idle /\ step # "call"

(* "told" is what is owed, but for the moment between sending and writing it down.      *)
Books ==
    /\ Sending /\ Raising => active[Key] = "raised"
    /\ Sending /\ ~Raising => active[Key] = "off" /\ Key \in owed
    /\ ~Idle /\ step = "send" => Key \in owed
    /\ \A k \in Keys : active[k] = "told" => k \in owed
    /\ \A k \in owed : active[k] = "told" \/ (Sending /\ Key = k /\ (step = "send" \/ ~Raising))

(* A key that is not fresh is raised, and nothing is about to clear it.                 *)
News ==
    /\ \A k \in Keys : ~Shown(k, snap) \/ active[k] = "off" \/ Has(Clear(k)) => k \in fresh
    /\ step \in {"threshold", "channels"} /\ ~Idle /\ Raising => Key \in fresh
    /\ \A k \in Keys : ~(Has(Raise(k)) /\ Has(Clear(k)))
    /\ at = "alarms" => /\ \A k \in Alarms \ seen : k \in fresh
                        /\ \A k \in Keys : Has(Raise(k)) => k \in seen

(* The wait for a link that is down began after a check last saw it up.                 *)
Waits ==
    /\ downSince # Never => downSince <= upSince
    /\ Has(Raise(Down)) => upSince = DownAfter

IInv == TypeOK /\ Books /\ News /\ Waits

------------------------------------------------------------------------------------
(* What is left of the calls when the first is done.                                   *)
LEMMA TailCalls ==
  ASSUME TypeOK, ~Idle, todo' = Tail(todo)
  PROVE  /\ todo' \in Seq(Calls)
         /\ \A c : Has(c)' => Has(c)
         /\ Calling \in Calls /\ Has(Calling)
<1>1. todo \in Seq(Calls) /\ todo # <<>>
  BY DEF TypeOK, Idle
<1>2. /\ Len(todo) \in Nat \ {0} /\ todo' \in Seq(Calls) /\ Len(todo') = Len(todo) - 1
      /\ \A i \in 1 .. Len(todo') : todo'[i] = todo[i + 1]
  BY <1>1, HeadTailProperties, EmptySeq, LenProperties
<1>3. 1 \in 1 .. Len(todo) /\ todo[1] \in Calls
  BY <1>1, <1>2, ElementOfSeq
<1>4. ASSUME NEW c, Has(c)' PROVE Has(c)
  <2>1. PICK i \in 1 .. Len(todo') : todo'[i] = c
    BY <1>4 DEF Has
  <2>2. i + 1 \in 1 .. Len(todo) /\ todo[i + 1] = c
    BY <1>2, <2>1
  <2>3. QED
    BY <2>2 DEF Has
<1>5. QED
  BY <1>2, <1>3, <1>4 DEF Has, Calling

LEMMA CallingType ==
  ASSUME TypeOK, ~Idle
  PROVE  /\ Calling \in Calls /\ Key \in Keys /\ Has(Calling)
         /\ Raising => Calling = Raise(Key)
         /\ ~Raising => Calling = Clear(Key)
<1>1. todo \in Seq(Calls) /\ todo # <<>>
  BY DEF TypeOK, Idle
<1>2. 1 \in 1 .. Len(todo) /\ todo[1] \in Calls
  BY <1>1, HeadTailProperties, EmptySeq, LenProperties, ElementOfSeq
<1>3. QED
  BY <1>2 DEF Has, Calling, Calls, Raising, Key, Raise, Clear

(* Calls made of keys in some order.                                                   *)
LEMMA Order ==
  ASSUME NEW S, IsFiniteSet(S), NEW order \in SetToSeqs(S)
  PROVE  order \in Seq(S) /\ DOMAIN order = 1 .. Len(order)
<1>1. Cardinality(S) \in Nat
  BY FS_CardinalityType
<1>2. order \in [1 .. Cardinality(S) -> S]
  BY DEF SetToSeqs
<1>3. QED
  BY <1>1, <1>2

LEMMA KeyFacts ==
  /\ Down \in Keys /\ Degraded \in Keys /\ LevelKeys \subseteq Keys /\ Alarms \subseteq Keys
  /\ Down # Degraded /\ {Down, Degraded} \cap On = {} /\ LevelKeys \cap Alarms = {}
  /\ DownAfter \in Nat \ {0} /\ Never \notin Nat /\ On \subseteq Keys
  BY NotifyAssumption DEF Keys, On

(* What a check has to say of the link, the clock and the service.                      *)
LEMMA CheckCalls ==
  ASSUME TypeOK, Check
  PROVE  /\ todo' \in Seq(Calls)
         /\ \A k \in Keys : Has(Raise(k))' =>
                \/ k = Down /\ snap.link = "down" /\ downSince = DownAfter
                \/ k = Degraded /\ snap.link = "degraded"
                \/ k \in snap.on
         /\ \A k \in Keys : Has(Clear(k))' => ~Shown(k, snap)
<1> DEFINE Good(c) ==
      \/ c = Raise(Down) /\ snap.link = "down" /\ downSince = DownAfter
      \/ c = Raise(Degraded) /\ snap.link = "degraded"
      \/ \E k \in LevelKeys : c = Raise(k) /\ k \in snap.on
      \/ \E k \in Keys : c = Clear(k) /\ ~Shown(k, snap)
<1>1. /\ LinkCalls \in Seq(Calls)
      /\ \A i \in 1 .. Len(LinkCalls) : Good(LinkCalls[i])
  <2>1. Raise(Down) \in Calls /\ Raise(Degraded) \in Calls /\ Clear(Down) \in Calls /\ Clear(Degraded) \in Calls
    BY KeyFacts DEF Calls, Raise, Clear
  <2>2. CASE snap.link = "down"
    <3>1. LinkCalls = IF downSince = DownAfter THEN <<Raise(Down)>> ELSE <<>>
      BY <2>2 DEF LinkCalls
    <3>2. QED
      BY <2>1, <2>2, <3>1
  <2>3. CASE snap.link = "degraded"
    <3>1. LinkCalls = <<Clear(Down), Raise(Degraded)>>
      BY <2>3 DEF LinkCalls
    <3>2. ~Shown(Down, snap)
      BY <2>3, KeyFacts DEF Shown
    <3>3. Good(Clear(Down)) /\ Good(Raise(Degraded))
      BY <2>3, <3>2, KeyFacts
    <3>4. QED
      BY <2>1, <3>1, <3>3
  <2>4. CASE snap.link \notin {"down", "degraded"}
    <3>1. LinkCalls = <<Clear(Down), Clear(Degraded)>>
      BY <2>4 DEF LinkCalls
    <3>2. ~Shown(Down, snap) /\ ~Shown(Degraded, snap)
      BY <2>4, KeyFacts DEF Shown
    <3>3. Good(Clear(Down)) /\ Good(Clear(Degraded))
      BY <3>2, KeyFacts
    <3>4. QED
      BY <2>1, <3>1, <3>3
  <2>5. QED
    BY <2>2, <2>3, <2>4
<1>2. /\ LevelCalls \in Seq(Calls)
      /\ \A i \in 1 .. Len(LevelCalls) : Good(LevelCalls[i])
  <2>1. Levels \in Seq(LevelKeys) /\ Len(Levels) \in Nat /\ DOMAIN Levels = 1 .. Len(Levels)
    BY NotifyAssumption
  <2>2. \A i \in 1 .. Len(Levels) : Levels[i] \in LevelKeys
    BY <2>1, ElementOfSeq
  <2>3. \A k \in LevelKeys : Raise(k) \in Calls /\ Clear(k) \in Calls
    BY KeyFacts DEF Calls, Raise, Clear
  <2>4. \A i \in 1 .. Len(Levels) : LevelCalls[i] = IF Levels[i] \in snap.on THEN Raise(Levels[i]) ELSE Clear(Levels[i])
    BY <2>1 DEF LevelCalls
  <2>5. LevelCalls \in [1 .. Len(Levels) -> Calls]
    BY <2>1, <2>2, <2>3 DEF LevelCalls
  <2>6. LevelCalls \in Seq(Calls) /\ Len(LevelCalls) = Len(Levels)
    BY <2>1, <2>5
  <2>7. \A k \in LevelKeys : k \notin snap.on => ~Shown(k, snap)
    BY KeyFacts DEF Shown, On
  <2>8. QED
    BY <2>2, <2>4, <2>6, <2>7, KeyFacts
<1>3. todo' = LinkCalls \o LevelCalls
  BY DEF Check
<1>4. /\ todo' \in Seq(Calls) /\ Len(todo') = Len(LinkCalls) + Len(LevelCalls)
      /\ \A i \in 1 .. Len(todo') : todo'[i] = IF i <= Len(LinkCalls) THEN LinkCalls[i] ELSE LevelCalls[i - Len(LinkCalls)]
      /\ Len(LinkCalls) \in Nat /\ Len(LevelCalls) \in Nat
  BY <1>1, <1>2, <1>3, ConcatProperties, LenProperties
<1>5. \A i \in 1 .. Len(todo') : Good(todo'[i])
  <2> TAKE i \in 1 .. Len(todo')
  <2>1. CASE i <= Len(LinkCalls)
    BY <1>1, <1>4, <2>1
  <2>2. CASE ~(i <= Len(LinkCalls))
    <3>1. i - Len(LinkCalls) \in 1 .. Len(LevelCalls)
      BY <1>4, <2>2
    <3>2. todo'[i] = LevelCalls[i - Len(LinkCalls)]
      BY <1>4, <2>2
    <3>3. QED
      BY <1>2, <3>1, <3>2
  <2>3. QED
    BY <2>1, <2>2
<1>6. ASSUME NEW k \in Keys, Has(Raise(k))'
      PROVE  \/ k = Down /\ snap.link = "down" /\ downSince = DownAfter
             \/ k = Degraded /\ snap.link = "degraded"
             \/ k \in snap.on
  <2>1. Good(Raise(k))
    BY <1>5, <1>6 DEF Has
  <2>2. QED
    BY <2>1 DEF Raise, Clear
<1>7. ASSUME NEW k \in Keys, Has(Clear(k))' PROVE ~Shown(k, snap)
  <2>1. Good(Clear(k))
    BY <1>5, <1>7 DEF Has
  <2>2. QED
    BY <2>1 DEF Raise, Clear
<1>8. QED
  BY <1>4, <1>6, <1>7

(* What it has to say of the alarms.                                                    *)
LEMMA AlarmCalls ==
  ASSUME TypeOK, NEW S \in SUBSET Alarms, NEW order \in SetToSeqs(S), NEW op \in {"raise", "clear"},
         todo' = [i \in DOMAIN order |-> [op |-> op, key |-> order[i]]]
  PROVE  /\ todo' \in Seq(Calls)
         /\ \A c : Has(c)' => c.op = op /\ c.key \in S
<1>1. IsFiniteSet(S)
  BY NotifyAssumption, FS_Subset
<1>2. order \in Seq(S) /\ DOMAIN order = 1 .. Len(order) /\ Len(order) \in Nat
  BY <1>1, Order, LenProperties
<1>3. \A i \in 1 .. Len(order) : order[i] \in S
  BY <1>2, ElementOfSeq
<1>4. \A x \in S : [op |-> op, key |-> x] \in Calls
  BY KeyFacts DEF Calls
<1>5. todo' \in [1 .. Len(order) -> Calls]
  BY <1>2, <1>3, <1>4
<1>6. todo' \in Seq(Calls) /\ Len(todo') = Len(order)
  BY <1>2, <1>5
<1>7. \A i \in 1 .. Len(todo') : todo'[i].op = op /\ todo'[i].key \in S
  BY <1>2, <1>3, <1>6
<1>8. QED
  BY <1>6, <1>7 DEF Has

------------------------------------------------------------------------------------
(* Types                                                                                *)

LEMMA InitType == Init => TypeOK
  BY KeyFacts DEF Init, TypeOK, Links, Calls, Idle

(* Coming back from dispatch.                                                           *)
LEMMA ReturnType ==
  ASSUME TypeOK, ~Idle, NEW told \in BOOLEAN, Return(told)
  PROVE  active' \in [Keys -> {"off", "raised", "told"}] /\ todo' \in Seq(Calls) /\ step' = "call"
<1>1. todo' \in Seq(Calls)
  BY TailCalls DEF Return
<1>2. QED
  BY <1>1, CallingType DEF Return, TypeOK

LEMMA StepType == TypeOK /\ [Next]_vars => TypeOK'
<1> SUFFICES ASSUME TypeOK, [Next]_vars PROVE TypeOK'
  OBVIOUS
<1> USE KeyFacts
<1>1. CASE Check
  BY <1>1, CheckCalls DEF Check, TypeOK, Idle, settings, DownSeen
<1>2. CASE ReadAlarms
  <2>1. PICK order \in SetToSeqs(seen') : todo' = [i \in DOMAIN order |-> Raise(order[i])]
    BY <1>2 DEF ReadAlarms
  <2>2. seen' \in SUBSET Alarms
    BY <1>2 DEF ReadAlarms
  <2>3. todo' \in Seq(Calls)
    BY <2>1, <2>2, AlarmCalls DEF Raise
  <2>4. QED
    BY <1>2, <2>2, <2>3 DEF ReadAlarms, TypeOK, Idle, settings, ages
<1>3. CASE Sweep
  <2>1. PICK order \in SetToSeqs({k \in Alarms \ seen : active[k] # "off"}) : todo' = [i \in DOMAIN order |-> Clear(order[i])]
    BY <1>3 DEF Sweep
  <2>2. todo' \in Seq(Calls)
    BY <2>1, AlarmCalls DEF Clear
  <2>3. QED
    BY <1>3, <2>2 DEF Sweep, TypeOK, Idle, settings, ages
<1>4. CASE Done
  BY <1>4 DEF Done, TypeOK, Idle, settings, ages
<1>5. CASE RaiseAgain \/ ClearQuietly
  <2>1. ~Idle /\ todo' \in Seq(Calls)
    BY <1>5, TailCalls DEF RaiseAgain, ClearQuietly
  <2>2. CASE RaiseAgain
    BY <2>1, <2>2 DEF RaiseAgain, TypeOK, Idle, settings, ages
  <2>3. CASE ClearQuietly
    BY <2>1, <2>3, CallingType DEF ClearQuietly, TypeOK, Idle, settings, ages
  <2>4. QED
    BY <1>5, <2>2, <2>3
<1>6. CASE RaiseFirst \/ ClearAloud
  BY <1>6, CallingType DEF RaiseFirst, ClearAloud, TypeOK, Idle, settings, ages
<1>7. CASE Threshold
  <2>1. CASE TooQuiet /\ Return(FALSE)
    BY <1>7, <2>1, ReturnType DEF Threshold, TypeOK, Idle, settings, ages
  <2>2. CASE ~TooQuiet /\ step' = "channels" /\ UNCHANGED <<active, todo>>
    BY <1>7, <2>2 DEF Threshold, TypeOK, Idle, settings, ages
  <2>3. QED
    BY <1>7, <2>1, <2>2 DEF Threshold
<1>8. CASE NoChannels
  BY <1>8, ReturnType DEF NoChannels, TypeOK, Idle, settings, ages, Ended
<1>9. CASE TakeChannels
  BY <1>9, CallingType DEF TakeChannels, TypeOK, Idle, settings, ages
<1>10. ASSUME NEW c \in Channels, Send(c) PROVE TypeOK'
  BY <1>10 DEF Send, TypeOK, Idle, settings, ages
<1>11. CASE Sent
  BY <1>11, ReturnType DEF Sent, TypeOK, Idle, settings, ages, Ended
<1>12. ASSUME NEW link \in Links, NEW on \in SUBSET On, Publish([link |-> link, on |-> on]) PROVE TypeOK'
  BY <1>12 DEF Publish, TypeOK, Idle, settings, work, ages
<1>13. CASE Tick
  BY <1>13 DEF Tick, Older, TypeOK, Idle, settings, work
<1>14. ASSUME NEW cs \in SUBSET Channels, NEW m \in Thresholds, SetChannels(cs, m) PROVE TypeOK'
  BY <1>14 DEF SetChannels, TypeOK, Idle, work, ages
<1>15. CASE UNCHANGED vars
  BY <1>15 DEF vars, TypeOK, Idle, settings, work, ages
<1>16. QED
  BY <1>1, <1>2, <1>3, <1>4, <1>5, <1>6, <1>7, <1>8, <1>9, <1>10, <1>11, <1>12, <1>13, <1>14, <1>15
  DEF Next, Watcher

------------------------------------------------------------------------------------
(* The books                                                                            *)

LEMMA InitBooks == Init => Books
  BY DEF Init, Books, Sending, Idle

(* Coming back from dispatch with the books as they have to be.                         *)
LEMMA ReturnBooks ==
  ASSUME TypeOK, Books, ~Idle, step # "call", NEW told \in BOOLEAN, Return(told),
         told => step = "send",
         ~told => step # "send",
         owed' = IF told \/ step = "channels" THEN Ended ELSE owed,
         step = "threshold" => Raising
  PROVE  Books'
<1> USE CallingType
<1>1. step' = "call" /\ ~Sending'
  BY DEF Return, Sending
<1>2. \A k \in Keys : active'[k] = "told" => k \in owed'
  BY DEF Return, TypeOK, Books, Sending, Ended
<1>3. \A k \in owed' : active'[k] = "told"
  BY DEF Return, TypeOK, Books, Sending, Ended
<1>4. QED
  BY <1>1, <1>2, <1>3 DEF Books, Sending

LEMMA StepBooks == TypeOK /\ Books /\ [Next]_vars => Books'
<1> SUFFICES ASSUME TypeOK, Books, [Next]_vars PROVE Books'
  OBVIOUS
<1>1. CASE Check \/ ReadAlarms \/ Sweep \/ Done
  <2>1. step = "call" /\ step' = "call" /\ UNCHANGED <<active, owed>>
    BY <1>1 DEF Check, ReadAlarms, Sweep, Done, TypeOK
  <2>2. QED
    BY <2>1 DEF Books, Sending
<1>2. CASE RaiseAgain
  BY <1>2 DEF RaiseAgain, Books, Sending
<1>3. CASE ClearQuietly
  BY <1>3, CallingType DEF ClearQuietly, Books, Sending, TypeOK
<1>4. CASE RaiseFirst
  BY <1>4, CallingType DEF RaiseFirst, Books, Sending, TypeOK, Idle, Raising, Key, Calling
<1>5. CASE ClearAloud
  BY <1>5, CallingType DEF ClearAloud, Books, Sending, TypeOK, Idle, Raising, Key, Calling
<1>6. CASE Threshold
  <2>1. CASE TooQuiet /\ Return(FALSE)
    BY <1>6, <2>1, ReturnBooks DEF Threshold, TooQuiet
  <2>2. CASE ~TooQuiet /\ step' = "channels" /\ UNCHANGED <<active, todo>>
    BY <1>6, <2>2 DEF Threshold, Books, Sending, Idle, Raising, Key, Calling
  <2>3. QED
    BY <1>6, <2>1, <2>2 DEF Threshold
<1>7. CASE NoChannels
  BY <1>7, ReturnBooks DEF NoChannels
<1>8. CASE TakeChannels
  BY <1>8, CallingType DEF TakeChannels, Books, Sending, TypeOK, Idle, Raising, Key, Calling
<1>9. ASSUME NEW c \in Channels, Send(c) PROVE Books'
  BY <1>9 DEF Send, Books, Sending, Idle, Raising, Key, Calling
<1>10. CASE Sent
  BY <1>10, ReturnBooks DEF Sent
<1>11. ASSUME UNCHANGED <<active, todo, step, owed>> PROVE Books'
  BY <1>11 DEF Books, Sending, Idle, Raising, Key, Calling
<1>12. QED
  BY <1>1, <1>2, <1>3, <1>4, <1>5, <1>6, <1>7, <1>8, <1>9, <1>10, <1>11
  DEF Next, Watcher, Publish, Tick, SetChannels, vars, work, ages

------------------------------------------------------------------------------------
(* News                                                                                 *)

LEMMA InitNews == Init => News
  BY DEF Init, News, Idle, Has

(* A step that makes the rest of the calls wait no longer than before.                  *)
LEMMA LaterNews ==
  ASSUME News, UNCHANGED <<snap, at, seen, fresh>>, \A c : Has(c)' => Has(c),
         \A k \in Keys : active'[k] = "off" => k \in fresh,
         step' \in {"threshold", "channels"} /\ ~Idle' /\ Raising' => Key' \in fresh
  PROVE  News'
  BY DEF News, Shown

LEMMA StepNews == TypeOK /\ Books /\ News /\ [Next]_vars => News'
<1> SUFFICES ASSUME TypeOK, Books, News, [Next]_vars PROVE News'
  OBVIOUS
<1> USE KeyFacts
<1>1. CASE Check
  <2>1. step' = "call" /\ at' = "state" /\ UNCHANGED <<snap, active, fresh>>
    BY <1>1 DEF Check, TypeOK
  <2>2. \A k \in Keys : Has(Clear(k))' => ~Shown(k, snap)
    BY <1>1, CheckCalls
  <2>3. \A k \in Keys : Has(Raise(k))' => Shown(k, snap)
    BY <1>1, CheckCalls DEF Shown, TypeOK
  <2>4. \A k \in Keys : ~Shown(k, snap) => k \in fresh
    BY DEF News
  <2>5. \A k \in Keys : Shown(k, snap)' = Shown(k, snap)
    BY <2>1 DEF Shown
  <2>6. QED
    BY <2>1, <2>2, <2>3, <2>4, <2>5 DEF News
<1>2. CASE ReadAlarms
  <2>1. PICK order \in SetToSeqs(seen') : todo' = [i \in DOMAIN order |-> Raise(order[i])]
    BY <1>2 DEF ReadAlarms
  <2>2. seen' \in SUBSET Alarms /\ seen' = snap.on \cap Alarms
    BY <1>2 DEF ReadAlarms
  <2>3. \A c : Has(c)' => c.op = "raise" /\ c.key \in seen'
    BY <2>1, <2>2, AlarmCalls DEF Raise
  <2>4. \A k : ~Has(Clear(k))'
    BY <2>3 DEF Clear
  <2>5. \A k : Has(Raise(k))' => k \in seen'
    BY <2>3 DEF Raise
  <2>6. \A k \in Alarms \ seen' : k \in fresh
    BY <2>2 DEF News, Shown, On
  <2>7. step' = "call" /\ UNCHANGED <<snap, active, fresh>>
    BY <1>2 DEF ReadAlarms, TypeOK
  <2>8. QED
    BY <2>4, <2>5, <2>6, <2>7 DEF News, Shown
<1>3. CASE Sweep
  <2>1. PICK order \in SetToSeqs({k \in Alarms \ seen : active[k] # "off"}) : todo' = [i \in DOMAIN order |-> Clear(order[i])]
    BY <1>3 DEF Sweep
  <2>2. \A c : Has(c)' => c.op = "clear" /\ c.key \in Alarms \ seen
    BY <2>1, AlarmCalls DEF Clear
  <2>3. \A k : ~Has(Raise(k))'
    BY <2>2 DEF Raise
  <2>4. \A k : Has(Clear(k))' => k \in fresh
    BY <1>3, <2>2 DEF Clear, Sweep, News
  <2>5. step' = "call" /\ at' = "sweep" /\ UNCHANGED <<snap, active, fresh>>
    BY <1>3 DEF Sweep, TypeOK
  <2>6. QED
    BY <2>3, <2>4, <2>5 DEF News, Shown
<1>4. CASE Done
  <2>1. step' = "call" /\ at' = "wait" /\ UNCHANGED <<snap, active, todo, fresh>>
    BY <1>4 DEF Done, TypeOK
  <2>2. QED
    BY <2>1 DEF News, Shown, Has
<1>5. CASE RaiseAgain
  <2>1. step' = "call" /\ UNCHANGED <<snap, active, at, seen, fresh>> /\ ~Idle /\ todo' = Tail(todo)
    BY <1>5 DEF RaiseAgain
  <2>2. QED
    BY <2>1, TailCalls, LaterNews DEF News
<1>6. CASE ClearQuietly
  <2>1. /\ step' = "call" /\ UNCHANGED <<snap, at, seen, fresh>> /\ ~Idle /\ todo' = Tail(todo)
        /\ active' = [active EXCEPT ![Key] = "off"] /\ ~Raising
    BY <1>6 DEF ClearQuietly
  <2>2. Key \in fresh
    BY <2>1, CallingType DEF News
  <2>3. QED
    BY <2>1, <2>2, TailCalls, LaterNews DEF News, TypeOK
<1>7. CASE RaiseFirst
  <2>1. /\ UNCHANGED <<snap, at, seen, fresh, todo>> /\ ~Idle
        /\ active' = [active EXCEPT ![Key] = "raised"] /\ active[Key] = "off"
    BY <1>7 DEF RaiseFirst
  <2>2. Key \in fresh
    BY <2>1, CallingType DEF News
  <2>3. QED
    BY <2>1, <2>2, LaterNews, CallingType DEF News, TypeOK, Has, Key, Calling
<1>8. CASE ClearAloud
  <2>1. /\ UNCHANGED <<snap, at, seen, fresh, todo>> /\ ~Idle /\ ~Raising
        /\ active' = [active EXCEPT ![Key] = "off"]
    BY <1>8 DEF ClearAloud
  <2>2. Key \in fresh
    BY <2>1, CallingType DEF News
  <2>3. QED
    BY <2>1, <2>2, LaterNews, CallingType DEF News, TypeOK, Has, Key, Calling
<1>9. ASSUME NEW told \in BOOLEAN, Return(told), ~Idle, step # "call", UNCHANGED <<snap, at, seen, fresh>>
      PROVE  News'
  <2>1. \A k \in Keys : active'[k] = "off" => active[k] = "off"
    BY <1>9, CallingType DEF Return, TypeOK
  <2>2. step' = "call" /\ todo' = Tail(todo)
    BY <1>9 DEF Return
  <2>3. QED
    BY <1>9, <2>1, <2>2, TailCalls, LaterNews DEF News
<1>10. CASE Threshold
  <2>1. CASE TooQuiet /\ Return(FALSE)
    BY <1>9, <1>10, <2>1 DEF Threshold
  <2>2. CASE ~TooQuiet /\ step' = "channels" /\ UNCHANGED <<active, todo>>
    BY <1>10, <2>2, LaterNews DEF Threshold, News, Has, Idle, Raising, Key, Calling
  <2>3. QED
    BY <1>10, <2>1, <2>2 DEF Threshold
<1>11. CASE NoChannels \/ Sent
  BY <1>9, <1>11 DEF NoChannels, Sent
<1>12. CASE TakeChannels
  <2>1. /\ UNCHANGED <<snap, active, at, seen, todo>> /\ ~Idle /\ step = "channels" /\ step' = "send"
        /\ fresh' = IF Raising /\ Shown(Key, snap) THEN fresh \ {Key} ELSE fresh
    BY <1>12 DEF TakeChannels
  <2>2. \A k \in Keys : k \in fresh \ fresh' =>
            /\ k = Key /\ Raising /\ Shown(k, snap) /\ active[k] = "raised" /\ Has(Raise(k))
    BY <2>1, CallingType DEF Books, Sending
  <2>3. \A c : Has(c)' = Has(c)
    BY <2>1 DEF Has
  <2>4. \A k \in Keys : Shown(k, snap)' = Shown(k, snap)
    BY <2>1 DEF Shown
  <2>5. \A k \in Keys : ~Shown(k, snap) \/ active[k] = "off" \/ Has(Clear(k)) => k \in fresh'
    BY <2>2 DEF News
  <2>6. at = "alarms" => \A k \in Alarms \ seen : k \in fresh'
    BY <2>2 DEF News
  <2>7. QED
    BY <2>1, <2>3, <2>4, <2>5, <2>6 DEF News
<1>13. ASSUME NEW c \in Channels, Send(c) PROVE News'
  BY <1>13, LaterNews DEF Send, News, Has, Idle, Raising, Key, Calling
<1>14. ASSUME NEW link \in Links, NEW on \in SUBSET On, Publish([link |-> link, on |-> on]) PROVE News'
  <2> DEFINE s == [link |-> link, on |-> on]
  <2>1. /\ snap' = s /\ fresh' = fresh \cup {k \in Keys : ~Shown(k, s)}
        /\ UNCHANGED <<active, at, seen, todo, step>>
    BY <1>14 DEF Publish, work
  <2>2. \A k \in Keys : Shown(k, snap)' = Shown(k, s)
    BY <2>1 DEF Shown
  <2>3. QED
    BY <2>1, <2>2 DEF News, Has, Idle, Raising, Key, Calling
<1>15. ASSUME UNCHANGED <<snap, active, at, seen, todo, step, fresh>> PROVE News'
  BY <1>15 DEF News, Has, Idle, Raising, Key, Calling, Shown
<1>16. QED
  BY <1>1, <1>2, <1>3, <1>4, <1>5, <1>6, <1>7, <1>8, <1>10, <1>11, <1>12, <1>13, <1>14, <1>15
  DEF Next, Watcher, Tick, SetChannels, vars, work, ages

------------------------------------------------------------------------------------
(* The wait                                                                             *)

LEMMA InitWaits == Init => Waits
  BY DEF Init, Waits, Has

LEMMA StepWaits == TypeOK /\ Waits /\ [Next]_vars => Waits'
<1> SUFFICES ASSUME TypeOK, Waits, [Next]_vars PROVE Waits'
  OBVIOUS
<1> USE KeyFacts
<1>1. CASE Check
  <2>1. Has(Raise(Down))' => snap.link = "down" /\ downSince = DownAfter
    BY <1>1, CheckCalls DEF TypeOK, On
  <2>2. /\ downSince' = DownSeen
        /\ upSince' = IF snap.link = "down" THEN upSince ELSE 0
    BY <1>1 DEF Check
  <2>3. downSince' # Never => downSince' <= upSince'
    BY <2>2 DEF DownSeen, Waits, TypeOK
  <2>4. Has(Raise(Down))' => upSince' = DownAfter
    BY <2>1, <2>2 DEF Waits, TypeOK
  <2>5. QED
    BY <2>3, <2>4 DEF Waits
<1>2. ASSUME UNCHANGED ages, Has(Raise(Down))' => Has(Raise(Down)) PROVE Waits'
  BY <1>2 DEF Waits, ages
<1>3. CASE ReadAlarms
  <2>1. PICK order \in SetToSeqs(seen') : todo' = [i \in DOMAIN order |-> Raise(order[i])]
    BY <1>3 DEF ReadAlarms
  <2>2. seen' \in SUBSET Alarms
    BY <1>3 DEF ReadAlarms
  <2>3. ~Has(Raise(Down))'
    BY <2>1, <2>2, AlarmCalls DEF Raise, On
  <2>4. QED
    BY <1>2, <1>3, <2>3 DEF ReadAlarms
<1>4. CASE Sweep
  <2>1. PICK order \in SetToSeqs({k \in Alarms \ seen : active[k] # "off"}) : todo' = [i \in DOMAIN order |-> Clear(order[i])]
    BY <1>4 DEF Sweep
  <2>2. ~Has(Raise(Down))'
    BY <2>1, AlarmCalls DEF Raise, Clear
  <2>3. QED
    BY <1>2, <1>4, <2>2 DEF Sweep
<1>5. ASSUME ~Idle, todo' = Tail(todo), UNCHANGED ages PROVE Waits'
  BY <1>2, <1>5, TailCalls
<1>6. ASSUME UNCHANGED <<todo, ages>> PROVE Waits'
  BY <1>2, <1>6 DEF Has
<1>7. CASE Tick
  <2>1. downSince' = Older(downSince) /\ upSince' = Older(upSince) /\ todo' = todo
    BY <1>7 DEF Tick, work
  <2>2. downSince' # Never => downSince' <= upSince'
    BY <2>1 DEF Older, Waits, TypeOK
  <2>3. Has(Raise(Down))' => upSince' = DownAfter
    BY <2>1 DEF Older, Waits, TypeOK, Has
  <2>4. QED
    BY <2>2, <2>3 DEF Waits
<1>8. QED
  BY <1>1, <1>3, <1>4, <1>5, <1>6, <1>7
  DEF Next, Watcher, Done, RaiseAgain, RaiseFirst, ClearQuietly, ClearAloud, Threshold, NoChannels,
      TakeChannels, Send, Sent, Return, Publish, SetChannels, vars, work

------------------------------------------------------------------------------------
(* What follows of every behaviour                                                      *)

(* The inductive invariant holds throughout.                                            *)
THEOREM Invariance == Spec => []IInv
<1>1. Init => IInv
  BY InitType, InitBooks, InitNews, InitWaits DEF IInv
<1>2. IInv /\ [Next]_vars => IInv'
  BY StepType, StepBooks, StepNews, StepWaits DEF IInv
<1>3. QED
  BY <1>1, <1>2, PTL DEF Spec

(* Every variable of the notifier and the watcher keeps its type.                       *)
THEOREM TypeCorrect == Spec => []TypeOK
<1>1. IInv => TypeOK
  BY DEF IInv
<1>2. QED
  BY <1>1, Invariance, PTL

(* All-clears go out for what was announced, and what was announced is remembered       *)
(* (notify.go:212-223), whatever is saved under a message being sent.                   *)
THEOREM EndsMatchStarts == Spec => []AllClearsAreExact
<1>1. IInv => AllClearsAreExact
  BY DEF IInv, Books, Sending, AllClearsAreExact
<1>2. QED
  BY <1>1, Invariance, PTL

(* No condition is announced twice without having been seen off (notify.go:181-182).    *)
THEOREM NothingIsRepeated == Spec => AlertsAreNews
<1>1. IInv /\ [Next]_vars => [step = "channels" /\ step' = "send" /\ Raising => Key \in fresh]_vars
  <2> SUFFICES ASSUME IInv, [Next]_vars, step = "channels", step' = "send", Raising PROVE Key \in fresh
    OBVIOUS
  <2>1. ~Idle
    BY DEF IInv, TypeOK
  <2>2. QED
    BY <2>1 DEF IInv, News
<1>2. QED
  BY <1>1, Invariance, PTL DEF Spec, AlertsAreNews

(* Short outages do not add up to an alert (watch.go:102-111).                          *)
THEOREM OutagesAreWaitedOut == Spec => HiccupsAreQuiet
<1>1. IInv /\ [Next]_vars =>
        [step = "call" /\ step' = "threshold" /\ Calling = Raise(Down) => upSince = DownAfter]_vars
  <2> SUFFICES ASSUME IInv, [Next]_vars, step = "call", step' = "threshold", Calling = Raise(Down)
               PROVE  upSince = DownAfter
    OBVIOUS
  <2>1. ~Idle
    BY DEF IInv, TypeOK, Next, Watcher, Check, ReadAlarms, Sweep, Done, RaiseAgain, RaiseFirst,
           ClearQuietly, ClearAloud, Threshold, NoChannels, TakeChannels, Send, Sent, Return,
           Publish, Tick, SetChannels, vars, work
  <2>2. Has(Raise(Down))
    BY <2>1, CallingType DEF IInv
  <2>3. QED
    BY <2>2 DEF IInv, Waits
<1>2. QED
  BY <1>1, Invariance, PTL DEF Spec, HiccupsAreQuiet

=====================================================================================

---------------------------------- MODULE BusProofs ----------------------------------
(* Proofs about Bus, for any number of callers, any depth of the queues and any number *)
(* of failures before a reopen.                                                        *)
EXTENDS Bus, TLAPS

(* The safety invariants are not inductive by themselves.  What ties them together is  *)
(* where a job is: in one queue, in the goroutine's hands, answered, or forgotten, and *)
(* what the books say of it there.                                                     *)

Distinct(s) == \A i, j \in 1..Len(s) : s[i] = s[j] => i = j

QueuesOK ==
    \A p \in Priorities :
        /\ Len(queues[p]) <= Depth
        /\ Distinct(queues[p])
        /\ \A c \in Elements(queues[p]) : prio[c] = p

HandsOK == Holding <=> current # NoCall

(* The way of one call through the bus.                                                *)
Journey(c) ==
    /\ pc[c] = "returned" <=> result[c] # "none"
    /\ pc[c] \in {"idle", "enter", "enqueue"} =>
          ~Queued(c) /\ current # c /\ done[c] = "none" /\ counted[c] = "no" /\ overtaken[c] = 0
    /\ Queued(c) =>
          current # c /\ done[c] = "none" /\ counted[c] = "no" /\ result[c] \in {"none", "ctx"}
    /\ current = c =>
          /\ done[c] = "none" /\ result[c] \in {"none", "ctx"}
          /\ worker \in {"check", "wire"} => counted[c] = "no"
          /\ worker = "drop" => FateOf(counted[c]) = "dropped"
          /\ worker = "answer" => FateOf(counted[c]) = outcome
    /\ done[c] # "none" => FateOf(counted[c]) = done[c] /\ result[c] \in {"none", "ctx"}
    /\ result[c] \in Answers =>
          FateOf(counted[c]) = result[c] /\ ~Queued(c) /\ current # c /\ done[c] = "none"
    /\ result[c] = "closed" =>
          counted[c] = "no" /\ ~Queued(c) /\ current # c /\ done[c] = "none"

(* A queued job that has been overtaken is found by the select that listens to it and  *)
(* nothing lower, so the goroutine never gets past that select.                        *)
Turn(c) ==
    Queued(c) =>
        /\ overtaken[c] <= 1
        /\ prio[c] = Write /\ overtaken[c] = 1 => worker \notin {"pick2", "pick3"}
        /\ prio[c] = Client /\ overtaken[c] = 1 => worker # "pick3"
        /\ prio[c] = Poll => overtaken[c] = 0

IInv ==
    /\ TypeOK /\ QueuesOK /\ HandsOK
    /\ \A c \in Calls : Journey(c) /\ Turn(c)

---------------------------------------------------------------------------------------
(* Sequences                                                                            *)

(* What is in a queue after a job joins it.                                             *)
LEMMA ElementsAppend ==
  ASSUME NEW S, NEW s \in Seq(S), NEW e \in S
  PROVE  /\ Append(s, e) \in Seq(S)
         /\ Len(Append(s, e)) = Len(s) + 1
         /\ Elements(Append(s, e)) = Elements(s) \cup {e}
         /\ Distinct(s) /\ e \notin Elements(s) => Distinct(Append(s, e))
<1>1. /\ Append(s, e) \in Seq(S)
      /\ Len(Append(s, e)) = Len(s) + 1
      /\ \A i \in 1..Len(s) : Append(s, e)[i] = s[i]
      /\ Append(s, e)[Len(s) + 1] = e
      /\ Len(s) \in Nat
  OBVIOUS
<1>2. Elements(Append(s, e)) = Elements(s) \cup {e}
  BY <1>1 DEF Elements
<1>3. Distinct(s) /\ e \notin Elements(s) => Distinct(Append(s, e))
  BY <1>1 DEF Elements, Distinct
<1>4. QED
  BY <1>1, <1>2, <1>3

(* What is in a queue after its head has left.                                          *)
LEMMA ElementsTail ==
  ASSUME NEW S, NEW s \in Seq(S), s # <<>>, Distinct(s)
  PROVE  /\ Tail(s) \in Seq(S)
         /\ Len(Tail(s)) < Len(s)
         /\ Head(s) \in S /\ Head(s) \in Elements(s)
         /\ Elements(Tail(s)) = Elements(s) \ {Head(s)}
         /\ Distinct(Tail(s))
<1>1. /\ Len(s) \in Nat \ {0}
      /\ Tail(s) \in Seq(S)
      /\ Len(Tail(s)) = Len(s) - 1
      /\ \A i \in 1..Len(Tail(s)) : Tail(s)[i] = s[i + 1]
      /\ Head(s) = s[1]
      /\ Head(s) \in S
  OBVIOUS
<1>2. Elements(Tail(s)) = Elements(s) \ {Head(s)}
  <2>1. ASSUME NEW x \in Elements(Tail(s)) PROVE x \in Elements(s) \ {Head(s)}
    <3>1. PICK i \in 1..Len(Tail(s)) : x = Tail(s)[i]
      BY DEF Elements
    <3>2. x = s[i + 1] /\ i + 1 \in 1..Len(s) /\ i + 1 # 1
      BY <1>1, <3>1
    <3>3. QED
      BY <1>1, <3>2 DEF Elements, Distinct
  <2>2. ASSUME NEW x \in Elements(s) \ {Head(s)} PROVE x \in Elements(Tail(s))
    <3>1. PICK i \in 1..Len(s) : x = s[i]
      BY DEF Elements
    <3>2. i # 1 /\ i - 1 \in 1..Len(Tail(s))
      BY <1>1, <3>1
    <3>3. x = Tail(s)[i - 1]
      BY <1>1, <3>1, <3>2
    <3>4. QED
      BY <3>2, <3>3 DEF Elements
  <2>3. QED
    BY <2>1, <2>2
<1>3. Distinct(Tail(s))
  <2> SUFFICES ASSUME NEW i \in 1..Len(Tail(s)), NEW j \in 1..Len(Tail(s)),
                      Tail(s)[i] = Tail(s)[j]
               PROVE  i = j
    BY DEF Distinct
  <2>1. s[i + 1] = s[j + 1] /\ i + 1 \in 1..Len(s) /\ j + 1 \in 1..Len(s)
    BY <1>1
  <2>2. QED
    BY <2>1 DEF Distinct
<1>4. Head(s) \in Elements(s)
  BY <1>1 DEF Elements
<1>5. QED
  BY <1>1, <1>2, <1>3, <1>4

(* The goroutine listens to nothing but the three queues.                               *)
LEMMA ListensInRange == Picking => Listens[worker] \subseteq Priorities
  BY DEF Picking, Listens, Priorities

---------------------------------------------------------------------------------------
(* Types                                                                                *)

(* A new bus has empty queues and no jobs.                                              *)
LEMMA InitType == Init => TypeOK
<1> SUFFICES ASSUME Init PROVE TypeOK
  OBVIOUS
<1> USE DEF Init
<1>1. queues \in [Priorities -> Seq(Calls)]
  <2>1. <<>> \in Seq(Calls)
    OBVIOUS
  <2>2. QED
    BY <2>1
<1>2. journal \in Lines \X Lines
  BY DEF Lines
<1>3. consecutive \in 0..(ReopenAfter - 1)
  BY BusAssumption
<1>4. /\ pc \in [Calls -> Phases] /\ result \in [Calls -> Results]
      /\ done \in [Calls -> Answers \cup {"none"}] /\ counted \in [Calls -> Counts]
  BY DEF Phases, Results, Answers, Counts
<1>5. /\ prio \in [Calls -> Priorities] /\ patient \in [Calls -> BOOLEAN]
      /\ expired \in SUBSET Calls /\ overtaken \in [Calls -> 0..2]
  BY DEF Priorities
<1>6. /\ worker \in Places /\ current \in Calls \cup {NoCall}
      /\ outcome \in {"ok", "failed"}
  BY DEF Places
<1>8. closed \in BOOLEAN /\ reopenFailed \in BOOLEAN
  BY Zenon
<1>9. reopens \in 0..2
  OBVIOUS
<1>7. QED
  BY <1>1, <1>2, <1>3, <1>4, <1>5, <1>6, <1>8, <1>9 DEF TypeOK

(* The types one at a time: with the sequences out of sight the provers are quicker.    *)
LEMMA Types ==
  ASSUME TypeOK
  PROVE  /\ pc \in [Calls -> Phases] /\ result \in [Calls -> Results]
         /\ done \in [Calls -> Answers \cup {"none"}] /\ counted \in [Calls -> Counts]
         /\ worker \in Places /\ outcome \in {"ok", "failed"}
         /\ prio \in [Calls -> Priorities] /\ overtaken \in [Calls -> 0..2]
         /\ queues \in [Priorities -> Seq(Calls)]
         /\ current \in Calls \cup {NoCall}
         /\ consecutive \in 0..(ReopenAfter - 1) /\ reopens \in 0..2
         /\ reopenFailed \in BOOLEAN /\ journal \in Lines \X Lines
  BY DEF TypeOK

(* Counting who is overtaken keeps within two.                                          *)
LEMMA PassType ==
  ASSUME TypeOK, NEW p \in Priorities
  PROVE  Pass(p) \in [Calls -> 0..2]
<1>1. overtaken \in [Calls -> 0..2]
  BY Types
<1>2. ASSUME NEW c \in Calls PROVE Pass(p)[c] \in 0..2
  <2>1. overtaken[c] \in 0..2 /\ (overtaken[c] < 2 => overtaken[c] + 1 \in 0..2)
    BY <1>1
  <2>2. Pass(p)[c] \in {0, overtaken[c]} \/ (overtaken[c] < 2 /\ Pass(p)[c] = overtaken[c] + 1)
    BY DEF Pass
  <2>3. QED
    BY <2>1, <2>2
<1>3. Pass(p) = [c \in Calls |-> Pass(p)[c]]
  BY DEF Pass
<1>4. QED
  BY <1>2, <1>3

(* The bookkeeping about the port stays within its bounds after an answer.              *)
LEMMA PortType ==
  ASSUME TypeOK, Answer
  PROVE  /\ consecutive' \in 0..(ReopenAfter - 1)
         /\ reopens' \in 0..2 /\ reopenFailed' \in BOOLEAN
         /\ journal' \in Lines \X Lines
<1>1. /\ consecutive \in 0..(ReopenAfter - 1) /\ reopens \in 0..2
      /\ reopenFailed \in BOOLEAN /\ journal \in Lines \X Lines
  BY Types
<1>2. \A line \in Lines : Log(line) => journal' \in Lines \X Lines
  BY <1>1 DEF Log
<1>3. {"no port", "reopened", "answering"} \subseteq Lines
  BY DEF Lines
<1>4. CASE NoteSuccess
  <2>1. consecutive' \in 0..(ReopenAfter - 1) /\ reopens' \in 0..2
    <3>1. consecutive' = 0 /\ reopens' = 0
      BY <1>4 DEF NoteSuccess
    <3>2. ReopenAfter \in Nat \ {0}
      BY BusAssumption
    <3>3. QED
      BY <3>1, <3>2
  <2>2. reopenFailed' \in BOOLEAN
    BY <1>4, Zenon DEF NoteSuccess
  <2>3. journal' \in Lines \X Lines
    BY <1>1, <1>2, <1>3, <1>4, Zenon DEF NoteSuccess
  <2>4. QED
    BY <2>1, <2>2, <2>3
<1>5. CASE NoteFailure
  BY <1>1, <1>5, BusAssumption DEF NoteFailure
<1>6. CASE Reopen
  <2>1. consecutive' \in 0..(ReopenAfter - 1) /\ reopens' \in 0..2
    <3>1. consecutive' = 0 /\ reopens' = IF reopens < 2 THEN reopens + 1 ELSE 2
      BY <1>6 DEF Reopen
    <3>2. ReopenAfter \in Nat \ {0} /\ reopens \in 0..2
      BY <1>1, BusAssumption
    <3>3. QED
      BY <3>1, <3>2
  <2>2. reopenFailed' \in BOOLEAN
    BY <1>1, <1>6 DEF Reopen
  <2>3. journal' \in Lines \X Lines
    BY <1>1, <1>2, <1>3, <1>6 DEF Reopen
  <2>4. QED
    BY <2>1, <2>2, <2>3
<1>7. QED
  BY <1>4, <1>5, <1>6 DEF Answer

(* Every step keeps every variable's type.                                              *)
LEMMA NextType == TypeOK /\ [Next]_vars => TypeOK'
<1> SUFFICES ASSUME TypeOK, [Next]_vars PROVE TypeOK'
  OBVIOUS
<1> USE DEF TypeOK, Phases, Answers, Results, Counts, Places,
        callVars, portVars, workerVars
<1>1. ASSUME NEW c \in Calls, NEW p \in Asked, NEW forever \in Patience,
             Begin(c, p, forever)
      PROVE  TypeOK'
  <2>1. Normal(p) \in Priorities /\ forever \in BOOLEAN
    BY BusAssumption DEF Normal, Priorities
  <2>2. QED
    BY <1>1, <2>1 DEF Begin
<1>2. ASSUME NEW c \in Calls, Expire(c) PROVE TypeOK'
  BY <1>2 DEF Expire
<1>3. ASSUME NEW c \in Calls, Do(c) PROVE TypeOK'
  <2>1. CASE Enter(c)
    BY <2>1 DEF Enter, Return
  <2>2. CASE Enqueue(c)
    <3>1. Append(queues[prio[c]], c) \in Seq(Calls)
      BY ElementsAppend
    <3>2. queues' \in [Priorities -> Seq(Calls)]
      BY <2>2, <3>1 DEF Enqueue
    <3>3. QED
      BY <2>2, <3>2 DEF Enqueue
  <2>3. CASE GiveUpEnqueuing(c)
    BY <2>3 DEF GiveUpEnqueuing, Return
  <2>4. CASE RefuseEnqueuing(c)
    BY <2>4 DEF RefuseEnqueuing, Return
  <2>5. CASE TakeAnswer(c)
    BY <2>5 DEF TakeAnswer, Return
  <2>6. CASE GiveUpWaiting(c)
    BY <2>6 DEF GiveUpWaiting, Return
  <2>7. QED
    BY <1>3, <2>1, <2>2, <2>3, <2>4, <2>5, <2>6 DEF Do
<1>4. CASE Close
  BY <1>4 DEF Close
<1>5. ASSUME Loop PROVE TypeOK'
  <2>1. ASSUME NEW p \in Priorities, Take(p) PROVE TypeOK'
    <3>1. queues[p] \in Seq(Calls) /\ queues[p] # <<>>
      BY <2>1, Types DEF Take
    <3>2. Head(queues[p]) \in Calls /\ Tail(queues[p]) \in Seq(Calls)
      BY <3>1
    <3>3. queues' \in [Priorities -> Seq(Calls)]
      BY <2>1, <3>2 DEF Take
    <3>4. overtaken' \in [Calls -> 0..2]
      BY <2>1, PassType DEF Take
    <3>5. QED
      BY <2>1, <3>2, <3>3, <3>4 DEF Take
  <2>2. CASE Leave
    BY <2>2 DEF Leave, Goto
  <2>3. CASE LookFurther
    BY <2>3 DEF LookFurther, Goto
  <2>4. CASE SkipExpired
    BY <2>4 DEF SkipExpired
  <2>5. CASE AnswerDropped
    BY <2>5 DEF AnswerDropped
  <2>6. CASE StartRun
    BY <2>6 DEF StartRun, Goto
  <2>7. CASE FinishRun
    BY <2>7 DEF FinishRun
  <2>8. CASE Answer
    BY <2>8, PortType DEF Answer
  <2>9. TakeJob => \E p \in Priorities : Take(p)
    BY ListensInRange DEF TakeJob
  <2>10. QED
    BY <1>5, <2>1, <2>2, <2>3, <2>4, <2>5, <2>6, <2>7, <2>8, <2>9 DEF Loop, Serve
<1>6. CASE UNCHANGED vars
  BY <1>6 DEF vars
<1>7. QED
  BY <1>1, <1>2, <1>3, <1>4, <1>5, <1>6 DEF Next

(* Every variable keeps its type: the counters that are read stay within their bounds. *)
THEOREM TypeCorrect == Spec => []TypeOK
  BY InitType, NextType, PTL DEF Spec

---------------------------------------------------------------------------------------
(* What each kind of step does to the queues                                            *)

LEMMA FateFacts ==
    /\ FateOf("no") = "none" /\ FateOf("request") = "ok"
    /\ FateOf("failure") = "failed" /\ FateOf("dropped") = "dropped"
  BY DEF FateOf

(* A step that leaves the queues and the priorities alone leaves every job where it is. *)
LEMMA QuietQueues ==
  ASSUME QueuesOK, UNCHANGED <<queues, prio>>
  PROVE  QueuesOK' /\ \A d \in Calls : Queued(d)' <=> Queued(d)
<1>1. queues' = queues /\ prio' = prio
  OBVIOUS
<1>2. QueuesOK'
  BY <1>1 DEF QueuesOK
<1>3. \A d \in Calls : Queued(d)' <=> Queued(d)
  BY <1>1 DEF Queued
<1>4. QED
  BY <1>2, <1>3

(* A new job is in no queue, whatever priority its identity had before.                 *)
LEMMA BeginQueues ==
  ASSUME TypeOK, QueuesOK, NEW c \in Calls, NEW p, NEW forever, Begin(c, p, forever)
  PROVE  QueuesOK' /\ \A d \in Calls : Queued(d)' <=> Queued(d)
<1>1. queues' = queues /\ ~Queued(c) /\ prio' = [prio EXCEPT ![c] = Normal(p)]
  BY DEF Begin
<1>2. Normal(p) \in Priorities
  BY DEF Normal, Priorities
<1>3. prio \in [Calls -> Priorities]
  BY Types
<1>4. \A q \in Priorities : c \notin Elements(queues[q])
  BY <1>1 DEF QueuesOK, Queued
<1>5. \A q \in Priorities : \A d \in Elements(queues[q]) : prio'[d] = q
  BY <1>1, <1>3, <1>4 DEF QueuesOK
<1>6. QueuesOK'
  BY <1>1, <1>5 DEF QueuesOK
<1>7. \A d \in Calls : Queued(d)' <=> Queued(d)
  BY <1>1, <1>2, <1>3, <1>4 DEF Queued
<1>8. QED
  BY <1>6, <1>7

(* A job that joins a queue is queued, and nothing else changes.                        *)
LEMMA EnqueueQueues ==
  ASSUME TypeOK, QueuesOK, NEW c \in Calls, Enqueue(c), ~Queued(c)
  PROVE  QueuesOK' /\ \A d \in Calls : Queued(d)' <=> Queued(d) \/ d = c
<1> DEFINE q == prio[c]
<1>1. q \in Priorities /\ prio \in [Calls -> Priorities]
      /\ queues \in [Priorities -> Seq(Calls)] /\ queues[q] \in Seq(Calls)
  BY Types
<1>2. prio' = prio /\ Len(queues[q]) < Depth /\ queues' = [queues EXCEPT ![q] = Append(@, c)]
  BY DEF Enqueue
<1>3. \A r \in Priorities : queues'[r] = IF r = q THEN Append(queues[q], c) ELSE queues[r]
  BY <1>1, <1>2
<1>4. /\ Len(Append(queues[q], c)) = Len(queues[q]) + 1
      /\ Elements(Append(queues[q], c)) = Elements(queues[q]) \cup {c}
      /\ Distinct(Append(queues[q], c))
  BY <1>1, ElementsAppend DEF QueuesOK, Queued
<1>5. Len(queues[q]) + 1 <= Depth
  BY <1>1, <1>2, BusAssumption
<1>6. QueuesOK'
  BY <1>1, <1>2, <1>3, <1>4, <1>5 DEF QueuesOK
<1>7. ASSUME NEW d \in Calls PROVE Queued(d)' <=> Queued(d) \/ d = c
  <2>1. prio[d] \in Priorities
    BY <1>1
  <2>2. Queued(d)' <=> d \in Elements(queues'[prio[d]])
    BY <1>2 DEF Queued
  <2>3. CASE prio[d] = q
    BY <2>1, <2>2, <2>3, <1>3, <1>4 DEF Queued
  <2>4. CASE prio[d] # q
    BY <2>1, <2>2, <2>4, <1>3 DEF Queued
  <2>5. QED
    BY <2>3, <2>4
<1>8. QED
  BY <1>6, <1>7

(* Taking the head of a queue takes that job off the queues, and no other.              *)
LEMMA TakeQueues ==
  ASSUME TypeOK, QueuesOK, NEW p \in Priorities, Take(p)
  PROVE  /\ QueuesOK'
         /\ Head(queues[p]) \in Calls /\ Queued(Head(queues[p])) /\ prio[Head(queues[p])] = p
         /\ \A d \in Calls : Queued(d)' <=> Queued(d) /\ d # Head(queues[p])
<1> DEFINE h == Head(queues[p])
<1>1. prio \in [Calls -> Priorities]
      /\ queues \in [Priorities -> Seq(Calls)] /\ queues[p] \in Seq(Calls)
  BY Types
<1>2. queues[p] # <<>> /\ prio' = prio /\ queues' = [queues EXCEPT ![p] = Tail(@)]
  BY DEF Take, callVars
<1>3. \A r \in Priorities : queues'[r] = IF r = p THEN Tail(queues[p]) ELSE queues[r]
  BY <1>1, <1>2
<1>4. /\ Len(Tail(queues[p])) < Len(queues[p]) /\ Tail(queues[p]) \in Seq(Calls)
      /\ h \in Calls /\ h \in Elements(queues[p])
      /\ Elements(Tail(queues[p])) = Elements(queues[p]) \ {h}
      /\ Distinct(Tail(queues[p]))
  BY <1>1, <1>2, ElementsTail DEF QueuesOK
<1>5. prio[h] = p /\ Queued(h)
  BY <1>4 DEF QueuesOK, Queued
<1>6. Len(Tail(queues[p])) <= Depth
  <2>1. Len(Tail(queues[p])) \in Nat /\ Len(queues[p]) \in Nat /\ Len(queues[p]) <= Depth
    BY <1>1, <1>4 DEF QueuesOK
  <2>2. QED
    BY <2>1, <1>4, BusAssumption
<1>7. QueuesOK'
  BY <1>1, <1>2, <1>3, <1>4, <1>6 DEF QueuesOK
<1>8. ASSUME NEW d \in Calls PROVE Queued(d)' <=> Queued(d) /\ d # h
  <2>1. prio[d] \in Priorities
    BY <1>1
  <2>2. Queued(d)' <=> d \in Elements(queues'[prio[d]])
    BY <1>2 DEF Queued
  <2>3. CASE prio[d] = p
    BY <2>1, <2>2, <2>3, <1>3, <1>4 DEF Queued
  <2>4. CASE prio[d] # p
    BY <2>1, <2>2, <2>4, <1>3, <1>5 DEF Queued
  <2>5. QED
    BY <2>3, <2>4
<1>9. QED
  BY <1>4, <1>5, <1>7, <1>8

---------------------------------------------------------------------------------------
(* The journey of a call                                                                *)

(* In the initial state nobody is anywhere.                                             *)
LEMMA InitIInv == Init => IInv
<1> SUFFICES ASSUME Init PROVE IInv
  OBVIOUS
<1>1. TypeOK
  BY InitType
<1>2. \A p \in Priorities : queues[p] = <<>>
  BY DEF Init
<1>3. Elements(<<>>) = {} /\ Distinct(<<>>) /\ Len(<<>>) = 0
  BY DEF Elements, Distinct
<1>4. QueuesOK
  <2>1. 0 <= Depth
    BY BusAssumption
  <2>2. QED
    BY <1>2, <1>3, <2>1 DEF QueuesOK
<1>5. \A c \in Calls : prio[c] \in Priorities
  BY <1>1, Types
<1>6. \A c \in Calls : ~Queued(c)
  BY <1>2, <1>3, <1>5 DEF Queued
<1>7. HandsOK
  BY DEF Init, HandsOK, Holding
<1>8. \A c \in Calls : Journey(c)
  BY <1>6, BusAssumption DEF Init, Journey, Answers
<1>9. \A c \in Calls : Turn(c)
  BY <1>6 DEF Turn
<1>10. QED
  BY <1>1, <1>4, <1>7, <1>8, <1>9 DEF IInv

(* A caller that begins again starts from nothing.                                      *)
LEMMA BeginJourney ==
  ASSUME IInv, NEW c \in Calls, NEW p, NEW forever, Begin(c, p, forever)
  PROVE  \A d \in Calls : Journey(d)'
<1>1. TypeOK /\ QueuesOK /\ \A d \in Calls : Journey(d)
  BY DEF IInv
<1>2. \A d \in Calls : Queued(d)' <=> Queued(d)
  BY <1>1, BeginQueues
<1> SUFFICES ASSUME NEW d \in Calls PROVE Journey(d)'
  OBVIOUS
<1>3. /\ pc[d] \in Phases /\ pc' = [pc EXCEPT ![c] = "enter"]
      /\ result' = [result EXCEPT ![c] = "none"] /\ done' = [done EXCEPT ![c] = "none"]
      /\ counted' = [counted EXCEPT ![c] = "no"] /\ overtaken' = [overtaken EXCEPT ![c] = 0]
      /\ current' = current /\ worker' = worker /\ outcome' = outcome
      /\ ~Queued(c) /\ current # c
  BY <1>1, Types DEF Begin, workerVars
<1>4. CASE d = c
  <2>1. pc'[d] = "enter" /\ result'[d] = "none" /\ done'[d] = "none" /\ counted'[d] = "no"
        /\ overtaken'[d] = 0 /\ ~Queued(d)' /\ current' # d
    BY <1>1, <1>2, <1>3, <1>4, Types
  <2>2. QED
    BY <2>1 DEF Journey, Answers
<1>5. CASE d # c
  <2>1. pc'[d] = pc[d] /\ result'[d] = result[d] /\ done'[d] = done[d]
        /\ counted'[d] = counted[d] /\ overtaken'[d] = overtaken[d]
    BY <1>1, <1>3, <1>5, Types
  <2>2. QED
    BY <1>1, <1>2, <1>3, <2>1 DEF Journey
<1>6. QED
  BY <1>4, <1>5

(* A call that does not move keeps its place in its journey.                            *)
LEMMA Bystander ==
  ASSUME NEW d \in Calls, Journey(d), Queued(d)' <=> Queued(d),
         pc'[d] = pc[d], result'[d] = result[d], done'[d] = done[d],
         counted'[d] = counted[d], overtaken'[d] = overtaken[d] \/ Queued(d),
         \/ current # d /\ current' # d
         \/ current' = current /\ worker' = worker /\ outcome' = outcome
  PROVE  Journey(d)'
  BY DEF Journey

(* What a caller does in Do.                                                            *)
LEMMA DoJourney ==
  ASSUME IInv, NEW c \in Calls, Do(c)
  PROVE  QueuesOK' /\ \A d \in Calls : Journey(d)'
<1>1. TypeOK /\ QueuesOK /\ \A d \in Calls : Journey(d)
  BY DEF IInv
<1> USE DEF workerVars, callVars
<1>2. ASSUME ~Enqueue(c) PROVE QueuesOK' /\ \A d \in Calls : Queued(d)' <=> Queued(d)
  <2>1. queues' = queues /\ prio' = prio
    BY <1>2 DEF Do, Enter, GiveUpEnqueuing, RefuseEnqueuing, TakeAnswer, GiveUpWaiting, Return
  <2>2. QED
    BY <1>1, <2>1, QuietQueues
<1>3. current' = current /\ worker' = worker /\ outcome' = outcome /\ overtaken' = overtaken
  BY DEF Do, Enter, Enqueue, GiveUpEnqueuing, RefuseEnqueuing, TakeAnswer, GiveUpWaiting, Return
<1>4. ASSUME NEW d \in Calls, d # c
      PROVE  /\ pc'[d] = pc[d] /\ result'[d] = result[d]
             /\ done'[d] = done[d] /\ counted'[d] = counted[d]
  BY <1>1, <1>4, Types
     DEF Do, Enter, Enqueue, GiveUpEnqueuing, RefuseEnqueuing, TakeAnswer, GiveUpWaiting, Return
<1>5. CASE Enqueue(c)
  <2>1. pc[c] = "enqueue" /\ ~Queued(c)
    BY <1>1, <1>5 DEF Enqueue, Journey
  <2>2. QueuesOK' /\ \A d \in Calls : Queued(d)' <=> Queued(d) \/ d = c
    BY <1>1, <1>5, <2>1, EnqueueQueues
  <2>3. pc'[c] = "waiting" /\ result' = result /\ done' = done /\ counted' = counted
    BY <1>1, <1>5, Types DEF Enqueue
  <2>4. Journey(c)'
    BY <1>1, <1>3, <2>1, <2>2, <2>3 DEF Journey, Answers
  <2>5. QED
    BY <1>1, <1>3, <1>4, <2>2, <2>4, Bystander
<1>6. CASE ~Enqueue(c)
  <2>1. Journey(c)'
    <3> USE <1>1, <1>2, <1>3, <1>6, Types, FateFacts DEF Return, Journey, Answers
    <3>1. CASE Enter(c)
      BY <3>1 DEF Enter
    <3>2. CASE GiveUpEnqueuing(c)
      BY <3>2 DEF GiveUpEnqueuing
    <3>3. CASE RefuseEnqueuing(c)
      BY <3>3 DEF RefuseEnqueuing
    <3>4. CASE TakeAnswer(c)
      BY <3>4 DEF TakeAnswer
    <3>5. CASE GiveUpWaiting(c)
      BY <3>5 DEF GiveUpWaiting
    <3>6. QED
      BY <3>1, <3>2, <3>3, <3>4, <3>5 DEF Do
  <2>2. QED
    BY <1>1, <1>2, <1>3, <1>4, <1>6, <2>1, Bystander
<1>7. QED
  BY <1>5, <1>6

(* The goroutine takes a job off a queue.                                               *)
LEMMA TakeJourney ==
  ASSUME IInv, Picking, NEW p \in Priorities, Take(p)
  PROVE  QueuesOK' /\ HandsOK' /\ \A d \in Calls : Journey(d)'
<1> DEFINE h == Head(queues[p])
<1>1. TypeOK /\ QueuesOK /\ \A d \in Calls : Journey(d)
  BY DEF IInv
<1>2. /\ QueuesOK' /\ h \in Calls /\ Queued(h)
      /\ \A d \in Calls : Queued(d)' <=> Queued(d) /\ d # h
  BY <1>1, TakeQueues
<1>3. current = NoCall
  BY DEF IInv, HandsOK, Holding, Picking, Listens
<1>4. /\ current' = h /\ worker' = "check" /\ overtaken' = Pass(p)
      /\ pc' = pc /\ result' = result /\ done' = done /\ counted' = counted
  BY DEF Take, callVars
<1>5. HandsOK'
  BY <1>2, <1>4, BusAssumption DEF HandsOK, Holding
<1>6. ASSUME NEW d \in Calls PROVE Journey(d)'
  <2>1. CASE d = h
    BY <1>1, <1>2, <1>4, <2>1 DEF Journey, Answers
  <2>2. CASE d # h
    <3>1. overtaken'[d] = overtaken[d] \/ Queued(d)
      BY <1>4, <2>2 DEF Pass
    <3>2. current # d /\ current' # d
      BY <1>3, <1>4, <2>2, BusAssumption
    <3>3. Queued(d)' <=> Queued(d)
      BY <1>2, <2>2
    <3>4. /\ pc'[d] = pc[d] /\ result'[d] = result[d]
          /\ done'[d] = done[d] /\ counted'[d] = counted[d] /\ Journey(d)
      BY <1>1, <1>4
    <3>5. QED
      BY <3>1, <3>2, <3>3, <3>4, Bystander
  <2>3. QED
    BY <2>1, <2>2
<1>7. QED
  BY <1>2, <1>5, <1>6

(* The goroutine moves with no job in its hands.                                        *)
LEMMA WalkJourney ==
  ASSUME IInv, Leave \/ LookFurther
  PROVE  QueuesOK' /\ HandsOK' /\ \A d \in Calls : Journey(d)'
<1>1. TypeOK /\ QueuesOK /\ \A d \in Calls : Journey(d)
  BY DEF IInv
<1>2. /\ worker \notin {"check", "drop", "wire", "answer"}
      /\ worker' \notin {"check", "drop", "wire", "answer"}
  BY DEF Leave, LookFurther, Picking, Listens, Goto
<1>3. current = NoCall /\ current' = NoCall
  BY <1>2 DEF IInv, HandsOK, Holding, Leave, LookFurther, Goto
<1>4. /\ queues' = queues /\ prio' = prio /\ pc' = pc /\ result' = result
      /\ done' = done /\ counted' = counted /\ overtaken' = overtaken
  BY DEF Leave, LookFurther, Goto, callVars
<1>5. QueuesOK' /\ \A d \in Calls : Queued(d)' <=> Queued(d)
  BY <1>1, <1>4, QuietQueues
<1>6. HandsOK'
  BY <1>2, <1>3 DEF HandsOK, Holding
<1>7. ASSUME NEW d \in Calls PROVE Journey(d)'
  <2>1. Journey(d) /\ (Queued(d)' <=> Queued(d)) /\ current # d /\ current' # d
    BY <1>1, <1>3, <1>5, BusAssumption
  <2>2. /\ pc'[d] = pc[d] /\ result'[d] = result[d] /\ overtaken'[d] = overtaken[d]
        /\ done'[d] = done[d] /\ counted'[d] = counted[d]
    BY <1>4
  <2>3. QED
    BY <2>1, <2>2, Bystander
<1>8. QED
  BY <1>5, <1>6, <1>7

(* The goroutine works on the job it holds.                                             *)
LEMMA ServeJourney ==
  ASSUME IInv, Serve
  PROVE  QueuesOK' /\ HandsOK' /\ \A d \in Calls : Journey(d)'
<1>1. TypeOK /\ QueuesOK /\ \A d \in Calls : Journey(d)
  BY DEF IInv
<1> USE DEF callVars
<1>2. Holding
  BY DEF Serve, SkipExpired, AnswerDropped, StartRun, FinishRun, Answer, Holding
<1>3. current \in Calls /\ current # NoCall
  BY <1>1, <1>2, Types, BusAssumption DEF IInv, HandsOK
<1>4. queues' = queues /\ prio' = prio /\ pc' = pc /\ result' = result /\ overtaken' = overtaken
  BY DEF Serve, SkipExpired, AnswerDropped, StartRun, FinishRun, Answer, Goto
<1>5. QueuesOK' /\ \A d \in Calls : Queued(d)' <=> Queued(d)
  BY <1>1, <1>4, QuietQueues
<1>6. HandsOK'
  BY <1>3
     DEF Serve, SkipExpired, AnswerDropped, StartRun, FinishRun, Answer, Goto, HandsOK, Holding
<1>7. ASSUME NEW d \in Calls, d # current
      PROVE  done'[d] = done[d] /\ counted'[d] = counted[d] /\ current' # d
  BY <1>1, <1>3, <1>7, Types, BusAssumption
     DEF Serve, SkipExpired, AnswerDropped, StartRun, FinishRun, Answer, Goto
<1>8. Journey(current)
  BY <1>1, <1>3
<1>9. ASSUME NEW d \in Calls, d = current PROVE Journey(d)'
  <2> USE <1>1, <1>3, <1>4, <1>5, <1>8, <1>9, Types, FateFacts, BusAssumption
          DEF Journey, Answers
  <2>1. CASE SkipExpired
    BY <2>1 DEF SkipExpired
  <2>2. CASE AnswerDropped
    BY <2>2 DEF AnswerDropped
  <2>3. CASE StartRun
    BY <2>3 DEF StartRun, Goto
  <2>4. CASE FinishRun
    BY <2>4 DEF FinishRun
  <2>5. CASE Answer
    BY <2>5 DEF Answer
  <2>6. QED
    BY <2>1, <2>2, <2>3, <2>4, <2>5 DEF Serve
<1>10. ASSUME NEW d \in Calls, d # current PROVE Journey(d)'
  <2>1. Journey(d) /\ (Queued(d)' <=> Queued(d)) /\ current # d /\ current' # d
    BY <1>1, <1>5, <1>7, <1>10
  <2>2. /\ pc'[d] = pc[d] /\ result'[d] = result[d] /\ overtaken'[d] = overtaken[d]
        /\ done'[d] = done[d] /\ counted'[d] = counted[d]
    BY <1>4, <1>7, <1>10
  <2>3. QED
    BY <2>1, <2>2, Bystander
<1>11. QED
  BY <1>5, <1>6, <1>9, <1>10

---------------------------------------------------------------------------------------
(* Nobody is overtaken twice                                                            *)

(* A step that leaves the queues, the counts and the goroutine's place alone.           *)
LEMMA QuietTurn ==
  ASSUME NEW d \in Calls, Turn(d), Queued(d)' <=> Queued(d), overtaken'[d] = overtaken[d],
         Queued(d) => prio'[d] = prio[d],
         worker' = worker \/ worker' \notin {"pick2", "pick3"}
  PROVE  Turn(d)'
  BY DEF Turn

LEMMA TakeTurn ==
  ASSUME IInv, Picking, NEW p \in Listens[worker], Take(p), NEW d \in Calls
  PROVE  Turn(d)'
<1> DEFINE h == Head(queues[p])
<1>1. TypeOK /\ QueuesOK /\ Turn(d) /\ p \in Priorities
  BY ListensInRange DEF IInv
<1>2. prio[h] = p /\ Queued(d)' => Queued(d) /\ d # h
  BY <1>1, TakeQueues
<1>3. worker' = "check" /\ prio' = prio /\ overtaken' = Pass(p)
  BY DEF Take, callVars
<1> SUFFICES ASSUME Queued(d)' PROVE Turn(d)'
  BY DEF Turn
<1>4. Queued(d) /\ d # h
  BY <1>1, TakeQueues
<1>5. prio[d] \in Priorities /\ overtaken[d] \in 0..2
  BY <1>1, Types
<1>6. CASE prio[d] < p
  <2>1. overtaken[d] = 0
    BY <1>1, <1>4, <1>5, <1>6
       DEF Turn, Picking, Listens, Priorities, Write, Client, Poll
  <2>2. overtaken'[d] = 1 /\ prio[d] # Poll
    BY <1>1, <1>3, <1>4, <1>6, <2>1 DEF Pass, Priorities, Write, Client, Poll
  <2>3. QED
    BY <1>3, <2>2 DEF Turn
<1>7. CASE ~(prio[d] < p)
  <2>1. overtaken'[d] = overtaken[d]
    BY <1>3, <1>4, <1>7 DEF Pass
  <2>2. QED
    BY <1>1, <1>3, <1>4, <2>1 DEF Turn
<1>8. QED
  BY <1>6, <1>7

LEMMA LookTurn ==
  ASSUME IInv, LookFurther, NEW d \in Calls
  PROVE  Turn(d)'
<1>1. TypeOK /\ Turn(d) /\ prio[d] \in Priorities /\ overtaken[d] \in 0..2
  BY Types DEF IInv
<1>2. queues' = queues /\ prio' = prio /\ overtaken' = overtaken
  BY DEF LookFurther, Goto, callVars
<1>3. Queued(d)' <=> Queued(d)
  BY <1>2 DEF Queued
<1>4. Queued(d) => queues[prio[d]] # <<>>
  BY DEF Queued, Elements
<1>5. CASE worker = "pick1"
  <2>1. worker' = "pick2" /\ Listens[worker] = {Write}
    BY <1>5 DEF LookFurther, Goto, Listens
  <2>2. Queued(d) => prio[d] # Write
    BY <1>4, <2>1 DEF LookFurther
  <2>3. QED
    BY <1>1, <1>2, <1>3, <2>1, <2>2 DEF Turn
<1>6. CASE worker = "pick2"
  <2>1. worker' = "pick3" /\ Listens[worker] = {Write, Client}
    BY <1>6 DEF LookFurther, Goto, Listens
  <2>2. Queued(d) => prio[d] \notin {Write, Client}
    BY <1>4, <2>1 DEF LookFurther
  <2>3. QED
    BY <1>1, <1>2, <1>3, <2>1, <2>2 DEF Turn
<1>7. QED
  BY <1>5, <1>6 DEF LookFurther

LEMMA DoTurn ==
  ASSUME IInv, NEW c \in Calls, Do(c), NEW d \in Calls
  PROVE  Turn(d)'
<1>1. TypeOK /\ QueuesOK /\ Turn(d) /\ Journey(c)
  BY DEF IInv
<1>2. worker' = worker /\ overtaken' = overtaken /\ prio' = prio
  BY DEF Do, Enter, Enqueue, GiveUpEnqueuing, RefuseEnqueuing, TakeAnswer, GiveUpWaiting, Return,
         workerVars
<1>3. CASE Enqueue(c)
  <2>1. ~Queued(c) /\ overtaken[c] = 0
    BY <1>1, <1>3 DEF Enqueue, Journey
  <2>2. Queued(d)' <=> Queued(d) \/ d = c
    BY <1>1, <1>3, <2>1, EnqueueQueues
  <2>3. CASE d = c
    BY <1>2, <2>1, <2>3 DEF Turn
  <2>4. CASE d # c
    BY <1>1, <1>2, <2>2, <2>4, QuietTurn
  <2>5. QED
    BY <2>3, <2>4
<1>4. CASE ~Enqueue(c)
  <2>1. queues' = queues
    BY <1>4 DEF Do, Enter, GiveUpEnqueuing, RefuseEnqueuing, TakeAnswer, GiveUpWaiting, Return
  <2>2. Queued(d)' <=> Queued(d)
    BY <1>2, <2>1 DEF Queued
  <2>3. QED
    BY <1>1, <1>2, <2>2, QuietTurn
<1>5. QED
  BY <1>3, <1>4

LEMMA BeginTurn ==
  ASSUME IInv, NEW c \in Calls, NEW p, NEW forever, Begin(c, p, forever), NEW d \in Calls
  PROVE  Turn(d)'
<1>1. TypeOK /\ QueuesOK /\ Turn(d)
  BY DEF IInv
<1>2. (Queued(d)' <=> Queued(d)) /\ ~Queued(c)
  BY <1>1, BeginQueues DEF Begin
<1>3. worker' = worker /\ overtaken' = [overtaken EXCEPT ![c] = 0]
      /\ prio' = [prio EXCEPT ![c] = Normal(p)]
  BY DEF Begin, workerVars
<1>4. d # c => overtaken'[d] = overtaken[d] /\ prio'[d] = prio[d]
  BY <1>1, <1>3, Types
<1>5. CASE d = c
  BY <1>2, <1>5 DEF Turn
<1>6. CASE d # c
  BY <1>1, <1>2, <1>3, <1>4, <1>6, QuietTurn
<1>7. QED
  BY <1>5, <1>6

---------------------------------------------------------------------------------------
(* The inductive invariant                                                              *)

LEMMA NextIInv == IInv /\ [Next]_vars => IInv'
<1> SUFFICES ASSUME IInv, [Next]_vars PROVE IInv'
  OBVIOUS
<1>1. TypeOK'
  BY NextType DEF IInv
<1>2. TypeOK /\ QueuesOK /\ HandsOK /\ \A d \in Calls : Journey(d) /\ Turn(d)
  BY DEF IInv
<1>3. ASSUME UNCHANGED <<queues, prio, pc, result, done, counted, overtaken,
                         current, worker, outcome>>
      PROVE  IInv'
  <2>1. QueuesOK' /\ \A d \in Calls : Queued(d)' <=> Queued(d)
    BY <1>2, <1>3, QuietQueues
  <2>2. HandsOK'
    BY <1>2, <1>3 DEF HandsOK, Holding
  <2>3. ASSUME NEW d \in Calls PROVE Journey(d)' /\ Turn(d)'
    <3>1. /\ pc'[d] = pc[d] /\ result'[d] = result[d] /\ overtaken'[d] = overtaken[d]
          /\ done'[d] = done[d] /\ counted'[d] = counted[d] /\ prio'[d] = prio[d]
      BY <1>3
    <3>2. Journey(d) /\ Turn(d) /\ (Queued(d)' <=> Queued(d))
      BY <1>2, <2>1
    <3>3. Journey(d)'
      BY <1>3, <3>1, <3>2, Bystander
    <3>4. Turn(d)'
      BY <1>3, <3>1, <3>2, QuietTurn
    <3>5. QED
      BY <3>3, <3>4
  <2>4. QED
    BY <1>1, <2>1, <2>2, <2>3 DEF IInv
<1>4. ASSUME NEW c \in Calls, NEW p \in Asked, NEW forever \in Patience, Begin(c, p, forever)
      PROVE  IInv'
  <2>1. QueuesOK' /\ (\A d \in Calls : Journey(d)') /\ (\A d \in Calls : Turn(d)')
    BY <1>2, <1>4, BeginQueues, BeginJourney, BeginTurn
  <2>2. HandsOK'
    BY <1>2, <1>4 DEF Begin, workerVars, HandsOK, Holding
  <2>3. QED
    BY <1>1, <2>1, <2>2 DEF IInv
<1>5. ASSUME NEW c \in Calls, Expire(c) PROVE IInv'
  BY <1>3, <1>5 DEF Expire, workerVars
<1>6. ASSUME NEW c \in Calls, Do(c) PROVE IInv'
  <2>1. QueuesOK' /\ (\A d \in Calls : Journey(d)') /\ (\A d \in Calls : Turn(d)')
    BY <1>6, DoJourney, DoTurn
  <2>2. current' = current /\ worker' = worker
    BY <1>6 DEF Do, Enter, Enqueue, GiveUpEnqueuing, RefuseEnqueuing, TakeAnswer, GiveUpWaiting,
       Return, workerVars
  <2>3. HandsOK'
    BY <1>2, <2>2 DEF HandsOK, Holding
  <2>4. QED
    BY <1>1, <2>1, <2>3 DEF IInv
<1>7. CASE Close
  BY <1>3, <1>7 DEF Close, callVars, workerVars
<1>8. ASSUME Picking, NEW p \in Listens[worker], Take(p) PROVE IInv'
  <2>1. p \in Priorities
    BY <1>8, ListensInRange
  <2>2. QueuesOK' /\ HandsOK' /\ (\A d \in Calls : Journey(d)') /\ (\A d \in Calls : Turn(d)')
    BY <1>8, <2>1, TakeJourney, TakeTurn
  <2>3. QED
    BY <1>1, <2>2 DEF IInv
<1>9. CASE LookFurther
  <2>1. QueuesOK' /\ HandsOK' /\ (\A d \in Calls : Journey(d)') /\ (\A d \in Calls : Turn(d)')
    BY <1>9, WalkJourney, LookTurn
  <2>2. QED
    BY <1>1, <2>1 DEF IInv
<1>10. ASSUME Leave \/ Serve PROVE IInv'
  <2>1. QueuesOK' /\ HandsOK' /\ (\A d \in Calls : Journey(d)')
    BY <1>10, WalkJourney, ServeJourney
  <2>2. /\ queues' = queues /\ prio' = prio /\ overtaken' = overtaken
        /\ worker' \notin {"pick2", "pick3"}
    BY <1>10 DEF Leave, Serve, SkipExpired, AnswerDropped, StartRun, FinishRun, Answer, Goto,
       callVars
  <2>3. ASSUME NEW d \in Calls PROVE Turn(d)'
    <3>1. Queued(d)' <=> Queued(d)
      BY <2>2 DEF Queued
    <3>2. QED
      BY <1>2, <2>2, <3>1, QuietTurn
  <2>4. QED
    BY <1>1, <2>1, <2>3 DEF IInv
<1>11. CASE UNCHANGED vars
  BY <1>3, <1>11 DEF vars, callVars, workerVars
<1>12. QED
  BY <1>4, <1>5, <1>6, <1>7, <1>8, <1>9, <1>10, <1>11 DEF Next, Loop, TakeJob

LEMMA Invariance == Spec => []IInv
  BY InitIInv, NextIInv, PTL DEF Spec

---------------------------------------------------------------------------------------
(* The safety invariants                                                                *)

(* No queue outgrows its depth and no job is in two places (bus.go:163-169, 227-232).   *)
THEOREM JobsInOnePlace == Spec => []JobInOnePlace
<1>1. IInv => JobInOnePlace
  <2> SUFFICES ASSUME IInv PROVE JobInOnePlace
    OBVIOUS
  <2>1. ASSUME NEW p \in Priorities
        PROVE  /\ Len(queues[p]) <= Depth
               /\ \A i, j \in 1..Len(queues[p]) : queues[p][i] = queues[p][j] => i = j
               /\ \A i \in 1..Len(queues[p]) : prio[queues[p][i]] = p
    BY DEF IInv, QueuesOK, Distinct, Elements
  <2>2. Holding => ~Queued(current)
    BY Types DEF IInv, HandsOK, Journey
  <2>3. QED
    BY <2>1, <2>2 DEF IInv, HandsOK, JobInOnePlace
<1>2. QED
  BY <1>1, Invariance, PTL

(* The goroutine never waits for a caller that has left (bus.go:227, 311, 317).         *)
THEOREM NeverBlocks == Spec => []AnswerNeverBlocks
<1>1. IInv => AnswerNeverBlocks
  BY Types DEF IInv, HandsOK, Holding, Journey, AnswerNeverBlocks
<1>2. QED
  BY <1>1, Invariance, PTL

(* Stats show a request before its caller hears of it, as what it was (bus.go:310-317). *)
THEOREM AnswersCounted == Spec => []AnswersAreCounted
<1>1. IInv => AnswersAreCounted
  <2> SUFFICES ASSUME IInv, NEW c \in Calls, NEW a \in Answers, a \in {done[c], result[c]}
               PROVE  FateOf(counted[c]) = a /\ counted[c] \in Counts
    BY FateFacts DEF AnswersAreCounted, Answers, Counts
  <2>1. QED
    BY Types DEF IInv, Journey, Answers
<1>2. QED
  BY <1>1, Invariance, PTL

(* A queued job sees at most one job of lower priority go first (bus.go:271-302).       *)
THEOREM NoSecondOvertaking == Spec => []OvertakenOnce
<1>1. IInv => OvertakenOnce
  BY DEF IInv, Turn, OvertakenOnce
<1>2. QED
  BY <1>1, Invariance, PTL

(* A caller told ErrClosed has not touched the unit and will not (bus.go:232-245).      *)
THEOREM ClosedNeverRuns == Spec => []ClosedMeansNotRun
<1>1. IInv => ClosedMeansNotRun
  BY DEF IInv, Journey, ClosedMeansNotRun
<1>2. QED
  BY <1>1, Invariance, PTL

(* Nobody counts a call that has been counted (bus.go:241, 310, 316).                   *)
THEOREM NeverCountedTwice == Spec => CountedOnce
<1>1. IInv /\ [Next]_vars =>
        [\A c \in Calls : counted'[c] # counted[c] => counted[c] = "no" \/ pc'[c] = "enter"]_vars
  <2> SUFFICES ASSUME IInv, Next, NEW c \in Calls, counted'[c] # counted[c]
               PROVE  counted[c] = "no" \/ pc'[c] = "enter"
    BY DEF vars
  <2>1. TypeOK /\ Journey(c)
    BY DEF IInv
  <2>2. ASSUME NEW d \in Calls, NEW p \in Asked, NEW forever \in Patience, Begin(d, p, forever)
        PROVE  pc'[c] = "enter"
    <3>1. d = c
      BY <2>1, <2>2, Types DEF Begin
    <3>2. QED
      BY <2>1, <2>2, <3>1, Types DEF Begin
  <2>3. ASSUME NEW d \in Calls, Do(d) PROVE counted[c] = "no"
    <3>1. GiveUpEnqueuing(d)
      BY <2>3 DEF Do, Enter, Enqueue, RefuseEnqueuing, TakeAnswer, GiveUpWaiting
    <3>2. d = c
      BY <2>1, <3>1, Types DEF GiveUpEnqueuing
    <3>3. QED
      BY <2>1, <3>1, <3>2 DEF GiveUpEnqueuing, Journey
  <2>4. ASSUME SkipExpired \/ FinishRun PROVE counted[c] = "no"
    <3>1. current = c /\ worker \in {"check", "wire"}
      BY <2>1, <2>4, Types DEF SkipExpired, FinishRun
    <3>2. QED
      BY <2>1, <3>1 DEF Journey
  <2>5. ~(\E d \in Calls : Expire(d)) /\ ~Close /\ ~TakeJob /\ ~Leave /\ ~LookFurther
        /\ ~AnswerDropped /\ ~StartRun /\ ~Answer
    BY DEF Expire, Close, TakeJob, Take, Leave, LookFurther, AnswerDropped, StartRun, Answer, Goto
  <2>6. QED
    BY <2>2, <2>3, <2>4, <2>5 DEF Next, Loop, Serve
<1>2. QED
  BY <1>1, Invariance, PTL DEF Spec, CountedOnce

(* What the bus says of a lost port is true and said once (bus.go:319-355).             *)
THEOREM FaultsToldOnce == Spec => []JournalTellsOnce
<1>1. Init => JournalTellsOnce
  BY DEF Init, JournalTellsOnce
<1>2. TypeOK /\ JournalTellsOnce /\ [Next]_vars => JournalTellsOnce'
  <2> SUFFICES ASSUME TypeOK, JournalTellsOnce, [Next]_vars PROVE JournalTellsOnce'
    OBVIOUS
  <2>1. ASSUME UNCHANGED <<reopens, reopenFailed, journal>> PROVE JournalTellsOnce'
    BY <2>1 DEF JournalTellsOnce
  <2>2. reopens \in 0..2 /\ reopenFailed \in BOOLEAN /\ journal \in Lines \X Lines
    BY Types
  <2>3. ASSUME NEW line, Log(line) PROVE journal'[1] = journal[2] /\ journal'[2] = line
    BY <2>3 DEF Log
  <2>4. CASE Answer /\ NoteSuccess
    <3>1. ~(reopens' > 0)
      BY <2>4 DEF NoteSuccess
    <3>2. ~reopenFailed'
      BY <2>4, Zenon DEF NoteSuccess
    <3>3. CASE reopens > 0
      <4>1. journal'[1] = journal[2] /\ journal'[2] = "answering"
        BY <2>3, <2>4, <3>3 DEF NoteSuccess
      <4>2. journal[2] \in {"no port", "reopened"}
        BY <3>3, Zenon DEF JournalTellsOnce
      <4>3. QED
        BY <3>1, <3>2, <4>1, <4>2 DEF JournalTellsOnce
    <3>4. CASE ~(reopens > 0)
      <4>1. journal' = journal
        BY <2>4, <3>4, Zenon DEF NoteSuccess
      <4>2. journal[2] \notin {"no port", "reopened"}
        BY <3>4, Zenon DEF JournalTellsOnce
      <4>3. QED
        BY <3>1, <3>2, <4>1, <4>2 DEF JournalTellsOnce
    <3>5. QED
      BY <3>3, <3>4
  <2>5. CASE Answer /\ NoteFailure
    BY <2>1, <2>5 DEF NoteFailure
  <2>6. CASE Answer /\ Reopen
    <3>1. reopens' = IF reopens < 2 THEN reopens + 1 ELSE 2
      BY <2>6, Zenon DEF Reopen
    <3>2. reopens' > 0 /\ (reopens' = 1 => ~(reopens > 0))
      BY <2>2, <3>1
    <3>3. ASSUME NEW line \in {"no port", "reopened"}, Log(line), journal[2] # line,
                 reopenFailed' <=> line = "no port"
          PROVE  JournalTellsOnce'
      <4>1. journal'[1] = journal[2] /\ journal'[2] = line
        BY <2>3, <3>3
      <4>2. QED
        BY <3>2, <3>3, <4>1 DEF JournalTellsOnce
    <3>4. ASSUME reopens > 0, UNCHANGED <<journal, reopenFailed>> PROVE JournalTellsOnce'
      BY <3>2, <3>4 DEF JournalTellsOnce
    <3>5. CASE /\ IF reopenFailed THEN UNCHANGED journal ELSE Log("no port")
               /\ reopenFailed' = TRUE
      <4>1. CASE reopenFailed
        <5>1. journal' = journal /\ journal[2] = "no port" /\ reopenFailed'
          BY <3>5, <4>1, Zenon DEF JournalTellsOnce
        <5>2. QED
          BY <3>2, <5>1 DEF JournalTellsOnce
      <4>2. CASE ~reopenFailed
        <5>1. Log("no port") /\ journal[2] # "no port" /\ reopenFailed'
          BY <3>5, <4>2, Zenon DEF JournalTellsOnce
        <5>2. QED
          BY <3>3, <5>1
      <4>3. QED
        BY <4>1, <4>2
    <3>6. CASE IF reopenFailed \/ reopens' = 1
               THEN Log("reopened") /\ reopenFailed' = FALSE
               ELSE UNCHANGED <<journal, reopenFailed>>
      <4>1. CASE reopenFailed \/ reopens' = 1
        <5>1. Log("reopened") /\ ~reopenFailed'
          BY <3>6, <4>1, Zenon
        <5>2. journal[2] # "reopened"
          BY <3>2, <4>1 DEF JournalTellsOnce
        <5>3. QED
          BY <3>3, <5>1, <5>2
      <4>2. CASE ~(reopenFailed \/ reopens' = 1)
        <5>1. UNCHANGED <<journal, reopenFailed>>
          BY <3>6, <4>2, Zenon
        <5>2. reopens > 0
          BY <2>2, <3>1, <4>2
        <5>3. QED
          BY <3>4, <5>1, <5>2
      <4>3. QED
        BY <4>1, <4>2
    <3>7. QED
      BY <2>6, <3>5, <3>6, Zenon DEF Reopen
  <2>7. ASSUME ~Answer PROVE UNCHANGED <<reopens, reopenFailed, journal>>
    BY <2>7 DEF Next, vars, Begin, Expire, Do, Enter, Enqueue, GiveUpEnqueuing, RefuseEnqueuing,
       TakeAnswer, GiveUpWaiting, Return, Close, Loop, TakeJob, Take, Leave, LookFurther, Goto,
       Serve, SkipExpired, AnswerDropped, StartRun, FinishRun, portVars
  <2>8. QED
    BY <2>1, <2>4, <2>5, <2>6, <2>7 DEF Answer
<1>3. QED
  BY <1>1, <1>2, TypeCorrect, PTL DEF Spec

---------------------------------------------------------------------------------------
(* The bus implements BusService                                                        *)

Inside == {c \in Calls : pc[c] \in {"enter", "enqueue", "waiting"}}
Fate   == [c \in Calls |-> FateOf(counted[c])]

(* A count that changes for one call changes the fate of that call.                     *)
LEMMA FateChange ==
  ASSUME TypeOK, NEW c \in Calls, NEW n, counted' = [counted EXCEPT ![c] = n]
  PROVE  Fate' = [Fate EXCEPT ![c] = FateOf(n)]
<1>1. \A d \in Calls : counted'[d] = IF d = c THEN n ELSE counted[d]
  BY Types
<1>2. \A d \in Calls : Fate'[d] = IF d = c THEN FateOf(n) ELSE Fate[d]
  BY <1>1 DEF Fate
<1>3. QED
  BY <1>2 DEF Fate

(* A call that returns is inside no more.                                               *)
LEMMA Returns ==
  ASSUME TypeOK, NEW c \in Calls, NEW r, Return(c, r), pc[c] \in {"enter", "enqueue", "waiting"}
  PROVE  /\ c \in Inside /\ Inside' = Inside \ {c}
         /\ result' = [result EXCEPT ![c] = r]
<1>1. pc' = [pc EXCEPT ![c] = "returned"] /\ result' = [result EXCEPT ![c] = r]
  BY DEF Return
<1>2. \A d \in Calls : pc'[d] = IF d = c THEN "returned" ELSE pc[d]
  BY <1>1, Types
<1>3. QED
  BY <1>1, <1>2 DEF Inside

LEMMA ServiceInit == Init => Service!Init
  BY FateFacts DEF Init, Service!Init

(* Every step of the bus is a step of the service, or nothing to it.                    *)
LEMMA ServiceStep == IInv /\ [Next]_vars => [Service!Next]_(Service!vars)
<1> SUFFICES ASSUME IInv, [Next]_vars
             PROVE  Service!Next \/ (Inside' = Inside /\ Fate' = Fate /\ result' = result)
  BY DEF Service!vars, Inside, Fate
<1>1. TypeOK /\ \A d \in Calls : Journey(d)
  BY DEF IInv
<1>2. ASSUME UNCHANGED <<pc, result, counted>>
      PROVE  Inside' = Inside /\ Fate' = Fate /\ result' = result
  BY <1>2 DEF Inside, Fate
<1>3. ASSUME NEW c \in Calls, NEW p \in Asked, NEW forever \in Patience, Begin(c, p, forever)
      PROVE  Service!Next
  <2>1. /\ c \notin Inside /\ pc' = [pc EXCEPT ![c] = "enter"]
        /\ result' = [result EXCEPT ![c] = "none"] /\ counted' = [counted EXCEPT ![c] = "no"]
    BY <1>3 DEF Begin, Inside
  <2>2. \A d \in Calls : pc'[d] = IF d = c THEN "enter" ELSE pc[d]
    BY <1>1, <2>1, Types
  <2>3. Inside' = Inside \cup {c}
    BY <2>2 DEF Inside
  <2>4. Fate' = [Fate EXCEPT ![c] = "none"]
    BY <1>1, <2>1, FateChange, FateFacts
  <2>5. Service!Call(c)
    BY <2>1, <2>3, <2>4 DEF Service!Call, Inside, Fate
  <2>6. QED
    BY <2>5 DEF Service!Next
<1>4. ASSUME NEW c \in Calls, Do(c)
      PROVE  Service!Next \/ (Inside' = Inside /\ Fate' = Fate /\ result' = result)
  <2>1. Journey(c)
    BY <1>1
  <2>2. Fate[c] = FateOf(counted[c])
    BY DEF Fate
  <2>3. ASSUME pc[c] = "enter" \/ pc[c] = "enqueue", Return(c, "closed"), counted' = counted
        PROVE  Service!Next
    <3>1. c \in Inside /\ Inside' = Inside \ {c} /\ result' = [result EXCEPT ![c] = "closed"]
      BY <1>1, <2>3, Returns
    <3>2. Fate[c] = "none" /\ Fate' = Fate
      BY <2>1, <2>2, <2>3, FateFacts DEF Journey, Fate
    <3>3. Service!TurnAway(c)
      BY <3>1, <3>2 DEF Service!TurnAway, Service!Leave, Inside, Fate
    <3>4. QED
      BY <3>3 DEF Service!Next
  <2>4. ASSUME ~closed, Enter(c) PROVE Inside' = Inside /\ Fate' = Fate /\ result' = result
    <3>1. \A d \in Calls : pc'[d] = IF d = c THEN "enqueue" ELSE pc[d]
      BY <1>1, <2>4, Types DEF Enter
    <3>2. pc[c] = "enter" /\ result' = result /\ counted' = counted
      BY <2>4 DEF Enter
    <3>3. QED
      BY <3>1, <3>2 DEF Inside, Fate
  <2>5. CASE Enqueue(c)
    <3>1. \A d \in Calls : pc'[d] = IF d = c THEN "waiting" ELSE pc[d]
      BY <1>1, <2>5, Types DEF Enqueue
    <3>2. pc[c] = "enqueue" /\ result' = result /\ counted' = counted
      BY <2>5 DEF Enqueue
    <3>3. QED
      BY <3>1, <3>2 DEF Inside, Fate
  <2>6. CASE GiveUpEnqueuing(c)
    <3>1. c \in Inside /\ Inside' = Inside \ {c} /\ result' = [result EXCEPT ![c] = "ctx"]
      BY <1>1, <2>6, Returns DEF GiveUpEnqueuing
    <3>2. Fate[c] = "none" /\ Fate' = [Fate EXCEPT ![c] = "dropped"]
      <4>1. counted[c] = "no" /\ counted' = [counted EXCEPT ![c] = "dropped"]
        BY <2>1, <2>6 DEF GiveUpEnqueuing, Journey
      <4>2. Fate' = [Fate EXCEPT ![c] = FateOf("dropped")]
        BY <1>1, <4>1, FateChange
      <4>3. QED
        BY <2>2, <4>1, <4>2, FateFacts
    <3>3. Service!GiveUp(c)
      BY <3>1, <3>2 DEF Service!GiveUp, Service!Leave, Inside, Fate
    <3>4. QED
      BY <3>3 DEF Service!Next
  <2>7. CASE TakeAnswer(c)
    <3>1. /\ c \in Inside /\ Inside' = Inside \ {c}
          /\ result' = [result EXCEPT ![c] = done[c]]
      BY <1>1, <2>7, Returns DEF TakeAnswer
    <3>2. Fate[c] = done[c] /\ Fate[c] # "none" /\ Fate' = Fate
      BY <2>1, <2>2, <2>7 DEF TakeAnswer, Journey, Fate
    <3>3. Service!TakeAnswer(c)
      BY <3>1, <3>2 DEF Service!TakeAnswer, Service!Leave, Inside, Fate
    <3>4. QED
      BY <3>3 DEF Service!Next
  <2>8. CASE GiveUpWaiting(c)
    <3>1. c \in Inside /\ Inside' = Inside \ {c} /\ result' = [result EXCEPT ![c] = "ctx"]
      BY <1>1, <2>8, Returns DEF GiveUpWaiting
    <3>2. Fate' = Fate
      BY <2>8 DEF GiveUpWaiting, Fate
    <3>3. Service!GiveUp(c)
      BY <3>1, <3>2 DEF Service!GiveUp, Service!Leave, Inside, Fate
    <3>4. QED
      BY <3>3 DEF Service!Next
  <2>9. QED
    BY <1>4, <2>3, <2>4, <2>5, <2>6, <2>7, <2>8 DEF Do, Enter, RefuseEnqueuing
<1>5. ASSUME NEW n, NEW f \in {"ok", "failed", "dropped"}, worker \in {"check", "wire"},
             FateOf(n) = f, counted' = [counted EXCEPT ![current] = n], UNCHANGED <<pc, result>>
      PROVE  Service!Next
  <2>1. current \in Calls
    BY <1>1, <1>5, Types DEF IInv, HandsOK, Holding
  <2>2. counted[current] = "no" /\ result[current] \in {"none", "ctx"}
    BY <1>1, <1>5, <2>1 DEF Journey
  <2>3. Fate[current] = "none" /\ Fate' = [Fate EXCEPT ![current] = f]
    BY <1>1, <1>5, <2>1, <2>2, FateChange, FateFacts DEF Fate
  <2>4. Inside' = Inside /\ result' = result
    BY <1>5 DEF Inside
  <2>5. Service!Decide(current, f)
    BY <2>2, <2>3, <2>4 DEF Service!Decide, Inside, Fate
  <2>6. QED
    BY <2>1, <2>5 DEF Service!Next, Service!Fates
<1>6. CASE SkipExpired
  BY <1>5, <1>6, FateFacts DEF SkipExpired, callVars
<1>7. ASSUME FinishRun PROVE Service!Next
  <2>1. PICK o \in {"ok", "failed"} :
          counted' = [counted EXCEPT ![current] = IF o = "ok" THEN "request" ELSE "failure"]
    BY <1>7 DEF FinishRun
  <2>2. FateOf(IF o = "ok" THEN "request" ELSE "failure") = o
    BY FateFacts
  <2>3. worker = "wire" /\ UNCHANGED <<pc, result>>
    BY <1>7 DEF FinishRun, callVars
  <2>4. QED
    BY <1>5, <2>1, <2>2, <2>3
<1>8. ASSUME \/ \E c \in Calls : Expire(c)
             \/ Close \/ TakeJob \/ Leave \/ LookFurther \/ AnswerDropped \/ StartRun \/ Answer
             \/ UNCHANGED vars
      PROVE  UNCHANGED <<pc, result, counted>>
  BY <1>8 DEF Expire, Close, TakeJob, Take, Leave, LookFurther, AnswerDropped, StartRun, Answer,
     Goto, callVars, vars
<1>9. QED
  BY <1>2, <1>3, <1>4, <1>6, <1>7, <1>8 DEF Next, Loop, Serve

(* A caller's function meets its fate at most once, and what Do returns tells it        *)
(* (bus.go:205-256): the bus implements the service it promises.                        *)
THEOREM ImplementsService == Spec => KeepsItsPromise
<1>1. Spec => Service!Init /\ [][Service!Next]_(Service!vars)
  BY ServiceInit, ServiceStep, Invariance, PTL DEF Spec
<1>2. QED
  BY <1>1, PTL DEF KeepsItsPromise, Service!Spec

(* All of it together, which is what the run of the bus checks (bus.go:116-214): a job  *)
(* is in one place, no answer blocks, no priority is passed twice, the books and the    *)
(* journal are true, and ErrClosed means that nothing has run.                          *)
THEOREM BusIsSafe == Spec => []BusSafe
BY TypeCorrect, JobsInOnePlace, NeverBlocks, AnswersCounted, NoSecondOvertaking, ClosedNeverRuns,
   FaultsToldOnce, PTL DEF BusSafe

=======================================================================================

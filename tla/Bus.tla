------------------------------------ MODULE Bus ------------------------------------
(***********************************************************************************)
(* The serial bus of the daemon (internal/bus/bus.go): every caller goes through   *)
(* Do, which puts a job on one of three bounded queues; one goroutine takes the    *)
(* jobs in priority order, runs them on the wire and answers on the job's own      *)
(* one-place channel.  A caller may give up at any time, and the bus may be closed *)
(* at any time.                                                                    *)
(*                                                                                 *)
(* A member of Calls stands for one invocation of Do together with its job.  It is *)
(* used again once the caller has returned and the job has left the bus, so a few  *)
(* members stand for any number of calls one after the other.                      *)
(***********************************************************************************)
EXTENDS Integers, Sequences, FiniteSets

CONSTANTS Calls,        \* invocations of Do that may be in progress at once
          NoCall,       \* the goroutine holds no job
          Depth,        \* Options.Depth: places in each queue
          ReopenAfter,  \* failures in a row that make the bus reopen the port
          HasReopen,    \* Options.Reopen was given
          Asked,        \* the priorities callers ask for
          Patience      \* TRUE: some calls have no deadline; FALSE: some have one

ASSUME BusAssumption ==
    /\ Patience \subseteq BOOLEAN
    /\ NoCall \notin Calls
    /\ Depth \in Nat \ {0}
    /\ ReopenAfter \in Nat \ {0}
    /\ HasReopen \in BOOLEAN

Write  == 0
Client == 1
Poll   == 2
Priorities == {Write, Client, Poll}

(* Do's argument is an int; anything out of range is served as a client.           *)
Normal(p) == IF p \in Priorities THEN p ELSE Client

VARIABLES
    pc,           \* where each call is in Do
    prio,         \* job.priority
    patient,      \* the call's context can never be done (context.Background)
    expired,      \* the calls whose context is done
    result,       \* what Do returned
    queues,       \* Bus.queues
    done,         \* job.done, a channel with room for one answer
    counted,      \* how record counted the call in Stats
    closed,       \* Bus.closed
    worker,       \* where the bus goroutine is
    current,      \* the job it holds
    outcome,      \* what run returned
    consecutive,  \* Bus.consecutive
    reopens,      \* Bus.reopens, exact up to 1 and 2 for "two or more"
    reopenFailed, \* Bus.reopenFailed
    journal,      \* the last two lines the bus logged, the older first
    overtaken     \* jobs of lower priority taken while the call was queued, up to 2

callVars   == <<pc, prio, patient, expired, result>>
portVars   == <<consecutive, reopens, reopenFailed, journal>>
workerVars == <<worker, current, outcome>>
vars == <<callVars, queues, done, counted, closed, workerVars, portVars, overtaken>>

Phases   == {"idle", "enter", "enqueue", "waiting", "returned"}
Answers  == {"ok", "failed", "dropped"}
Results  == Answers \cup {"none", "ctx", "closed"}
Counts   == {"no", "request", "failure", "dropped"}
Places   == {"pick1", "pick2", "pick3", "check", "drop", "wire", "answer", "exited"}
Lines    == {"none", "no port", "reopened", "answering"}

Elements(s) == {s[i] : i \in 1..Len(s)}
Queued(c)   == c \in Elements(queues[prio[c]])
Holding     == worker \in {"check", "drop", "wire", "answer"}

Init ==
    /\ pc = [c \in Calls |-> "idle"]
    /\ prio = [c \in Calls |-> Poll]
    /\ patient = [c \in Calls |-> TRUE]
    /\ expired = {}
    /\ result = [c \in Calls |-> "none"]
    /\ queues = [p \in Priorities |-> <<>>]
    /\ done = [c \in Calls |-> "none"]
    /\ counted = [c \in Calls |-> "no"]
    /\ closed = FALSE
    /\ worker = "pick1" /\ current = NoCall /\ outcome = "ok"
    /\ consecutive = 0 /\ reopens = 0 /\ reopenFailed = FALSE
    /\ journal = <<"none", "none">>
    /\ overtaken = [c \in Calls |-> 0]

-------------------------------------------------------------------------------------
(* Do, on the caller's goroutine                                                    *)

(* A caller creates a job.  The identity is free again: the last call returned and  *)
(* nothing on the bus refers to its job any more.                                   *)
Begin(c, p, forever) ==
    /\ pc[c] \in {"idle", "returned"}
    /\ ~Queued(c) /\ current # c
    /\ pc' = [pc EXCEPT ![c] = "enter"]
    /\ prio' = [prio EXCEPT ![c] = Normal(p)]
    /\ patient' = [patient EXCEPT ![c] = forever]
    /\ expired' = expired \ {c}
    /\ result' = [result EXCEPT ![c] = "none"]
    /\ done' = [done EXCEPT ![c] = "none"]
    /\ counted' = [counted EXCEPT ![c] = "no"]
    /\ overtaken' = [overtaken EXCEPT ![c] = 0]
    /\ UNCHANGED <<queues, closed, workerVars, portVars>>

(* The caller's context is done: its deadline passed or its request went away.      *)
Expire(c) ==
    /\ pc[c] \in {"enter", "enqueue", "waiting"}
    /\ ~patient[c] /\ c \notin expired
    /\ expired' = expired \cup {c}
    /\ UNCHANGED <<pc, prio, patient, result, queues, done, counted, closed,
                   workerVars, portVars, overtaken>>

Return(c, r) ==
    /\ pc' = [pc EXCEPT ![c] = "returned"]
    /\ result' = [result EXCEPT ![c] = r]
    /\ UNCHANGED <<prio, patient, expired, queues, closed, workerVars, portVars, overtaken>>

(* The first select: closed, or on to the queue.                                    *)
Enter(c) ==
    /\ pc[c] = "enter"
    /\ IF closed
       THEN Return(c, "closed") /\ UNCHANGED <<done, counted>>
       ELSE /\ pc' = [pc EXCEPT ![c] = "enqueue"]
            /\ UNCHANGED <<prio, patient, expired, result, queues, done, counted, closed,
                           workerVars, portVars, overtaken>>

(* The second select.  With several cases ready Go takes any of them.               *)
Enqueue(c) ==
    /\ pc[c] = "enqueue"
    /\ Len(queues[prio[c]]) < Depth
    /\ queues' = [queues EXCEPT ![prio[c]] = Append(@, c)]
    /\ pc' = [pc EXCEPT ![c] = "waiting"]
    /\ UNCHANGED <<prio, patient, expired, result, done, counted, closed,
                   workerVars, portVars, overtaken>>

GiveUpEnqueuing(c) ==
    /\ pc[c] = "enqueue" /\ c \in expired
    /\ counted' = [counted EXCEPT ![c] = "dropped"]
    /\ Return(c, "ctx")
    /\ UNCHANGED done

RefuseEnqueuing(c) ==
    /\ pc[c] = "enqueue" /\ closed
    /\ Return(c, "closed")
    /\ UNCHANGED <<done, counted>>

(* Mutant: Do forgets the error it was handed.                                      *)
TakeAnyAnswer(c) ==
    /\ pc[c] = "waiting" /\ done[c] # "none"
    /\ done' = [done EXCEPT ![c] = "none"]
    /\ Return(c, "ok")
    /\ UNCHANGED counted

(* The third select: an answer, or the caller gives up.  It has no case for closed. *)
TakeAnswer(c) ==
    /\ pc[c] = "waiting" /\ done[c] # "none"
    /\ done' = [done EXCEPT ![c] = "none"]
    /\ Return(c, done[c])
    /\ UNCHANGED counted

(* Mutant: the caller counts its job as well.                                       *)
GiveUpAndCount(c) ==
    /\ pc[c] = "waiting" /\ c \in expired
    /\ counted' = [counted EXCEPT ![c] = "dropped"]
    /\ Return(c, "ctx")
    /\ UNCHANGED done

GiveUpWaiting(c) ==
    /\ pc[c] = "waiting" /\ c \in expired
    /\ Return(c, "ctx")
    /\ UNCHANGED <<done, counted>>

(* Close, as far as it does not block: the rest of it waits for worker = "exited".  *)
Close ==
    /\ ~closed
    /\ closed' = TRUE
    /\ UNCHANGED <<callVars, queues, done, counted, workerVars, portVars, overtaken>>

-------------------------------------------------------------------------------------
(* loop and next, on the bus goroutine                                              *)

(* Taking a job of priority p passes every queued job that should go before it.     *)
Pass(p) ==
    [c \in Calls |-> IF c = Head(queues[p]) THEN 0
                     ELSE IF prio[c] < p /\ Queued(c) /\ overtaken[c] < 2
                     THEN overtaken[c] + 1 ELSE overtaken[c]]

(* One ready receive case of a select: the head of queue p becomes the current job. *)
Take(p) ==
    /\ queues[p] # <<>>
    /\ current' = Head(queues[p])
    /\ queues' = [queues EXCEPT ![p] = Tail(@)]
    /\ worker' = "check"
    /\ overtaken' = Pass(p)
    /\ UNCHANGED <<callVars, done, counted, closed, outcome, portVars>>

Goto(place) ==
    /\ worker' = place
    /\ UNCHANGED <<callVars, queues, done, counted, closed, current, outcome,
                   portVars, overtaken>>

(* Mutants: one select for everything, and the priorities upside down.              *)
ListensAlike     == [pick1 |-> Priorities, pick2 |-> Priorities, pick3 |-> Priorities]
ListensPollFirst == [pick1 |-> {Poll}, pick2 |-> {Poll, Client}, pick3 |-> Priorities]

(* The queues each of the three selects of next listens to.                         *)
Listens == [pick1 |-> {Write}, pick2 |-> {Write, Client}, pick3 |-> Priorities]
Picking == worker \in DOMAIN Listens

TakeJob == Picking /\ \E p \in Listens[worker] : Take(p)

(* Mutant: loop goes on when next returns nil.                                      *)
LeaveNever == Picking /\ closed /\ Goto("pick1")

(* The closed case: next returns nil and loop ends.                                 *)
Leave == Picking /\ closed /\ Goto("exited")

(* The default case of the first two selects, when nothing is ready.                *)
LookFurther ==
    /\ worker \in {"pick1", "pick2"} /\ ~closed
    /\ \A p \in Listens[worker] : queues[p] = <<>>
    /\ Goto(IF worker = "pick1" THEN "pick2" ELSE "pick3")

-------------------------------------------------------------------------------------
(* serve, on the bus goroutine                                                      *)

(* A caller that has given up gets no bus time.                                     *)
SkipExpired ==
    /\ worker = "check" /\ current \in expired
    /\ counted' = [counted EXCEPT ![current] = "dropped"]
    /\ worker' = "drop"
    /\ UNCHANGED <<callVars, queues, done, closed, current, outcome, portVars, overtaken>>

AnswerDropped ==
    /\ worker = "drop" /\ done[current] = "none"
    /\ done' = [done EXCEPT ![current] = "dropped"]
    /\ worker' = "pick1" /\ current' = NoCall
    /\ UNCHANGED <<callVars, queues, counted, closed, outcome, portVars, overtaken>>

StartRun == worker = "check" /\ current \notin expired /\ Goto("wire")

(* run returns; record counts the request before anybody is answered.               *)
FinishRun ==
    /\ worker = "wire"
    /\ \E o \in {"ok", "failed"} :
         /\ outcome' = o
         /\ counted' = [counted EXCEPT ![current] = IF o = "ok" THEN "request" ELSE "failure"]
    /\ worker' = "answer"
    /\ UNCHANGED <<callVars, queues, done, closed, current, portVars, overtaken>>

Log(line) == journal' = <<journal[2], line>>

(* What serve does after a success: forget the fault, and say so if it was said.    *)
NoteSuccess ==
    /\ consecutive' = 0 /\ reopens' = 0 /\ reopenFailed' = FALSE
    /\ IF reopens > 0 THEN Log("answering") ELSE UNCHANGED journal

(* A failure that does not complete a run of ReopenAfter.                           *)
NoteFailure ==
    /\ ~(HasReopen /\ consecutive + 1 >= ReopenAfter)
    /\ consecutive' = IF HasReopen THEN consecutive + 1 ELSE 0  \* read with a reopen only
    /\ UNCHANGED <<reopens, reopenFailed, journal>>

(* The run is complete: the port is reopened, or the attempt fails.                 *)
Reopen ==
    /\ HasReopen /\ consecutive + 1 >= ReopenAfter
    /\ consecutive' = 0
    /\ reopens' = IF reopens < 2 THEN reopens + 1 ELSE 2
    /\ \/ /\ IF reopenFailed THEN UNCHANGED journal ELSE Log("no port")
          /\ reopenFailed' = TRUE
       \/ IF reopenFailed \/ reopens' = 1
          THEN Log("reopened") /\ reopenFailed' = FALSE
          ELSE UNCHANGED <<journal, reopenFailed>>

(* The answer goes to the job's channel; a full channel would block the goroutine.  *)
Answer ==
    /\ worker = "answer" /\ done[current] = "none"
    /\ done' = [done EXCEPT ![current] = outcome]
    /\ IF outcome = "ok" THEN NoteSuccess ELSE NoteFailure \/ Reopen
    /\ worker' = "pick1" /\ current' = NoCall /\ outcome' = "ok"
    /\ UNCHANGED <<callVars, queues, counted, closed, overtaken>>

-------------------------------------------------------------------------------------
Do(c) ==
    \/ Enter(c) \/ Enqueue(c) \/ GiveUpEnqueuing(c) \/ RefuseEnqueuing(c)
    \/ TakeAnswer(c) \/ GiveUpWaiting(c)

Serve == SkipExpired \/ AnswerDropped \/ StartRun \/ FinishRun \/ Answer

Loop == TakeJob \/ Leave \/ LookFurther \/ Serve

Next ==
    \/ \E c \in Calls, p \in Asked, forever \in Patience : Begin(c, p, forever)
    \/ \E c \in Calls : Expire(c) \/ Do(c)
    \/ Close
    \/ Loop

Spec == Init /\ [][Next]_vars

(* What the schedulers guarantee.  A goroutine that can move moves; a sender blocked *)
(* on a full channel is resumed in arrival order, so an Enqueue that is possible     *)
(* again and again happens; a deadline passes; an exchange on the wire has a timeout *)
(* of its own, so run returns.  Nothing is assumed of who calls or of Close.         *)
Fairness ==
    /\ \A c \in Calls : WF_vars(Do(c)) /\ SF_vars(Enqueue(c)) /\ WF_vars(Expire(c))
    /\ WF_vars(Loop)

FairSpec == Spec /\ Fairness

-------------------------------------------------------------------------------------
TypeOK ==
    /\ pc \in [Calls -> Phases]
    /\ prio \in [Calls -> Priorities]
    /\ patient \in [Calls -> BOOLEAN]
    /\ expired \in SUBSET Calls
    /\ result \in [Calls -> Results]
    /\ queues \in [Priorities -> Seq(Calls)]
    /\ done \in [Calls -> Answers \cup {"none"}]
    /\ counted \in [Calls -> Counts]
    /\ closed \in BOOLEAN
    /\ worker \in Places
    /\ current \in Calls \cup {NoCall}
    /\ outcome \in {"ok", "failed"}
    /\ consecutive \in 0..(ReopenAfter - 1)
    /\ reopens \in 0..2
    /\ reopenFailed \in BOOLEAN
    /\ journal \in Lines \X Lines
    /\ overtaken \in [Calls -> 0..2]

(* No queue ever holds more than Depth jobs ("better to refuse than to promise",     *)
(* bus.go:163) and a job is on the bus at most once: in one place of one queue or in *)
(* the hands of the goroutine.                                                       *)
JobInOnePlace ==
    /\ \A p \in Priorities :
         /\ Len(queues[p]) <= Depth
         /\ \A i, j \in 1..Len(queues[p]) : queues[p][i] = queues[p][j] => i = j
         /\ \A i \in 1..Len(queues[p]) : prio[queues[p][i]] = p
    /\ Holding <=> current # NoCall
    /\ Holding => ~Queued(current)

(* The goroutine never blocks handing over an answer: job.done has one place and a   *)
(* job is answered once, also when its caller has long gone (bus.go:227, 311, 317).  *)
AnswerNeverBlocks ==
    worker \in {"drop", "answer"} => done[current] = "none"

(* By the time a caller has its answer, Stats shows its request, and shows it as     *)
(* what it was (bus.go:310-317).                                                     *)
AnswersAreCounted ==
    \A c \in Calls :
        /\ "ok" \in {done[c], result[c]} => counted[c] = "request"
        /\ "failed" \in {done[c], result[c]} => counted[c] = "failure"
        /\ "dropped" \in {done[c], result[c]} => counted[c] = "dropped"

(* No call is counted twice, whichever side notices first that its caller gave up:   *)
(* Do counts it at the queue's door, serve behind it (bus.go:241, 310, 316).         *)
CountedOnce ==
    [][\A c \in Calls :
        counted'[c] # counted[c] => counted[c] = "no" \/ pc'[c] = "enter"]_vars

(* What a caller may rely on: the bus does what BusService promises.  The fate of a  *)
(* caller's function is the count it was given.                                      *)
FateOf(count) ==
    CASE count = "no" -> "none" [] count = "request" -> "ok"
      [] count = "failure" -> "failed" [] count = "dropped" -> "dropped"

Service == INSTANCE BusService WITH
    inside <- {c \in Calls : pc[c] \in {"enter", "enqueue", "waiting"}},
    fate <- [c \in Calls |-> FateOf(counted[c])],
    got <- result

KeepsItsPromise == Service!Spec

(* The priority order as a caller sees it: while a job waits in its queue, at most   *)
(* one job of lower priority is started before it, the one the goroutine was         *)
(* already looking for (bus.go:271-302).                                             *)
OvertakenOnce ==
    \A c \in Calls : Queued(c) => overtaken[c] <= 1

(* ErrClosed means the job did not and will not run: a command that came back with   *)
(* it has not reached the unit (bus.go:232-245).                                     *)
ClosedMeansNotRun ==
    \A c \in Calls : result[c] = "closed" =>
        ~Queued(c) /\ current # c /\ counted[c] = "no" /\ done[c] = "none"

(* A fault is told, and told once: the journal's last line is about a lost port       *)
(* exactly while the port has been reopened since the last success, says there is no *)
(* port exactly while the last attempt failed, the recovery line only follows such a *)
(* line, and no line is ever logged twice running (bus.go:138-142, 319-355).         *)
JournalTellsOnce ==
    /\ reopens > 0 <=> journal[2] \in {"no port", "reopened"}
    /\ reopenFailed <=> journal[2] = "no port"
    /\ journal[2] = "answering" => journal[1] \in {"no port", "reopened"}
    /\ journal[1] = journal[2] => journal[2] = "none"

(* All that holds of every state.                                                    *)
BusSafe ==
    /\ TypeOK
    /\ JobInOnePlace /\ AnswerNeverBlocks /\ AnswersAreCounted
    /\ OvertakenOnce /\ ClosedMeansNotRun /\ JournalTellsOnce

(* A command that has been queued is answered, or its caller leaves, whatever the    *)
(* other callers do, as long as the bus stays open (bus.go:25-27).                   *)
WritesGetThrough ==
    \A c \in Calls :
        pc[c] = "waiting" /\ prio[c] = Write ~> pc[c] = "returned" \/ closed

(* Close returns: the goroutine leaves although a select with a job ready may go on  *)
(* taking jobs (bus.go:393-396).                                                     *)
CloseReturns == closed ~> worker = "exited"

(* A caller with a deadline gets out of Do, with the bus stuck, full or closed.      *)
DeadlineHonoured ==
    \A c \in Calls :
        pc[c] \in {"enter", "enqueue", "waiting"} /\ ~patient[c] ~> pc[c] = "returned"

(* Nobody waits for ever for the bus to stop, nor a caller with a deadline for it to  *)
(* answer.                                                                           *)
CallsEnd == CloseReturns /\ DeadlineHonoured

=====================================================================================

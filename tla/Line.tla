------------------------------------- MODULE Line -------------------------------------
(*************************************************************************************)
(* One request at a time over the serial line: the Modbus master of                    *)
(* internal/modbus/client.go, the framing of rtu.go and the port of                    *)
(* internal/serial/port.go, with the unit and the adapter as what may happen at the    *)
(* other end of them.                                                                  *)
(*                                                                                     *)
(* A frame is what it answers and whether it is an exception or was spoilt; it goes    *)
(* over the line byte by byte, a header first, and a byte is its frame and its place   *)
(* in it.  Lengths are counted in whatever makes the header one byte.  A shape is what *)
(* decides the length and the function code of an answer.                              *)
(*************************************************************************************)
EXTENDS Integers, SequencesExt

CONSTANTS Shapes, Fc, ResponseLen, \* shapes of requests, their codes and answers
          ExceptionLen,
          Timeout, InterFrame, Retries,
          MaxReq                   \* bound: requests

ASSUME LineAssumption ==
    /\ Timeout \in Nat \ {0} /\ InterFrame \in Nat /\ Retries \in Nat /\ MaxReq \in Nat
    /\ ResponseLen \in [Shapes -> Nat \ {0, 1}] /\ ExceptionLen \in Nat \ {0, 1}

(* How long an attempt listens and is silent after it.                                 *)
Slot == Timeout + InterFrame

Frames == [req : 1..MaxReq, shape : Shapes, exc : BOOLEAN, spoilt : BOOLEAN]
Bytes  == Frames \X Nat

FrameLen(f) == IF f.exc THEN ExceptionLen ELSE ResponseLen[f.shape]

VARIABLES
    req,      \* the number of the request that is being executed, or was last
    shape,
    attempt,
    pc,       \* "idle", "gap", "write", "head", "tail"
    head,     \* what has been read of the frame
    left,     \* ticks to the deadline
    gap,      \* ticks of InterFrame since lastDone
    port,     \* "open", "gone" when the adapter is, or "closed"
    rx,       \* bytes received and not read
    air,      \* the answer the unit is about to send or sending, if any
    got,      \* what was returned: "none", "ok", "declined", "failed"
    from,     \* history: the request whose answer that was
    spent,    \* history: ticks since the request was begun, but for its writes
    muddled   \* history: an answer was late or an attempt cut short, since nothing was
              \* on its way

clientVars == <<req, shape, attempt, pc, head, left, gap>>
lineVars   == <<port, rx, air>>
outVars    == <<got, from, spent, muddled>>
vars == <<clientVars, lineVars, outVars>>

MostSpent == (Retries + 1) * Slot

TypeOK ==
    /\ req \in 0..MaxReq /\ shape \in Shapes /\ attempt \in 0..Retries
    /\ pc \in {"idle", "gap", "write", "head", "tail"} /\ head \in (Bytes \X BOOLEAN) \cup {<<>>}
    /\ left \in 0..Timeout /\ gap \in 0..InterFrame
    /\ port \in {"open", "gone", "closed"} /\ rx \in Seq(Bytes)
    /\ air \in Seq([frame : Frames, sent : Nat, age : 0..Slot]) /\ Len(air) <= 1
    /\ got \in {"none", "ok", "declined", "failed"}
    /\ from \in 0..MaxReq /\ spent \in Nat /\ muddled \in BOOLEAN

Init ==
    /\ req = 0 /\ shape \in Shapes /\ attempt = 0 /\ pc = "idle" /\ head = <<>>
    /\ left = 0 /\ gap = 0
    /\ port \in {"open", "closed"} /\ rx = <<>> /\ air = <<>>
    /\ got = "none" /\ from = 0 /\ spent = 0 /\ muddled = FALSE

(* What the unit has heard and not begun to answer.                                    *)
Pending == air # <<>> /\ air[1].sent = 0

(* What is pending has waited for a ticks, of which more than Slot are not told apart.   *)
Aged(a) == IF Pending THEN [air EXCEPT ![1].age = a] ELSE air

(* Time passes, never past a deadline; a write has none.                               *)
Tick ==
    /\ pc \in {"head", "tail"} => left > 0
    /\ pc = "gap" => gap > 0
    /\ left' = IF left = 0 THEN 0 ELSE left - 1
    /\ gap' = IF gap = 0 THEN 0 ELSE gap - 1
    /\ air' = Aged(IF air[1].age = Slot THEN Slot ELSE air[1].age + 1)
    /\ spent' = IF pc \in {"idle", "write"} THEN spent ELSE spent + 1
    /\ UNCHANGED <<req, shape, attempt, pc, head, port, rx, got, from, muddled>>

---------------------------------------------------------------------------------------
(* The far end                                                                         *)

(* A byte comes in.  An answer is late when it is begun after Slot ticks.               *)
Arrive ==
    /\ air # <<>>
    /\ LET a == air[1] IN
       /\ rx' = IF port = "open" THEN Append(rx, <<a.frame, a.sent + 1>>) ELSE rx
       /\ air' = IF a.sent + 1 = FrameLen(a.frame) THEN Tail(air)
                 ELSE [air EXCEPT ![1].sent = @ + 1]
       /\ muddled' = (muddled \/ (a.sent = 0 /\ a.age = Slot))
    /\ UNCHANGED <<clientVars, port, got, from, spent>>

(* The rest of an answer is lost.                                                      *)
Lose ==
    /\ air # <<>>
    /\ air' = Tail(air)
    /\ UNCHANGED <<clientVars, port, rx, outVars>>

(* The adapter is pulled out.  Nobody listens any longer: an answer that is begun after *)
(* it counts as late.                                                                  *)
Unplug ==
    /\ port = "open"
    /\ port' = "gone" /\ rx' = <<>> /\ air' = Aged(Slot)
    /\ UNCHANGED <<clientVars, outVars>>

(* Reopen, by the bus between two requests: it finds the adapter or leaves the port     *)
(* closed.  Open drains.                                                               *)
Reopen ==
    /\ pc = "idle"
    /\ port' \in {"open", "closed"}
    /\ rx' = <<>>
    /\ UNCHANGED <<clientVars, air, outVars>>

---------------------------------------------------------------------------------------
(* The master                                                                          *)

Execute ==
    /\ pc = "idle" /\ req < MaxReq
    /\ req' = req + 1 /\ shape' \in Shapes
    /\ attempt' = 0 /\ pc' = "gap" /\ head' = <<>>
    /\ got' = "none" /\ from' = 0 /\ spent' = 0
    /\ UNCHANGED <<left, gap, lineVars, muddled>>

(* executeAs after a failure, which is not an exception: again, or that was it.        *)
AttemptFails ==
    /\ gap' = InterFrame /\ head' = <<>>
    /\ IF attempt < Retries
       THEN attempt' = attempt + 1 /\ pc' = "gap" /\ UNCHANGED got
       ELSE attempt' = 0 /\ pc' = "idle" /\ got' = "failed"
    /\ UNCHANGED <<req, shape, from, spent>>

(* A mutant: nothing is drained.                                                       *)
Undrained == rx

Drained == <<>>

(* attempt, after the silence: the port drops what has come in.  What comes in while    *)
(* the request is being written stays.                                                 *)
Drain ==
    /\ pc = "gap" /\ gap = 0
    /\ IF port # "open"
       THEN AttemptFails /\ UNCHANGED <<rx, muddled>>
       ELSE /\ rx' = Drained /\ pc' = "write"
            /\ muddled' = (muddled /\ air # <<>>)
            /\ UNCHANGED <<req, shape, attempt, head, gap, got, from, spent>>
    /\ UNCHANGED <<left, port, air>>

(* Write has put the last byte on the line, and the clock starts.  A unit that is still *)
(* at an earlier request does not hear this one; an idle one hears it or does not.      *)
Written ==
    /\ pc = "write" /\ port = "open"
    /\ pc' = "head" /\ left' = Timeout
    /\ \/ UNCHANGED air
       \/ /\ air = <<>>
          /\ \E exc, spoilt \in BOOLEAN :
               air' = <<[frame |-> [req |-> req, shape |-> shape, exc |-> exc,
                                    spoilt |-> spoilt],
                         sent |-> 0, age |-> 0]>>
    /\ UNCHANGED <<req, shape, attempt, head, gap, port, rx, outVars>>

(* An error from a port that has gone.  One that only takes nothing (EAGAIN) is written *)
(* to for as long as that lasts.                                                       *)
WriteFails ==
    /\ pc = "write" /\ port = "gone"
    /\ AttemptFails
    /\ UNCHANGED <<left, lineVars, muddled>>

(* What looks like an exception; of a byte that is no header or is spoilt, anything  *)
(* may be said.                                                                        *)
LooksDeclined(b, exc) == (b[2] = 1 /\ ~b[1].spoilt) => exc = b[1].exc

Wanted == IF head[2] THEN ExceptionLen ELSE ResponseLen[shape]

(* A mutant: the rest gets a timeout of its own.                                       *)
ReadHeadAfresh ==
    /\ pc = "head" /\ rx # <<>>
    /\ \E exc \in BOOLEAN :
        LooksDeclined(rx[1], exc) /\ head' = <<rx[1], exc>>
    /\ rx' = Tail(rx)
    /\ pc' = "tail" /\ left' = Timeout
    /\ UNCHANGED <<req, shape, attempt, gap, port, air, outVars>>

ReadHead ==
    /\ pc = "head" /\ rx # <<>>
    /\ \E exc \in BOOLEAN :
        LooksDeclined(rx[1], exc) /\ head' = <<rx[1], exc>>
    /\ rx' = Tail(rx)
    /\ pc' = "tail"
    /\ UNCHANGED <<req, shape, attempt, left, gap, port, air, outVars>>

(* ParseResponse: the checksum, and the function code.                                 *)
Whole(bytes) ==
    /\ \A i \in 1..Len(bytes) : bytes[i] = <<bytes[1][1], i>>
    /\ Len(bytes) = FrameLen(bytes[1][1]) /\ ~bytes[1][1].spoilt

Answers(bytes) == Whole(bytes) /\ Fc[bytes[1][1].shape] = Fc[shape]

Finish(f) ==
    /\ got' = IF f.exc THEN "declined" ELSE "ok"
    /\ from' = f.req
    /\ pc' = "idle" /\ attempt' = 0 /\ gap' = InterFrame /\ head' = <<>>
    /\ UNCHANGED <<req, shape, spent>>

ReadTail ==
    /\ pc = "tail" /\ Len(rx) >= Wanted - 1
    /\ LET bytes == <<head[1]>> \o SubSeq(rx, 1, Wanted - 1) IN
       IF Answers(bytes)
       THEN Finish(bytes[1][1]) /\ UNCHANGED muddled
       ELSE AttemptFails /\ muddled' = TRUE
    /\ rx' = SubSeq(rx, Wanted, Len(rx))
    /\ UNCHANGED <<left, port, air>>

(* The deadline, or an error from a port that has gone.                                *)
GiveUp ==
    /\ pc \in {"head", "tail"}
    /\ left = 0 \/ port = "gone"
    /\ AttemptFails
    /\ rx' = <<>>
    /\ UNCHANGED <<left, port, air, muddled>>

Next ==
    \/ Tick \/ Arrive \/ Lose \/ Unplug \/ Reopen
    \/ Execute \/ Drain \/ Written \/ WriteFails \/ ReadHead \/ ReadTail \/ GiveUp

Spec == Init /\ [][Next]_vars

---------------------------------------------------------------------------------------
(* Properties                                                                          *)

(* What a request returns is the unit's answer to it.  The answer to an earlier one is   *)
(* taken for it only if the unit was late with one, or an attempt was cut short by a    *)
(* frame that did not answer it, and since then no request has found nothing on its     *)
(* way; and never half an answer, nor one that came in before Drain (attempt).          *)
AnswersAreOurs == got \in {"ok", "declined"} => from = req \/ muddled

(* However the bytes trickle in, a request returns within its attempts' timeouts and    *)
(* silences, apart from the time its writes take: one deadline covers header and rest   *)
(* (attempt).                                                                          *)
ReturnsInTime == spent <= MostSpent

(* Both: an answer that is the request's own unless the line is muddled, and in time.   *)
LineSafe == AnswersAreOurs /\ ReturnsInTime

(* Not checked, for it fails: what client.go:13-14 and port.go:183-184 say of Drain.    *)
LateIsHarmless == got \in {"ok", "declined"} => from = req

=======================================================================================

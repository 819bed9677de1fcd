--------------------------------- MODULE LineProofs ----------------------------------
(* Proofs about Line and Breaker, which share no variable. Line: for any frames,       *)
(* timeouts, retries and requests, and a unit that may be as late as it likes.         *)
(* Breaker: for any number of clients and any threshold, and any cooldown longer than  *)
(* the timeout of a request.                                                           *)
EXTENDS Line, Breaker, SequenceTheorems, FiniteSetTheorems, TLAPS

--------------------------------------------------------------------------------------
(* Line                                                                                *)

Answer == [frame : Frames, sent : Nat, age : 0 .. Slot]

(* Unless the line is muddled: what the unit has not begun to send by the time the line *)
(* has been listened to and been silent for long enough can only be late.              *)
Air ==
    /\ port = "gone" /\ Pending => air[1].age = Slot
    /\ ~muddled /\ Pending =>
          /\ pc \in {"idle", "gap"} => air[1].age + gap >= Slot
          /\ pc = "write" => air[1].age = Slot
          /\ pc \in {"head", "tail"} => air[1].age + left >= Timeout

(* Unless the line is muddled: since it was drained, only the request that is being     *)
(* executed can have had an answer from its first byte on, or one that is late.         *)
Heard ==
    /\ pc # "idle" => req > 0 /\ got = "none"
    /\ pc = "tail" => head # <<>>
    /\ ~muddled =>
         /\ pc \in {"head", "tail"} /\ Pending => air[1].age = Slot \/ air[1].frame.req = req
         /\ pc = "write" /\ rx # <<>> => rx[1][2] # 1
         /\ pc = "head" /\ rx # <<>> /\ rx[1][2] = 1 =>
                rx[1][1].req = req /\ (Pending => air[1].age = Slot)
         /\ pc = "tail" /\ head[1][2] = 1 =>
                head[1][1].req = req /\ (Pending => air[1].age = Slot)

(* What has been spent, and what may yet be before the attempt is over.                *)
Slots(n) == n * Slot
Paced ==
    /\ pc = "idle" => spent <= MostSpent
    /\ pc = "gap" => spent + gap <= Slots(attempt) + InterFrame
    /\ pc = "write" => spent <= Slots(attempt) + InterFrame
    /\ pc \in {"head", "tail"} => spent + left <= Slots(attempt) + Slot

IInv == TypeOK /\ Air /\ Heard /\ Paced /\ AnswersAreOurs

--------------------------------------------------------------------------------------
(* What LineAssumption says of the times and lengths.                                  *)
LEMMA Limits ==
    /\ Timeout \in Nat /\ Timeout > 0 /\ InterFrame \in Nat /\ Retries \in Nat /\ MaxReq \in Nat
    /\ Slot \in Nat /\ Slot = Timeout + InterFrame
    /\ ExceptionLen \in Nat /\ ExceptionLen > 1
    /\ \A s \in Shapes : ResponseLen[s] \in Nat /\ ResponseLen[s] > 1
  BY LineAssumption DEF Slot

LEMMA Times ==
    /\ Slot \in Nat /\ Timeout \in Nat /\ InterFrame \in Nat
    /\ Slot = Timeout + InterFrame /\ Timeout > 0
  BY Limits

(* Every retry (execute, client.go) has room for one more response timeout and the     *)
(* silence before it.                                                                  *)
LEMMA SlotsGrow ==
    /\ Slots(0) = 0 /\ MostSpent \in Nat
    /\ \A n \in 0 .. Retries : /\ Slots(n) \in Nat /\ Slots(n + 1) = Slots(n) + Slot
                               /\ Slots(n) + Slot <= MostSpent
<1>1. Slots(0) = 0
  BY Limits DEF Slots
<1>2. ASSUME NEW n \in 0 .. Retries
      PROVE  /\ Slots(n) \in Nat /\ Slots(n + 1) = Slots(n) + Slot
             /\ Slots(n) + Slot <= MostSpent
  <2>1. n \in Nat /\ Retries \in Nat /\ n <= Retries /\ Slot \in Nat /\ Slot = Timeout + InterFrame
    BY Limits
  <2>2. n * Slot \in Nat /\ (n + 1) * Slot = n * Slot + Slot
    BY <2>1
  <2>3. (n + 1) * Slot <= (Retries + 1) * Slot
    BY <2>1
  <2>4. QED
    BY <2>1, <2>2, <2>3 DEF Slots, MostSpent
<1>3. MostSpent \in Nat
  BY <1>2, Limits DEF MostSpent
<1>4. QED
  BY <1>1, <1>2, <1>3

(* A line nobody has used satisfies the invariant.                                     *)
LEMMA InitIInv == Init => IInv
<1> SUFFICES ASSUME Init PROVE IInv
  OBVIOUS
<1>1. TypeOK
  <2>1. rx \in Seq(Bytes) /\ air \in Seq(Answer) /\ Len(air) <= 1
    BY EmptySeq DEF Init
  <2>2. QED
    <3>1. air \in Seq([frame : Frames, sent : Nat, age : 0 .. Slot])
      BY <2>1 DEF Answer
    <3>2. 0 \in 0 .. MaxReq /\ 0 \in 0 .. Retries /\ 0 \in 0 .. Timeout /\ 0 \in 0 .. InterFrame
      BY Limits
    <3>3. QED
      BY <2>1, <3>1, <3>2 DEF Init, TypeOK
<1>2. Air /\ Heard /\ AnswersAreOurs
  BY DEF Init, Air, Heard, AnswersAreOurs, Pending
<1>3. Paced
  BY SlotsGrow DEF Init, Paced
<1>4. QED
  BY <1>1, <1>2, <1>3 DEF IInv

(* The lone answer in the air.                                                         *)
LEMMA InTheAir ==
    TypeOK /\ air # <<>> =>
        /\ Len(air) = 1 /\ air[1] \in Answer /\ Tail(air) = <<>>
        /\ air[1].frame \in Frames /\ air[1].sent \in Nat /\ air[1].age \in 0 .. Slot
<1> SUFFICES ASSUME TypeOK, air # <<>>
             PROVE  /\ Len(air) = 1 /\ air[1] \in Answer /\ Tail(air) = <<>>
                    /\ air[1].frame \in Frames /\ air[1].sent \in Nat /\ air[1].age \in 0 .. Slot
  OBVIOUS
<1>1. air \in Seq(Answer) /\ Len(air) <= 1
  BY DEF TypeOK, Answer
<1>2. Len(air) = 1
  <2>1. Len(air) \in Nat \ {0}
    BY <1>1, EmptySeq
  <2>2. \A n \in Nat \ {0} : n <= 1 => n = 1
    OBVIOUS
  <2>3. QED
    BY <1>1, <2>1, <2>2
<1>3. air[1] \in Answer
  BY <1>1, <1>2, ElementOfSeq
<1>4. Tail(air) = <<>>
  <2>1. Tail(air) \in Seq(Answer) /\ Len(Tail(air)) = 0
    BY <1>1, <1>2, HeadTailProperties
  <2>2. QED
    BY <2>1, EmptySeq
<1>5. QED
  BY <1>2, <1>3, <1>4 DEF Answer

(* Growing older changes the age of what is pending, and nothing else.                 *)
LEMMA AgedAnswer ==
    ASSUME TypeOK, NEW n \in 0 .. Slot
    PROVE  /\ Aged(n) \in Seq(Answer) /\ Len(Aged(n)) = Len(air)
           /\ Aged(n) = <<>> <=> air = <<>>
           /\ air # <<>> => /\ Aged(n)[1].sent = air[1].sent /\ Aged(n)[1].frame = air[1].frame
                            /\ Pending => Aged(n)[1].age = n
<1>1. air \in Seq(Answer)
  BY DEF TypeOK, Answer
<1>2. CASE ~Pending
  BY <1>1, <1>2 DEF Aged
<1>3. CASE Pending
  <2>1. air # <<>> /\ Len(air) = 1 /\ air[1] \in Answer
    BY <1>3, InTheAir DEF Pending
  <2>2. [air[1] EXCEPT !.age = n] \in Answer /\ [air[1] EXCEPT !.age = n].age = n
        /\ [air[1] EXCEPT !.age = n].sent = air[1].sent /\ [air[1] EXCEPT !.age = n].frame = air[1].frame
    BY <2>1 DEF Answer
  <2>3. PICK c \in Answer : /\ c = [air[1] EXCEPT !.age = n] /\ c.age = n
                            /\ c.sent = air[1].sent /\ c.frame = air[1].frame
    BY <2>2
  <2>4. Aged(n) = [air EXCEPT ![1] = c]
    <3>1. Aged(n) = [air EXCEPT ![1] = [air[1] EXCEPT !.age = n]]
      BY <1>3 DEF Aged
    <3>2. QED
      BY <2>3, <3>1
  <2>5. Aged(n) \in Seq(Answer) /\ Len(Aged(n)) = Len(air) /\ Aged(n)[1] = c
    <3>1. 1 \in 1 .. Len(air)
      BY <2>1
    <3>2. QED
      BY <1>1, <2>4, <3>1, ExceptSeq
  <2>6. Aged(n) # <<>>
    BY <2>1, <2>5, EmptySeq
  <2>7. QED
    BY <2>1, <2>3, <2>5, <2>6
<1>4. QED
  BY <1>2, <1>3

(* Every step of the client, the unit, the line or the cable keeps the invariant.      *)
LEMMA NextIInv == IInv /\ [Next]_vars => IInv'
<1> SUFFICES ASSUME IInv, [Next]_vars PROVE IInv'
  OBVIOUS
<1>t. TypeOK /\ Air /\ Heard /\ Paced /\ AnswersAreOurs
  BY DEF IInv
<1>s. rx \in Seq(Bytes) /\ air \in Seq(Answer) /\ Len(air) <= 1 /\ left \in Nat /\ gap \in Nat
      /\ spent \in Nat /\ muddled \in BOOLEAN /\ attempt \in 0 .. Retries /\ Slots(attempt) \in Nat
  BY <1>t, SlotsGrow DEF TypeOK, Answer
<1>a. air # <<>> => /\ Len(air) = 1 /\ air[1] \in Answer /\ Tail(air) = <<>>
                    /\ air[1].frame \in Frames /\ air[1].sent \in Nat /\ air[1].age \in 0 .. Slot
  BY <1>t, InTheAir
(* An attempt is over, when what is pending can only be late or the line is muddled.    *)
<1>f. ASSUME AttemptFails, UNCHANGED <<left, port, air>>, rx' \in Seq(Bytes),
             muddled' \in BOOLEAN, ~muddled' => ~muddled,
             ~muddled' /\ Pending => air[1].age + InterFrame >= Slot,
             spent <= Slots(attempt) + Slot, pc # "idle"
      PROVE  IInv'
  <2>1. gap' = InterFrame /\ head' = <<>> /\ UNCHANGED <<req, shape, from, spent>>
        /\ \/ attempt < Retries /\ attempt' = attempt + 1 /\ pc' = "gap" /\ got' = got
           \/ attempt' = 0 /\ pc' = "idle" /\ got' = "failed"
    BY <1>f DEF AttemptFails
  <2>2. TypeOK'
    BY <1>t, <1>s, <1>f, <2>1, Limits DEF TypeOK
  <2>3. Air'
    BY <1>t, <1>f, <2>1 DEF Air, Pending
  <2>4. Heard' /\ AnswersAreOurs'
    BY <1>t, <1>f, <2>1 DEF Heard, AnswersAreOurs
  <2>5. Paced'
    <3>1. CASE attempt < Retries /\ attempt' = attempt + 1 /\ pc' = "gap"
      <4>1. Slots(attempt') = Slots(attempt) + Slot
        BY <1>s, <3>1, SlotsGrow
      <4>2. spent' <= Slots(attempt')
        BY <1>f, <2>1, <4>1
      <4>3. Slots(attempt') \in Nat /\ spent' \in Nat
        BY <1>s, <2>1, <4>1, Times
      <4>4. spent' + gap' <= Slots(attempt') + InterFrame
        BY <2>1, <4>2, <4>3, Times
      <4>5. QED
        BY <3>1, <4>4 DEF Paced
    <3>2. CASE pc' = "idle"
      BY <1>s, <1>f, <2>1, <3>2, SlotsGrow, Limits DEF Paced
    <3>3. QED
      BY <2>1, <3>1, <3>2
  <2>6. QED
    BY <2>2, <2>3, <2>4, <2>5 DEF IInv
<1>1. CASE Tick
  <2> DEFINE n == IF air[1].age = Slot THEN Slot ELSE air[1].age + 1
  <2>1. /\ pc \in {"head", "tail"} => left > 0
        /\ pc = "gap" => gap > 0
        /\ left' = (IF left = 0 THEN 0 ELSE left - 1)
        /\ gap' = (IF gap = 0 THEN 0 ELSE gap - 1)
        /\ air' = Aged(n)
        /\ spent' = (IF pc \in {"idle", "write"} THEN spent ELSE spent + 1)
        /\ UNCHANGED <<req, shape, attempt, pc, head, port, rx, got, from, muddled>>
    BY <1>1 DEF Tick
  <2>2. /\ air' \in Seq(Answer) /\ Len(air') = Len(air)
        /\ air' = <<>> <=> air = <<>>
        /\ air # <<>> => air'[1].sent = air[1].sent /\ air'[1].frame = air[1].frame
        /\ Pending => air'[1].age = n
    <3>1. CASE Pending
      <4>1. n \in 0 .. Slot
        BY <1>a, <3>1, Limits DEF Pending
      <4> HIDE DEF n
      <4>2. QED
        BY <1>t, <2>1, <3>1, <4>1, AgedAnswer DEF Pending
    <3>2. CASE ~Pending
      BY <1>s, <2>1, <3>2 DEF Aged
    <3>3. QED
      BY <3>1, <3>2
  <2>3. Pending' <=> Pending
    BY <2>2 DEF Pending
  <2>4. Pending => /\ air[1].age = Slot => air'[1].age = Slot
                   /\ air[1].age # Slot => air'[1].age = air[1].age + 1
                   /\ air[1].age \in Nat
    BY <1>a, <2>2, Limits DEF Pending
  <2> HIDE DEF n
  <2>5. left' \in 0 .. Timeout /\ gap' \in 0 .. InterFrame /\ spent' \in Nat
    <3>1. left \in 0 .. Timeout /\ gap \in 0 .. InterFrame
      BY <1>t DEF TypeOK
    <3>2. left' \in 0 .. Timeout
      BY <2>1, <3>1, Limits
    <3>3. gap' \in 0 .. InterFrame
      BY <2>1, <3>1, Limits
    <3>4. spent' \in Nat
      BY <1>s, <2>1
    <3>5. QED
      BY <3>2, <3>3, <3>4
  <2>6. TypeOK'
    BY <1>t, <1>s, <2>1, <2>2, <2>5 DEF TypeOK, Answer
  <2>7. Air'
    <3>1. CASE ~Pending
      BY <2>3, <3>1 DEF Air
    <3>2. CASE Pending /\ air[1].age = Slot
      BY <1>s, <2>1, <2>3, <2>4, <2>5, <3>2, Times DEF Air
    <3>3. CASE Pending /\ air[1].age # Slot
      <4>1. air'[1].age = air[1].age + 1 /\ air[1].age \in Nat
        BY <2>4, <3>3
      <4>2. port' # "gone"
        BY <1>t, <2>1, <3>3 DEF Air
      <4>3. ASSUME ~muddled, pc \in {"idle", "gap"} PROVE air'[1].age + gap' >= Slot
        <5>1. air[1].age + gap >= Slot /\ air[1].age \in 0 .. Slot
          BY <1>t, <1>a, <3>3, <4>3 DEF Air, Pending
        <5>2. gap' = gap - 1
          BY <1>s, <2>1, <3>3, <5>1, Times
        <5>3. gap \in Nat
          BY <1>s
        <5>4. QED
          BY <4>1, <5>1, <5>2, <5>3, Times
      <4>4. ~(~muddled /\ pc = "write")
        BY <1>t, <3>3 DEF Air
      <4>5. ASSUME ~muddled, pc \in {"head", "tail"} PROVE air'[1].age + left' >= Timeout
        <5>1. air[1].age + left >= Timeout /\ left > 0
          BY <1>t, <2>1, <3>3, <4>5 DEF Air
        <5>2. left' = left - 1
          BY <1>s, <2>1, <5>1
        <5>3. left \in Nat
          BY <1>s
        <5>4. QED
          BY <4>1, <5>1, <5>2, <5>3, Times
      <4>6. QED
        BY <2>1, <4>2, <4>3, <4>4, <4>5 DEF Air
    <3>4. QED
      BY <3>1, <3>2, <3>3
  <2>8. Heard' /\ AnswersAreOurs'
    <3>1. Heard'
      BY <1>t, <2>1, <2>2, <2>3, <2>4 DEF Heard, Pending
    <3>2. QED
      BY <1>t, <2>1, <3>1 DEF AnswersAreOurs
  <2>9. Paced'
    <3>1. CASE pc \in {"idle", "write"}
      BY <1>t, <2>1, <3>1 DEF Paced
    <3>2. CASE pc = "gap"
      <4>1. spent + gap <= Slots(attempt) + InterFrame /\ gap > 0 /\ gap' = gap - 1 /\ spent' = spent + 1
        BY <1>t, <1>s, <2>1, <3>2 DEF Paced
      <4>2. spent' + gap' = spent + gap
        BY <1>s, <4>1
      <4>3. QED
        BY <2>1, <3>2, <4>1, <4>2 DEF Paced
    <3>3. CASE pc \in {"head", "tail"}
      <4>1. spent + left <= Slots(attempt) + Slot /\ left > 0 /\ left' = left - 1 /\ spent' = spent + 1
        BY <1>t, <1>s, <2>1, <3>3 DEF Paced
      <4>2. spent' + left' = spent + left
        BY <1>s, <4>1
      <4>3. QED
        BY <2>1, <3>3, <4>1, <4>2 DEF Paced
    <3>4. QED
      BY <1>t, <3>1, <3>2, <3>3 DEF TypeOK
  <2>10. QED
    BY <2>6, <2>7, <2>8, <2>9 DEF IInv
<1>2. CASE Arrive
  <2> DEFINE a == air[1]
             b == <<a.frame, a.sent + 1>>
  <2>1. /\ air # <<>> /\ UNCHANGED <<clientVars, port, got, from, spent>>
        /\ rx' = (IF port = "open" THEN Append(rx, b) ELSE rx)
        /\ air' = (IF a.sent + 1 = FrameLen(a.frame) THEN Tail(air) ELSE [air EXCEPT ![1].sent = @ + 1])
        /\ muddled' = (muddled \/ (a.sent = 0 /\ a.age = Slot))
    BY <1>2 DEF Arrive
  <2>2. /\ Len(air) = 1 /\ a \in Answer /\ Tail(air) = <<>> /\ a.frame \in Frames /\ a.sent \in Nat
        /\ a.age \in 0 .. Slot
    BY <1>a, <2>1
  <2>3. b \in Bytes
    BY <2>2 DEF Bytes
  <2>4. rx' \in Seq(Bytes) /\ (rx' # <<>> => rx # <<>> \/ rx' = <<b>>) /\ (rx # <<>> => rx'[1] = rx[1])
    <3> HIDE DEF b
    <3>1. CASE port = "open"
      <4>1. /\ rx' \in Seq(Bytes) /\ Len(rx') = Len(rx) + 1
            /\ \A i \in 1 .. Len(rx) : rx'[i] = rx[i]
            /\ rx'[Len(rx) + 1] = b
        BY <1>s, <2>1, <2>3, <3>1, AppendProperties
      <4>2. rx = <<>> => rx' = <<b>>
        BY <2>1, <3>1
      <4>3. rx # <<>> => 1 \in 1 .. Len(rx)
        BY <1>s, EmptySeq
      <4>4. QED
        BY <4>1, <4>2, <4>3
    <3>2. CASE port # "open"
      BY <1>s, <2>1, <3>2
    <3>3. QED
      BY <3>1, <3>2
  <2>5. /\ air' \in Seq(Answer) /\ Len(air') <= 1
        /\ air' # <<>> => air'[1].sent = a.sent + 1
    <3>1. CASE a.sent + 1 = FrameLen(a.frame)
      <4>1. air' = <<>>
        BY <2>1, <2>2, <3>1
      <4>2. QED
        BY <4>1, EmptySeq
    <3>2. CASE a.sent + 1 # FrameLen(a.frame)
      <4>1. [a EXCEPT !.sent = @ + 1] \in Answer /\ [a EXCEPT !.sent = @ + 1].sent = a.sent + 1
        BY <2>2 DEF Answer
      <4>2. air' = [air EXCEPT ![1] = [a EXCEPT !.sent = @ + 1]]
        BY <2>1, <3>2
      <4>3. PICK c \in Answer : c = [a EXCEPT !.sent = @ + 1] /\ c.sent = a.sent + 1
        BY <4>1
      <4>4. air' = [air EXCEPT ![1] = c]
        BY <4>2, <4>3
      <4>5. air' \in Seq(Answer) /\ Len(air') = Len(air) /\ air'[1] = c
        <5>1. 1 \in 1 .. Len(air)
          BY <2>2
        <5> HIDE DEF a
        <5>2. QED
          BY <1>s, <4>4, <5>1, ExceptSeq
      <4>6. QED
        BY <2>2, <4>3, <4>5
    <3>3. QED
      BY <3>1, <3>2
  <2>6. ~Pending'
    BY <2>2, <2>5 DEF Pending
  <2>7. TypeOK'
    BY <1>t, <1>s, <2>1, <2>4, <2>5 DEF TypeOK, Answer, clientVars
  <2>8. Air'
    BY <2>6 DEF Air
  <2>9. Heard'
    <3>1. UNCHANGED <<pc, head, req, got>>
      BY <2>1 DEF clientVars
    <3>2. ASSUME ~muddled', pc = "head", rx' # <<>>, rx'[1][2] = 1 PROVE rx'[1][1].req = req
      <4>0. ~muddled /\ ~(a.sent = 0 /\ a.age = Slot)
        BY <1>s, <2>1, <3>2
      <4>1. CASE rx # <<>>
        BY <1>t, <2>4, <3>2, <4>0, <4>1 DEF Heard
      <4>2. CASE rx = <<>>
        <5>1. rx'[1] = b
          BY <2>4, <3>2, <4>2
        <5>2. a.sent = 0 /\ rx'[1][1] = a.frame
          BY <2>2, <3>2, <5>1
        <5>3. QED
          BY <1>t, <2>1, <3>2, <4>0, <5>2 DEF Heard, Pending
      <4>3. QED
        BY <4>1, <4>2
    <3>3. ASSUME ~muddled', pc = "write", rx' # <<>> PROVE rx'[1][2] # 1
      <4>0. ~muddled /\ ~(a.sent = 0 /\ a.age = Slot)
        BY <1>s, <2>1, <3>3
      <4>1. CASE rx # <<>>
        BY <1>t, <2>4, <3>3, <4>0, <4>1 DEF Heard
      <4>2. CASE rx = <<>>
        <5>1. rx'[1] = b
          BY <2>4, <3>3, <4>2
        <5>2. a.sent # 0
          BY <1>t, <2>1, <3>3, <4>0 DEF Air, Pending
        <5>3. QED
          BY <2>2, <5>1, <5>2
      <4>3. QED
        BY <4>1, <4>2
    <3>4. ~muddled' => ~muddled
      BY <1>s, <2>1
    <3>5. QED
      BY <1>t, <2>6, <3>1, <3>2, <3>3, <3>4 DEF Heard
  <2>10. Paced' /\ AnswersAreOurs'
    BY <1>t, <1>s, <2>1 DEF Paced, AnswersAreOurs, clientVars
  <2>11. QED
    BY <2>7, <2>8, <2>9, <2>10 DEF IInv
<1>3. CASE Lose
  <2>1. air # <<>> /\ air' = <<>> /\ UNCHANGED <<clientVars, port, rx, outVars>>
    BY <1>3, <1>a DEF Lose
  <2>2. air' \in Seq(Answer) /\ Len(air') <= 1
    BY <2>1, EmptySeq
  <2>3. TypeOK'
    BY <1>t, <2>1, <2>2 DEF TypeOK, Answer, clientVars, outVars
  <2>4. Air' /\ Heard' /\ Paced' /\ AnswersAreOurs'
    BY <1>t, <2>1 DEF Air, Heard, Paced, AnswersAreOurs, clientVars, outVars, Pending
  <2>5. QED
    BY <2>3, <2>4 DEF IInv
<1>4. CASE Unplug
  <2>1. air' = Aged(Slot) /\ rx' = <<>> /\ port' = "gone" /\ UNCHANGED <<clientVars, outVars>>
    BY <1>4 DEF Unplug
  <2>2. /\ air' \in Seq(Answer) /\ Len(air') <= 1 /\ rx' \in Seq(Bytes)
        /\ Pending' => Pending /\ air'[1].age = Slot /\ air'[1].frame = air[1].frame
    <3>1. Slot \in 0 .. Slot
      BY Limits
    <3>2. QED
      BY <1>t, <1>s, <2>1, <3>1, AgedAnswer, EmptySeq DEF Pending
  <2>3. TypeOK'
    BY <1>t, <2>1, <2>2 DEF TypeOK, Answer, clientVars, outVars
  <2>4. Air'
    <3>1. left' \in Nat /\ gap' \in Nat
      BY <1>s, <2>1 DEF clientVars
    <3>2. \A n \in Nat : Slot + n >= Slot /\ Slot + n >= Timeout
      BY Times
    <3>3. QED
      BY <2>2, <3>1, <3>2 DEF Air
  <2>5. Heard' /\ Paced' /\ AnswersAreOurs'
    BY <1>t, <2>1, <2>2 DEF Heard, Paced, AnswersAreOurs, clientVars, outVars
  <2>6. QED
    BY <2>3, <2>4, <2>5 DEF IInv
<1>5. CASE Reopen
  <2>1. pc = "idle" /\ port' \in {"open", "closed"} /\ rx' = <<>> /\ UNCHANGED <<clientVars, air, outVars>>
    BY <1>5 DEF Reopen
  <2>2. rx' \in Seq(Bytes)
    BY <2>1, EmptySeq
  <2>3. TypeOK'
    BY <1>t, <2>1, <2>2 DEF TypeOK, Answer, clientVars, outVars
  <2>4. Air' /\ Heard' /\ Paced' /\ AnswersAreOurs'
    BY <1>t, <2>1 DEF Air, Heard, Paced, AnswersAreOurs, clientVars, outVars, Pending
  <2>5. QED
    BY <2>3, <2>4 DEF IInv
<1>6. CASE Execute
  <2>1. /\ pc = "idle" /\ req < MaxReq /\ req' = req + 1 /\ shape' \in Shapes
        /\ attempt' = 0 /\ pc' = "gap" /\ head' = <<>> /\ got' = "none" /\ from' = 0 /\ spent' = 0
        /\ UNCHANGED <<left, gap, port, rx, air, muddled>>
    BY <1>6 DEF Execute, lineVars
  <2>2. TypeOK'
    BY <1>t, <2>1, Limits DEF TypeOK
  <2>3. Air'
    BY <1>t, <2>1 DEF Air, Pending
  <2>4. Heard' /\ AnswersAreOurs'
    BY <1>t, <2>1 DEF TypeOK, Heard, AnswersAreOurs
  <2>5. Paced'
    BY <1>t, <2>1, SlotsGrow, Limits DEF TypeOK, Paced
  <2>6. QED
    BY <2>2, <2>3, <2>4, <2>5 DEF IInv
<1>7. CASE Drain
  <2>1. pc = "gap" /\ gap = 0 /\ UNCHANGED <<left, port, air>>
    BY <1>7 DEF Drain
  <2>2. ~muddled /\ Pending => air[1].age = Slot
    BY <1>t, <1>a, <2>1, Limits DEF Air, Pending
  <2>3. CASE port # "open"
    <3>1. AttemptFails /\ UNCHANGED <<left, port, air, rx, muddled>>
      BY <1>7, <2>1, <2>3 DEF Drain
    <3>2. spent <= Slots(attempt) + Slot
      BY <1>t, <1>s, <2>1, Limits DEF Paced
    <3>3. ~muddled /\ Pending => air[1].age + InterFrame >= Slot
      BY <2>2, Limits
    <3>4. QED
      BY <1>f, <1>s, <2>1, <3>1, <3>2, <3>3
  <2>4. CASE port = "open"
    <3>1. /\ rx' = <<>> /\ pc' = "write" /\ muddled' = (muddled /\ air # <<>>)
          /\ UNCHANGED <<req, shape, attempt, head, gap, got, from, spent>>
      BY <1>7, <2>4 DEF Drain, Drained
    <3>2. rx' \in Seq(Bytes)
      BY <3>1, EmptySeq
    <3>3. TypeOK'
      BY <1>t, <1>s, <2>1, <3>1, <3>2 DEF TypeOK
    <3>4. Air'
      <4>1. ~muddled' /\ Pending' => ~muddled /\ Pending
        BY <1>s, <2>1, <3>1 DEF Pending
      <4>2. QED
        BY <2>1, <2>2, <2>4, <3>1, <4>1 DEF Air
    <3>5. Heard' /\ AnswersAreOurs' /\ Paced'
      BY <1>t, <1>s, <2>1, <3>1 DEF Heard, AnswersAreOurs, Paced
    <3>6. QED
      BY <3>3, <3>4, <3>5 DEF IInv
  <2>5. QED
    BY <2>3, <2>4
<1>8. CASE Written
  <2>1. /\ pc = "write" /\ port = "open" /\ pc' = "head" /\ left' = Timeout
        /\ \/ UNCHANGED air
           \/ /\ air = <<>>
              /\ \E exc, spoilt \in BOOLEAN :
                   air' = <<[frame |-> [req |-> req, shape |-> shape, exc |-> exc,
                                        spoilt |-> spoilt],
                             sent |-> 0, age |-> 0]>>
        /\ UNCHANGED <<req, shape, attempt, head, gap, port, rx, outVars>>
    BY <1>8 DEF Written
  <2>2. req \in 1 .. MaxReq /\ req > 0 /\ shape \in Shapes /\ 0 \in 0 .. Slot
    BY <1>t, <2>1, Limits DEF TypeOK, Heard
  <2>3. \/ air' = air
        \/ \E c \in Answer : air' = <<c>> /\ c.frame.req = req /\ c.sent = 0 /\ c.age = 0
    <3>1. SUFFICES ASSUME NEW exc \in BOOLEAN, NEW spoilt \in BOOLEAN,
                          air' = <<[frame |-> [req |-> req, shape |-> shape, exc |-> exc,
                                               spoilt |-> spoilt],
                                    sent |-> 0, age |-> 0]>>
                   PROVE  \E c \in Answer : air' = <<c>> /\ c.frame.req = req /\ c.sent = 0 /\ c.age = 0
      BY <2>1
    <3> DEFINE c == [frame |-> [req |-> req, shape |-> shape, exc |-> exc, spoilt |-> spoilt],
                     sent |-> 0, age |-> 0]
    <3>2. c \in Answer /\ c.frame.req = req /\ c.sent = 0 /\ c.age = 0
      BY <2>2 DEF Answer, Frames
    <3>3. air' = <<c>>
      BY <3>1
    <3> HIDE DEF c
    <3>4. QED
      BY <3>2, <3>3
  <2>4. air' \in Seq(Answer) /\ Len(air') <= 1
    <3>1. ASSUME NEW c \in Answer, air' = <<c>> PROVE air' \in Seq(Answer) /\ Len(air') <= 1
      BY <3>1
    <3>2. QED
      BY <1>s, <2>3, <3>1
  <2>5. \/ air' = air
        \/ air'[1].frame.req = req /\ air'[1].age = 0
    BY <2>3
  <2>6. TypeOK'
    BY <1>t, <2>1, <2>4, Limits DEF TypeOK, Answer, outVars
  <2>7. Air'
    <3>1. CASE air' = air
      BY <1>t, <1>a, <2>1, <3>1, Limits DEF Air, Pending, outVars
    <3>2. CASE air'[1].age = 0
      BY <2>1, <3>2, Limits DEF Air
    <3>3. QED
      BY <2>5, <3>1, <3>2
  <2>8. Heard' /\ AnswersAreOurs'
    <3>1. CASE air' = air
      BY <1>t, <2>1, <3>1 DEF Air, Heard, AnswersAreOurs, Pending, outVars
    <3>2. CASE air'[1].frame.req = req
      BY <1>t, <2>1, <3>2 DEF Heard, AnswersAreOurs, outVars
    <3>3. QED
      BY <2>5, <3>1, <3>2
  <2>9. Paced'
    BY <1>t, <1>s, <2>1, Limits DEF Paced, outVars
  <2>10. QED
    BY <2>6, <2>7, <2>8, <2>9 DEF IInv
<1>9. CASE WriteFails
  <2>1. pc = "write" /\ port = "gone" /\ AttemptFails /\ UNCHANGED <<left, port, rx, air, muddled>>
    BY <1>9 DEF WriteFails, lineVars
  <2>2. ~muddled /\ Pending => air[1].age + InterFrame >= Slot
    BY <1>t, <2>1, Limits DEF Air
  <2>3. spent <= Slots(attempt) + Slot
    BY <1>t, <1>s, <2>1, Limits DEF Paced
  <2>4. QED
    BY <1>f, <1>s, <2>1, <2>2, <2>3
<1>10. CASE ReadHead
  <2>1. PICK exc \in BOOLEAN : head' = <<rx[1], exc>>
    BY <1>10 DEF ReadHead
  <2>2. /\ pc = "head" /\ rx # <<>> /\ rx' = Tail(rx) /\ pc' = "tail"
        /\ UNCHANGED <<req, shape, attempt, left, gap, port, air, outVars>>
    BY <1>10 DEF ReadHead
  <2>3. rx' \in Seq(Bytes) /\ rx[1] \in Bytes
    <3>1. Len(rx) \in Nat \ {0}
      BY <1>s, <2>2, EmptySeq
    <3>2. rx[1] \in Bytes
      BY <1>s, <3>1, ElementOfSeq
    <3>3. QED
      BY <1>s, <2>2, <3>2, HeadTailProperties
  <2>4. head' \in Bytes \X BOOLEAN /\ head' # <<>> /\ head'[1] = rx[1]
    <3> HIDE DEF Bytes
    <3> QED
      BY <2>1, <2>3
  <2>5. TypeOK'
    BY <1>t, <2>2, <2>3, <2>4 DEF TypeOK, outVars
  <2>6. Air' /\ Heard' /\ Paced' /\ AnswersAreOurs'
    BY <1>t, <2>2, <2>4 DEF Air, Heard, Paced, AnswersAreOurs, outVars, Pending
  <2>7. QED
    BY <2>5, <2>6 DEF IInv
<1>11. CASE ReadTail
  <2> DEFINE rest  == SubSeq(rx, 1, Wanted - 1)
             bytes == <<head[1]>> \o rest
  <2>1. /\ pc = "tail" /\ Len(rx) >= Wanted - 1
        /\ IF Answers(bytes) THEN Finish(bytes[1][1]) /\ UNCHANGED muddled
                             ELSE AttemptFails /\ muddled' = TRUE
        /\ rx' = SubSeq(rx, Wanted, Len(rx)) /\ UNCHANGED <<left, port, air>>
    BY <1>11 DEF ReadTail
  <2>2. Wanted \in Nat /\ Wanted > 1 /\ Len(rx) \in Nat
    BY <1>t, <1>s, Limits, LenProperties DEF Wanted, TypeOK
  <2>3. rx' \in Seq(Bytes) /\ rest \in Seq(Bytes)
    <3>1. \A i \in 1 .. Len(rx) : rx[i] \in Bytes
      BY <1>s, ElementOfSeq
    <3>2. \A i \in Wanted .. Len(rx) : i \in 1 .. Len(rx)
      BY <2>2
    <3>3. \A i \in 1 .. Wanted - 1 : i \in 1 .. Len(rx)
      BY <2>1, <2>2
    <3>4. QED
      BY <2>1, <2>2, <3>1, <3>2, <3>3, SubSeqProperties
  <2>4. head \in Bytes \X BOOLEAN /\ head[1] \in Bytes
    BY <1>t, <2>1 DEF TypeOK, Heard
  <2>5. bytes[1] = head[1] /\ Len(bytes) >= 1 /\ Len(bytes) \in Nat
    <3>1. <<head[1]>> \in Seq(Bytes) /\ Len(<<head[1]>>) = 1 /\ <<head[1]>>[1] = head[1]
      BY <2>4
    <3>2. Len(rest) \in Nat
      BY <2>3, LenProperties
    <3> HIDE DEF rest
    <3>3. /\ Len(bytes) = 1 + Len(rest)
          /\ \A i \in 1 .. 1 + Len(rest) : bytes[i] = IF i <= 1 THEN <<head[1]>>[i] ELSE rest[i - 1]
      BY <2>3, <3>1, ConcatProperties
    <3>4. QED
      BY <3>1, <3>2, <3>3
  <2>6. spent <= Slots(attempt) + Slot
    BY <1>t, <1>s, <2>1, Limits DEF Paced
  <2>7. CASE ~Answers(bytes)
    <3>1. AttemptFails /\ muddled' = TRUE
      BY <2>1, <2>7
    <3>2. QED
      BY <1>f, <2>1, <2>3, <2>6, <3>1
  <2>8. CASE Answers(bytes)
    <3> DEFINE f == head[1][1]
    <3>1. head[1][2] = 1
      <4>1. bytes[1] = <<bytes[1][1], 1>>
        <5> HIDE DEF bytes
        <5>1. 1 \in 1 .. Len(bytes)
          BY <2>5
        <5>2. QED
          BY <2>8, <5>1 DEF Answers, Whole
      <4>2. head[1] = <<f, 1>>
        BY <2>5, <4>1
      <4>3. QED
        BY <4>2
    <3>2. ~muddled => f.req = req /\ (Pending => air[1].age = Slot)
      BY <1>t, <2>1, <3>1 DEF Heard
    <3>3. Finish(f) /\ UNCHANGED muddled
      <4> HIDE DEF bytes
      <4> QED
        BY <2>1, <2>5, <2>8
    <3>4. /\ got' \in {"ok", "declined"} /\ from' = f.req /\ pc' = "idle" /\ attempt' = 0
          /\ gap' = InterFrame /\ head' = <<>> /\ UNCHANGED <<req, shape, spent, muddled>>
      BY <3>3 DEF Finish
    <3>5. f.req \in 0 .. MaxReq
      BY <2>4, Limits DEF Bytes, Frames
    <3> HIDE DEF f
    <3>6. TypeOK'
      BY <1>t, <1>s, <2>1, <2>3, <3>4, <3>5, Limits DEF TypeOK
    <3>7. Air'
      BY <1>t, <1>s, <2>1, <3>2, <3>4, Limits DEF Air, Pending
    <3>8. Heard' /\ AnswersAreOurs'
      BY <3>2, <3>4 DEF Heard, AnswersAreOurs
    <3>9. Paced'
      BY <1>t, <1>s, <2>6, <3>4, SlotsGrow, Limits DEF Paced
    <3>10. QED
      BY <3>6, <3>7, <3>8, <3>9 DEF IInv
  <2>9. QED
    BY <2>7, <2>8
<1>12. CASE GiveUp
  <2>1. pc \in {"head", "tail"} /\ (left = 0 \/ port = "gone") /\ rx' = <<>>
        /\ AttemptFails /\ UNCHANGED <<left, port, air, muddled>>
    BY <1>12 DEF GiveUp
  <2>2. ~muddled /\ Pending => air[1].age + InterFrame >= Slot
    BY <1>t, <1>a, <2>1, Limits DEF Air, Pending
  <2>3. spent <= Slots(attempt) + Slot
    BY <1>t, <1>s, <2>1, Limits DEF Paced
  <2>4. rx' \in Seq(Bytes)
    BY <2>1, EmptySeq
  <2>5. QED
    BY <1>f, <1>s, <2>1, <2>2, <2>3, <2>4
<1>13. CASE UNCHANGED vars
  BY <1>t, <1>13 DEF vars, clientVars, lineVars, outVars, IInv, TypeOK, Air, Heard, Paced, AnswersAreOurs, Pending
<1>14. QED
  BY <1>1, <1>2, <1>3, <1>4, <1>5, <1>6, <1>7, <1>8, <1>9, <1>10, <1>11, <1>12, <1>13 DEF Next

(* The inductive invariant holds throughout, whatever is lost, garbled or late.        *)
THEOREM Invariance == Spec => []IInv
  BY InitIInv, NextIInv, PTL DEF Spec

(* What execute returns (client.go:71-160) answers the request it sent, from its first *)
(* byte on, unless an answer was late or an attempt cut short and no request has found  *)
(* the line empty since; and it returns in the time its timeouts allow, apart from its  *)
(* writes.  For any frames, lengths, timeouts and number of retries.                   *)
THEOREM SafeLine == Spec => []LineSafe
<1>1. IInv => LineSafe
  <2> SUFFICES ASSUME IInv PROVE ReturnsInTime
    BY DEF IInv, LineSafe
  <2>1. TypeOK /\ Paced
    BY DEF IInv
  <2>2. attempt \in 0 .. Retries /\ spent \in Nat /\ left \in Nat /\ gap \in Nat
        /\ pc \in {"idle", "gap", "write", "head", "tail"}
    BY <2>1 DEF TypeOK
  <2>3. QED
    BY <2>1, <2>2, SlotsGrow, Limits DEF Paced, ReturnsInTime
<1>2. QED
  BY <1>1, Invariance, PTL

--------------------------------------------------------------------------------------
(* Breaker                                                                             *)

(* BreakerTypeOK alone does not exclude a second client beside a probe.  What does is   *)
(* time: a client that is still waiting when the breaker opens, or when a probe leaves, *)
(* has waited at least as long as the part of the cooldown that has passed, so when the *)
(* next probe is due all of them have given up.                                        *)
Spacing ==
    /\ probe # {} => Open
    /\ Open => \A c \in asking : age[c] + retryIn >= Cooldown
    /\ \A c \in probe : asking = {c}

BreakerInv == BreakerTypeOK /\ Spacing

(* The daemon starts with a closed breaker and no requests.                            *)
LEMMA BreakerInitInv == BreakerInit => BreakerInv
<1> SUFFICES ASSUME BreakerInit PROVE BreakerInv
  OBVIOUS
<1> USE BreakerAssumption DEF BreakerInit
<1>1. asking = {}
  BY DEF asking
<1>2. BreakerTypeOK
  <2>1. age \in [Clients -> 0..RequestTimeout]
    OBVIOUS
  <2>2. consecutive \in 0..(Threshold + 1) /\ retryIn \in 0..Cooldown
    OBVIOUS
  <2>3. job \in [Clients -> {"none", "queued", "wire", "ok", "failed"}]
    OBVIOUS
  <2>4. QED
    BY <2>1, <2>2, <2>3 DEF BreakerTypeOK
<1>3. Spacing
  BY <1>1 DEF Spacing, Open
<1>4. QED
  BY <1>2, <1>3 DEF BreakerInv

(* When a probe is due nobody waits for the bus.                                       *)
LEMMA DueMeansQuiet == ASSUME BreakerInv, Open, retryIn = 0 PROVE asking = {}
  BY BreakerAssumption DEF BreakerInv, BreakerTypeOK, Spacing, asking

(* A request that goes from one place in the bus to another is still waited for.       *)
LEMMA StillAsking ==
  ASSUME BreakerTypeOK, NEW c \in Clients, job[c] # "none",
         NEW place \in {"wire", "ok", "failed"}, MoveJob(c, place)
  PROVE  asking' = asking /\ job' \in [Clients -> {"none", "queued", "wire", "ok", "failed"}]
BY DEF BreakerTypeOK, MoveJob, asking

(* Every step of the breaker, its clients, the bus, the unit or the clock keeps the     *)
(* invariant.                                                                          *)
LEMMA BreakerNextInv == BreakerInv /\ [BreakerNext]_breakerVars => BreakerInv'
<1> SUFFICES ASSUME BreakerInv, [BreakerNext]_breakerVars PROVE BreakerInv'
  OBVIOUS
<1> USE BreakerAssumption DEF BreakerInv, BreakerTypeOK, Spacing, Open
<1>1. CASE Elapse
  <2>1. asking' = asking
    BY <1>1 DEF Elapse, asking
  <2>2. asking \subseteq Clients
    BY DEF asking
  <2>3. QED
    BY <1>1, <2>1, <2>2 DEF Elapse
<1>2. ASSUME UNCHANGED <<consecutive, retryIn, asking, age, probe>>, up' \in BOOLEAN, orphan' \in BOOLEAN,
             job' \in [Clients -> {"none", "queued", "wire", "ok", "failed"}]
      PROVE  BreakerInv'
  BY <1>2
<1>3. CASE Switch \/ OrphanEnds \/ UNCHANGED breakerVars
  BY <1>2, <1>3 DEF Switch, OrphanEnds, breakerVars, asking
<1>4. ASSUME NEW c \in Clients, BusWorks(c) PROVE BreakerInv'
  <2>1. PICK place \in {"wire", "ok", "failed"} : job[c] # "none" /\ MoveJob(c, place)
    BY <1>4 DEF BusWorks, Take, Answered, Unanswered
  <2>2. UNCHANGED <<up, consecutive, retryIn, orphan, age, probe>>
    BY <1>4 DEF BusWorks, Take, Answered, Unanswered
  <2>3. QED
    BY <1>2, <2>1, <2>2, StillAsking
<1>5. ASSUME NEW c \in Clients, Pass(c) PROVE BreakerInv'
  <2>1. asking' = asking \cup {c} /\ job' \in [Clients -> {"none", "queued", "wire", "ok", "failed"}]
    BY <1>5 DEF Pass, MoveJob, asking
  <2>2. QED
    BY <1>5, <2>1 DEF Pass
<1>6. ASSUME NEW c \in Clients, Probe(c) PROVE BreakerInv'
  <2>1. asking = {} /\ probe = {}
    BY <1>6, DueMeansQuiet DEF Probe
  <2>2. asking' = {c} /\ job' \in [Clients -> {"none", "queued", "wire", "ok", "failed"}]
    BY <1>6, <2>1 DEF Probe, MoveJob, asking
  <2>3. QED
    BY <1>6, <2>1, <2>2 DEF Probe
<1>7. ASSUME NEW c \in Clients, Done(c)
      PROVE  /\ asking' = asking \ {c} /\ probe' = probe \ {c}
             /\ job' \in [Clients -> {"none", "queued", "wire", "ok", "failed"}]
             /\ age' \in [Clients -> 0..RequestTimeout]
             /\ \A d \in Clients \ {c} : age'[d] = age[d]
             /\ up' \in BOOLEAN
  BY <1>7 DEF Done, MoveJob, asking
<1>8. ASSUME NEW c \in Clients, Success(c) PROVE BreakerInv'
  <2>1. c \in asking /\ Done(c) /\ consecutive' = 0 /\ UNCHANGED <<retryIn, orphan>>
    BY <1>8 DEF Success, asking
  <2>2. probe' = {}
    BY <1>7, <2>1
  <2>3. QED
    BY <1>7, <2>1, <2>2
<1>9. ASSUME NEW c \in Clients, Failure(c) PROVE BreakerInv'
  <2>1. c \in asking /\ Done(c)
    BY <1>9 DEF Failure, asking
  <2>2. /\ consecutive' = IF consecutive > Threshold THEN consecutive ELSE consecutive + 1
        /\ retryIn' = IF consecutive + 1 = Threshold THEN Cooldown ELSE retryIn
        /\ orphan' \in BOOLEAN
    BY <1>9 DEF Failure
  <2>3. BreakerTypeOK'
    BY <1>7, <2>1, <2>2
  <2>4. Open => Open'
    BY <2>2
  <2>5. ~Open /\ Open' => retryIn' = Cooldown
    BY <2>2
  <2>6. Open => retryIn' = retryIn
    BY <2>2
  <2>7. (\A d \in probe : asking = {d})' /\ (probe # {} => Open)'
    BY <1>7, <2>1, <2>4
  <2>8. (Open => \A d \in asking : age[d] + retryIn >= Cooldown)'
    <3>1. asking' \subseteq Clients \ {c} /\ asking' \subseteq asking
      BY <1>7, <2>1 DEF asking
    <3>2. QED
      BY <1>7, <2>1, <2>3, <2>5, <2>6, <3>1
  <2>9. QED
    BY <2>3, <2>7, <2>8
<1>10. QED
  BY <1>1, <1>3, <1>4, <1>5, <1>6, <1>8, <1>9 DEF BreakerNext, Ask

(* The inductive invariant holds throughout.                                           *)
THEOREM BreakerInvariance == BreakerSpec => []BreakerInv
  BY BreakerInitInv, BreakerNextInv, PTL DEF BreakerSpec

(* Every variable keeps its type; no client waits longer than its timeout.             *)
THEOREM TypeCorrect == BreakerSpec => []BreakerTypeOK
  BY BreakerInvariance, PTL DEF BreakerInv

(* While a request let through an open breaker is on the bus no other client waits      *)
(* there (breaker.go:60-76), as long as the cooldown is longer than a client waits.     *)
THEOREM ProbesGoAlone == BreakerSpec => []ProbeIsAlone
<1>1. BreakerInv => ProbeIsAlone
  <2> SUFFICES ASSUME BreakerInv, probe # {}
               PROVE  Open /\ asking = probe /\ Cardinality(probe) = 1
    BY DEF ProbeIsAlone
  <2>1. PICK c \in probe : asking = {c}
    BY DEF BreakerInv, Spacing
  <2>2. probe = {c}
    BY <2>1 DEF BreakerInv, BreakerTypeOK
  <2>3. QED
    BY <2>1, <2>2, FS_Singleton DEF BreakerInv, Spacing
<1>2. QED
  BY <1>1, BreakerInvariance, PTL

======================================================================================

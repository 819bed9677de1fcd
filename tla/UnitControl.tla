---------------------------------- MODULE UnitControl ----------------------------------
(***************************************************************************************)
(* One ventilation unit as the daemon sees it: the background poller that copies the   *)
(* unit's register map block by block into a published snapshot (internal/bus/         *)
(* poller.go), and the requests of the web interface, which decide from the snapshot   *)
(* what to write, write it, re-read what they wrote and answer from the snapshot       *)
(* (internal/web/control.go, internal/control/control.go, internal/eda/command.go).    *)
(*                                                                                     *)
(* The register map is cut down to what a mode change touches: the coils that select   *)
(* a mode, read as one block, and the duration of a timed mode, which stands for the   *)
(* holding registers.  An exchange on the wire is one step, because Bus serves one job *)
(* at a time; between two exchanges of one party any other party's may come.           *)
(***************************************************************************************)
EXTENDS Integers, Sequences, SequencesExt

CONSTANTS ModeOrder,   \* the mode coils in the order decodeMode looks at them
          Timed,       \* the mode that runs for a number of minutes
          Minutes,     \* the durations somebody may ask for
          Requests,    \* requests being handled at once
          Presses,     \* what they may ask for, a subset of Asks
          PanelModes,  \* the modes somebody may choose on the unit's own panel
          MayFail,     \* exchanges on the wire may fail
          NoSnapshot   \* the published pointer is nil

Coils  == Range(ModeOrder)
Modes  == Coils \cup {"normal"}
Addrs  == Coils \cup {"minutes"}
Blocks == {"holding", "coil"}

(* A mode button, a timed mode switched on, or a setting written without a look at     *)
(* the snapshot, as the clock is at start-up.                                          *)
Asks == [kind : {"mode"}, want : Modes] \cup [kind : {"timed", "setting"}, minutes : Minutes]

ASSUME UnitAssumption ==
    /\ IsInjective(ModeOrder) /\ "normal" \notin Coils /\ "minutes" \notin Coils
    /\ Timed \in Coils
    /\ Minutes \subseteq Nat \ {0} /\ Minutes # {}
    /\ Presses \subseteq Asks
    /\ PanelModes \subseteq Modes
    /\ MayFail \in BOOLEAN

VARIABLES
    unit,      \* what the unit holds, by address
    current,   \* Poller.current: the published snapshot
    poller,    \* where the poll loop is
    pass,      \* the snapshot it is filling
    pc,        \* where each request is
    todo,      \* the writes Apply has not done yet
    wrote,     \* the writes of this request the unit acknowledged
    rereading, \* the address being re-read
    next,      \* the copy Reread fills
    same       \* current is still the pointer Reread loaded

pollVars == <<poller, pass>>
reqVars  == <<pc, todo, wrote, rereading, next, same>>
vars == <<unit, current, pollVars, reqVars>>

Off == 0
On  == 1
Zero == [a \in Addrs |-> 0]   \* what Go makes of a slice
Blank == [vals |-> Zero, failed |-> {}]
InBlock(b) == IF b = "coil" THEN Coils ELSE {"minutes"}
Published == current # NoSnapshot

Value(a) == IF a = "minutes" THEN Minutes \cup {0} ELSE {Off, On}
Map      == {m \in [Addrs -> Minutes \cup {Off, On}] : \A a \in Addrs : m[a] \in Value(a)}
Snapshot == [vals : Map, failed : SUBSET Blocks]
AWrite   == {[addr |-> a, value |-> v] : a \in Addrs, v \in Minutes \cup {Off, On}}
Phases   == {"idle", "write", "load", "reread", "swap", "reply"}

-----------------------------------------------------------------------------------------
(* Package eda                                                                          *)

(* decodeMode: the first coil that is set, in a fixed order, or normal.                 *)
DecodeMode(vals) ==
    LET on == SelectSeq(ModeOrder, LAMBDA c : vals[c] = On)
    IN  IF on = <<>> THEN "normal" ELSE Head(on)

WriteTo(a, v) == [addr |-> a, value |-> v]
CoilWrite(m, v) == IF m \in Coils THEN <<WriteTo(m, v)>> ELSE <<>>

(* SetMode clears the mode the unit is believed to be in and sets the wanted one.       *)
SetMode(now, want) ==
    IF now = want THEN <<>> ELSE CoilWrite(now, Off) \o CoilWrite(want, On)

(* Mutant: the mode first.                                                              *)
StartModeFirst(now, n) == SetMode(now, Timed) \o <<WriteTo("minutes", n)>>

(* StartOverpressure and StartBoost: the duration first, then the mode.                 *)
StartTimed(now, n) == <<WriteTo("minutes", n)>> \o SetMode(now, Timed)

-----------------------------------------------------------------------------------------
(* The poll loop.  It uses context.Background(), so a read fails only on the wire.      *)

StartPass ==
    /\ poller = "wait"
    /\ poller' = "holding"
    /\ pass' = Blank
    /\ UNCHANGED <<unit, current, reqVars>>

AfterBlock(b) == IF b = "holding" THEN "coil" ELSE "publish"

ReadBlock(b) ==
    /\ poller = b
    /\ poller' = AfterBlock(b)
    /\ pass' = [pass EXCEPT !.vals = [a \in Addrs |-> IF a \in InBlock(b) THEN unit[a] ELSE @[a]]]
    /\ UNCHANGED <<unit, current, reqVars>>

(* Mutant: the failure is not recorded.                                                 *)
BlockLost(b) ==
    /\ MayFail
    /\ poller = b
    /\ poller' = AfterBlock(b)
    /\ UNCHANGED <<unit, current, pass, reqVars>>

BlockFails(b) ==
    /\ MayFail
    /\ poller = b
    /\ poller' = AfterBlock(b)
    /\ pass' = [pass EXCEPT !.failed = @ \cup {b}]
    /\ UNCHANGED <<unit, current, reqVars>>

(* Mutant: only a complete pass is published.                                           *)
EndPassComplete ==
    /\ poller = "publish"
    /\ poller' = "wait"
    /\ IF pass.failed # {}
       THEN UNCHANGED <<current, same>>
       ELSE current' = pass /\ same' = [r \in Requests |-> FALSE]
    /\ pass' = Blank
    /\ UNCHANGED <<unit, pc, todo, wrote, rereading, next>>

(* A pass that failed entirely is not published; any other one is, pointer and all.     *)
EndPass ==
    /\ poller = "publish"
    /\ poller' = "wait"
    /\ IF pass.failed = Blocks
       THEN UNCHANGED <<current, same>>
       ELSE current' = pass /\ same' = [r \in Requests |-> FALSE]
    /\ pass' = Blank
    /\ UNCHANGED <<unit, pc, todo, wrote, rereading, next>>

-----------------------------------------------------------------------------------------
(* A request, from the handler through Apply                                            *)

WritesFor(ask) ==
    CASE ask.kind = "mode"    -> SetMode(DecodeMode(current.vals), ask.want)
      [] ask.kind = "timed"   -> StartTimed(DecodeMode(current.vals), ask.minutes)
      [] ask.kind = "setting" -> <<WriteTo("minutes", ask.minutes)>>

(* The handler reads the state, which needs a snapshot, and works out the writes.       *)
Press(r, ask) ==
    /\ pc[r] = "idle"
    /\ ask.kind # "setting" => Published
    /\ todo' = [todo EXCEPT ![r] = WritesFor(ask)]
    /\ pc' = [pc EXCEPT ![r] = IF WritesFor(ask) = <<>> THEN "reply" ELSE "write"]
    /\ UNCHANGED <<unit, current, pollVars, wrote, rereading, next, same>>

Stores(w) == unit' = [unit EXCEPT ![w.addr] = w.value]

WriteOne(r) ==
    /\ pc[r] = "write"
    /\ Stores(Head(todo[r]))
    /\ wrote' = [wrote EXCEPT ![r] = @ \cup {Head(todo[r])}]
    /\ rereading' = [rereading EXCEPT ![r] = Head(todo[r]).addr]
    /\ todo' = [todo EXCEPT ![r] = Tail(@)]
    /\ pc' = [pc EXCEPT ![r] = "load"]
    /\ UNCHANGED <<current, pollVars, next, same>>

(* The request is over; what it kept on its stack is gone.                              *)
Finish(r) ==
    /\ pc' = [pc EXCEPT ![r] = "idle"]
    /\ todo' = [todo EXCEPT ![r] = <<>>]
    /\ wrote' = [wrote EXCEPT ![r] = {}]
    /\ rereading' = [rereading EXCEPT ![r] = "minutes"]
    /\ UNCHANGED <<current, pollVars, next, same>>

(* No acknowledgement: the unit may have stored the value all the same.                 *)
WriteFails(r) ==
    /\ MayFail
    /\ pc[r] = "write"
    /\ Stores(Head(todo[r])) \/ UNCHANGED unit
    /\ Finish(r)

(* Apply's loop after a write: the next one, or the answer.                             *)
Onward(r) == pc' = [pc EXCEPT ![r] = IF todo[r] = <<>> THEN "reply" ELSE "write"]

(* Reread copies the published snapshot, if there is one.                               *)
LoadSnapshot(r) ==
    /\ pc[r] = "load"
    /\ IF Published
       THEN /\ next' = [next EXCEPT ![r] = current]
            /\ same' = [same EXCEPT ![r] = TRUE]
            /\ pc' = [pc EXCEPT ![r] = "reread"]
       ELSE Onward(r) /\ UNCHANGED <<next, same>>
    /\ UNCHANGED <<unit, current, pollVars, todo, wrote, rereading>>

Reread(r) ==
    /\ pc[r] = "reread"
    /\ next' = [next EXCEPT ![r].vals[rereading[r]] = unit[rereading[r]]]
    /\ pc' = [pc EXCEPT ![r] = "swap"]
    /\ UNCHANGED <<unit, current, pollVars, todo, wrote, rereading, same>>

(* Mutant: a failed re-read is tried until it succeeds.                                 *)
RereadAgain(r) ==
    /\ MayFail
    /\ pc[r] = "reread"
    /\ pc' = [pc EXCEPT ![r] = "load"]
    /\ next' = [next EXCEPT ![r] = Blank]
    /\ same' = [same EXCEPT ![r] = FALSE]
    /\ UNCHANGED <<unit, current, pollVars, todo, wrote, rereading>>

(* Apply returns nil at once, with whatever it had left to write.                       *)
RereadFails(r) ==
    /\ MayFail
    /\ pc[r] = "reread"
    /\ pc' = [pc EXCEPT ![r] = "reply"]
    /\ next' = [next EXCEPT ![r] = Blank]
    /\ same' = [same EXCEPT ![r] = FALSE]
    /\ UNCHANGED <<unit, current, pollVars, todo, wrote, rereading>>

(* Mutant: the copy is stored whatever has been published since.                        *)
StoreAnyway(r) ==
    /\ pc[r] = "swap"
    /\ current' = next[r] /\ same' = [q \in Requests |-> FALSE]
    /\ Onward(r)
    /\ next' = [next EXCEPT ![r] = Blank]
    /\ UNCHANGED <<unit, pollVars, todo, wrote, rereading>>

(* CompareAndSwap: the copy replaces the snapshot it was made from, or is dropped.      *)
Swap(r) ==
    /\ pc[r] = "swap"
    /\ IF same[r]
       THEN current' = next[r] /\ same' = [q \in Requests |-> FALSE]
       ELSE UNCHANGED current /\ same' = [same EXCEPT ![r] = FALSE]
    /\ Onward(r)
    /\ next' = [next EXCEPT ![r] = Blank]
    /\ UNCHANGED <<unit, pollVars, todo, wrote, rereading>>

(* The answer to a successful request is the state as the snapshot now shows it.        *)
Reply(r) ==
    /\ pc[r] = "reply"
    /\ Finish(r)
    /\ UNCHANGED unit

(* Somebody chooses a mode on the panel, which keeps the coils exclusive.               *)
Panel(m) ==
    /\ unit' = [a \in Addrs |-> IF a \in Coils THEN (IF a = m THEN On ELSE Off) ELSE unit[a]]
    /\ UNCHANGED <<current, pollVars, reqVars>>

-----------------------------------------------------------------------------------------
Init ==
    /\ unit \in Map
    /\ unit["minutes"] # 0
    /\ \A a, b \in Coils : unit[a] = On /\ unit[b] = On => a = b
    /\ current = NoSnapshot
    /\ poller = "wait" /\ pass = Blank
    /\ pc = [r \in Requests |-> "idle"]
    /\ todo = [r \in Requests |-> <<>>]
    /\ wrote = [r \in Requests |-> {}]
    /\ rereading = [r \in Requests |-> "minutes"]
    /\ next = [r \in Requests |-> Blank]
    /\ same = [r \in Requests |-> FALSE]

PollStep == StartPass \/ (\E b \in Blocks : ReadBlock(b) \/ BlockFails(b)) \/ EndPass

Handle(r) ==
    \/ WriteOne(r) \/ WriteFails(r)
    \/ LoadSnapshot(r) \/ Reread(r) \/ RereadFails(r) \/ Swap(r)
    \/ Reply(r)

Next ==
    \/ PollStep
    \/ \E r \in Requests : Handle(r) \/ \E ask \in Presses : Press(r, ask)
    \/ \E m \in PanelModes : Panel(m)

Spec == Init /\ [][Next]_vars

(* Both goroutines run, and the unit does not refuse the coil block for ever.           *)
Fairness ==
    /\ WF_vars(PollStep) /\ SF_vars(ReadBlock("coil"))
    /\ \A r \in Requests : WF_vars(Handle(r))

FairSpec == Spec /\ Fairness

-----------------------------------------------------------------------------------------
TypeOK ==
    /\ unit \in Map
    /\ Published => current \in Snapshot
    /\ poller \in {"wait", "holding", "coil", "publish"}
    /\ pass \in Snapshot
    /\ \A r \in Requests :
        /\ pc[r] \in Phases
        /\ Range(todo[r]) \subseteq AWrite /\ wrote[r] \subseteq AWrite
        /\ rereading[r] \in Addrs
        /\ next[r] \in Snapshot
        /\ same[r] \in BOOLEAN

(* A block nobody has read is never shown as if it had been: a duration is never zero   *)
(* on the unit, so a zero in the snapshot belongs to a failed block, and stays marked   *)
(* through every re-read and swap (poller.go:43-45, 263).                               *)
ZeroIsMarked ==
    Published /\ current.vals["minutes"] = 0 => "holding" \in current.failed

(* What holds of every state of the poller, the snapshot and the requests.              *)
UnitSafe == TypeOK /\ ZeroIsMarked

(* A re-read publishes its own address and nothing else: what a pass has published in   *)
(* the meantime, or another re-read, is never put back (poller.go:292-298).             *)
RereadKeepsTheRest ==
    [][poller' = poller =>
        \/ current' = current
        \/ /\ Published
           /\ current'.failed = current.failed
           /\ \E r \in Requests : \A a \in Addrs \ {rereading[r]} :
                current'.vals[a] = current.vals[a]]_vars

(* A timed mode never starts on a duration that was not asked for with it: when a       *)
(* request sets the coil, its own duration is on the unit (command.go:136-148).         *)
DurationFirst ==
    [][unit[Timed] = Off /\ unit'[Timed] = On =>
        \/ \E r \in Requests :
            /\ pc[r] = "write"
            /\ \A w \in wrote[r] : w.addr = "minutes" => unit["minutes"] = w.value
            /\ \A i \in DOMAIN todo[r] : todo[r][i].addr # "minutes"
        \/ \E m \in PanelModes : Panel(m)]_vars

(* Once nobody changes anything, what the interface shows of the mode is again and      *)
(* again what the unit holds, however many passes fail in between.                      *)
Quiet == \A r \in Requests : pc[r] = "idle"
SnapshotCatchesUp ==
    <>[][Quiet /\ unit' = unit]_vars =>
        []<>(Published /\ \A c \in Coils : current.vals[c] = unit[c])

(* A request that was let in is answered.                                               *)
RequestsAreAnswered == \A r \in Requests : pc[r] # "idle" ~> pc[r] = "idle"

(* "Apply performs the writes in order" (control.go:298): a request that is answered    *)
(* with the state rather than an error has written all it set out to write.             *)
SuccessMeansWritten ==
    \A r \in Requests : pc[r] = "reply" => todo[r] = <<>>

(* "... and then re-reads exactly what was written, so the answer to the request that   *)
(* caused them already reflects them" (control.go:298-299): a write the unit still      *)
(* holds when the request has been answered is in the answer.                           *)
AnswerReflectsWrites ==
    \A r \in Requests : pc[r] = "reply" /\ Published =>
        \A w \in wrote[r] : unit[w.addr] = w.value => current.vals[w.addr] = w.value

(* "Mutually exclusive in practice, so choosing one clears the others" (state.go:10-11): *)
(* at most one mode coil is set.                                                        *)
OneModeAtATime == \A a, b \in Coils : unit[a] = On /\ unit[b] = On => a = b

(* "Failed saying which blocks carry stale data" (poller.go:204-205): a block that      *)
(* could not be read keeps the values of the snapshot before.                           *)
FailedBlocksKeepTheirValues ==
    [][poller = "publish" /\ Published /\ current' # current =>
        \A b \in current'.failed : \A a \in InBlock(b) :
            current'.vals[a] = current.vals[a]]_vars

=========================================================================================

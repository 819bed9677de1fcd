--------------------------------- MODULE UnitProofs ----------------------------------
(* Proofs about UnitControl, UnitState and UnitPages, which share no variable.         *)
(* UnitControl: for any modes, durations and presses, any number of requests at once   *)
(* unless a theorem says otherwise, and exchanges that fail or do not. UnitState: for  *)
(* any number of callers of State at once, however their loads and stores interleave,  *)
(* any delay of the warning and any timed modes. UnitPages: for any registers at       *)
(* first, any programs, settings and moments, and requests in any number and order.    *)
EXTENDS UnitControl, UnitState, UnitPages, SequenceTheorems, TLAPS

--------------------------------------------------------------------------------------
(* UnitControl                                                                         *)

(* What the handlers write: a duration somebody may ask for, or a coil on or off.      *)
GoodWrite == {w \in AWrite : w.value \in IF w.addr = "minutes" THEN Minutes ELSE {Off, On}}

Marked(s) == s.vals["minutes"] = 0 => "holding" \in s.failed

Types ==
    /\ unit \in Map /\ unit["minutes"] # 0
    /\ poller \in {"wait", "holding", "coil", "publish"}
    /\ pass \in Snapshot
    /\ pc \in [Requests -> Phases]
    /\ todo \in [Requests -> Seq(GoodWrite)]
    /\ wrote \in [Requests -> SUBSET GoodWrite]
    /\ rereading \in [Requests -> Addrs]
    /\ next \in [Requests -> Snapshot]
    /\ same \in [Requests -> BOOLEAN]

(* A snapshot is marked from the moment its holding registers have been tried.         *)
Shown ==
    /\ Published => current \in Snapshot /\ Marked(current)
    /\ poller \in {"coil", "publish"} => Marked(pass)

(* What a request has in hand: something to write, a copy that is marked, and, while   *)
(* nothing else has been published, the published snapshot but for one address.        *)
Copy(r) ==
    /\ pc[r] = "write" => todo[r] # <<>>
    /\ pc[r] \in {"reread", "swap"} => Marked(next[r])
    /\ same[r] => /\ pc[r] \in {"reread", "swap"} /\ Published
                  /\ next[r].failed = current.failed
                  /\ \A a \in Addrs \ {rereading[r]} : next[r].vals[a] = current.vals[a]

IInv == Types /\ Shown /\ \A r \in Requests : Copy(r)

--------------------------------------------------------------------------------------
(* The snapshot there is at first, and that of a pass that read nothing.               *)
LEMMA BlankType == Blank \in Snapshot /\ Zero \in Map
BY UnitAssumption DEF Blank, Snapshot, Zero, Map, Value, Off, On

(* One address more is known.                                                          *)
LEMMA MapUpdate ==
  ASSUME NEW m \in Map, NEW a \in Addrs, NEW v \in Value(a)
  PROVE  [m EXCEPT ![a] = v] \in Map
BY DEF Map, Value, Off, On

(* What an address may hold.                                                           *)
LEMMA MapValue == \A m \in Map : \A a \in Addrs : m[a] \in Value(a)
BY DEF Map

(* The daemon starts with no snapshot and no request.                                  *)
LEMMA InitIInv == Init => IInv
<1> SUFFICES ASSUME Init PROVE IInv
  OBVIOUS
<1>1. "minutes" \in Addrs /\ "idle" \in Phases /\ <<>> \in Seq(GoodWrite)
  BY DEF Addrs, Phases
<1>2. QED
  BY <1>1, BlankType DEF Init, IInv, Types, Shown, Copy, Published

(* Whatever mode the snapshot shows, the writes are good ones.                         *)
LEMMA GoodWrites ==
  ASSUME NEW ask \in Presses
  PROVE  WritesFor(ask) \in Seq(GoodWrite)
<1>1. \A m, v : v \in {Off, On} => CoilWrite(m, v) \in Seq(GoodWrite)
  <2> SUFFICES ASSUME NEW m, NEW v \in {Off, On} PROVE CoilWrite(m, v) \in Seq(GoodWrite)
    OBVIOUS
  <2>1. CASE m \in Coils
    <3>1. m \in Addrs /\ m # "minutes"
      BY <2>1, UnitAssumption DEF Addrs
    <3>2. WriteTo(m, v) \in AWrite
      BY <3>1 DEF WriteTo, AWrite
    <3>3. WriteTo(m, v) \in GoodWrite
      BY <3>1, <3>2 DEF WriteTo, GoodWrite
    <3>4. QED
      BY <2>1, <3>3 DEF CoilWrite
  <2>2. QED
    BY <2>1 DEF CoilWrite
<1>2. \A now, want : SetMode(now, want) \in Seq(GoodWrite)
  <2> SUFFICES ASSUME NEW now, NEW want PROVE SetMode(now, want) \in Seq(GoodWrite)
    OBVIOUS
  <2>1. CoilWrite(now, Off) \in Seq(GoodWrite) /\ CoilWrite(want, On) \in Seq(GoodWrite)
    BY <1>1
  <2>2. CoilWrite(now, Off) \o CoilWrite(want, On) \in Seq(GoodWrite)
    BY <2>1
  <2>3. <<>> \in Seq(GoodWrite)
    OBVIOUS
  <2>4. QED
    BY <2>2, <2>3 DEF SetMode
<1>3. \A n \in Minutes : <<WriteTo("minutes", n)>> \in Seq(GoodWrite)
  BY DEF WriteTo, GoodWrite, AWrite, Addrs
<1>4. \A now : \A n \in Minutes : StartTimed(now, n) \in Seq(GoodWrite)
  BY <1>2, <1>3 DEF StartTimed
<1>5. ask \in Asks
  BY UnitAssumption
<1>6. CASE ask.kind = "mode"
  BY <1>2, <1>6 DEF WritesFor
<1>7. CASE ask.kind = "timed"
  BY <1>4, <1>5, <1>7 DEF WritesFor, Asks
<1>8. CASE ask.kind = "setting"
  BY <1>3, <1>5, <1>8 DEF WritesFor, Asks
<1>9. QED
  BY <1>5, <1>6, <1>7, <1>8 DEF Asks

(* What the unit stores is in its range, and no duration becomes zero.                 *)
LEMMA StoresType ==
  ASSUME NEW w \in GoodWrite, unit \in Map, unit["minutes"] # 0, Stores(w)
  PROVE  unit' \in Map /\ unit'["minutes"] # 0
<1>1. w.addr \in Addrs /\ w.value \in Value(w.addr)
  BY UnitAssumption DEF GoodWrite, AWrite, Value, Addrs
<1>2. unit' \in Map
  BY <1>1, MapUpdate DEF Stores
<1>3. unit'["minutes"] # 0
  BY UnitAssumption DEF Stores, GoodWrite, Map
<1>4. QED
  BY <1>2, <1>3

--------------------------------------------------------------------------------------
(* Every step of the poller keeps the invariant.                                       *)
LEMMA PollIInv == IInv /\ PollStep => IInv'
<1> SUFFICES ASSUME IInv, PollStep PROVE IInv'
  OBVIOUS
<1> USE DEF IInv, Types, Shown, Copy, Published, reqVars
<1>1. CASE StartPass
  BY <1>1, BlankType DEF StartPass
<1>2. ASSUME NEW b \in Blocks, ReadBlock(b) PROVE IInv'
  <2>1. pass' \in Snapshot
    <3>1. [a \in Addrs |-> IF a \in InBlock(b) THEN unit[a] ELSE pass.vals[a]] \in Map
      BY DEF Snapshot, Map
    <3>2. QED
      BY <1>2, <3>1 DEF ReadBlock, Snapshot
  <2>2. poller' \in {"coil", "publish"} /\ Marked(pass)'
    BY <1>2, UnitAssumption DEF ReadBlock, AfterBlock, Blocks, InBlock, Marked, Addrs, Snapshot
  <2>3. QED
    BY <1>2, <2>1, <2>2 DEF ReadBlock
<1>3. ASSUME NEW b \in Blocks, BlockFails(b) PROVE IInv'
  <2>1. pass' \in Snapshot
    BY <1>3 DEF BlockFails, Snapshot
  <2>2. poller' \in {"coil", "publish"} /\ Marked(pass)'
    BY <1>3 DEF BlockFails, AfterBlock, Blocks, Marked, Snapshot
  <2>3. QED
    BY <1>3, <2>1, <2>2 DEF BlockFails
<1>4. CASE EndPass
  <2>1. Types'
    BY <1>4, BlankType DEF EndPass
  <2>2. Published' => current' \in Snapshot /\ Marked(current)'
    BY <1>4 DEF EndPass, Marked
  <2>3. \A r \in Requests : Copy(r)'
    BY <1>4 DEF EndPass, Marked
  <2>4. QED
    BY <1>4, <2>1, <2>2, <2>3 DEF EndPass
<1>5. QED
  BY <1>1, <1>2, <1>3, <1>4 DEF PollStep

(* A request that ends, and one that goes on.                                          *)
LEMMA WriteIInv == ASSUME IInv, NEW r \in Requests, WriteOne(r) \/ WriteFails(r) PROVE IInv'
<1> USE DEF IInv, Types, Shown, Copy, Published, pollVars
<1>1. Head(todo[r]) \in GoodWrite /\ Tail(todo[r]) \in Seq(GoodWrite)
  BY DEF WriteOne, WriteFails
<1>2. unit' \in Map /\ unit'["minutes"] # 0
  BY <1>1, StoresType DEF WriteOne, WriteFails
<1>3. Head(todo[r]).addr \in Addrs /\ "minutes" \in Addrs /\ <<>> \in Seq(GoodWrite)
  BY <1>1 DEF GoodWrite, AWrite, Addrs
<1>4. CASE WriteOne(r)
  <2>1. Types'
    BY <1>1, <1>2, <1>3, <1>4 DEF WriteOne, Phases
  <2>2. Shown'
    BY <1>4 DEF WriteOne, Marked
  <2>3. \A q \in Requests : Copy(q)'
    BY <1>4 DEF WriteOne, Marked
  <2>4. QED
    BY <2>1, <2>2, <2>3
<1>5. CASE WriteFails(r)
  <2>1. Types'
    BY <1>2, <1>3, <1>5 DEF WriteFails, Finish, Phases
  <2>2. Shown'
    BY <1>5 DEF WriteFails, Finish, Marked
  <2>3. \A q \in Requests : Copy(q)'
    BY <1>5 DEF WriteFails, Finish, Marked
  <2>4. QED
    BY <2>1, <2>2, <2>3
<1>6. QED
  BY <1>4, <1>5

(* So does reading back what was written.                                              *)
LEMMA RereadIInv ==
  ASSUME IInv, NEW r \in Requests, LoadSnapshot(r) \/ Reread(r) \/ RereadFails(r) PROVE IInv'
<1> USE DEF IInv, Types, Shown, Copy, Published, pollVars, Phases
<1>1. CASE LoadSnapshot(r)
  <2>1. Types'
    BY <1>1 DEF LoadSnapshot, Onward
  <2>2. Shown'
    BY <1>1 DEF LoadSnapshot, Marked
  <2>3. \A q \in Requests : Copy(q)'
    BY <1>1 DEF LoadSnapshot, Onward, Marked
  <2>4. QED
    BY <2>1, <2>2, <2>3
<1>2. CASE Reread(r)
  <2> DEFINE a == rereading[r]
  <2>1. next'[r].failed = next[r].failed /\ next'[r].vals = [next[r].vals EXCEPT ![a] = unit[a]]
    BY <1>2 DEF Reread, Snapshot
  <2>2. next' \in [Requests -> Snapshot]
    <3>1. a \in Addrs /\ unit[a] \in Value(a) /\ next[r].vals \in Map
      BY MapValue DEF Snapshot
    <3>2. [next[r].vals EXCEPT ![a] = unit[a]] \in Map
      BY <3>1, MapUpdate
    <3>3. next'[r] \in Snapshot
      BY <1>2, <3>2 DEF Reread, Snapshot
    <3>4. QED
      BY <1>2, <3>3 DEF Reread
  <2>3. Marked(next[r])'
    BY <1>2, <2>1 DEF Reread, Marked, Snapshot, Map
  <2>4. \A q \in Requests : q # r => next'[q] = next[q]
    BY <1>2 DEF Reread
  <2>5. \A b \in Addrs \ {a} : next'[r].vals[b] = next[r].vals[b]
    BY <2>1 DEF Snapshot, Map
  <2>6. Types' /\ Shown'
    BY <1>2, <2>2 DEF Reread, Marked
  <2>7. Copy(r)'
    BY <1>2, <2>1, <2>3, <2>5 DEF Reread
  <2>8. ASSUME NEW q \in Requests, q # r PROVE Copy(q)'
    BY <1>2, <2>4, <2>8 DEF Reread, Marked
  <2>9. QED
    BY <2>6, <2>7, <2>8
<1>3. CASE RereadFails(r)
  BY <1>3, BlankType DEF RereadFails
<1>4. QED
  BY <1>1, <1>2, <1>3

(* And swapping the snapshot, or answering.                                            *)
LEMMA SwapIInv == ASSUME IInv, NEW r \in Requests, Swap(r) \/ Reply(r) PROVE IInv'
<1> USE DEF IInv, Types, Shown, Copy, Published, pollVars, Phases
<1>1. CASE Swap(r)
  <2>1. Types'
    BY <1>1, BlankType DEF Swap, Onward
  <2>2. Shown'
    BY <1>1 DEF Swap, Marked
  <2>3. \A q \in Requests : Copy(q)'
    BY <1>1 DEF Swap, Onward, Marked
  <2>4. QED
    BY <2>1, <2>2, <2>3
<1>2. CASE Reply(r)
  BY <1>2 DEF Reply, Finish, Addrs
<1>3. QED
  BY <1>1, <1>2

(* Every step of the poller, the requests, the unit and its panel keeps the invariant. *)
LEMMA NextIInv == IInv /\ [Next]_vars => IInv'
<1> SUFFICES ASSUME IInv, [Next]_vars PROVE IInv'
  OBVIOUS
<1>1. ASSUME NEW r \in Requests, NEW ask \in Presses, Press(r, ask) PROVE IInv'
  <2>1. WritesFor(ask) \in Seq(GoodWrite)
    BY GoodWrites
  <2>2. QED
    BY <1>1, <2>1 DEF Press, IInv, Types, Shown, Copy, Published, pollVars, Phases
<1>2. ASSUME NEW m \in PanelModes, Panel(m) PROVE IInv'
  <2>1. unit' \in Map /\ unit'["minutes"] = unit["minutes"]
    BY <1>2, UnitAssumption DEF Panel, IInv, Types, Map, Value, Addrs
  <2>2. QED
    BY <1>2, <2>1 DEF Panel, IInv, Types, Shown, Copy, Published, pollVars, reqVars
<1>3. CASE UNCHANGED vars
  BY <1>3 DEF vars, pollVars, reqVars, IInv, Types, Shown, Copy, Published
<1>4. ASSUME NEW r \in Requests, Handle(r) PROVE IInv'
  BY <1>4, WriteIInv, RereadIInv, SwapIInv DEF Handle
<1>5. QED
  BY <1>1, <1>2, <1>3, <1>4, PollIInv DEF Next

(* The inductive invariant holds throughout.                                           *)
LEMMA Invariance == Spec => []IInv
BY InitIInv, NextIInv, PTL DEF Spec

--------------------------------------------------------------------------------------
(* Every variable keeps its type, and a duration nobody has read is marked as such in  *)
(* every snapshot, through passes that fail, re-reads and swaps (poller.go:43-45,      *)
(* 253-299).                                                                           *)
THEOREM ZeroesAreMarked == Spec => []UnitSafe
<1>1. IInv => UnitSafe
  <2>1. GoodWrite \subseteq AWrite
    BY DEF GoodWrite
  <2>2. Types => \A r \in Requests : Range(todo[r]) \subseteq AWrite
    BY <2>1 DEF Types, Range
  <2>3. QED
    BY <2>1, <2>2 DEF IInv, Types, Shown, Marked, UnitSafe, TypeOK, ZeroIsMarked
<1>2. QED
  BY <1>1, Invariance, PTL

(* However many requests and passes publish, a re-read never puts back what another    *)
(* has published since it began (poller.go:292-299).                                   *)
THEOREM NothingPutBack == Spec => RereadKeepsTheRest
<1> DEFINE Kept ==
      \/ current' = current
      \/ /\ Published
         /\ current'.failed = current.failed
         /\ \E r \in Requests : \A a \in Addrs \ {rereading[r]} : current'.vals[a] = current.vals[a]
<1>1. ASSUME IInv, [Next]_vars, poller' = poller PROVE Kept
  <2>1. ASSUME NEW r \in Requests, Swap(r) PROVE Kept
    BY <1>1, <2>1 DEF Swap, IInv, Copy
  <2>2. ASSUME NEW r \in Requests,
               \/ WriteOne(r) \/ WriteFails(r) \/ LoadSnapshot(r) \/ Reread(r) \/ RereadFails(r)
               \/ Reply(r) \/ \E ask \in Presses : Press(r, ask)
        PROVE  current' = current
    BY <2>2 DEF WriteOne, WriteFails, LoadSnapshot, Reread, RereadFails, Reply, Finish, Press
  <2>3. ~EndPass
    BY <1>1 DEF EndPass
  <2>4. StartPass \/ (\E b \in Blocks : ReadBlock(b) \/ BlockFails(b)) => current' = current
    BY DEF StartPass, ReadBlock, BlockFails
  <2>5. (\E m \in PanelModes : Panel(m)) \/ UNCHANGED vars => current' = current
    BY DEF Panel, vars
  <2>6. QED
    BY <1>1, <2>1, <2>2, <2>3, <2>4, <2>5 DEF Next, PollStep, Handle
<1>2. IInv /\ [Next]_vars => [poller' = poller => Kept]_vars
  BY <1>1
<1>3. QED
  BY <1>2, Invariance, PTL DEF RereadKeepsTheRest, Spec

--------------------------------------------------------------------------------------
(* The duration comes first of a request's writes, and stays on the unit for as long   *)
(* as the request that wrote it goes on.                                               *)
InOrder(r) ==
    /\ pc[r] = "idle" => wrote[r] = {}
    /\ \A i \in 2 .. Len(todo[r]) : todo[r][i].addr # "minutes"
    /\ wrote[r] # {} => \A i \in 1 .. Len(todo[r]) : todo[r][i].addr # "minutes"
    /\ \A w \in wrote[r] : w.addr = "minutes" => unit["minutes"] = w.value

(* One request at a time: with two, one may set the coil of a timed mode between       *)
(* another's duration and its coil, and the property fails.                            *)
Alone == \A r, q \in Requests : r = q

(* The writes of SetMode leave the duration alone.                                     *)
LEMMA NoDurationInAMode ==
  ASSUME NEW now, NEW want
  PROVE  /\ SetMode(now, want) \in Seq(GoodWrite)
         /\ \A i \in 1 .. Len(SetMode(now, want)) : SetMode(now, want)[i].addr # "minutes"
<1> DEFINE CoilWrites == {w \in GoodWrite : w.addr # "minutes"}
<1>1. \A m, v : v \in {Off, On} => CoilWrite(m, v) \in Seq(CoilWrites)
  <2> SUFFICES ASSUME NEW m, NEW v \in {Off, On} PROVE CoilWrite(m, v) \in Seq(CoilWrites)
    OBVIOUS
  <2>1. CASE m \in Coils
    <3>1. m \in Addrs /\ m # "minutes"
      BY <2>1, UnitAssumption DEF Addrs
    <3>2. WriteTo(m, v) \in AWrite
      BY <3>1 DEF WriteTo, AWrite
    <3>3. WriteTo(m, v) \in CoilWrites
      BY <3>1, <3>2 DEF WriteTo, GoodWrite
    <3>4. QED
      BY <2>1, <3>3 DEF CoilWrite
  <2>2. QED
    BY <2>1 DEF CoilWrite
<1>2. CoilWrite(now, Off) \in Seq(CoilWrites) /\ CoilWrite(want, On) \in Seq(CoilWrites)
  BY <1>1
<1>3. SetMode(now, want) \in Seq(CoilWrites)
  <2> HIDE DEF CoilWrites
  <2>1. CoilWrite(now, Off) \o CoilWrite(want, On) \in Seq(CoilWrites) /\ <<>> \in Seq(CoilWrites)
    BY <1>2
  <2>2. QED
    BY <2>1 DEF SetMode
<1>4. \A i \in 1 .. Len(SetMode(now, want)) : SetMode(now, want)[i] \in CoilWrites
  <2> HIDE DEF CoilWrites
  <2> QED
    BY <1>3
<1>5. Seq(CoilWrites) \subseteq Seq(GoodWrite)
  OBVIOUS
<1>6. QED
  BY <1>3, <1>4, <1>5

(* Of what a press comes to, only the first write may be the duration (StartTimed,     *)
(* command.go:136-148).                                                                *)
LEMMA DurationLeads ==
  ASSUME NEW ask \in Presses
  PROVE  \A i \in 2 .. Len(WritesFor(ask)) : WritesFor(ask)[i].addr # "minutes"
<1> DEFINE now == DecodeMode(current.vals)
<1>1. ask \in Asks
  BY UnitAssumption
<1>2. CASE ask.kind = "mode"
  <2>1. WritesFor(ask) = SetMode(now, ask.want)
    BY <1>2 DEF WritesFor
  <2> HIDE DEF now
  <2>2. QED
    BY <2>1, NoDurationInAMode
<1>3. CASE ask.kind = "timed"
  <2> DEFINE rest == SetMode(now, Timed)
             one  == <<WriteTo("minutes", ask.minutes)>>
  <2>1. WritesFor(ask) = one \o rest
    BY <1>3 DEF WritesFor, StartTimed
  <2>2. rest \in Seq(GoodWrite) /\ \A i \in 1 .. Len(rest) : rest[i].addr # "minutes"
    BY NoDurationInAMode
  <2>3. one \in Seq(GoodWrite) /\ Len(one) = 1
    <3>1. WriteTo("minutes", ask.minutes) \in GoodWrite
      BY <1>1, <1>3 DEF WriteTo, GoodWrite, AWrite, Addrs, Asks
    <3>2. QED
      BY <3>1
  <2> HIDE DEF rest, one
  <2>4. /\ Len(one \o rest) = 1 + Len(rest) /\ Len(rest) \in Nat
        /\ \A i \in 1 .. 1 + Len(rest) : (one \o rest)[i] = IF i <= 1 THEN one[i] ELSE rest[i - 1]
    <3>1. rest \in Seq(GoodWrite) /\ one \in Seq(GoodWrite) /\ Len(one) = 1
      BY <2>2, <2>3
    <3>2. /\ Len(one \o rest) = Len(one) + Len(rest)
          /\ \A i \in 1 .. Len(one) + Len(rest) :
                 (one \o rest)[i] = IF i <= Len(one) THEN one[i] ELSE rest[i - Len(one)]
      BY <3>1, ConcatProperties
    <3>3. Len(rest) \in Nat
      BY <3>1
    <3>4. QED
      BY <3>1, <3>2, <3>3
  <2>5. ASSUME NEW i \in 2 .. Len(one \o rest) PROVE (one \o rest)[i].addr # "minutes"
    <3>1. i - 1 \in 1 .. Len(rest) /\ i \in 1 .. 1 + Len(rest) /\ ~(i <= 1)
      BY <2>4
    <3>2. (one \o rest)[i] = rest[i - 1]
      BY <3>1, <2>4
    <3>3. QED
      BY <3>1, <3>2, <2>2, <2>3
  <2>6. QED
    BY <2>1, <2>5
<1>4. CASE ask.kind = "setting"
  BY <1>4 DEF WritesFor
<1>5. QED
  BY <1>1, <1>2, <1>3, <1>4 DEF Asks

(* Every step keeps the writes in order.                                               *)
LEMMA InOrderNext ==
  ASSUME Alone, IInv, \A r \in Requests : InOrder(r), [Next]_vars
  PROVE  \A r \in Requests : InOrder(r)'
<1> SUFFICES ASSUME NEW r \in Requests PROVE InOrder(r)'
  OBVIOUS
<1>0. /\ InOrder(r) /\ todo[r] \in Seq(GoodWrite) /\ wrote[r] \in SUBSET GoodWrite
      /\ pc[r] = "write" => todo[r] # <<>>
      /\ pc \in [Requests -> Phases] /\ todo \in [Requests -> Seq(GoodWrite)]
      /\ wrote \in [Requests -> SUBSET GoodWrite] /\ unit \in Map
      /\ Len(todo[r]) \in Nat
  BY DEF IInv, Types, Copy
<1>1. CASE WriteOne(r)
  <2> DEFINE w == Head(todo[r])
             rest == Tail(todo[r])
  <2>1. /\ todo[r] # <<>> /\ w \in GoodWrite /\ w = todo[r][1]
        /\ Len(rest) \in Nat /\ Len(todo[r]) = Len(rest) + 1
        /\ \A i \in 1 .. Len(rest) : rest[i] = todo[r][i + 1]
    BY <1>0, <1>1 DEF WriteOne
  <2>2. /\ todo'[r] = rest /\ wrote'[r] = wrote[r] \cup {w} /\ pc'[r] = "load"
        /\ unit' = [unit EXCEPT ![w.addr] = w.value]
    BY <1>0, <1>1 DEF WriteOne, Stores
  <2>3. "minutes" \in Addrs /\ w.addr \in Addrs
    BY <2>1 DEF GoodWrite, AWrite, Addrs
  <2>4. unit'["minutes"] = IF w.addr = "minutes" THEN w.value ELSE unit["minutes"]
    BY <2>2, <2>3, <1>0 DEF Map
  <2> HIDE DEF w, rest
  <2>5. \A i \in 1 .. Len(rest) : rest[i].addr # "minutes"
    <3>1. \A i \in 1 .. Len(rest) : i + 1 \in 2 .. Len(todo[r])
      BY <2>1
    <3>2. QED
      BY <3>1, <2>1, <1>0 DEF InOrder
  <2>6. \A x \in wrote'[r] : x.addr = "minutes" => unit'["minutes"] = x.value
    <3>1. CASE w.addr = "minutes"
      <4>1. wrote[r] = {}
        <5>1. 1 \in 1 .. Len(todo[r])
          BY <2>1
        <5>2. QED
          BY <5>1, <3>1, <2>1, <1>0 DEF InOrder
      <4>2. QED
        BY <4>1, <3>1, <2>2, <2>4
    <3>2. CASE w.addr # "minutes"
      BY <3>2, <2>2, <2>4, <1>0 DEF InOrder
    <3>3. QED
      BY <3>1, <3>2
  <2>7. QED
    BY <2>2, <2>5, <2>6, <2>1 DEF InOrder
<1>2. CASE WriteFails(r) \/ Reply(r)
  <2>1. todo'[r] = <<>> /\ wrote'[r] = {} /\ Len(todo'[r]) = 0
    BY <1>0, <1>2 DEF WriteFails, Reply, Finish
  <2>2. QED
    BY <2>1 DEF InOrder
<1>3. CASE LoadSnapshot(r) \/ Reread(r) \/ RereadFails(r) \/ Swap(r)
  <2>1. todo' = todo /\ wrote' = wrote /\ unit' = unit /\ pc'[r] # "idle"
    BY <1>0, <1>3 DEF LoadSnapshot, Reread, RereadFails, Swap, Onward
  <2>2. QED
    BY <2>1, <1>0 DEF InOrder
<1>4. ASSUME NEW ask \in Presses, Press(r, ask) PROVE InOrder(r)'
  <2>1. /\ wrote' = wrote /\ unit' = unit /\ pc[r] = "idle"
        /\ todo'[r] = WritesFor(ask)
    BY <1>0, <1>4 DEF Press
  <2>2. wrote[r] = {}
    BY <2>1, <1>0 DEF InOrder
  <2>3. \A i \in 2 .. Len(todo'[r]) : todo'[r][i].addr # "minutes"
    BY <2>1, DurationLeads
  <2>4. QED
    BY <2>1, <2>2, <2>3 DEF InOrder
<1>5. CASE PollStep \/ UNCHANGED vars
  <2>1. todo' = todo /\ wrote' = wrote /\ unit' = unit /\ pc' = pc
    BY <1>5 DEF PollStep, StartPass, ReadBlock, BlockFails, EndPass, reqVars, vars
  <2>2. QED
    BY <2>1, <1>0 DEF InOrder
<1>6. ASSUME NEW m \in PanelModes, Panel(m) PROVE InOrder(r)'
  <2>1. todo' = todo /\ wrote' = wrote /\ pc' = pc
    BY <1>6 DEF Panel, reqVars
  <2>2. unit'["minutes"] = unit["minutes"]
    BY <1>6, UnitAssumption DEF Panel, Addrs
  <2>3. QED
    BY <2>1, <2>2, <1>0 DEF InOrder
<1>7. \A q \in Requests : q = r
  BY DEF Alone
<1>8. QED
  BY <1>1, <1>2, <1>3, <1>4, <1>5, <1>6, <1>7 DEF Next, Handle

(* A timed mode starts on the unit only with the duration that was asked for with it   *)
(* already there (command.go:136-148), whichever exchanges fail: for any modes,        *)
(* durations and presses, handled one at a time.                                       *)
THEOREM DurationComesFirst == ASSUME Alone PROVE Spec => DurationFirst
<1> DEFINE Ordered == \A r \in Requests : InOrder(r)
<1>1. Init => Ordered
  BY DEF Init, InOrder
<1>2. IInv /\ Ordered /\ [Next]_vars => Ordered'
  BY InOrderNext
<1> DEFINE First == unit[Timed] = Off /\ unit'[Timed] = On =>
        \/ \E r \in Requests :
            /\ pc[r] = "write"
            /\ \A w \in wrote[r] : w.addr = "minutes" => unit["minutes"] = w.value
            /\ \A i \in DOMAIN todo[r] : todo[r][i].addr # "minutes"
        \/ \E m \in PanelModes : Panel(m)
<1>3. ASSUME IInv, Ordered, [Next]_vars, unit[Timed] = Off, unit'[Timed] = On PROVE First
  <2>1. unit' # unit
    BY <1>3 DEF On, Off
  <2>2. CASE \E m \in PanelModes : Panel(m)
    BY <2>2
  <2>3. ASSUME NEW r \in Requests, WriteOne(r) \/ WriteFails(r) PROVE First
    <3>1. /\ InOrder(r) /\ todo[r] \in Seq(GoodWrite) /\ todo[r] # <<>> /\ unit \in Map /\ pc[r] = "write"
      BY <1>3, <2>3 DEF IInv, Types, Copy, WriteOne, WriteFails
    <3>2. unit' = [unit EXCEPT ![Head(todo[r]).addr] = Head(todo[r]).value]
      BY <2>1, <2>3 DEF WriteOne, WriteFails, Stores
    <3>3. Head(todo[r]).addr = Timed /\ Timed # "minutes"
      BY <3>1, <3>2, <1>3, UnitAssumption DEF Map, On, Off
    <3>4. \A i \in DOMAIN todo[r] : todo[r][i].addr # "minutes"
      <4>1. SUFFICES ASSUME NEW i \in 1 .. Len(todo[r]) PROVE todo[r][i].addr # "minutes"
        BY <3>1
      <4>2. CASE i = 1
        BY <4>2, <3>1, <3>3
      <4>3. CASE i # 1
        BY <4>3, <3>1 DEF InOrder
      <4>4. QED
        BY <4>2, <4>3
    <3>5. QED
      BY <3>1, <3>4 DEF InOrder
  <2>4. ASSUME NEW r \in Requests,
               \/ LoadSnapshot(r) \/ Reread(r) \/ RereadFails(r) \/ Swap(r) \/ Reply(r)
               \/ \E ask \in Presses : Press(r, ask)
        PROVE  unit' = unit
    BY <2>4 DEF LoadSnapshot, Reread, RereadFails, Swap, Reply, Press
  <2>5. PollStep \/ UNCHANGED vars => unit' = unit
    BY DEF PollStep, StartPass, ReadBlock, BlockFails, EndPass, vars
  <2>6. QED
    BY <1>3, <2>1, <2>2, <2>3, <2>4, <2>5 DEF Next, Handle
<1>4. IInv /\ Ordered /\ [Next]_vars => [First]_vars
  BY <1>3
<1>5. QED
  BY <1>1, <1>2, <1>4, Invariance, PTL DEF DurationFirst, Spec

--------------------------------------------------------------------------------------
(* UnitState                                                                           *)

AtPlaces == {"idle", "load", "start", "judge", "forgive", "swap", "observe"}
Looks ==
    [at : AtPlaces, rate : Bands, mode : UnitModes, since : NotOver..LongAgo, first : BOOLEAN,
     dip : 0..LongAgo]

StateTypes ==
    /\ degraded \in BOOLEAN /\ over \in NotOver..LongAgo /\ dip \in 0..LongAgo
    /\ rate \in Bands /\ snapMode \in UnitModes /\ seen \in BOOLEAN
    /\ look \in [Lookers -> Looks]

(* The clock was started, and by every call read, no earlier than the last call that    *)
(* found the rate below the mark; while a call is under way, another may find it there, *)
(* but no tick passes.                                                                 *)
NoEarlier ==
    /\ over <= dip
    /\ \A l \in Lookers :
        /\ look[l].since <= look[l].dip
        /\ look[l].at \in {"load", "start", "judge"} => dip <= look[l].dip

(* What is counted is the whole duration of its mode.                                  *)
Counting ==
    /\ timed.ticks \in 0..Longest + 1
    /\ timed.known \in BOOLEAN
    /\ timed \in [mode : UnitModes \cup {"none"}, known : BOOLEAN, minutes : Nat, ticks : Nat]
    /\ timed.known => timed.mode \in TimedModes /\ timed.minutes = Duration[timed.mode]

StateInv == StateTypes /\ NoEarlier /\ Counting

--------------------------------------------------------------------------------------
(* Longest is the longest duration.                                                    *)
LEMMA LongestType == Longest \in Nat /\ \A m \in TimedModes : Duration[m] <= Longest
<1> DEFINE S == {Duration[m] : m \in TimedModes}
<1>1. \E n \in S : \A m \in TimedModes : Duration[m] <= n
  BY StateAssumption
<1>2. Longest \in S /\ \A m \in TimedModes : Duration[m] <= Longest
  BY <1>1 DEF Longest
<1>3. QED
  BY <1>2, StateAssumption

(* The times the clock of the warning may stand for.                                   *)
LEMMA Bounds ==
  /\ LongAgo \in Nat /\ NotOver = -1
  /\ NotOver \in NotOver..LongAgo /\ LongAgo \in 0..LongAgo /\ 0 \in 0..LongAgo
  /\ NotOver <= 0 /\ NotOver <= LongAgo
BY StateAssumption DEF NotOver, LongAgo

(* A caller that is not looking.                                                       *)
LEMMA IdleType == Idle \in Looks /\ Idle.since <= Idle.dip /\ Idle.at = "idle"
<1>1. NotOver \in NotOver..LongAgo /\ LongAgo \in 0..LongAgo /\ NotOver <= LongAgo
  BY Bounds
<1>2. "idle" \in AtPlaces /\ "healthy" \in Bands /\ "normal" \in UnitModes
  BY DEF AtPlaces, Bands, UnitModes
<1>3. QED
  BY <1>1, <1>2 DEF Idle, Looks

(* A call that goes on with the mode it has decoded, and no verdict on the line.       *)
LEMMA SwapType ==
  ASSUME NEW m \in UnitModes
  PROVE  LET swap == [Idle EXCEPT !.at = "swap", !.mode = m]
         IN  swap \in Looks /\ swap.since <= swap.dip /\ swap.at = "swap"
<1>1. "swap" \in AtPlaces
  BY DEF AtPlaces
<1>2. QED
  BY <1>1, IdleType DEF Looks

(* A call that has judged the line goes on with the mode it has decoded.               *)
LEMMA LinkedType ==
  ASSUME look \in [Lookers -> Looks], NEW l \in Lookers, Linked(l)
  PROVE  /\ look' \in [Lookers -> Looks]
         /\ look'[l].since <= look'[l].dip /\ look'[l].at = "swap"
         /\ \A k \in Lookers : k # l => look'[k] = look[k]
<1>1. look[l].mode \in UnitModes
  BY DEF Looks
<1>2. QED
  BY <1>1, SwapType DEF Linked

(* Nothing is counted.                                                                 *)
LEMMA NoRunCounts == timed = NoRun => Counting
<1> SUFFICES ASSUME timed = NoRun PROVE Counting
  OBVIOUS
<1>1. timed = [mode |-> "none", known |-> FALSE, minutes |-> 0, ticks |-> 0]
  BY DEF NoRun
<1>2. timed.mode = "none" /\ timed.known = FALSE /\ timed.minutes = 0 /\ timed.ticks = 0
  BY <1>1
<1>3. 0 \in 0..Longest + 1
  BY LongestType
<1>4. timed \in [mode : UnitModes \cup {"none"}, known : BOOLEAN, minutes : Nat, ticks : Nat]
  BY <1>1
<1>5. QED
  BY <1>2, <1>3, <1>4 DEF Counting

(* The daemon starts with nothing seen and nobody looking.                             *)
LEMMA InitState == StateInit => StateInv
<1> SUFFICES ASSUME StateInit PROVE StateInv
  OBVIOUS
<1>1. StateTypes /\ NoEarlier
  BY IdleType, Bounds DEF StateInit, StateTypes, NoEarlier
<1>2. Counting
  BY NoRunCounts DEF StateInit, Counting
<1>3. QED
  BY <1>1, <1>2 DEF StateInv

(* The verdict on the line                                                             *)
LEMMA LineStep ==
  ASSUME StateInv, NEW l \in Lookers,
         LoadSince(l) \/ StoreSince(l) \/ Judge(l) \/ StopClock(l) \/ Forgive(l)
  PROVE  (StateTypes /\ NoEarlier)'
<1> USE DEF StateInv, StateTypes, NoEarlier, lineVars, snapVars
<1>1. CASE LoadSince(l)
  <2>1. /\ look'[l] = [look[l] EXCEPT !.since = over, !.at = IF over = NotOver THEN "start" ELSE "judge"]
        /\ look' \in [Lookers -> Looks] /\ \A k \in Lookers : k # l => look'[k] = look[k]
    BY <1>1 DEF LoadSince, Looks, AtPlaces
  <2>2. look[l].at = "load" /\ look'[l].since = over /\ look'[l].dip = look[l].dip
    BY <1>1, <2>1 DEF LoadSince, Looks
  <2>3. over <= look[l].dip
    BY <2>2, StateAssumption DEF Looks, NotOver, LongAgo
  <2>4. QED
    BY <1>1, <2>1, <2>2, <2>3 DEF LoadSince
<1>2. CASE StoreSince(l)
  <2>1. /\ look'[l] = [look[l] EXCEPT !.since = 0, !.at = "judge"]
        /\ look' \in [Lookers -> Looks] /\ \A k \in Lookers : k # l => look'[k] = look[k]
    BY <1>2, StateAssumption DEF StoreSince, Looks, AtPlaces, NotOver, LongAgo
  <2>2. look[l].at = "start" /\ look'[l].since = 0 /\ look'[l].dip = look[l].dip /\ look[l].dip \in 0..LongAgo
    BY <1>2, <2>1 DEF StoreSince, Looks
  <2>3. over' = 0 /\ 0 \in NotOver..LongAgo /\ LongAgo \in Nat
    BY <1>2, StateAssumption DEF StoreSince, NotOver, LongAgo
  <2>4. QED
    BY <1>2, <2>1, <2>2, <2>3 DEF StoreSince
<1>3. CASE Judge(l)
  <2>1. Linked(l) /\ degraded' \in BOOLEAN
    BY <1>3 DEF Judge
  <2>2. QED
    BY <1>3, <2>1, LinkedType DEF Judge
<1>4. CASE StopClock(l)
  <2>1. over' = NotOver /\ dip' = 0 /\ NotOver \in NotOver..LongAgo /\ 0 \in 0..LongAgo /\ NotOver <= 0
    BY <1>4, StateAssumption DEF StopClock, NotOver, LongAgo
  <2>2. \A k \in Lookers : look[k].dip \in 0..LongAgo /\ 0 <= look[k].dip
    BY DEF Looks
  <2>3. /\ look' \in [Lookers -> Looks] /\ \A k \in Lookers : k # l => look'[k] = look[k]
        /\ look'[l].since <= look'[l].dip /\ look'[l].at \in {"forgive", "swap"}
    <3>1. CASE look[l].rate = "healthy"
      BY <1>4, <3>1 DEF StopClock, Goto, Looks, AtPlaces
    <3>2. CASE look[l].rate # "healthy"
      BY <1>4, <3>2, LinkedType DEF StopClock
    <3>3. QED
      BY <3>1, <3>2
  <2>4. QED
    BY <1>4, <2>1, <2>2, <2>3 DEF StopClock
<1>5. CASE Forgive(l)
  BY <1>5, LinkedType DEF Forgive
<1>6. QED
  BY <1>1, <1>2, <1>3, <1>4, <1>5

(* The rest of a call                                                                  *)
LEMMA CallStep ==
  ASSUME StateInv, NEW l \in Lookers, Begin(l) \/ SwapSeen(l) \/ Observe(l)
  PROVE  (StateTypes /\ NoEarlier)'
<1> USE DEF StateInv, StateTypes, NoEarlier, lineVars, snapVars
<1>1. CASE Begin(l)
  <2>1. /\ look' \in [Lookers -> Looks] /\ \A k \in Lookers : k # l => look'[k] = look[k]
        /\ look'[l].since <= look'[l].dip
        /\ look'[l].at = "swap" \/ (look'[l].at = "load" /\ look'[l].dip = dip)
    <3>1. /\ look'[l] \in Looks /\ look'[l].since <= look'[l].dip
          /\ look'[l].at = "swap" \/ (look'[l].at = "load" /\ look'[l].dip = dip)
      <4>1. CASE ~stale /\ enough
        <5>1. look'[l] = [Idle EXCEPT !.at = "load", !.mode = snapMode, !.rate = rate, !.dip = dip]
          BY <1>1, <4>1 DEF Begin
        <5>2. "load" \in AtPlaces /\ Idle.since = NotOver /\ NotOver <= dip
          BY Bounds DEF AtPlaces, Idle
        <5>3. QED
          BY <5>1, <5>2, IdleType DEF Looks
      <4>2. CASE ~(~stale /\ enough)
        BY <1>1, <4>2, SwapType DEF Begin
      <4>3. QED
        BY <4>1, <4>2
    <3>2. QED
      BY <1>1, <3>1 DEF Begin
  <2>2. QED
    BY <1>1, <2>1 DEF Begin, LongAgo
<1>2. CASE SwapSeen(l)
  BY <1>2 DEF SwapSeen, Looks, AtPlaces
<1>3. CASE Observe(l)
  BY <1>3, IdleType DEF Observe
<1>4. QED
  BY <1>1, <1>2, <1>3

(* A tick makes every clock older alike.                                               *)
LEMMA TickStep == StateInv /\ Tick => (StateTypes /\ NoEarlier)'
<1> SUFFICES ASSUME StateInv, Tick PROVE (StateTypes /\ NoEarlier)'
  OBVIOUS
<1> USE DEF StateInv, StateTypes, NoEarlier, lineVars, snapVars
<1>1. /\ over' = IF over = NotOver THEN NotOver ELSE IF over + 1 < LongAgo THEN over + 1 ELSE LongAgo
      /\ dip' = IF dip + 1 < LongAgo THEN dip + 1 ELSE LongAgo
  BY DEF Tick, Later, Least
<1>2. LongAgo \in Nat /\ NotOver = -1
  BY StateAssumption DEF LongAgo, NotOver
<1>3. over' \in NotOver..LongAgo /\ dip' \in 0..LongAgo /\ over' <= dip'
  BY <1>1, <1>2
<1>4. QED
  BY <1>3 DEF Tick, NobodyLooks

(* A tick lengthens a run that is counted, and touches nothing else of it.             *)
LEMMA TickCounts ==
  ASSUME Counting, Tick
  PROVE  /\ timed'.mode = timed.mode /\ timed'.known = timed.known
         /\ timed'.minutes = timed.minutes
         /\ timed.known => timed'.ticks >= timed.ticks
         /\ Counting'
<1> DEFINE n == IF timed.known THEN Least(timed.ticks + 1, Longest + 1) ELSE 0
<1>1. Longest \in Nat /\ timed.ticks \in Int /\ 0 <= timed.ticks /\ timed.ticks <= Longest + 1
  BY LongestType DEF Counting
<1>2. n \in Int /\ 0 <= n /\ n <= Longest + 1 /\ (timed.known => n >= timed.ticks)
  BY <1>1 DEF Least
<1>3. timed' = [timed EXCEPT !.ticks = n]
  BY DEF Tick
<1>4. timed \in [mode : UnitModes \cup {"none"}, known : BOOLEAN, minutes : Nat, ticks : Nat]
  BY DEF Counting
<1> HIDE DEF n
<1>5. /\ timed'.mode = timed.mode /\ timed'.known = timed.known
      /\ timed'.minutes = timed.minutes /\ timed'.ticks = n
  BY <1>3, <1>4
<1>6. n \in Nat /\ n \in 0..Longest + 1
  BY <1>1, <1>2
<1>7. timed' \in [mode : UnitModes \cup {"none"}, known : BOOLEAN, minutes : Nat, ticks : Nat]
  BY <1>3, <1>4, <1>6
<1>8. QED
  BY <1>2, <1>5, <1>6, <1>7 DEF Counting

(* Observe starts, keeps or ends a count (overpressure.go).                            *)
LEMMA ObserveCounts ==
  ASSUME Counting, StateTypes, NEW l \in Lookers, Observe(l)
  PROVE  Counting'
<1> DEFINE m == look[l].mode
           new == [mode |-> m, known |-> ~look[l].first, minutes |-> Duration[m], ticks |-> 0]
<1>1. m \in UnitModes /\ look[l].first \in BOOLEAN
  BY DEF StateTypes, Looks
<1>2. timed' = Observed(m, look[l].first)
  BY DEF Observe
<1>3. CASE m \in TimedModes /\ m # timed.mode
  <2>1. timed' = new
    BY <1>2, <1>3 DEF Observed
  <2>2. Duration[m] \in Nat /\ 0 \in 0..Longest + 1
    BY <1>3, StateAssumption, LongestType
  <2>3. new \in [mode : UnitModes \cup {"none"}, known : BOOLEAN, minutes : Nat, ticks : Nat]
    BY <1>1, <2>2
  <2>4. new.mode = m /\ new.known \in BOOLEAN /\ new.minutes = Duration[m] /\ new.ticks = 0
    BY <1>1
  <2>5. QED
    BY <1>3, <2>1, <2>2, <2>3, <2>4 DEF Counting
<1>4. CASE m \in TimedModes /\ m = timed.mode
  BY <1>2, <1>4 DEF Observed, Counting
<1>5. CASE m \notin TimedModes
  <2>1. timed' = NoRun
    BY <1>2, <1>5 DEF Observed
  <2>2. timed'.mode = "none" /\ timed'.known = FALSE /\ timed'.minutes = 0 /\ timed'.ticks = 0
    BY <2>1 DEF NoRun
  <2>3. timed' \in [mode : UnitModes \cup {"none"}, known : BOOLEAN, minutes : Nat, ticks : Nat]
    BY <2>1 DEF NoRun
  <2>4. 0 \in 0..Longest + 1
    BY LongestType
  <2>5. QED
    BY <2>2, <2>3, <2>4 DEF Counting
<1>6. QED
  BY <1>3, <1>4, <1>5

(* Every step keeps what is counted whole.                                             *)
LEMMA CountingStep == StateInv /\ [StateNext]_stateVars => Counting'
<1> SUFFICES ASSUME StateInv, [StateNext]_stateVars PROVE Counting'
  OBVIOUS
<1> USE DEF StateInv, Counting
<1>1. CASE timed' = timed
  BY <1>1
<1>2. CASE Tick
  BY <1>2, TickCounts
<1>3. ASSUME NEW l \in Lookers, Observe(l) PROVE Counting'
  BY <1>3, ObserveCounts
<1>4. timed' = timed \/ Tick \/ \E l \in Lookers : Observe(l)
  BY DEF StateNext, RateMoves, WindowFills, Publish, Begin, Proceed, LoadSince, StoreSince, Judge,
         StopClock, Forgive, SwapSeen, stateVars
<1>5. QED
  BY <1>1, <1>2, <1>3, <1>4

(* The inductive invariant holds throughout.                                           *)
LEMMA StateInvariance == StateSpec => []StateInv
<1>1. StateInv /\ [StateNext]_stateVars => StateInv'
  <2> SUFFICES ASSUME StateInv, [StateNext]_stateVars PROVE StateInv'
    OBVIOUS
  <2>1. Counting'
    BY CountingStep
  <2>2. CASE UNCHANGED <<degraded, over, dip, look, seen>> /\ rate' \in Bands /\ snapMode' \in UnitModes
    BY <2>1, <2>2 DEF StateInv, StateTypes, NoEarlier
  <2>3. (\E b \in Bands : RateMoves(b)) \/ WindowFills \/ (\E m \in UnitModes : Publish(m)) \/ UNCHANGED stateVars
        => UNCHANGED <<degraded, over, dip, look, seen>> /\ rate' \in Bands /\ snapMode' \in UnitModes
    BY DEF RateMoves, WindowFills, Publish, stateVars, snapVars, lineVars, StateInv, StateTypes
  <2>4. QED
    BY <2>1, <2>2, <2>3, TickStep, LineStep, CallStep DEF StateNext, Proceed, StateInv
<1>2. QED
  BY <1>1, InitState, PTL DEF StateSpec

--------------------------------------------------------------------------------------
(* However many pages, recorders and watchers look at once, the line is called unstable *)
(* only when no look has found it better for as long as the delay                      *)
(* (control.go:341-379).                                                               *)
THEOREM NoWarningTooEarly == StateSpec => WarningIsEarned
<1> DEFINE Earned == \E l \in Lookers : look[l].at = "judge" /\ look[l].dip >= DegradedAfter
<1>1. StateInv /\ [StateNext]_stateVars => [~degraded /\ degraded' => Earned]_stateVars
  <2> SUFFICES ASSUME StateInv, [StateNext]_stateVars, ~degraded, degraded' PROVE Earned
    OBVIOUS
  <2>1. PICK l \in Lookers : Judge(l)
    BY DEF StateNext, RateMoves, WindowFills, Publish, Tick, Begin, Proceed, LoadSince, StoreSince,
           StopClock, Forgive, SwapSeen, Observe, stateVars
  <2>2. look[l].at = "judge" /\ look[l].since >= DegradedAfter
    BY <2>1 DEF Judge
  <2>3. look[l].since <= look[l].dip /\ look[l].since \in Int /\ look[l].dip \in Int
    BY StateAssumption DEF StateInv, NoEarlier, StateTypes, Looks, NotOver, LongAgo
  <2>4. QED
    BY <2>2, <2>3, StateAssumption
<1>2. QED
  BY <1>1, StateInvariance, PTL DEF WarningIsEarned, StateSpec

(* A count that is shown is the one shown before or a new one, with its own mode's      *)
(* whole duration, for any timed modes and looks (overpressure.go:31-79).              *)
THEOREM CountsAreTheirOwn == StateSpec => CountdownIsItsOwn
<1> DEFINE Own ==
      timed'.known =>
        /\ timed'.minutes = Duration[timed'.mode]
        /\ \/ timed.known /\ timed'.mode = timed.mode /\ timed'.ticks >= timed.ticks
           \/ timed'.mode # timed.mode /\ timed'.ticks = 0
<1>1. StateInv /\ StateInv' /\ [StateNext]_stateVars => [Own]_stateVars
  <2> SUFFICES ASSUME StateInv, StateInv', [StateNext]_stateVars, timed'.known
               PROVE  Own
    OBVIOUS
  <2>1. timed'.minutes = Duration[timed'.mode]
    BY DEF StateInv, Counting
  <2>2. CASE timed' = timed
    <3>1. timed.ticks \in Int
      BY LongestType DEF StateInv, Counting
    <3>2. timed.ticks >= timed.ticks
      BY <3>1
    <3>3. QED
      BY <2>1, <2>2, <3>2
  <2>3. CASE Tick
    <3>1. /\ timed'.mode = timed.mode /\ timed'.known = timed.known
          /\ timed.known => timed'.ticks >= timed.ticks
      BY <2>3, TickCounts DEF StateInv
    <3>2. QED
      BY <2>1, <3>1
  <2>4. ASSUME NEW l \in Lookers, Observe(l) PROVE Own
    <3>1. timed' = Observed(look[l].mode, look[l].first)
      BY <2>4 DEF Observe
    <3>2. CASE look[l].mode \in TimedModes /\ look[l].mode # timed.mode
      BY <2>1, <3>1, <3>2 DEF Observed
    <3>3. CASE look[l].mode \in TimedModes /\ look[l].mode = timed.mode
      BY <2>2, <3>1, <3>3 DEF Observed
    <3>4. CASE look[l].mode \notin TimedModes
      BY <3>1, <3>4 DEF Observed, NoRun
    <3>5. QED
      BY <3>2, <3>3, <3>4
  <2>5. timed' = timed \/ Tick \/ \E l \in Lookers : Observe(l)
    BY DEF StateNext, RateMoves, WindowFills, Publish, Begin, Proceed, LoadSince, StoreSince, Judge,
           StopClock, Forgive, SwapSeen, stateVars
  <2>6. QED
    BY <2>2, <2>3, <2>4, <2>5
<1>2. QED
  BY <1>1, StateInvariance, PTL DEF CountdownIsItsOwn, StateSpec

--------------------------------------------------------------------------------------
(* UnitPages                                                                           *)

(* What a register holds, and what a map of the unit's registers is.                   *)
Reg == 0 .. Word - 1
IsMap(h) == h \in [DOMAIN h -> Reg]

(* The two maps show the same at the addresses of S.                                   *)
Same(h, g, S) == \A a \in S : At(h, a) = At(g, a)

(* Where the numbered settings live.                                                   *)
SettingRegs == {140, 141, 164, 196, 172, 56, 54, 55, 66, 67, 538, 726}

(* A block of the map is written and nothing else.                                     *)
Writes(w) ==
    /\ w.addr \in Nat /\ w.regs \in Seq(Reg)

(* A register holds sixteen bits: what that is without a range of them, which the      *)
(* provers would count through.                                                        *)
LEMMA SixteenBits == \A n : n \in Reg <=> n \in Int /\ 0 <= n /\ n < 65536
<1>1. Word \in Int /\ Word = 65536
  BY DEF Word
<1>2. \A n : n \in Reg <=> n \in Int /\ 0 <= n /\ n <= Word - 1
  <2>1. Word \in Int
    BY <1>1
  <2>2. QED
    BY <2>1 DEF Reg
<1>3. QED
  BY <1>1, <1>2

(* What is read where nothing is held is zero.                                         *)
LEMMA AtType == \A h, a : IsMap(h) => At(h, a) \in Reg
<1>1. 0 \in Reg
  BY SixteenBits
<1>2. QED
  BY <1>1 DEF At, IsMap

(* Reading a register as signed gives back any sixteen-bit number written to it.       *)
LEMMA RoundTrip ==
    ASSUME NEW n \in Int, -32768 <= n, n <= 32767
    PROVE  Raw(n) \in Reg /\ Signed(Raw(n)) = n /\ (n >= 0 => Raw(n) = n)
<1>1. CASE n >= 0
  <2>1. n % 65536 = n
    BY <1>1
  <2>2. Raw(n) = n
    BY <2>1 DEF Raw, Word
  <2>3. n \in Reg
    BY <1>1, SixteenBits
  <2>4. Signed(n) = n
    BY DEF Signed, Word
  <2>5. QED
    BY <2>2, <2>3, <2>4
<1>2. CASE n < 0
  <2>1. n % 65536 = n + 65536
    BY <1>2
  <2>2. Raw(n) = n + 65536
    BY <2>1 DEF Raw, Word
  <2>3. n + 65536 \in Reg
    BY <1>2, SixteenBits
  <2>4. Signed(n + 65536) = n
    BY DEF Signed, Word
  <2>5. QED
    BY <1>2, <2>2, <2>3, <2>4
<1>3. QED
  BY <1>1, <1>2

(* A register read as signed is a sixteen-bit number, and the lower half is itself.  *)
LEMMA SignedType ==
    ASSUME NEW v \in Reg
    PROVE  Signed(v) \in Int /\ -32768 <= Signed(v) /\ Signed(v) <= 32767 /\ (v <= 32767 => Signed(v) = v)
<1>1. v \in Int /\ 0 <= v /\ v < 65536 /\ 65536 \div 2 = 32768
  BY SixteenBits
<1>2. QED
  BY <1>1 DEF Signed, Word

(* After a write the block holds what was written and everything else what it held.    *)
LEMMA WrittenAt ==
    ASSUME NEW h, IsMap(h), NEW w, Writes(w)
    PROVE  /\ IsMap(Written(h, w))
           /\ \A a : a \in RegistersOf(w) => At(Written(h, w), a) = w.regs[a - w.addr + 1]
           /\ \A a : a \notin RegistersOf(w) => At(Written(h, w), a) = At(h, a)
<1> DEFINE D == DOMAIN h \cup RegistersOf(w)
<1> DEFINE new == [a \in D |-> IF a \in RegistersOf(w) THEN w.regs[a - w.addr + 1] ELSE h[a]]
<1>1. Written(h, w) = new /\ DOMAIN new = D
  BY DEF Written
<1>2. \A a \in RegistersOf(w) : w.regs[a - w.addr + 1] \in Reg
  <2>1. Len(w.regs) \in Nat /\ \A i \in 1 .. Len(w.regs) : w.regs[i] \in Reg
    BY ElementOfSeq, LenProperties DEF Writes
  <2>2. QED
    BY <2>1 DEF Writes, RegistersOf
<1>3. \A a \in D : a \notin RegistersOf(w) => a \in DOMAIN h /\ h[a] \in Reg
  BY DEF IsMap
<1>4. new \in [D -> Reg]
  BY <1>2, <1>3
<1>5. QED
  BY <1>1, <1>4 DEF IsMap, At

(* The twelve settings have their own keys and registers.                              *)
LEMMA RowFacts ==
    ASSUME NEW s \in Numbers
    PROVE  /\ s.addr \in SettingRegs /\ s.scale \in {1, 10}
           /\ s.min \in Int /\ s.max \in Int /\ -300 <= s.min /\ s.max <= 9990
           /\ s.scale = 10 => s.max <= 400
           /\ s.key = "overpressure_minutes" <=> s.addr = 56
           /\ s.key = "boost_minutes" <=> s.addr = 66
           /\ s.addr \in {56, 66} => s.scale = 1
  BY DEF Numbers, Setting, SettingRegs

(* A key has one register.                                                           *)
LEMMA OneRegister == \A s, t \in Numbers : s.key = t.key => s.addr = t.addr
  BY DEF Numbers, Setting

(* A register has one row of the table.                                              *)
LEMMA OneRow == \A s, t \in Numbers : s.addr = t.addr => s = t
  BY DEF Numbers, Setting

(* The two durations that command.go writes have rows of their own (settings.go).    *)
LEMMA DurationKeys == "overpressure_minutes" \in Keys /\ "boost_minutes" \in Keys
<1>1. /\ Setting("overpressure_minutes", 56, 1, 1, 60) \in Numbers
      /\ Setting("boost_minutes", 66, 1, 1, 60) \in Numbers
  BY DEF Numbers
<1>2. /\ Setting("overpressure_minutes", 56, 1, 1, 60).key = "overpressure_minutes"
      /\ Setting("boost_minutes", 66, 1, 1, 60).key = "boost_minutes"
  BY DEF Setting
<1>3. QED
  BY <1>1, <1>2 DEF Keys

(* A key names its row.                                                                *)
LEMMA ByKey ==
    /\ \A k \in Keys : SettingByKey(k) \in Numbers /\ SettingByKey(k).key = k
    /\ \A k, l \in Keys : k # l => SettingByKey(k).addr # SettingByKey(l).addr
<1>1. ASSUME NEW k \in Keys PROVE SettingByKey(k) \in Numbers /\ SettingByKey(k).key = k
  <2>1. \E s \in Numbers : s.key = k
    BY DEF Keys
  <2>2. QED
    BY <2>1 DEF SettingByKey
<1>2. QED
  BY <1>1, OneRow

(* What is kept of a setting is the nearest to it that its register can hold.          *)
LEMMA Rounded ==
    ASSUME NEW t \in Int, -300 <= t, t <= 9990
    PROVE  /\ RoundTenths(t) \in Int /\ -300 <= RoundTenths(t) /\ RoundTenths(t) <= 9990
           /\ Abs(10 * RoundTenths(t) - t) \in Int /\ Abs(10 * RoundTenths(t) - t) <= 5
<1>1. /\ 5 - t \in Int /\ t + 5 \in Int
  OBVIOUS
<1>2. CASE t >= 0
  <2>1. RoundTenths(t) = (t + 5) \div 10
    BY <1>2 DEF RoundTenths
  <2>2. QED
    BY <1>2, <2>1 DEF Abs
<1>3. CASE t < 0
  <2>1. RoundTenths(t) = -((5 - t) \div 10)
    BY <1>3 DEF RoundTenths
  <2>2. QED
    BY <1>3, <2>1 DEF Abs
<1>4. QED
  BY <1>2, <1>3

(* What a checked value becomes in its register is sixteen bits wide and the nearest step. *)
LEMMA KeptSetting ==
    ASSUME NEW s \in Numbers, NEW t \in s.min .. s.max,
           NEW n, n = RoundTenths(t * s.scale)
    PROVE  n \in Int /\ -32768 <= n /\ n <= 32767 /\ Nearest((10 * n) \div s.scale, t, s.scale)
<1>1. s.scale \in {1, 10} /\ t \in Int /\ -300 <= t /\ t <= 9990 /\ (s.scale = 10 => t <= 400)
  BY RowFacts
<1>2. CASE s.scale = 10
  <2>1. RoundTenths(t * 10) = t
    <3>1. CASE t >= 0
      BY <1>1, <3>1 DEF RoundTenths
    <3>2. CASE t < 0
      BY <1>1, <3>2 DEF RoundTenths
    <3>3. QED
      BY <1>1, <3>1, <3>2
  <2>2. n = t /\ (10 * n) \div 10 = t /\ Abs(t - t) = 0
    BY <1>1, <1>2, <2>1 DEF Abs
  <2>3. QED
    BY <1>1, <1>2, <2>2 DEF Nearest
<1>3. CASE s.scale = 1
  <2>1. t * 1 = t
    BY <1>1
  <2>2. n = RoundTenths(t) /\ n \in Int /\ -300 <= n /\ n <= 9990 /\ Abs(10 * n - t) \in Int /\ Abs(10 * n - t) <= 5
    BY <1>1, <1>3, <2>1, Rounded
  <2>3. (10 * n) \div 1 = 10 * n
    BY <2>2
  <2>4. QED
    BY <1>3, <2>2, <2>3 DEF Nearest
<1>4. QED
  BY <1>1, <1>2, <1>3

(* The part of the map from lo to hi is not written.                                   *)
Free(w, lo, hi) == \A a \in lo .. hi : a \notin RegistersOf(w)

(* What a clock shows, and what has been saved: the types of every page.               *)
Times == [year : Int, month : Int, day : Int, hour : Int, min : Int, sec : Int]
Savings == [week : [0 .. WeekCount - 1 -> WeekProgram], year : [0 .. YearCount - 1 -> YearProgram],
            alarms : {ReadAlarms(Contents)}, settings : [Keys -> Int], setpoint : Int,
            fan : Int, since : Int, time : Times]

PagesTypes == IsMap(map) /\ saved \in Savings

(* The inductive invariant: from the beginning, every page shows what was last          *)
(* accepted, to the nearest step of its register, and everything saved has its type.   *)
SettingsShown ==
    \A k \in Keys : Nearest(ReadSetting(map, SettingByKey(k)), saved.settings[k], SettingByKey(k).scale)

Twins == At(map, 56) = At(map, 57) \/ \A a \in {56, 57} : At(map, a) = At(Contents, a)

PagesInv ==
    /\ PagesTypes
    /\ ReadWeekPrograms(map) = saved.week
    /\ ReadYearPrograms(map) = saved.year
    /\ ReadAlarms(map) = saved.alarms
    /\ SettingsShown
    /\ Twins
    /\ Abs(10 * Signed(At(map, 135)) - saved.setpoint) <= 5
    /\ At(map, 53) = saved.fan
    /\ DecodeClock(map) = saved.time
    /\ At(map, 710) = saved.since

(* A weekly program is read from its six registers and nothing else (programs.go).   *)
LEMMA WeekFrame ==
    ASSUME NEW h, NEW g, NEW i \in 0 .. WeekCount - 1, Same(g, h, WeekAddr(i) .. WeekAddr(i) + 5)
    PROVE  ReadWeekProgram(g, i) = ReadWeekProgram(h, i)
<1>1. \A j \in 0 .. 5 : WeekAddr(i) + j \in WeekAddr(i) .. WeekAddr(i) + 5
  BY DEF WeekAddr, WeekCount
<1>2. \A j \in 0 .. 5 : At(g, WeekAddr(i) + j) = At(h, WeekAddr(i) + j)
  BY <1>1 DEF Same
<1>3. QED
  BY <1>2 DEF ReadWeekProgram

(* A yearly program is read from its eleven registers and nothing else (programs.go). *)
LEMMA YearFrame ==
    ASSUME NEW h, NEW g, NEW i \in 0 .. YearCount - 1, Same(g, h, YearAddr(i) .. YearAddr(i) + 10)
    PROVE  ReadYearProgram(g, i) = ReadYearProgram(h, i)
<1>1. /\ \A j \in 0 .. 10 : YearAddr(i) + j \in YearAddr(i) .. YearAddr(i) + 10
      /\ \A j \in 0 .. 4 : (YearAddr(i) + 5) + j \in YearAddr(i) .. YearAddr(i) + 10
      /\ YearAddr(i) \in YearAddr(i) .. YearAddr(i) + 10 /\ YearAddr(i) + 5 \in YearAddr(i) .. YearAddr(i) + 10
  BY DEF YearAddr, YearCount
<1>2. /\ \A j \in 0 .. 10 : At(g, YearAddr(i) + j) = At(h, YearAddr(i) + j)
      /\ \A j \in 0 .. 4 : At(g, (YearAddr(i) + 5) + j) = At(h, (YearAddr(i) + 5) + j)
      /\ At(g, YearAddr(i)) = At(h, YearAddr(i)) /\ At(g, YearAddr(i) + 5) = At(h, YearAddr(i) + 5)
  BY <1>1 DEF Same
<1>3. QED
  BY <1>2 DEF ReadYearProgram, ReadMoment

(* The alarm log is read from its hundred and forty registers and nothing else (alarms.go). *)
LEMMA LogFrame == ASSUME NEW h, NEW g, Same(g, h, 385 .. 524) PROVE ReadAlarms(g) = ReadAlarms(h)
<1>1. \A i \in 0 .. AlarmCount - 1 : ReadAlarm(g, i) = ReadAlarm(h, i)
  <2>1. TAKE i \in 0 .. AlarmCount - 1
  <2>2. \A j \in 0 .. 6 : AlarmAddr(i) + j \in 385 .. 524
    BY DEF AlarmAddr, AlarmCount
  <2>3. \A j \in 0 .. 6 : At(g, AlarmAddr(i) + j) = At(h, AlarmAddr(i) + j)
    BY <2>2 DEF Same
  <2>4. QED
    BY <2>3 DEF ReadAlarm
<1>2. \A i \in 1 .. AlarmCount : i - 1 \in 0 .. AlarmCount - 1
  BY DEF AlarmCount
<1>3. QED
  BY <1>1, <1>2 DEF ReadAlarms

(* The clock is read from its six registers and nothing else (state.go).             *)
LEMMA ClockFrame == ASSUME NEW h, NEW g, Same(g, h, 37 .. 42) PROVE DecodeClock(g) = DecodeClock(h)
<1>1. \A j \in 0 .. 5 : At(g, 37 + j) = At(h, 37 + j)
  BY DEF Same
<1>2. QED
  BY <1>1 DEF DecodeClock

(* A block: where it is and what it says.                                              *)
LEMMA Block ==
    ASSUME NEW addr \in Nat, NEW vals \in Seq(Reg)
    PROVE  /\ Writes(RegWrite(addr, vals))
           /\ RegWrite(addr, vals).addr = addr /\ RegWrite(addr, vals).regs = vals
           /\ RegistersOf(RegWrite(addr, vals)) = addr .. addr + Len(vals) - 1
  BY DEF Writes, RegWrite, RegistersOf

(* The block of the running clock.                                                     *)
LEMMA ClockBlock ==
    ASSUME NEW vals \in Seq(Reg), Len(vals) = 6
    PROVE  /\ Writes(RegWrite(37, vals))
           /\ RegWrite(37, vals).addr = 37 /\ RegWrite(37, vals).regs = vals
           /\ RegistersOf(RegWrite(37, vals)) = 37 .. 42
<1>1. 37 + Len(vals) - 1 = 42
  OBVIOUS
<1>2. QED
  BY <1>1 DEF Writes, RegWrite, RegistersOf

(* A block of one register.                                                          *)
LEMMA Single ==
    ASSUME NEW addr \in Nat, NEW val \in Reg
    PROVE  /\ Writes(RegWrite(addr, <<val>>)) /\ RegistersOf(RegWrite(addr, <<val>>)) = {addr}
           /\ RegWrite(addr, <<val>>).addr = addr /\ RegWrite(addr, <<val>>).regs[1] = val
<1> DEFINE regs == <<val>>
<1>1. regs \in Seq(Reg) /\ Len(regs) = 1 /\ regs[1] = val
  OBVIOUS
<1> HIDE DEF regs
<1>2. /\ Writes(RegWrite(addr, regs)) /\ RegWrite(addr, regs).addr = addr /\ RegWrite(addr, regs).regs = regs
      /\ RegistersOf(RegWrite(addr, regs)) = addr .. addr + Len(regs) - 1
  BY <1>1, Block
<1>3. addr + Len(regs) - 1 = addr
  BY <1>1
<1>4. QED
  BY <1>1, <1>2, <1>3 DEF regs

(* What shows the same registers as before shows what was saved before.                *)
LEMMA KeptSame ==
    ASSUME PagesInv
    PROVE  /\ Same(map', map, 210 .. 329) => ReadWeekPrograms(map') = saved.week
           /\ Same(map', map, 330 .. 384) => ReadYearPrograms(map') = saved.year
           /\ Same(map', map, 385 .. 524) => ReadAlarms(map') = saved.alarms
           /\ Same(map', map, 37 .. 42) => DecodeClock(map') = saved.time
<1>1. ASSUME Same(map', map, 210 .. 329) PROVE ReadWeekPrograms(map') = saved.week
  <2>1. ASSUME NEW i \in 0 .. WeekCount - 1 PROVE ReadWeekProgram(map', i) = ReadWeekProgram(map, i)
    <3>1. \A a \in WeekAddr(i) .. WeekAddr(i) + 5 : a \in 210 .. 329
      BY DEF WeekAddr, WeekCount
    <3>2. Same(map', map, WeekAddr(i) .. WeekAddr(i) + 5)
      BY <3>1, <1>1 DEF Same
    <3>3. QED
      BY <3>2, WeekFrame
  <2>2. ReadWeekPrograms(map') = ReadWeekPrograms(map)
    BY <2>1 DEF ReadWeekPrograms
  <2>3. QED
    BY <2>2 DEF PagesInv
<1>2. ASSUME Same(map', map, 330 .. 384) PROVE ReadYearPrograms(map') = saved.year
  <2>1. ASSUME NEW i \in 0 .. YearCount - 1 PROVE ReadYearProgram(map', i) = ReadYearProgram(map, i)
    <3>1. \A a \in YearAddr(i) .. YearAddr(i) + 10 : a \in 330 .. 384
      BY DEF YearAddr, YearCount
    <3>2. Same(map', map, YearAddr(i) .. YearAddr(i) + 10)
      BY <3>1, <1>2 DEF Same
    <3>3. QED
      BY <3>2, YearFrame
  <2>2. ReadYearPrograms(map') = ReadYearPrograms(map)
    BY <2>1 DEF ReadYearPrograms
  <2>3. QED
    BY <2>2 DEF PagesInv
<1>3. ASSUME Same(map', map, 385 .. 524) PROVE ReadAlarms(map') = saved.alarms
  <2>1. ReadAlarms(map') = ReadAlarms(map)
    BY <1>3, LogFrame
  <2>2. QED
    BY <2>1 DEF PagesInv
<1>4. ASSUME Same(map', map, 37 .. 42) PROVE DecodeClock(map') = saved.time
  <2>1. DecodeClock(map') = DecodeClock(map)
    BY <1>4, ClockFrame
  <2>2. QED
    BY <2>1 DEF PagesInv
<1>5. QED
  BY <1>1, <1>2, <1>3, <1>4

(* What a write leaves alone is shown as it was.                                       *)
LEMMA Kept ==
    ASSUME PagesInv, NEW w, Writes(w), map' = Written(map, w)
    PROVE  /\ IsMap(map')
           /\ Free(w, 210, 329) => ReadWeekPrograms(map') = saved.week
           /\ Free(w, 330, 384) => ReadYearPrograms(map') = saved.year
           /\ Free(w, 385, 524) => ReadAlarms(map') = saved.alarms
           /\ Free(w, 37, 42) => DecodeClock(map') = saved.time
           /\ \A a : a \notin RegistersOf(w) => At(map', a) = At(map, a)
           /\ \A a : a \in RegistersOf(w) => At(map', a) = w.regs[a - w.addr + 1]
<1>1. /\ IsMap(map')
      /\ \A a : a \notin RegistersOf(w) => At(map', a) = At(map, a)
      /\ \A a : a \in RegistersOf(w) => At(map', a) = w.regs[a - w.addr + 1]
  BY WrittenAt DEF PagesInv, PagesTypes, Savings
<1>2. Free(w, 210, 329) => Same(map', map, 210 .. 329)
  BY <1>1 DEF Free, Same
<1>3. Free(w, 330, 384) => Same(map', map, 330 .. 384)
  BY <1>1 DEF Free, Same
<1>4. Free(w, 385, 524) => Same(map', map, 385 .. 524)
  BY <1>1 DEF Free, Same
<1>5. Free(w, 37, 42) => Same(map', map, 37 .. 42)
  BY <1>1 DEF Free, Same
<1>6. QED
  BY <1>1, <1>2, <1>3, <1>4, <1>5, KeptSame

(* A setting whose register and whose wish stay as they were is shown as it was.       *)
LEMMA OneSetting ==
    ASSUME PagesInv, NEW k \in Keys, At(map', SettingByKey(k).addr) = At(map, SettingByKey(k).addr),
           saved'.settings[k] = saved.settings[k]
    PROVE  Nearest(ReadSetting(map', SettingByKey(k)), saved'.settings[k], SettingByKey(k).scale)
<1>1. Nearest(ReadSetting(map, SettingByKey(k)), saved.settings[k], SettingByKey(k).scale)
  BY DEF PagesInv, SettingsShown
<1>2. ReadSetting(map', SettingByKey(k)) = ReadSetting(map, SettingByKey(k))
  BY DEF ReadSetting
<1>3. QED
  BY <1>1, <1>2

(* Where no setting was written, all of them are shown as they were.                 *)
LEMMA AllSettings ==
    ASSUME PagesInv, \A a \in SettingRegs : At(map', a) = At(map, a), saved'.settings = saved.settings
    PROVE  SettingsShown'
<1>1. ASSUME NEW k \in Keys
      PROVE  Nearest(ReadSetting(map', SettingByKey(k)), saved'.settings[k], SettingByKey(k).scale)
  <2>1. SettingByKey(k).addr \in SettingRegs
    BY ByKey, RowFacts
  <2>2. QED
    BY <2>1, OneSetting
<1>2. QED
  BY <1>1 DEF SettingsShown

(* The types of what a page may save.                                                  *)
LEMMA SavedTypes ==
    ASSUME PagesInv
    PROVE  /\ saved.week \in [0 .. WeekCount - 1 -> WeekProgram]
           /\ saved.year \in [0 .. YearCount - 1 -> YearProgram]
           /\ saved.settings \in [Keys -> Int]
  BY DEF PagesInv, PagesTypes, Savings

(* The six registers of weekly program i are written and the program they are is saved. *)
WeekSaved(i, p, regs) ==
    /\ regs \in Seq(Reg) /\ Len(regs) = 6
    /\ p = [index |-> i, days |-> regs[1], startHour |-> regs[2], startMin |-> regs[3],
            stopHour |-> regs[4], stopMin |-> regs[5], function |-> regs[6]]
    /\ map' = Written(map, RegWrite(WeekAddr(i), regs))
    /\ saved' = [saved EXCEPT !.week[i] = p]

(* The weekly programs lie between 210 and 329, each in registers of its own.        *)
LEMMA WeekPlace ==
    /\ \A i \in 0 .. WeekCount - 1 : WeekAddr(i) \in Nat /\ WeekAddr(i) >= 210 /\ WeekAddr(i) + 5 <= 329
    /\ \A i, j \in 0 .. WeekCount - 1 :
          i # j => WeekAddr(i) + 5 < WeekAddr(j) \/ WeekAddr(j) + 5 < WeekAddr(i)
  BY DEF WeekAddr, WeekCount

(* A weekly program saved or removed stays within its own six registers.               *)
LEMMA WeekKeeps ==
    ASSUME PagesInv, NEW i \in 0 .. WeekCount - 1, NEW p \in WeekProgram, NEW regs,
           WeekSaved(i, p, regs)
    PROVE  PagesInv'
<1> DEFINE w == RegWrite(WeekAddr(i), regs)
<1>1. WeekAddr(i) \in Nat /\ WeekAddr(i) >= 210 /\ WeekAddr(i) + 5 <= 329
  BY WeekPlace
<1>0. regs \in Seq(Reg) /\ Len(regs) = 6
  BY DEF WeekSaved
<1>2. /\ Writes(w) /\ w.addr = WeekAddr(i) /\ w.regs = regs
      /\ RegistersOf(w) = WeekAddr(i) .. WeekAddr(i) + 5
  <2>1. /\ Writes(w) /\ w.addr = WeekAddr(i) /\ w.regs = regs
        /\ RegistersOf(w) = WeekAddr(i) .. WeekAddr(i) + Len(regs) - 1
    BY <1>0, <1>1, Block
  <2>2. WeekAddr(i) + Len(regs) - 1 = WeekAddr(i) + 5
    BY <1>0, <1>1
  <2>3. QED
    BY <2>1, <2>2
<1> HIDE DEF w
<1>3. map' = Written(map, w)
  BY DEF w, WeekSaved
<1>4. /\ Free(w, 330, 384) /\ Free(w, 385, 524) /\ Free(w, 37, 42)
      /\ \A a \in SettingRegs \cup {56, 57, 135, 53, 710} : a \notin RegistersOf(w)
  <2>1. \A a \in Nat : a < 210 \/ a > 329 => a \notin RegistersOf(w)
    BY <1>1, <1>2
  <2>2. /\ Free(w, 330, 384) /\ Free(w, 385, 524) /\ Free(w, 37, 42)
    BY <2>1 DEF Free
  <2>3. \A a \in SettingRegs \cup {56, 57, 135, 53, 710} : a \in Nat /\ (a < 210 \/ a > 329)
    BY DEF SettingRegs
  <2>4. QED
    BY <2>1, <2>2, <2>3
<1>5. /\ IsMap(map')
      /\ ReadYearPrograms(map') = saved.year /\ ReadAlarms(map') = saved.alarms
      /\ DecodeClock(map') = saved.time
      /\ \A a : a \notin RegistersOf(w) => At(map', a) = At(map, a)
      /\ \A a : a \in RegistersOf(w) => At(map', a) = w.regs[a - w.addr + 1]
  <2>1. Writes(w) /\ Free(w, 330, 384) /\ Free(w, 385, 524) /\ Free(w, 37, 42)
    BY <1>2, <1>4
  <2>2. QED
    BY <2>1, <1>3, Kept
<1>6. /\ saved'.week = [saved.week EXCEPT ![i] = p]
      /\ saved'.year = saved.year /\ saved'.alarms = saved.alarms
      /\ saved'.settings = saved.settings /\ saved'.setpoint = saved.setpoint
      /\ saved'.fan = saved.fan /\ saved'.since = saved.since /\ saved'.time = saved.time
  BY DEF WeekSaved, PagesInv, PagesTypes, Savings
<1>7. saved'.week \in [0 .. WeekCount - 1 -> WeekProgram]
  BY <1>6, SavedTypes
<1>8. PagesTypes'
  <2>1. saved' = [saved EXCEPT !.week = saved'.week]
    BY DEF WeekSaved, PagesInv, PagesTypes, Savings
  <2>2. QED
    BY <2>1, <1>5, <1>7 DEF PagesInv, PagesTypes, Savings
<1>9. (ReadWeekPrograms(map) = saved.week)'
  <2>1. ReadWeekProgram(map', i) = p
    <3>1. \A j \in 0 .. 5 : WeekAddr(i) + j \in RegistersOf(w) /\ (WeekAddr(i) + j) - w.addr + 1 = j + 1
      BY <1>1, <1>2
    <3>2. \A j \in 0 .. 5 : At(map', WeekAddr(i) + j) = regs[j + 1]
      BY <3>1, <1>5, <1>2
    <3>3. /\ At(map', WeekAddr(i) + 0) = regs[1] /\ At(map', WeekAddr(i) + 1) = regs[2]
          /\ At(map', WeekAddr(i) + 2) = regs[3] /\ At(map', WeekAddr(i) + 3) = regs[4]
          /\ At(map', WeekAddr(i) + 4) = regs[5] /\ At(map', WeekAddr(i) + 5) = regs[6]
      BY <3>2
    <3>4. QED
      BY <3>3 DEF ReadWeekProgram, WeekSaved
  <2>2. ASSUME NEW j \in 0 .. WeekCount - 1, j # i PROVE ReadWeekProgram(map', j) = saved.week[j]
    <3>1. \A a \in WeekAddr(j) .. WeekAddr(j) + 5 : a \notin RegistersOf(w)
      BY <1>1, <1>2, <2>2, WeekPlace
    <3>2. Same(map', map, WeekAddr(j) .. WeekAddr(j) + 5)
      BY <3>1, <1>5 DEF Same
    <3>3. ReadWeekProgram(map, j) = saved.week[j]
      BY DEF PagesInv, ReadWeekPrograms
    <3>4. QED
      BY <3>2, <3>3, WeekFrame
  <2>3. \A j \in 0 .. WeekCount - 1 : ReadWeekProgram(map', j) = saved'.week[j]
    BY <2>1, <2>2, <1>6, SavedTypes
  <2>4. QED
    BY <2>3, <1>7 DEF ReadWeekPrograms
<1>10. SettingsShown'
  BY <1>4, <1>5, <1>6, AllSettings
<1>11. /\ Twins' /\ (Abs(10 * Signed(At(map, 135)) - saved.setpoint) <= 5)'
       /\ (At(map, 53) = saved.fan)' /\ (At(map, 710) = saved.since)'
  <2>1. \A a \in {56, 57, 135, 53, 710} : At(map', a) = At(map, a)
    BY <1>4, <1>5
  <2>2. QED
    BY <2>1, <1>6 DEF PagesInv, Twins
<1>12. QED
  BY <1>5, <1>6, <1>8, <1>9, <1>10, <1>11 DEF PagesInv

(* The same of the eleven registers of yearly program i.                               *)
YearSaved(i, p, regs) ==
    /\ regs \in Seq(Reg) /\ Len(regs) = 11
    /\ p = [index |-> i, function |-> regs[11],
            start |-> [day |-> regs[1], month |-> regs[2], year |-> 2000 + regs[3], hour |-> regs[4], min |-> regs[5]],
            stop |-> [day |-> regs[6], month |-> regs[7], year |-> 2000 + regs[8], hour |-> regs[9], min |-> regs[10]]]
    /\ map' = Written(map, RegWrite(YearAddr(i), regs))
    /\ saved' = [saved EXCEPT !.year[i] = p]

(* The yearly programs lie between 330 and 384, each in registers of its own.        *)
LEMMA YearPlace ==
    /\ \A i \in 0 .. YearCount - 1 : YearAddr(i) \in Nat /\ YearAddr(i) >= 330 /\ YearAddr(i) + 10 <= 384
    /\ \A i, j \in 0 .. YearCount - 1 :
          i # j => YearAddr(i) + 10 < YearAddr(j) \/ YearAddr(j) + 10 < YearAddr(i)
  BY DEF YearAddr, YearCount

(* A yearly program saved or removed stays within its own eleven registers.            *)
LEMMA YearKeeps ==
    ASSUME PagesInv, NEW i \in 0 .. YearCount - 1, NEW p \in YearProgram, NEW regs,
           YearSaved(i, p, regs)
    PROVE  PagesInv'
<1> DEFINE w == RegWrite(YearAddr(i), regs)
<1>1. YearAddr(i) \in Nat /\ YearAddr(i) >= 330 /\ YearAddr(i) + 10 <= 384
  BY YearPlace
<1>0. regs \in Seq(Reg) /\ Len(regs) = 11
  BY DEF YearSaved
<1>2. /\ Writes(w) /\ w.addr = YearAddr(i) /\ w.regs = regs
      /\ RegistersOf(w) = YearAddr(i) .. YearAddr(i) + 10
  <2>1. /\ Writes(w) /\ w.addr = YearAddr(i) /\ w.regs = regs
        /\ RegistersOf(w) = YearAddr(i) .. YearAddr(i) + Len(regs) - 1
    BY <1>0, <1>1, Block
  <2>2. YearAddr(i) + Len(regs) - 1 = YearAddr(i) + 10
    BY <1>0, <1>1
  <2>3. QED
    BY <2>1, <2>2
<1> HIDE DEF w
<1>3. map' = Written(map, w)
  BY DEF w, YearSaved
<1>4. /\ Free(w, 210, 329) /\ Free(w, 385, 524) /\ Free(w, 37, 42)
      /\ \A a \in SettingRegs \cup {56, 57, 135, 53, 710} : a \notin RegistersOf(w)
  <2>1. \A a \in Nat : a < 330 \/ a > 384 => a \notin RegistersOf(w)
    BY <1>1, <1>2
  <2>2. /\ Free(w, 210, 329) /\ Free(w, 385, 524) /\ Free(w, 37, 42)
    BY <2>1 DEF Free
  <2>3. \A a \in SettingRegs \cup {56, 57, 135, 53, 710} : a \in Nat /\ (a < 330 \/ a > 384)
    BY DEF SettingRegs
  <2>4. QED
    BY <2>1, <2>2, <2>3
<1>5. /\ IsMap(map')
      /\ ReadWeekPrograms(map') = saved.week /\ ReadAlarms(map') = saved.alarms
      /\ DecodeClock(map') = saved.time
      /\ \A a : a \notin RegistersOf(w) => At(map', a) = At(map, a)
      /\ \A a : a \in RegistersOf(w) => At(map', a) = w.regs[a - w.addr + 1]
  <2>1. Writes(w) /\ Free(w, 210, 329) /\ Free(w, 385, 524) /\ Free(w, 37, 42)
    BY <1>2, <1>4
  <2>2. QED
    BY <2>1, <1>3, Kept
<1>6. /\ saved'.year = [saved.year EXCEPT ![i] = p]
      /\ saved'.week = saved.week /\ saved'.alarms = saved.alarms
      /\ saved'.settings = saved.settings /\ saved'.setpoint = saved.setpoint
      /\ saved'.fan = saved.fan /\ saved'.since = saved.since /\ saved'.time = saved.time
  BY DEF YearSaved, PagesInv, PagesTypes, Savings
<1>7. saved'.year \in [0 .. YearCount - 1 -> YearProgram]
  BY <1>6, SavedTypes
<1>8. PagesTypes'
  <2>1. saved' = [saved EXCEPT !.year = saved'.year]
    BY DEF YearSaved, PagesInv, PagesTypes, Savings
  <2>2. QED
    BY <2>1, <1>5, <1>7 DEF PagesInv, PagesTypes, Savings
<1>9. (ReadYearPrograms(map) = saved.year)'
  <2>1. ReadYearProgram(map', i) = p
    <3> DEFINE a == YearAddr(i)
    <3>1. \A j \in 0 .. 10 : At(map', a + j) = regs[j + 1]
      <4>1. ASSUME NEW j \in 0 .. 10 PROVE a + j \in RegistersOf(w) /\ (a + j) - w.addr + 1 = j + 1
        BY <1>1, <1>2
      <4>2. QED
        BY <4>1, <1>5, <1>2
    <3>2. /\ a = a + 0 /\ a + 5 = a + 5 + 0
          /\ (a + 5) + 1 = a + 6 /\ (a + 5) + 2 = a + 7 /\ (a + 5) + 3 = a + 8 /\ (a + 5) + 4 = a + 9
      BY <1>1
    <3>3. /\ At(map', a) = regs[1] /\ At(map', a + 1) = regs[2] /\ At(map', a + 2) = regs[3]
          /\ At(map', a + 3) = regs[4] /\ At(map', a + 4) = regs[5]
      BY <3>1, <3>2
    <3>4. /\ At(map', a + 5) = regs[6] /\ At(map', (a + 5) + 1) = regs[7] /\ At(map', (a + 5) + 2) = regs[8]
          /\ At(map', (a + 5) + 3) = regs[9] /\ At(map', (a + 5) + 4) = regs[10]
          /\ At(map', a + 10) = regs[11]
      BY <3>1, <3>2
    <3>5. QED
      BY <3>3, <3>4 DEF ReadYearProgram, ReadMoment, YearSaved
  <2>2. ASSUME NEW j \in 0 .. YearCount - 1, j # i PROVE ReadYearProgram(map', j) = saved.year[j]
    <3>1. \A a \in YearAddr(j) .. YearAddr(j) + 10 : a \notin RegistersOf(w)
      BY <1>1, <1>2, <2>2, YearPlace
    <3>2. Same(map', map, YearAddr(j) .. YearAddr(j) + 10)
      BY <3>1, <1>5 DEF Same
    <3>3. ReadYearProgram(map, j) = saved.year[j]
      BY DEF PagesInv, ReadYearPrograms
    <3>4. QED
      BY <3>2, <3>3, YearFrame
  <2>3. \A j \in 0 .. YearCount - 1 : ReadYearProgram(map', j) = saved'.year[j]
    BY <2>1, <2>2, <1>6, SavedTypes
  <2>4. QED
    BY <2>3, <1>7 DEF ReadYearPrograms
<1>10. SettingsShown'
  BY <1>4, <1>5, <1>6, AllSettings
<1>11. /\ Twins' /\ (Abs(10 * Signed(At(map, 135)) - saved.setpoint) <= 5)'
       /\ (At(map, 53) = saved.fan)' /\ (At(map, 710) = saved.since)'
  <2>1. \A a \in {56, 57, 135, 53, 710} : At(map', a) = At(map, a)
    BY <1>4, <1>5
  <2>2. QED
    BY <2>1, <1>6 DEF PagesInv, Twins
<1>12. QED
  BY <1>5, <1>6, <1>8, <1>9, <1>10, <1>11 DEF PagesInv

(* Setting k is written as raw, its twin with it if it has one, and v is saved.         *)
SettingSaved(k, v, raw) ==
    /\ raw \in Reg /\ v \in Int
    /\ map' = Written(map, RegWrite(SettingByKey(k).addr,
                 IF SettingByKey(k).addr = 56 THEN <<raw, raw>> ELSE <<raw>>))
    /\ saved' = [saved EXCEPT !.settings[k] = v]
    /\ Nearest((10 * Signed(raw)) \div SettingByKey(k).scale, v, SettingByKey(k).scale)

(* No program, alarm, clock or other wish lives where a numbered setting or a twin     *)
(* does.                                                                               *)
LEMMA SettingPlace ==
    \A a \in SettingRegs \cup {57} : a \in Nat /\ (a < 210 \/ a > 524) /\ a > 42 /\ a \notin {135, 53, 710}
  BY DEF SettingRegs

(* A setting saved shows in its own row, in both copies if it has two, and nowhere else. *)
LEMMA SettingKeeps ==
    ASSUME PagesInv, NEW k \in Keys, NEW v, NEW raw, SettingSaved(k, v, raw)
    PROVE  PagesInv'
<1> DEFINE s == SettingByKey(k)
           regs == IF s.addr = 56 THEN <<raw, raw>> ELSE <<raw>>
           w == RegWrite(s.addr, regs)
<1>1. s \in Numbers /\ s.addr \in SettingRegs /\ s.addr \in Nat
  BY ByKey, RowFacts, SettingPlace
<1>2. raw \in Reg /\ v \in Int
  BY DEF SettingSaved
<1>3. /\ regs \in Seq(Reg) /\ Len(regs) = (IF s.addr = 56 THEN 2 ELSE 1)
      /\ regs[1] = raw /\ (s.addr = 56 => regs[2] = raw)
  BY <1>2
<1>4. map' = Written(map, w)
  BY DEF SettingSaved
<1> HIDE DEF regs, s
<1>5. /\ Writes(w) /\ w.addr = s.addr /\ w.regs = regs
      /\ RegistersOf(w) = s.addr .. s.addr + Len(regs) - 1
  <2>1. regs \in Seq(Reg) /\ s.addr \in Nat
    BY <1>1, <1>3
  <2>2. QED
    BY <2>1, Block
<1> HIDE DEF w
<1>6. RegistersOf(w) = IF s.addr = 56 THEN {56, 57} ELSE {s.addr}
  <2>1. CASE s.addr = 56
    <3>1. RegistersOf(w) = 56 .. 57
      BY <2>1, <1>3, <1>5
    <3>2. QED
      BY <2>1, <3>1
  <2>2. CASE s.addr # 56
    <3>1. s.addr + Len(regs) - 1 = s.addr
      BY <2>2, <1>1, <1>3
    <3>2. RegistersOf(w) = s.addr .. s.addr
      BY <3>1, <1>5
    <3>3. QED
      BY <2>2, <3>2, <1>1
  <2>3. QED
    BY <2>1, <2>2
<1>7. /\ \A a \in RegistersOf(w) : a \in SettingRegs \cup {57}
      /\ s.addr \in RegistersOf(w)
  BY <1>1, <1>6
<1>8. /\ Free(w, 210, 329) /\ Free(w, 330, 384) /\ Free(w, 385, 524) /\ Free(w, 37, 42)
      /\ 135 \notin RegistersOf(w) /\ 53 \notin RegistersOf(w) /\ 710 \notin RegistersOf(w)
  BY <1>7, SettingPlace DEF Free
<1>9. /\ IsMap(map')
      /\ ReadWeekPrograms(map') = saved.week /\ ReadYearPrograms(map') = saved.year
      /\ ReadAlarms(map') = saved.alarms /\ DecodeClock(map') = saved.time
      /\ \A a : a \notin RegistersOf(w) => At(map', a) = At(map, a)
      /\ \A a : a \in RegistersOf(w) => At(map', a) = regs[a - s.addr + 1]
  <2>1. Writes(w) /\ w.addr = s.addr /\ w.regs = regs
    BY <1>5
  <2>2. QED
    BY <2>1, <1>4, <1>8, Kept
<1>10. /\ saved'.settings = [saved.settings EXCEPT ![k] = v]
       /\ saved' = [saved EXCEPT !.settings = saved'.settings]
       /\ saved'.week = saved.week /\ saved'.year = saved.year /\ saved'.alarms = saved.alarms
       /\ saved'.setpoint = saved.setpoint
       /\ saved'.fan = saved.fan /\ saved'.since = saved.since /\ saved'.time = saved.time
  BY DEF SettingSaved, PagesInv, PagesTypes, Savings
<1>11. saved'.settings \in [Keys -> Int] /\ saved'.settings[k] = v
       /\ \A l \in Keys : l # k => saved'.settings[l] = saved.settings[l]
  BY <1>2, <1>10, SavedTypes
<1>12. PagesTypes'
  BY <1>9, <1>10, <1>11 DEF PagesInv, PagesTypes, Savings
<1>13. /\ At(map', s.addr) = raw
       /\ s.addr = 56 => At(map', 56) = raw /\ At(map', 57) = raw
  <2>1. s.addr - s.addr + 1 = 1
    BY <1>1
  <2>2. At(map', s.addr) = raw
    BY <2>1, <1>3, <1>7, <1>9
  <2>3. ASSUME s.addr = 56 PROVE At(map', 57) = raw
    <3>1. 57 \in RegistersOf(w) /\ 57 - 56 + 1 = 2
      BY <2>3, <1>6
    <3>2. QED
      BY <3>1, <2>3, <1>3, <1>9
  <2>4. QED
    BY <2>2, <2>3
<1>14. SettingsShown'
  <2>1. ASSUME NEW l \in Keys
        PROVE  Nearest(ReadSetting(map', SettingByKey(l)), saved'.settings[l], SettingByKey(l).scale)
    <3>1. CASE l = k
      <4>1. ReadSetting(map', s) = (10 * Signed(raw)) \div s.scale
        BY <1>13 DEF ReadSetting
      <4>2. QED
        BY <3>1, <4>1, <1>11 DEF s, SettingSaved
    <3>2. CASE l # k
      <4>1. SettingByKey(l).addr # s.addr /\ SettingByKey(l).addr \in SettingRegs
        BY <3>2, ByKey, RowFacts DEF s
      <4>2. SettingByKey(l).addr \notin RegistersOf(w)
        BY <4>1, <1>6 DEF SettingRegs
      <4>3. QED
        BY <4>2, <3>2, <1>9, <1>11, OneSetting
    <3>3. QED
      BY <3>1, <3>2
  <2>2. QED
    BY <2>1 DEF SettingsShown
<1>15. Twins'
  <2>1. CASE s.addr = 56
    BY <2>1, <1>13 DEF Twins
  <2>2. CASE s.addr # 56
    <3>1. 56 \notin RegistersOf(w) /\ 57 \notin RegistersOf(w)
      BY <2>2, <1>1, <1>6 DEF SettingRegs
    <3>2. At(map', 56) = At(map, 56) /\ At(map', 57) = At(map, 57)
      BY <3>1, <1>9
    <3>3. QED
      BY <3>2 DEF PagesInv, Twins
  <2>3. QED
    BY <2>1, <2>2
<1>16. /\ (Abs(10 * Signed(At(map, 135)) - saved.setpoint) <= 5)'
       /\ (At(map, 53) = saved.fan)' /\ (At(map, 710) = saved.since)'
  <2>1. At(map', 135) = At(map, 135) /\ At(map', 53) = At(map, 53) /\ At(map', 710) = At(map, 710)
    BY <1>8, <1>9
  <2>2. QED
    BY <2>1, <1>10 DEF PagesInv
<1>17. QED
  BY <1>9, <1>10, <1>12, <1>14, <1>15, <1>16 DEF PagesInv

(* Register a is written, and of what is saved only the setpoint, the fan level and     *)
(* the days since service may change, with what their registers show.                  *)
ValueSaved(a, v) ==
    /\ v \in Reg /\ map' = Written(map, RegWrite(a, <<v>>))
    /\ saved' \in Savings
    /\ saved'.week = saved.week /\ saved'.year = saved.year /\ saved'.alarms = saved.alarms
    /\ saved'.settings = saved.settings /\ saved'.time = saved.time
    /\ (Abs(10 * Signed(At(map, 135)) - saved.setpoint) <= 5)'
    /\ (At(map, 53) = saved.fan)' /\ (At(map, 710) = saved.since)'

(* Setpoint, fan level, service counter and the unit's report touch no program or setting. *)
LEMMA ValueKeeps ==
    ASSUME PagesInv, NEW a \in {49, 53, 135, 710}, NEW v, ValueSaved(a, v)
    PROVE  PagesInv'
<1> DEFINE w == RegWrite(a, <<v>>)
<1>1. Writes(w) /\ RegistersOf(w) = {a}
  <2>1. v \in Reg
    BY DEF ValueSaved
  <2>2. a \in Nat
    OBVIOUS
  <2>3. Writes(RegWrite(a, <<v>>)) /\ RegistersOf(RegWrite(a, <<v>>)) = {a}
    BY <2>1, <2>2, Single
  <2>4. QED
    BY <2>3
<1> HIDE DEF w
<1>2. map' = Written(map, w)
  BY DEF w, ValueSaved
<1>3. /\ Free(w, 210, 329) /\ Free(w, 330, 384) /\ Free(w, 385, 524) /\ Free(w, 37, 42)
      /\ \A b \in SettingRegs \cup {57} : b \notin RegistersOf(w)
  BY <1>1 DEF Free, SettingRegs
<1>4. /\ IsMap(map')
      /\ ReadWeekPrograms(map') = saved.week /\ ReadYearPrograms(map') = saved.year
      /\ ReadAlarms(map') = saved.alarms /\ DecodeClock(map') = saved.time
      /\ \A b : b \notin RegistersOf(w) => At(map', b) = At(map, b)
  BY <1>1, <1>2, <1>3, Kept
<1>5. /\ saved'.week = saved.week /\ saved'.year = saved.year /\ saved'.alarms = saved.alarms
      /\ saved'.settings = saved.settings /\ saved'.time = saved.time
      /\ saved' \in Savings
  BY DEF ValueSaved
<1>6. SettingsShown'
  <2>1. \A b \in SettingRegs : At(map', b) = At(map, b)
    BY <1>3, <1>4
  <2>2. QED
    BY <2>1, <1>5, AllSettings
<1>7. Twins'
  <2>1. At(map', 56) = At(map, 56) /\ At(map', 57) = At(map, 57)
    BY <1>3, <1>4 DEF SettingRegs
  <2>2. QED
    BY <2>1 DEF PagesInv, Twins
<1>8. QED
  BY <1>4, <1>5, <1>6, <1>7 DEF ValueSaved, PagesInv, PagesTypes, Savings

(* Writing one register.                                                               *)
LEMMA OneValue ==
    ASSUME PagesInv, NEW reg \in Nat, NEW val \in Reg, map' = Written(map, RegWrite(reg, <<val>>))
    PROVE  At(map', reg) = val /\ \A b : b # reg => At(map', b) = At(map, b)
<1> DEFINE w == RegWrite(reg, <<val>>)
<1>1. Writes(w) /\ RegistersOf(w) = {reg} /\ w.addr = reg /\ w.regs[1] = val
  BY Single
<1> HIDE DEF w
<1>2. map' = Written(map, w)
  BY DEF w
<1>3. /\ \A b : b \notin RegistersOf(w) => At(map', b) = At(map, b)
      /\ \A b : b \in RegistersOf(w) => At(map', b) = w.regs[b - w.addr + 1]
  BY <1>1, <1>2, Kept
<1>4. reg - reg + 1 = 1
  OBVIOUS
<1>5. QED
  BY <1>1, <1>3, <1>4

(* The bounds of the setpoint always leave something to choose.                        *)
LEMMA SetpointRange ==
    ASSUME NEW h, IsMap(h)
    PROVE  /\ SetpointBounds(h)[1] \in 10 .. 30 /\ SetpointBounds(h)[2] \in 10 .. 30
           /\ SetpointBounds(h)[1] < SetpointBounds(h)[2]
<1>1. Limit(At(h, 140), 10) \in 10 .. 30 /\ Limit(At(h, 141), 30) \in 10 .. 30
  BY DEF Limit
<1>2. QED
  BY <1>1 DEF SetpointBounds

(* The setpoint written is the tenth nearest to the one asked for (command.go).      *)
LEMMA SetpointStep == ASSUME PagesInv, NEW c, PutSetpoint(c) PROVE PagesInv'
<1> DEFINE n == (c + 5) \div 10
<1>1. c \in Int /\ 1000 <= c /\ c <= 3000
  <2>1. IsMap(map)
    BY DEF PagesInv, PagesTypes, Savings
  <2>2. c \in 100 * SetpointBounds(map)[1] .. 100 * SetpointBounds(map)[2]
    BY DEF PutSetpoint, MaySetSetpoint
  <2>3. QED
    BY <2>1, <2>2, SetpointRange
<1>2. n \in Int /\ 0 <= n /\ n <= 301 /\ Abs(10 * n - c) <= 5
  BY <1>1 DEF Abs
<1> HIDE DEF n
<1>3. Raw(n) \in Reg /\ Signed(Raw(n)) = n
  BY <1>2, RoundTrip
<1>4. map' = Written(map, RegWrite(135, <<Raw(n)>>)) /\ saved' = [saved EXCEPT !.setpoint = c]
  BY DEF PutSetpoint, Apply, SetSetpoint, n
<1>5. At(map', 135) = Raw(n) /\ At(map', 53) = At(map, 53) /\ At(map', 710) = At(map, 710)
  <2>1. At(map', 135) = Raw(n) /\ \A b : b # 135 => At(map', b) = At(map, b)
    BY <1>3, <1>4, OneValue
  <2>2. QED
    BY <2>1
<1>6. /\ saved'.setpoint = c /\ saved'.fan = saved.fan /\ saved'.since = saved.since
      /\ saved' \in Savings
      /\ saved'.week = saved.week /\ saved'.year = saved.year /\ saved'.alarms = saved.alarms
      /\ saved'.settings = saved.settings /\ saved'.time = saved.time
  BY <1>1, <1>4 DEF PagesInv, PagesTypes, Savings
<1>7. /\ (Abs(10 * Signed(At(map, 135)) - saved.setpoint) <= 5)'
      /\ (At(map, 53) = saved.fan)' /\ (At(map, 710) = saved.since)'
  BY <1>2, <1>3, <1>5, <1>6 DEF PagesInv
<1>9. ValueSaved(135, Raw(n))
  BY <1>3, <1>4, <1>6, <1>7 DEF ValueSaved
<1>10. QED
  BY <1>9, ValueKeeps

(* The fan level is shown as it was asked for.                                       *)
LEMMA FanStep == ASSUME PagesInv, NEW ec, NEW n \in Int, PutFan(ec, n) PROVE PagesInv'
<1>1. n \in Reg
  BY SixteenBits DEF PutFan, MaySetFanLevel, FanMin, FanMax
<1>2. map' = Written(map, RegWrite(53, <<n>>)) /\ saved' = [saved EXCEPT !.fan = n]
  BY DEF PutFan, Apply, SetFanLevel
<1>3. At(map', 53) = n /\ At(map', 135) = At(map, 135) /\ At(map', 710) = At(map, 710)
  <2>1. At(map', 53) = n /\ \A b : b # 53 => At(map', b) = At(map, b)
    BY <1>1, <1>2, OneValue
  <2>2. QED
    BY <2>1
<1>4. /\ saved'.setpoint = saved.setpoint /\ saved'.fan = n /\ saved'.since = saved.since
      /\ saved' \in Savings
      /\ saved'.week = saved.week /\ saved'.year = saved.year /\ saved'.alarms = saved.alarms
      /\ saved'.settings = saved.settings /\ saved'.time = saved.time
  BY <1>2 DEF PagesInv, PagesTypes, Savings
<1>5. /\ (Abs(10 * Signed(At(map, 135)) - saved.setpoint) <= 5)'
      /\ (At(map, 53) = saved.fan)' /\ (At(map, 710) = saved.since)'
  BY <1>3, <1>4 DEF PagesInv
<1>7. ValueSaved(53, n)
  BY <1>1, <1>2, <1>4, <1>5 DEF ValueSaved
<1>8. QED
  BY <1>7, ValueKeeps

(* The service counter is shown as reset.                                            *)
LEMMA ServiceStep == ASSUME PagesInv, ServiceReset PROVE PagesInv'
<1>1. 0 \in Reg
  BY SixteenBits
<1>2. map' = Written(map, RegWrite(710, <<0>>)) /\ saved' = [saved EXCEPT !.since = 0]
  BY DEF ServiceReset, Apply, ResetServiceCounter
<1>3. At(map', 710) = 0 /\ At(map', 135) = At(map, 135) /\ At(map', 53) = At(map, 53)
  <2>1. At(map', 710) = 0 /\ \A b : b # 710 => At(map', b) = At(map, b)
    BY <1>1, <1>2, OneValue
  <2>2. QED
    BY <2>1
<1>4. /\ saved'.setpoint = saved.setpoint /\ saved'.fan = saved.fan /\ saved'.since = 0
      /\ saved' \in Savings
      /\ saved'.week = saved.week /\ saved'.year = saved.year /\ saved'.alarms = saved.alarms
      /\ saved'.settings = saved.settings /\ saved'.time = saved.time
  BY <1>2 DEF PagesInv, PagesTypes, Savings
<1>5. /\ (Abs(10 * Signed(At(map, 135)) - saved.setpoint) <= 5)'
      /\ (At(map, 53) = saved.fan)' /\ (At(map, 710) = saved.since)'
  BY <1>3, <1>4 DEF PagesInv
<1>7. ValueSaved(710, 0)
  BY <1>1, <1>2, <1>4, <1>5 DEF ValueSaved
<1>8. QED
  BY <1>7, ValueKeeps

(* What the unit reports of its output changes nothing that somebody has saved.      *)
LEMMA ReportStep ==
    ASSUME PagesInv, NEW ladder \in Int, -32768 <= ladder, ladder <= 32767, Reports(ladder)
    PROVE  PagesInv'
<1>1. Raw(ladder) \in Reg
  BY RoundTrip
<1>2. map' = Written(map, RegWrite(49, <<Raw(ladder)>>)) /\ saved' = saved
  BY DEF Reports, Apply
<1>3. At(map', 710) = At(map, 710) /\ At(map', 135) = At(map, 135) /\ At(map', 53) = At(map, 53)
  <2>1. \A b : b # 49 => At(map', b) = At(map, b)
    BY <1>1, <1>2, OneValue
  <2>2. QED
    BY <2>1
<1>4. /\ saved' \in Savings
      /\ saved'.week = saved.week /\ saved'.year = saved.year /\ saved'.alarms = saved.alarms
      /\ saved'.settings = saved.settings /\ saved'.time = saved.time
  BY <1>2 DEF PagesInv, PagesTypes, Savings
<1>5. /\ (Abs(10 * Signed(At(map, 135)) - saved.setpoint) <= 5)'
      /\ (At(map, 53) = saved.fan)' /\ (At(map, 710) = saved.since)'
  BY <1>2, <1>3 DEF PagesInv
<1>7. ValueSaved(49, Raw(ladder))
  BY <1>1, <1>2, <1>4, <1>5 DEF ValueSaved
<1>8. QED
  BY <1>7, ValueKeeps

(* Only the registers of the clocks change, and what they come to is saved.            *)
ClockSaved(time) ==
    /\ IsMap(map') /\ time \in Times
    /\ \A a : a \notin 37 .. 42 \cup 582 .. 586 => At(map', a) = At(map, a)
    /\ DecodeClock(map') = time
    /\ saved' = [saved EXCEPT !.time = time]

(* Setting or losing the clock changes nothing but what the clock shows.             *)
LEMMA ClockKeeps == ASSUME PagesInv, NEW time, ClockSaved(time) PROVE PagesInv'
<1>1. /\ saved' \in Savings
      /\ saved'.week = saved.week /\ saved'.year = saved.year /\ saved'.alarms = saved.alarms
      /\ saved'.settings = saved.settings /\ saved'.setpoint = saved.setpoint
      /\ saved'.fan = saved.fan /\ saved'.since = saved.since /\ saved'.time = time
  BY DEF ClockSaved, PagesInv, PagesTypes, Savings
<1>2. \A a : a \notin 37 .. 42 \cup 582 .. 586 => At(map', a) = At(map, a)
  BY DEF ClockSaved
<1>3. Same(map', map, 210 .. 329) /\ Same(map', map, 330 .. 384) /\ Same(map', map, 385 .. 524)
  BY <1>2 DEF Same
<1>4. /\ ReadWeekPrograms(map') = saved.week /\ ReadYearPrograms(map') = saved.year
      /\ ReadAlarms(map') = saved.alarms
  BY <1>3, KeptSame
<1>5. \A a \in SettingRegs \cup {56, 57, 53, 135, 710} : At(map', a) = At(map, a)
  <2>1. \A a \in SettingRegs \cup {56, 57, 53, 135, 710} : a \notin 37 .. 42 \cup 582 .. 586
    BY DEF SettingRegs
  <2>2. QED
    BY <1>2, <2>1
<1>6. SettingsShown'
  BY <1>1, <1>5, AllSettings
<1>7. /\ Twins' /\ (Abs(10 * Signed(At(map, 135)) - saved.setpoint) <= 5)'
      /\ (At(map, 53) = saved.fan)' /\ (At(map, 710) = saved.since)'
  BY <1>1, <1>5 DEF PagesInv, Twins
<1>8. IsMap(map') /\ DecodeClock(map') = time
  BY DEF ClockSaved
<1>9. QED
  BY <1>1, <1>4, <1>6, <1>7, <1>8 DEF PagesInv, PagesTypes

(* An emptied weekly program is six zeroes, and so is a clock that has lost its date. *)
LEMMA SixZeros == Zeros(6) \in Seq(Reg) /\ Len(Zeros(6)) = 6 /\ \A k \in 1 .. 6 : Zeros(6)[k] = 0
  BY SixteenBits DEF Zeros

(* An emptied yearly program is eleven zeroes.                                       *)
LEMMA ElevenZeros == Zeros(11) \in Seq(Reg) /\ Len(Zeros(11)) = 11 /\ \A k \in 1 .. 11 : Zeros(11)[k] = 0
  BY SixteenBits DEF Zeros

(* A clock without a date shows as no clock, not as a wrong one.                     *)
LEMMA LostStep == ASSUME PagesInv, ClockLost PROVE PagesInv'
<1> DEFINE zeros == Zeros(6)
           w == RegWrite(37, zeros)
<1>0. zeros \in Seq(Reg) /\ Len(zeros) = 6 /\ \A k \in 1 .. 6 : zeros[k] = 0
  BY SixZeros
<1> HIDE DEF zeros, w
<1>1. Writes(w) /\ w.addr = 37 /\ w.regs = zeros /\ RegistersOf(w) = 37 .. 42
  BY <1>0, ClockBlock DEF w
<1>2. map' = Written(map, w) /\ saved' = [saved EXCEPT !.time = NoClock]
  BY DEF ClockLost, Apply, w, zeros
<1>3. /\ IsMap(map')
      /\ \A b : b \notin RegistersOf(w) => At(map', b) = At(map, b)
      /\ \A b : b \in RegistersOf(w) => At(map', b) = w.regs[b - w.addr + 1]
  BY <1>1, <1>2, Kept
<1>4. \A j \in 0 .. 5 : At(map', 37 + j) = 0
  <2>1. \A j \in 0 .. 5 : 37 + j \in RegistersOf(w) /\ (37 + j) - 37 + 1 \in 1 .. 6
    BY <1>1
  <2>2. QED
    BY <2>1, <1>0, <1>1, <1>3
<1>5. DecodeClock(map') = NoClock
  BY <1>4 DEF DecodeClock, RealDate
<1>6. NoClock \in Times
  BY DEF NoClock, Times
<1>7. ClockSaved(NoClock)
  BY <1>1, <1>2, <1>3, <1>5, <1>6 DEF ClockSaved
<1>8. QED
  BY <1>7, ClockKeeps

(* The clock shows the minute it was set to, from its first second.                  *)
LEMMA ClockStep == ASSUME PagesInv, NEW t, RealTime(t), PutClock(t) PROVE PagesInv'
<1>0. /\ t.year \in 2000 .. 2099 /\ t.month \in 1 .. 12 /\ t.day \in 1 .. 31
      /\ t.hour \in 0 .. 23 /\ t.min \in 0 .. 59
  BY DEF RealTime
<1>1. /\ t = [year |-> t.year, month |-> t.month, day |-> t.day, hour |-> t.hour, min |-> t.min, sec |-> t.sec]
      /\ RealDate(t.day, t.month, t.year)
  BY DEF RealTime
<1> DEFINE regs == <<t.min, t.hour, t.day, t.month, t.year - 2000>>
           w == RegWrite(582, regs)
           g == Written(map, w)
           took == <<0>> \o [k \in 1..5 |-> At(g, 581 + k)]
           u == RegWrite(37, took)
<1>2. /\ regs \in Seq(Reg) /\ Len(regs) = 5
      /\ regs[1] = t.min /\ regs[2] = t.hour /\ regs[3] = t.day /\ regs[4] = t.month /\ regs[5] = t.year - 2000
  <2>1. t.min \in Reg /\ t.hour \in Reg /\ t.day \in Reg /\ t.month \in Reg /\ t.year - 2000 \in Reg
    <3>1. \A n \in 0 .. 99 : n \in Reg
      BY SixteenBits
    <3>2. /\ t.min \in 0 .. 99 /\ t.hour \in 0 .. 99 /\ t.day \in 0 .. 99 /\ t.month \in 0 .. 99
          /\ t.year - 2000 \in 0 .. 99
      BY <1>0
    <3>3. QED
      BY <3>1, <3>2
  <2>2. QED
    BY <2>1
<1> HIDE DEF regs, w, g, took, u
<1>3. Writes(w) /\ w.addr = 582 /\ w.regs = regs /\ RegistersOf(w) = 582 .. 586
  <2>1. 582 \in Nat /\ regs \in Seq(Reg)
    BY <1>2
  <2>2. /\ Writes(w) /\ w.addr = 582 /\ w.regs = regs
        /\ RegistersOf(w) = 582 .. 582 + Len(regs) - 1
    BY <2>1, Block DEF w
  <2>3. 582 + Len(regs) - 1 = 586
    BY <1>2
  <2>4. QED
    BY <2>2, <2>3
<1>4. /\ IsMap(g)
      /\ \A b : b \notin 582 .. 586 => At(g, b) = At(map, b)
      /\ \A b : b \in 582 .. 586 => At(g, b) = regs[b - 582 + 1]
  <2>1. IsMap(map)
    BY DEF PagesInv, PagesTypes
  <2>2. QED
    BY <2>1, <1>3, WrittenAt DEF g
<1>5. \A k \in 1 .. 5 : At(g, 581 + k) = regs[k]
  <2>1. \A k \in 1 .. 5 : 581 + k \in 582 .. 586 /\ (581 + k) - 582 + 1 = k
    OBVIOUS
  <2>2. QED
    BY <2>1, <1>4
<1>6. /\ took \in Seq(Reg) /\ Len(took) = 6 /\ took[1] = 0
      /\ \A k \in 1 .. 5 : took[k + 1] = regs[k]
  <2> DEFINE tail == [k \in 1..5 |-> At(g, 581 + k)]
  <2>1. tail \in Seq(Reg) /\ Len(tail) = 5 /\ \A k \in 1 .. 5 : tail[k] = regs[k]
    BY <1>4, <1>5, AtType
  <2> DEFINE zero == <<0>>
  <2>2. zero \in Seq(Reg) /\ Len(zero) = 1 /\ zero[1] = 0
    <3>1. 0 \in Reg
      BY SixteenBits
    <3>2. QED
      BY <3>1
  <2> HIDE DEF tail, zero
  <2>3. took = zero \o tail
    BY DEF tail, zero, took
  <2>7. /\ took \in Seq(Reg) /\ Len(took) = Len(zero) + Len(tail)
        /\ \A i \in 1 .. Len(zero) + Len(tail) : took[i] = IF i <= Len(zero) THEN zero[i] ELSE tail[i - Len(zero)]
    BY <2>1, <2>2, <2>3, ConcatProperties
  <2>4. Len(took) = 6 /\ took \in Seq(Reg)
    BY <2>1, <2>2, <2>7
  <2>5. took[1] = 0 /\ \A k \in 1 .. 5 : took[k + 1] = tail[k]
    BY <2>1, <2>2, <2>7
  <2>6. QED
    BY <2>1, <2>4, <2>5
<1>7. Writes(u) /\ u.addr = 37 /\ u.regs = took /\ RegistersOf(u) = 37 .. 42
  BY <1>6, ClockBlock DEF u
<1>8. map' = Written(g, u) /\ saved' = [saved EXCEPT !.time = [t EXCEPT !.sec = 0]]
  BY DEF PutClock, UnitSetsItsClock, SetClock, g, w, regs, u, took
<1>9. /\ IsMap(map')
      /\ \A b : b \notin 37 .. 42 => At(map', b) = At(g, b)
      /\ \A b : b \in 37 .. 42 => At(map', b) = took[b - 37 + 1]
  BY <1>4, <1>7, <1>8, WrittenAt
<1>10. /\ At(map', 37 + 0) = 0 /\ At(map', 37 + 1) = t.min /\ At(map', 37 + 2) = t.hour
       /\ At(map', 37 + 3) = t.day /\ At(map', 37 + 4) = t.month /\ At(map', 37 + 5) = t.year - 2000
  <2>1. \A j \in 0 .. 5 : 37 + j \in 37 .. 42 /\ (37 + j) - 37 + 1 = j + 1
    OBVIOUS
  <2>2. \A j \in 0 .. 5 : At(map', 37 + j) = took[j + 1]
    BY <2>1, <1>9
  <2>3. took[0 + 1] = 0 /\ \A k \in 1 .. 5 : took[k + 1] = regs[k]
    BY <1>6
  <2>4. QED
    BY <2>2, <2>3, <1>2
<1>11. DecodeClock(map') = [t EXCEPT !.sec = 0]
  <2>1. 2000 + (t.year - 2000) = t.year
    BY <1>0
  <2>2. [t EXCEPT !.sec = 0] = [year |-> t.year, month |-> t.month, day |-> t.day, hour |-> t.hour, min |-> t.min, sec |-> 0]
    BY <1>1
  <2>3. QED
    BY <1>0, <1>1, <1>10, <2>1, <2>2 DEF DecodeClock
<1>12. [t EXCEPT !.sec = 0] \in Times
  BY <1>0, <1>1 DEF Times
<1>13. \A a : a \notin 37 .. 42 \cup 582 .. 586 => At(map', a) = At(map, a)
  BY <1>4, <1>9
<1>14. ClockSaved([t EXCEPT !.sec = 0])
  BY <1>8, <1>9, <1>11, <1>12, <1>13 DEF ClockSaved
<1>15. QED
  BY <1>14, ClockKeeps

(* Seven bits fit a register.                                                        *)
LEMMA SmallRegs == \A n \in 0 .. 127 : n \in Reg
  BY SixteenBits

(* A checked weekly program fits its registers and is read back whole.               *)
LEMMA WeekPutStep ==
    ASSUME PagesInv, NEW p \in WeekProgram, NEW ack, PutWeekProgram(p, ack)
    PROVE  PagesInv'
<1> DEFINE vals == <<p.days, p.startHour, p.startMin, p.stopHour, p.stopMin, p.function>>
<1>1. /\ p.index \in 0 .. WeekCount - 1 /\ p.days \in 0 .. 127
      /\ p.startHour \in 0 .. 127 /\ p.startMin \in 0 .. 127
      /\ p.stopHour \in 0 .. 127 /\ p.stopMin \in 0 .. 127 /\ p.function \in 0 .. 127
  BY DEF PutWeekProgram, MayWriteWeek, CheckTime, CheckFunction, FunctionChoices, FanMin, FanMax
<1>2. /\ vals \in Seq(Reg) /\ Len(vals) = 6
      /\ vals[1] = p.days /\ vals[2] = p.startHour /\ vals[3] = p.startMin
      /\ vals[4] = p.stopHour /\ vals[5] = p.stopMin /\ vals[6] = p.function
  <2>1. p.days \in Reg /\ p.startHour \in Reg /\ p.startMin \in Reg /\ p.stopHour \in Reg /\ p.stopMin \in Reg /\ p.function \in Reg
    BY <1>1, SmallRegs
  <2>2. QED
    BY <2>1
<1>3. /\ map' = Written(map, RegWrite(WeekAddr(p.index), vals))
      /\ saved' = [saved EXCEPT !.week[p.index] = p]
  BY DEF PutWeekProgram, Apply, WriteWeekProgram
<1> HIDE DEF vals
<1>4. p = [index |-> p.index, days |-> vals[1], startHour |-> vals[2], startMin |-> vals[3],
           stopHour |-> vals[4], stopMin |-> vals[5], function |-> vals[6]]
  BY <1>2 DEF WeekProgram
<1>5. WeekSaved(p.index, p, vals)
  BY <1>2, <1>3, <1>4 DEF WeekSaved
<1>6. QED
  BY <1>1, <1>5, WeekKeeps

(* An emptied weekly program is read back as empty.                                  *)
LEMMA WeekDeleteStep == ASSUME PagesInv, NEW n, DeleteWeekProgram(n) PROVE PagesInv'
<1> DEFINE vals == Zeros(6)
           none == [index |-> n, days |-> 0, startHour |-> 0, startMin |-> 0, stopHour |-> 0, stopMin |-> 0, function |-> 0]
<1>1. vals \in Seq(Reg) /\ Len(vals) = 6 /\ \A k \in 1 .. 6 : vals[k] = 0
  BY SixZeros
<1>2. /\ map' = Written(map, RegWrite(WeekAddr(n), vals))
      /\ saved' = [saved EXCEPT !.week[n] = none]
  BY DEF DeleteWeekProgram, Apply, ClearWeekProgram
<1>3. n \in 0 .. WeekCount - 1 /\ n \in Int
  BY DEF DeleteWeekProgram, WeekCount
<1>4. none \in WeekProgram
  BY <1>3 DEF WeekProgram
<1> HIDE DEF vals
<1>5. none = [index |-> n, days |-> vals[1], startHour |-> vals[2], startMin |-> vals[3],
              stopHour |-> vals[4], stopMin |-> vals[5], function |-> vals[6]]
  BY <1>1
<1> HIDE DEF none
<1>6. WeekSaved(n, none, vals)
  BY <1>1, <1>2, <1>5 DEF WeekSaved
<1>7. QED
  BY <1>3, <1>4, <1>6, WeekKeeps

(* A checked yearly program fits its registers and is read back whole.               *)
LEMMA YearPutStep ==
    ASSUME PagesInv, NEW p \in YearProgram, NEW ack, PutYearProgram(p, ack)
    PROVE  PagesInv'
<1> DEFINE from == <<p.start.day, p.start.month, p.start.year - 2000, p.start.hour, p.start.min>>
           to == <<p.stop.day, p.stop.month, p.stop.year - 2000, p.stop.hour, p.stop.min>>
           does == <<p.function>>
           both == from \o to
           vals == both \o does
<1>1. /\ p.index \in 0 .. YearCount - 1 /\ p.function \in 0 .. 127
      /\ CheckMoment(p.start) /\ CheckMoment(p.stop)
  BY DEF PutYearProgram, MayWriteYear, CheckFunction, FunctionChoices, FanMin, FanMax
<1>2. p.start \in Moment /\ p.stop \in Moment
  BY DEF YearProgram
<1>3. ASSUME NEW m \in Moment, CheckMoment(m)
      PROVE  /\ m.day \in Reg /\ m.month \in Reg /\ m.year - 2000 \in Reg /\ m.hour \in Reg /\ m.min \in Reg
             /\ 2000 + (m.year - 2000) = m.year
             /\ m = [day |-> m.day, month |-> m.month, year |-> m.year, hour |-> m.hour, min |-> m.min]
  <2>1. /\ m.day \in 0 .. 127 /\ m.month \in 0 .. 127 /\ m.year - 2000 \in 0 .. 127
        /\ m.hour \in 0 .. 127 /\ m.min \in 0 .. 127 /\ 2000 + (m.year - 2000) = m.year
    BY <1>3 DEF CheckMoment, CheckDate, CheckTime, Moment
  <2>2. m = [day |-> m.day, month |-> m.month, year |-> m.year, hour |-> m.hour, min |-> m.min]
    BY DEF Moment
  <2>3. QED
    BY <2>1, <2>2, SmallRegs
<1>4. /\ from \in Seq(Reg) /\ Len(from) = 5 /\ from[1] = p.start.day /\ from[2] = p.start.month
      /\ from[3] = p.start.year - 2000 /\ from[4] = p.start.hour /\ from[5] = p.start.min
  <2>1. /\ p.start.day \in Reg /\ p.start.month \in Reg /\ p.start.year - 2000 \in Reg
        /\ p.start.hour \in Reg /\ p.start.min \in Reg
    BY <1>1, <1>2, <1>3
  <2>2. QED
    BY <2>1
<1>5. /\ to \in Seq(Reg) /\ Len(to) = 5 /\ to[1] = p.stop.day /\ to[2] = p.stop.month
      /\ to[3] = p.stop.year - 2000 /\ to[4] = p.stop.hour /\ to[5] = p.stop.min
  <2>1. /\ p.stop.day \in Reg /\ p.stop.month \in Reg /\ p.stop.year - 2000 \in Reg
        /\ p.stop.hour \in Reg /\ p.stop.min \in Reg
    BY <1>1, <1>2, <1>3
  <2>2. QED
    BY <2>1
<1>6. does \in Seq(Reg) /\ Len(does) = 1 /\ does[1] = p.function
  <2>1. p.function \in Reg
    BY <1>1, SmallRegs
  <2>2. QED
    BY <2>1
<1>7. /\ map' = Written(map, RegWrite(YearAddr(p.index), vals))
      /\ saved' = [saved EXCEPT !.year[p.index] = p]
  BY DEF PutYearProgram, Apply, WriteYearProgram, MomentRegs
<1> HIDE DEF from, to, does, vals, both
<1>8. /\ both \in Seq(Reg) /\ Len(both) = 10
      /\ \A i \in 1 .. 10 : both[i] = IF i <= 5 THEN from[i] ELSE to[i - 5]
  <2>1. /\ both \in Seq(Reg) /\ Len(both) = Len(from) + Len(to)
        /\ \A i \in 1 .. Len(from) + Len(to) : both[i] = IF i <= Len(from) THEN from[i] ELSE to[i - Len(from)]
    <3>1. from \in Seq(Reg) /\ to \in Seq(Reg) /\ both = from \o to
      BY <1>4, <1>5 DEF both
    <3>2. QED
      BY <3>1, ConcatProperties
  <2>2. QED
    BY <2>1, <1>4, <1>5
<1>9. /\ vals \in Seq(Reg) /\ Len(vals) = 11
      /\ \A i \in 1 .. 11 : vals[i] = IF i <= 10 THEN both[i] ELSE does[i - 10]
  <2>1. /\ vals \in Seq(Reg) /\ Len(vals) = Len(both) + Len(does)
        /\ \A i \in 1 .. Len(both) + Len(does) : vals[i] = IF i <= Len(both) THEN both[i] ELSE does[i - Len(both)]
    BY <1>6, <1>8, ConcatProperties DEF vals
  <2>2. QED
    BY <2>1, <1>6, <1>8
<1>10. /\ vals[1] = from[1] /\ vals[2] = from[2] /\ vals[3] = from[3] /\ vals[4] = from[4] /\ vals[5] = from[5]
       /\ vals[6] = to[1] /\ vals[7] = to[2] /\ vals[8] = to[3] /\ vals[9] = to[4] /\ vals[10] = to[5]
       /\ vals[11] = does[1]
  BY <1>8, <1>9
<1>11. /\ p.start = [day |-> vals[1], month |-> vals[2], year |-> 2000 + vals[3], hour |-> vals[4], min |-> vals[5]]
       /\ p.stop = [day |-> vals[6], month |-> vals[7], year |-> 2000 + vals[8], hour |-> vals[9], min |-> vals[10]]
       /\ p.function = vals[11]
  BY <1>1, <1>2, <1>3, <1>4, <1>5, <1>6, <1>10
<1>12. p = [index |-> p.index, function |-> p.function, start |-> p.start, stop |-> p.stop]
  BY DEF YearProgram
<1>13. YearSaved(p.index, p, vals)
  BY <1>7, <1>9, <1>11, <1>12 DEF YearSaved
<1>14. QED
  BY <1>1, <1>13, YearKeeps

(* An emptied yearly program is read back as empty.                                  *)
LEMMA YearDeleteStep == ASSUME PagesInv, NEW n, DeleteYearProgram(n) PROVE PagesInv'
<1> DEFINE vals == Zeros(11)
           never == [day |-> 0, month |-> 0, year |-> 2000, hour |-> 0, min |-> 0]
           none == [index |-> n, start |-> never, stop |-> never, function |-> 0]
<1>1. vals \in Seq(Reg) /\ Len(vals) = 11 /\ \A k \in 1 .. 11 : vals[k] = 0
  BY ElevenZeros
<1>2. /\ map' = Written(map, RegWrite(YearAddr(n), vals))
      /\ saved' = [saved EXCEPT !.year[n] = none]
  BY DEF DeleteYearProgram, Apply, ClearYearProgram, Never
<1>3. n \in 0 .. YearCount - 1 /\ n \in Int
  BY DEF DeleteYearProgram, YearCount
<1>4. never \in Moment /\ none \in YearProgram
  BY <1>3 DEF YearProgram, Moment
<1> HIDE DEF vals
<1>5. /\ never = [day |-> vals[1], month |-> vals[2], year |-> 2000 + vals[3], hour |-> vals[4], min |-> vals[5]]
      /\ never = [day |-> vals[6], month |-> vals[7], year |-> 2000 + vals[8], hour |-> vals[9], min |-> vals[10]]
      /\ vals[11] = 0
  BY <1>1
<1> HIDE DEF never
<1>6. none = [index |-> n, function |-> vals[11],
              start |-> [day |-> vals[1], month |-> vals[2], year |-> 2000 + vals[3], hour |-> vals[4], min |-> vals[5]],
              stop |-> [day |-> vals[6], month |-> vals[7], year |-> 2000 + vals[8], hour |-> vals[9], min |-> vals[10]]]
  BY <1>5
<1> HIDE DEF none
<1>7. YearSaved(n, none, vals)
  BY <1>1, <1>2, <1>6 DEF YearSaved
<1>8. QED
  BY <1>3, <1>4, <1>7, YearKeeps

(* A named setting that passes the check is saved (settings.go).                     *)
LEMMA SettingStep ==
    ASSUME PagesInv, NEW k, NEW t \in Int, SetSetting(k, t)
    PROVE  PagesInv'
<1> DEFINE s == SettingByKey(k)
           n == RoundTenths(t * s.scale)
<1>1. k \in Keys /\ t \in s.min .. s.max
  BY DEF SetSetting, MayWriteSetting
<1>2. s \in Numbers
  BY <1>1, ByKey
<1> HIDE DEF s
<1>3. n \in Int /\ -32768 <= n /\ n <= 32767 /\ Nearest((10 * n) \div s.scale, t, s.scale)
  BY <1>1, <1>2, KeptSetting
<1> HIDE DEF n
<1>4. Raw(n) \in Reg /\ Signed(Raw(n)) = n
  BY <1>3, RoundTrip
<1>5. HasTwin(s) <=> s.addr = 56
  BY <1>2, RowFacts DEF HasTwin
<1>6. /\ map' = Written(map, RegWrite(s.addr, IF s.addr = 56 THEN <<Raw(n), Raw(n)>> ELSE <<Raw(n)>>))
      /\ saved' = [saved EXCEPT !.settings[k] = t]
  BY <1>5 DEF SetSetting, Apply, WriteSetting, s, n
<1>7. SettingSaved(k, t, Raw(n))
  BY <1>3, <1>4, <1>6 DEF SettingSaved, s
<1>8. QED
  BY <1>1, <1>7, SettingKeeps

(* A duration set on the way to boost or overpressure is the setting of that name.   *)
LEMMA DurationStep ==
    ASSUME PagesInv, NEW mode \in {"boost", "overpressure"}, NEW wanted, PutDuration(mode, wanted)
    PROVE  PagesInv'
<1> DEFINE key == IF mode = "boost" THEN "boost_minutes" ELSE "overpressure_minutes"
           s == SettingByKey(key)
<1>1. key \in Keys
  BY DurationKeys
<1>2. PICK n \in 1 .. 60 :
          /\ map' = Written(map, IF mode = "boost" THEN SetBoostDuration(n) ELSE SetOverpressureDuration(n))
          /\ saved' = [saved EXCEPT !.settings[key] = 10 * n]
  BY DEF PutDuration, Apply, MaySetDuration
<1>3. s.addr = (IF mode = "boost" THEN 66 ELSE 56) /\ s.scale = 1
  <2>1. s \in Numbers /\ s.key = key
    BY <1>1, ByKey
  <2>2. QED
    BY <2>1, RowFacts
<1>4. n \in Reg /\ Signed(n) = n /\ 10 * n \in Int /\ n \in Int
  <2>1. n \in Reg
    BY SmallRegs
  <2>2. QED
    BY <2>1, SignedType
<1> HIDE DEF s
<1>5. map' = Written(map, RegWrite(s.addr, IF s.addr = 56 THEN <<n, n>> ELSE <<n>>))
  BY <1>2, <1>3 DEF SetBoostDuration, SetOverpressureDuration
<1>6. Nearest((10 * Signed(n)) \div s.scale, 10 * n, s.scale)
  <2>1. (10 * n) \div 1 = 10 * n /\ 10 * n - 10 * n = 0
    BY <1>4
  <2>2. QED
    BY <2>1, <1>3, <1>4 DEF Nearest, Abs
<1> HIDE DEF key
<1>7. SettingSaved(key, 10 * n, n)
  BY <1>2, <1>4, <1>5, <1>6 DEF SettingSaved, s
<1>8. QED
  BY <1>1, <1>7, SettingKeeps

(* What the registers show at first is what they hold.                                 *)
LEMMA FirstShown == ASSUME PagesInit PROVE PagesInv
<1>1. map = Contents /\ saved = AllShown(Contents)
  BY DEF PagesInit
<1>2. IsMap(map)
  <2>1. IsMap(Contents)
    BY PagesAssumption DEF IsMap, Reg
  <2>2. QED
    BY <2>1, <1>1
<1>3. \A a : At(map, a) \in Reg /\ At(map, a) \in Int /\ Signed(At(map, a)) \in Int
  <2>1. \A a : At(map, a) \in Reg
    BY <1>2, AtType
  <2>2. Reg \subseteq Int
    BY SixteenBits
  <2>3. \A a : Signed(At(map, a)) \in Int
    BY <2>1, SignedType
  <2>4. \A a : At(map, a) \in Int
    BY <2>1, <2>2
  <2>5. QED
    BY <2>1, <2>3, <2>4
<1>4. /\ ReadWeekPrograms(map) \in [0 .. WeekCount - 1 -> WeekProgram]
      /\ ReadYearPrograms(map) \in [0 .. YearCount - 1 -> YearProgram]
  <2>1. \A i \in 0 .. WeekCount - 1 : ReadWeekProgram(map, i) \in WeekProgram
    BY <1>3 DEF ReadWeekProgram, WeekProgram, WeekCount
  <2>2. ASSUME NEW i \in 0 .. YearCount - 1 PROVE ReadYearProgram(map, i) \in YearProgram
    <3>1. \A a : ReadMoment(map, a) \in Moment
      BY <1>3 DEF ReadMoment, Moment
    <3>2. i \in Int
      BY DEF YearCount
    <3>3. QED
      BY <3>1, <3>2, <1>3 DEF ReadYearProgram, YearProgram
  <2>3. QED
    BY <2>1, <2>2 DEF ReadWeekPrograms, ReadYearPrograms
<1>5. DecodeClock(map) \in Times
  <2>1. NoClock \in Times
    BY DEF NoClock, Times
  <2>2. CASE DecodeClock(map) = NoClock
    BY <2>1, <2>2
  <2>3. CASE DecodeClock(map) # NoClock
    BY <1>3, <2>3 DEF DecodeClock, Times
  <2>4. QED
    BY <2>2, <2>3
<1>6. \A s \in Numbers : ReadSetting(map, s) \in Int /\ Nearest(ReadSetting(map, s), ReadSetting(map, s), s.scale)
  <2>1. TAKE s \in Numbers
  <2>2. s.scale \in {1, 10} /\ Signed(At(map, s.addr)) \in Int
    BY <1>3, RowFacts
  <2>3. ReadSetting(map, s) \in Int
    BY <2>2 DEF ReadSetting
  <2>4. QED
    BY <2>2, <2>3 DEF Nearest, Abs
<1>7. /\ saved.week = ReadWeekPrograms(map) /\ saved.year = ReadYearPrograms(map)
      /\ saved.alarms = ReadAlarms(map) /\ saved.time = DecodeClock(map)
      /\ saved.settings = [k \in Keys |-> ReadSetting(map, SettingByKey(k))]
      /\ saved.setpoint = 10 * Signed(At(map, 135)) /\ saved.fan = At(map, 53) /\ saved.since = At(map, 710)
  BY <1>1 DEF AllShown, DecodeService
<1>8. SettingsShown
  BY <1>6, <1>7, ByKey DEF SettingsShown
<1>9. Twins
  BY <1>1 DEF Twins
<1>10. Abs(10 * Signed(At(map, 135)) - saved.setpoint) <= 5
  BY <1>3, <1>7 DEF Abs
<1>11. saved \in Savings
  <2>1. saved.settings \in [Keys -> Int]
    BY <1>6, <1>7, ByKey
  <2>2. saved = [week |-> saved.week, year |-> saved.year, alarms |-> saved.alarms, settings |-> saved.settings,
                 setpoint |-> saved.setpoint, fan |-> saved.fan, since |-> saved.since, time |-> saved.time]
    BY <1>1 DEF AllShown
  <2>3. saved.setpoint \in Int /\ saved.fan \in Int /\ saved.since \in Int
    BY <1>3, <1>7
  <2>4. saved.alarms = ReadAlarms(Contents)
    BY <1>1, <1>7
  <2>5. /\ saved.week \in [0 .. WeekCount - 1 -> WeekProgram] /\ saved.year \in [0 .. YearCount - 1 -> YearProgram]
        /\ saved.time \in Times
    BY <1>4, <1>5, <1>7
  <2>6. QED
    BY <2>1, <2>2, <2>3, <2>4, <2>5 DEF Savings
<1>12. QED
  BY <1>2, <1>7, <1>8, <1>9, <1>10, <1>11 DEF PagesInv, PagesTypes

(* No request and nothing the unit does by itself makes a page show something else.  *)
LEMMA RequestKeeps == ASSUME PagesInv, Request PROVE PagesInv'
<1>1. CASE \E p \in WeekSaves, ack \in BOOLEAN : PutWeekProgram(p, ack)
  BY <1>1, WeekPutStep, PagesAssumption
<1>2. CASE \E p \in YearSaves, ack \in BOOLEAN : PutYearProgram(p, ack)
  BY <1>2, YearPutStep, PagesAssumption
<1>3. CASE \E i \in Removals : DeleteWeekProgram(i) \/ DeleteYearProgram(i)
  BY <1>3, WeekDeleteStep, YearDeleteStep
<1>4. CASE \E a \in Asked : SetSetting(a[1], a[2])
  BY <1>4, SettingStep, PagesAssumption
<1>5. CASE \E c \in Setpoints : PutSetpoint(c)
  BY <1>5, SetpointStep
<1>6. CASE \E mode \in {"boost", "overpressure"}, n \in {0, 1, 60, 61} : PutDuration(mode, n)
  BY <1>6, DurationStep
<1>7. CASE \E ec \in BOOLEAN, n \in {FanMin - 1, FanMin, FanMax} : PutFan(ec, n)
  <2>1. FanMin - 1 \in Int /\ FanMin \in Int /\ FanMax \in Int
    BY DEF FanMin, FanMax
  <2>2. QED
    BY <1>7, <2>1, FanStep
<1>8. CASE ServiceReset
  BY <1>8, ServiceStep
<1>9. CASE \E t \in Moments : PutClock(t)
  BY <1>9, ClockStep, PagesAssumption
<1>10. CASE ClockDrifts
  <2>1. map' = map /\ saved' = saved
    BY <1>10 DEF ClockDrifts
  <2>2. QED
    BY <2>1 DEF PagesInv, PagesTypes, SettingsShown, Twins
<1>11. CASE ClockLost
  BY <1>11, LostStep
<1>12. CASE \E ladder \in Ladders : Reports(ladder)
  <2>1. \A ladder \in Ladders : ladder \in Int /\ -32768 <= ladder /\ ladder <= 32767
    BY PagesAssumption
  <2>2. QED
    BY <1>12, <2>1, ReportStep
<1>13. QED
  BY <1>1, <1>2, <1>3, <1>4, <1>5, <1>6, <1>7, <1>8, <1>9, <1>10, <1>11, <1>12 DEF Request

(* Whatever is asked for in whatever order, the invariant holds.                     *)
LEMMA PagesInvariance == PagesSpec => []PagesInv
<1>1. PagesInit => PagesInv
  BY FirstShown
<1>2. PagesInv /\ [PagesNext]_pageVars => PagesInv'
  <2>1. SUFFICES ASSUME PagesInv, [PagesNext]_pageVars PROVE PagesInv'
    OBVIOUS
  <2>2. CASE PagesNext
    BY <2>1, <2>2, RequestKeeps DEF PagesNext
  <2>3. CASE UNCHANGED pageVars
    <3>1. map' = map /\ saved' = saved
      BY <2>3 DEF pageVars
    <3>2. QED
      BY <2>1, <3>1 DEF PagesInv, PagesTypes, SettingsShown, Twins
  <2>4. QED
    BY <2>1, <2>2, <2>3
<1>3. QED
  BY <1>1, <1>2, PTL DEF PagesSpec

(* For any registers at first and any requests in any order, every page shows what was *)
(* last accepted there, to the nearest step of its register, and nothing spills over    *)
(* into another (programs.go, settings.go, command.go).                                *)
THEOREM EverythingIsShown == PagesSpec => []EverythingReadsBack
<1>1. PagesInv => EverythingReadsBack
  <2>1. SUFFICES ASSUME PagesInv PROVE EverythingReadsBack
    OBVIOUS
  <2>2. /\ saved.week = ReadWeekPrograms(map) /\ saved.year = ReadYearPrograms(map)
        /\ saved.alarms = ReadAlarms(map)
    BY <2>1 DEF PagesInv
  <2>3. ProgramsReadBack
    BY <2>2 DEF ProgramsReadBack
  <2>4. Decode(map).setpoint = Signed(At(map, 135)) /\ DecodeService(map).since = At(map, 710)
    BY DEF Decode, DecodeService
  <2>5. \A k \in Keys :
            Nearest(ReadSetting(map, SettingByKey(k)), saved.settings[k], SettingByKey(k).scale)
    BY <2>1 DEF PagesInv, SettingsShown
  <2>6. At(map, 56) = At(map, 57) \/ \A a \in {56, 57} : At(map, a) = At(Contents, a)
    BY <2>1 DEF PagesInv, Twins
  <2>7. Abs(10 * Signed(At(map, 135)) - saved.setpoint) <= 5
    BY <2>1 DEF PagesInv
  <2>8. /\ At(map, 53) = saved.fan /\ DecodeClock(map) = saved.time
        /\ At(map, 710) = saved.since
    BY <2>1 DEF PagesInv
  <2>9. SettingsReadBack
    BY <2>4, <2>5, <2>6, <2>7, <2>8, Zenon DEF SettingsReadBack
  <2>10. QED
    BY <2>3, <2>9 DEF EverythingReadsBack
<1>2. QED
  BY <1>1, PagesInvariance, PTL

(* Whatever the unit holds and reports, some setpoint is accepted, and the output is   *)
(* shown as shares of one thing (command.go:74-86, state.go:134-153).                  *)
THEOREM ReadingsAddUp == PagesSpec => []ReadingsMakeSense
<1>1. PagesInv => ReadingsMakeSense
  <2> SUFFICES ASSUME PagesInv PROVE ReadingsMakeSense
    OBVIOUS
  <2> DEFINE ladder == Signed(At(map, 49))
             o == ReadOutput(ladder)
  <2>1. IsMap(map)
    BY DEF PagesInv, PagesTypes
  <2>2. \E c \in 10 .. 30 : MaySetSetpoint(map, 100 * c)
    <3> DEFINE lo == SetpointBounds(map)[1]
               hi == SetpointBounds(map)[2]
    <3>1. lo \in 10 .. 30 /\ hi \in 10 .. 30 /\ lo < hi
      BY <2>1, SetpointRange
    <3>2. 100 * lo \in 100 * lo .. 100 * hi
      BY <3>1
    <3>3. MaySetSetpoint(map, 100 * lo)
      BY <3>2 DEF MaySetSetpoint
    <3>4. QED
      BY <3>1, <3>3
  <2>3. ladder \in Int /\ -32768 <= ladder /\ ladder <= 32767
    <3>1. At(map, 49) \in Reg
      BY <2>1, AtType
    <3>2. QED
      BY <3>1, SignedType
  <2> HIDE DEF ladder
  <2>4. ladder < 0 => Negated(ladder) = IF ladder = -32768 THEN -32768 ELSE -ladder
    <3>1. CASE ladder = -32768
      BY <3>1 DEF Negated, Signed, Raw, Word
    <3>2. CASE ladder # -32768 /\ ladder < 0
      <4>1. -ladder \in Int /\ -32768 <= -ladder /\ -ladder <= 32767
        BY <2>3, <3>2
      <4>2. Signed(Raw(-ladder)) = -ladder
        BY <4>1, RoundTrip
      <4>3. QED
        BY <3>2, <4>2 DEF Negated
    <3>3. QED
      BY <3>1, <3>2
  <2>5. /\ o.recovery + o.heating - o.cooling = IF ladder = -32768 THEN 0 ELSE Clamp(ladder, -100, 200)
        /\ o.cooling > 0 => o.recovery = 0 /\ o.heating = 0
        /\ o.heating > 0 => o.recovery = 100
    BY <2>3, <2>4 DEF ReadOutput, Clamp
  <2>6. QED
    BY <2>2, <2>5 DEF ReadingsMakeSense, ladder
<1>2. QED
  BY <1>1, PagesInvariance, PTL
========================================================================================

-------------------------------------- MODULE Eda --------------------------------------
(***************************************************************************************)
(* Package internal/eda: what the registers of the unit mean, and which registers a    *)
(* wish of a person is written to.  Pure functions of a register map, which is here a  *)
(* function from the addresses that hold something; the others hold zero.  Addresses   *)
(* and ranges are the program's own.  Temperatures and the numbers of settings are in  *)
(* tenths, wished setpoints in hundredths of a degree.  The poller always fills a map  *)
(* of full length, so the checks of length never refuse.                               *)
(***************************************************************************************)
EXTENDS Integers, Sequences, FiniteSets, SequencesExt

(* A register is sixteen bits, read as uint16 or as int16.                              *)
Word == 65536
Signed(v) == IF v < Word \div 2 THEN v ELSE v - Word
Raw(n) == n % Word

Clamp(v, lo, hi) == IF v < lo THEN lo ELSE IF v > hi THEN hi ELSE v
Abs(n) == IF n < 0 THEN -n ELSE n

At(h, a) == IF a \in DOMAIN h THEN h[a] ELSE 0
RegistersOf(w) == w.addr .. w.addr + Len(w.regs) - 1

(* What the map holds after a write.                                                    *)
Written(h, w) ==
    [a \in DOMAIN h \cup RegistersOf(w) |->
        IF a \in RegistersOf(w) THEN w.regs[a - w.addr + 1] ELSE h[a]]

RegWrite(a, regs) == [addr |-> a, regs |-> regs]

-----------------------------------------------------------------------------------------
(* Timer programs                                                                       *)

FanMin == 20
FanMax == 100
FunctionChoices == 0..7 \cup {16}
CheckFunction(f) == f \in FunctionChoices \cup FanMin..FanMax
CheckTime(hour, min) == hour \in 0..23 /\ min \in 0..59
CheckDate(day, month, year) == month \in 1..12 /\ day \in 1..31 /\ year \in 2006..2100

WeekCount == 20
WeekAddr(i) == 210 + 6 * i
YearCount == 5

(* Mutant: programs are counted from one.                                               *)
YearAddrFromOne(i) == 330 + 11 * (i + 1)

YearAddr(i) == 330 + 11 * i

ReadWeekProgram(h, i) ==
    LET r(k) == At(h, WeekAddr(i) + k)
    IN  [index |-> i, days |-> r(0), startHour |-> r(1), startMin |-> r(2),
         stopHour |-> r(3), stopMin |-> r(4), function |-> r(5)]

ReadMoment(h, a) ==
    [day |-> At(h, a), month |-> At(h, a + 1), year |-> 2000 + At(h, a + 2),
     hour |-> At(h, a + 3), min |-> At(h, a + 4)]

ReadYearProgram(h, i) ==
    [index |-> i, start |-> ReadMoment(h, YearAddr(i)), stop |-> ReadMoment(h, YearAddr(i) + 5),
     function |-> At(h, YearAddr(i) + 10)]

ReadWeekPrograms(h) == [i \in 0 .. WeekCount - 1 |-> ReadWeekProgram(h, i)]
ReadYearPrograms(h) == [i \in 0 .. YearCount - 1 |-> ReadYearProgram(h, i)]

MayWriteWeek(p) ==
    /\ p.index \in 0 .. WeekCount - 1
    /\ p.days \in 0..127
    /\ CheckTime(p.startHour, p.startMin)
    /\ CheckTime(p.stopHour, p.stopMin)
    /\ CheckFunction(p.function)

WriteWeekProgram(p) ==
    RegWrite(WeekAddr(p.index),
        <<p.days, p.startHour, p.startMin, p.stopHour, p.stopMin, p.function>>)

CheckMoment(m) == CheckDate(m.day, m.month, m.year) /\ CheckTime(m.hour, m.min)

MayWriteYear(p) ==
    /\ p.index \in 0 .. YearCount - 1
    /\ CheckMoment(p.start)
    /\ CheckMoment(p.stop)
    /\ CheckFunction(p.function)

MomentRegs(m) == <<m.day, m.month, m.year - 2000, m.hour, m.min>>

WriteYearProgram(p) ==
    RegWrite(YearAddr(p.index), MomentRegs(p.start) \o MomentRegs(p.stop) \o <<p.function>>)

Zeros(n) == [k \in 1..n |-> 0]
ClearWeekProgram(i) == RegWrite(WeekAddr(i), Zeros(6))
ClearYearProgram(i) == RegWrite(YearAddr(i), Zeros(11))

-----------------------------------------------------------------------------------------
(* The alarm log                                                                        *)

AlarmCount == 20
AlarmAddr(i) == 385 + 7 * i
AlarmOn == 2

(* Go's zero time, here and for the clock.                                              *)
NoTime == <<0, 0, 0, 0, 0>>

(* A date that is no date leaves the time out; the alarm is reported all the same.      *)
ReadAlarm(h, i) ==
    LET r(k)  == At(h, AlarmAddr(i) + k)
        empty == r(0) = 0 /\ r(3) = 0
        real  == r(3) \in 1..12 /\ r(4) \in 1..31 /\ r(5) <= 23 /\ r(6) <= 59
    IN  [index |-> i, code |-> r(0), state |-> r(1), empty |-> empty,
         time |-> IF real /\ ~empty THEN <<2000 + r(2), r(3), r(4), r(5), r(6)>> ELSE NoTime]

ReadAlarms(h) == [i \in 1..AlarmCount |-> ReadAlarm(h, i - 1)]
ActiveAlarms(all) == SelectSeq(all, LAMBDA a : ~a.empty /\ a.state = AlarmOn)

-----------------------------------------------------------------------------------------
(* Settings.  A row is a key, a register, what the register is multiplied by, and the   *)
(* range in tenths of its unit; one of them is kept in two registers side by side.      *)

Setting(key, addr, scale, min, max) ==
    [key |-> key, addr |-> addr, scale |-> scale, min |-> 10 * min, max |-> 10 * max]

Numbers ==
    {Setting("setpoint_min", 140, 1, 10, 30), Setting("setpoint_max", 141, 1, 10, 30),
     Setting("cooling_block_below", 164, 10, -30, 40),
     Setting("heating_block_above", 196, 10, -30, 40),
     Setting("temperature_drop", 172, 10, 0, 10),
     Setting("overpressure_minutes", 56, 1, 1, 60),
     Setting("overpressure_supply", 54, 1, 20, 100), Setting("overpressure_extract", 55, 1, 20, 100),
     Setting("boost_minutes", 66, 1, 1, 60), Setting("boost_level", 67, 1, 20, 100),
     Setting("service_interval_days", 538, 1, 1, 999), Setting("measurement_refresh", 726, 1, 1, 60)}

HasTwin(s) == s.key = "overpressure_minutes"

(* math.Round: to the nearest, halves away from zero.                                   *)
RoundTenths(t) == IF t >= 0 THEN (t + 5) \div 10 ELSE -((5 - t) \div 10)

ReadSetting(h, s) == (10 * Signed(At(h, s.addr))) \div s.scale

MayWriteSetting(s, tenths) == tenths \in s.min .. s.max

(* The register takes the value scaled and rounded, its twin the same.                  *)
WriteSetting(s, tenths) ==
    LET raw == Raw(RoundTenths(tenths * s.scale))
    IN  RegWrite(s.addr, IF HasTwin(s) THEN <<raw, raw>> ELSE <<raw>>)

(* limit: the unit's own bound of the setpoint, in degrees, if it makes sense.          *)
Limit(v, fallback) == IF Signed(v) \in 10..30 THEN Signed(v) ELSE fallback

SetpointBounds(h) ==
    LET lo == Limit(At(h, 140), 10)
        hi == Limit(At(h, 141), 30)
    IN  IF lo >= hi THEN <<10, 30>> ELSE <<lo, hi>>

MaySetSetpoint(h, hundredths) ==
    hundredths \in 100 * SetpointBounds(h)[1] .. 100 * SetpointBounds(h)[2]

(* The conversion truncates, so half a tenth is added first.                            *)
SetSetpoint(hundredths) == RegWrite(135, <<Raw((hundredths + 5) \div 10)>>)

MaySetFanLevel(ecFans, percent) == ecFans /\ percent \in FanMin..FanMax
SetFanLevel(percent) == RegWrite(53, <<percent>>)
MaySetDuration(minutes) == minutes \in 1..60
SetOverpressureDuration(minutes) == RegWrite(56, <<minutes, minutes>>)
SetBoostDuration(minutes) == RegWrite(66, <<minutes>>)
ResetServiceCounter == RegWrite(710, <<0>>)

-----------------------------------------------------------------------------------------
(* The clock                                                                            *)

Leap(y) == y % 4 = 0 /\ (y % 100 # 0 \/ y % 400 = 0)
DaysIn(m, y) == CASE m = 2 -> IF Leap(y) THEN 29 ELSE 28
                  [] m \in {4, 6, 9, 11} -> 30
                  [] OTHER -> 31

NoClock == [year |-> 0, month |-> 0, day |-> 0, hour |-> 0, min |-> 0, sec |-> 0]

(* time.Date normalises a day the month does not have; the round trip refuses it.       *)
RealDate(day, month, year) == month \in 1..12 /\ day \in 1..31 /\ day <= DaysIn(month, year)

DecodeClock(h) ==
    LET r(k) == At(h, 37 + k)
        year == 2000 + r(5)
    IN  IF RealDate(r(3), r(4), year) /\ r(2) <= 23 /\ r(1) <= 59 /\ r(0) <= 59
        THEN [year |-> year, month |-> r(4), day |-> r(3), hour |-> r(2), min |-> r(1), sec |-> r(0)]
        ELSE NoClock

SetClock(t) == RegWrite(582, <<t.min, t.hour, t.day, t.month, t.year - 2000>>)

(* The unit takes the setting block over into the running clock and zeroes the seconds. *)
UnitSetsItsClock(h) ==
    Written(h, RegWrite(37, <<0>> \o [k \in 1..5 |-> At(h, 581 + k)]))

-----------------------------------------------------------------------------------------
(* Decode: what is made of the readings                                                 *)

(* int16(-ladder) of the lowest number is that number again.                            *)
Negated(ladder) == Signed(Raw(-ladder))

(* Mutant: heating starts one per cent late.                                            *)
ReadOutputLate(ladder) ==
    [cooling  |-> IF ladder < 0 THEN Clamp(Negated(ladder), 0, 100) ELSE 0,
     recovery |-> IF ladder < 0 THEN 0 ELSE IF ladder <= 100 THEN ladder ELSE 100,
     heating  |-> IF ladder > 101 THEN Clamp(ladder - 101, 0, 100) ELSE 0]

ReadOutput(ladder) ==
    [cooling  |-> IF ladder < 0 THEN Clamp(Negated(ladder), 0, 100) ELSE 0,
     recovery |-> IF ladder < 0 THEN 0 ELSE IF ladder < 100 THEN ladder ELSE 100,
     heating  |-> IF ladder >= 100 THEN Clamp(ladder - 100, 0, 100) ELSE 0]

FlagBits(state) == {b \in 0..15 : (state \div 2^b) % 2 = 1}

DecodeService(h) ==
    [interval |-> At(h, 538), since |-> At(h, 710),
     remaining |-> Clamp(At(h, 538) - At(h, 710), 0, Word)]

Unnamed == -1
ReadMachine(h) == [family |-> IF At(h, 597) \in 0..8 THEN At(h, 597) ELSE Unnamed,
                   serial |-> At(h, 598)]

Temperatures == {1, 6, 7, 8, 9, 10, 46, 47, 138, 139}

Decode(h) ==
    [temperatures |-> [a \in Temperatures |-> Signed(At(h, a))],
     setpoint     |-> Signed(At(h, 135)),
     bounds       |-> SetpointBounds(h),
     fan          |-> At(h, 53),
     output       |-> ReadOutput(Signed(At(h, 49))),
     flags        |-> FlagBits(At(h, 44)),
     service      |-> DecodeService(h),
     minutes      |-> [overpressure |-> At(h, 56), boost |-> At(h, 66)],
     alarms       |-> ActiveAlarms(ReadAlarms(h)),
     machine      |-> ReadMachine(h),
     clock        |-> DecodeClock(h)]
========================================================================================

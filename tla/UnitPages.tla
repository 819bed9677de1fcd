----------------------------------- MODULE UnitPages -----------------------------------
(***************************************************************************************)
(* The pages that change what the unit keeps: timer programs (internal/web/            *)
(* programs.go), named settings (internal/web/settings.go), setpoint, fan level,       *)
(* durations and clock (internal/web/control.go), over the conversions of Eda.  Every  *)
(* request is one write that is acknowledged and re-read; what else can happen to it   *)
(* is in UnitControl.                                                                  *)
(***************************************************************************************)
EXTENDS Eda

CONSTANTS Contents,   \* what the registers hold at first
          WeekSaves,  \* programs somebody may save, good and bad
          YearSaves,
          Removals,   \* slots somebody may empty
          Asked,      \* settings somebody may ask for, as key and value
          Setpoints,  \* in hundredths
          Moments,    \* minutes the clock may be set to
          Ladders,    \* what the unit may report of its output
          MaxSaves    \* bound: requests in a row

(* What a request carries: numbers in the fields that programs.go gives them, good or   *)
(* bad, and moments of the host's clock, which are real ones.                           *)
WeekProgram == [index : Int, days : Int, startHour : Int, startMin : Int, stopHour : Int,
                stopMin : Int, function : Int]
Moment == [day : Int, month : Int, year : Int, hour : Int, min : Int]
YearProgram == [index : Int, start : Moment, stop : Moment, function : Int]
RealTime(t) ==
    /\ t \in [year : 2000..2099, month : 1..12, day : 1..31, hour : 0..23, min : 0..59, sec : 0..59]
    /\ RealDate(t.day, t.month, t.year)

ASSUME PagesAssumption ==
    /\ Contents \in [DOMAIN Contents -> 0 .. Word - 1]
    /\ WeekSaves \subseteq WeekProgram /\ YearSaves \subseteq YearProgram
    /\ \A a \in Asked : a[2] \in Int
    /\ Setpoints \subseteq Int
    /\ \A t \in Moments : RealTime(t)
    /\ \A n \in Ladders : n \in Int /\ -32768 <= n /\ n <= 32767

VARIABLES map,   \* the unit's holding registers
          clock, \* what its running clock is like: right, wrong by ClockDriftLimit, or lost
          saved, \* what was last asked for and accepted, of everything a page shows
          saves  \* how many requests there have been

pageVars == <<map, clock, saved, saves>>

SettingByKey(key) == CHOOSE s \in Numbers : s.key = key
Keys == {s.key : s \in Numbers}

(* Everything a page shows of the registers.                                            *)
AllShown(h) ==
    [week |-> ReadWeekPrograms(h), year |-> ReadYearPrograms(h), alarms |-> ReadAlarms(h),
     settings |-> [k \in Keys |-> ReadSetting(h, SettingByKey(k))],
     setpoint |-> 10 * Signed(At(h, 135)), fan |-> At(h, 53), since |-> DecodeService(h).since,
     time |-> DecodeClock(h)]

PagesInit ==
    /\ map = Contents
    /\ clock = "right"
    /\ saved = AllShown(Contents)
    /\ saves = 0

Apply(w) == map' = Written(map, w)

(* clockGuard: no schedule is set against a wrong clock unless somebody has said so.    *)
ClockGuard(acknowledged) == acknowledged \/ clock = "right"

PutWeekProgram(p, acknowledged) ==
    /\ ClockGuard(acknowledged) /\ MayWriteWeek(p)
    /\ Apply(WriteWeekProgram(p))
    /\ saved' = [saved EXCEPT !.week[p.index] = p]
    /\ UNCHANGED clock

PutYearProgram(p, acknowledged) ==
    /\ ClockGuard(acknowledged) /\ MayWriteYear(p)
    /\ Apply(WriteYearProgram(p))
    /\ saved' = [saved EXCEPT !.year[p.index] = p]
    /\ UNCHANGED clock

(* Deliberately not behind the guard.                                                   *)
Never(i) == [day |-> 0, month |-> 0, year |-> 2000, hour |-> 0, min |-> 0]
DeleteWeekProgram(i) ==
    /\ i \in 0 .. WeekCount - 1
    /\ Apply(ClearWeekProgram(i))
    /\ saved' = [saved EXCEPT !.week[i] = [index |-> i, days |-> 0, startHour |-> 0,
                    startMin |-> 0, stopHour |-> 0, stopMin |-> 0, function |-> 0]]
    /\ UNCHANGED clock

DeleteYearProgram(i) ==
    /\ i \in 0 .. YearCount - 1
    /\ Apply(ClearYearProgram(i))
    /\ saved' = [saved EXCEPT !.year[i] =
                    [index |-> i, start |-> Never(i), stop |-> Never(i), function |-> 0]]
    /\ UNCHANGED clock

SetSetting(key, tenths) ==
    /\ key \in Keys /\ MayWriteSetting(SettingByKey(key), tenths)
    /\ Apply(WriteSetting(SettingByKey(key), tenths))
    /\ saved' = [saved EXCEPT !.settings[key] = tenths]
    /\ UNCHANGED clock

PutSetpoint(hundredths) ==
    /\ MaySetSetpoint(map, hundredths)
    /\ Apply(SetSetpoint(hundredths))
    /\ saved' = [saved EXCEPT !.setpoint = hundredths]
    /\ UNCHANGED clock

(* Only fans that take a percentage are set.                                            *)
PutFan(ecFans, percent) ==
    /\ MaySetFanLevel(ecFans, percent)
    /\ Apply(SetFanLevel(percent))
    /\ saved' = [saved EXCEPT !.fan = percent]
    /\ UNCHANGED clock

ServiceReset ==
    /\ Apply(ResetServiceCounter)
    /\ saved' = [saved EXCEPT !.since = 0]
    /\ UNCHANGED clock

(* Overpressure and boost are given a duration on the way to being switched on; without *)
(* one in the request it is the one they have.                                          *)
PutDuration(mode, wanted) ==
    LET had == Decode(map).minutes[mode]
        minutes == IF wanted = 0 THEN had ELSE wanted
        key == IF mode = "boost" THEN "boost_minutes" ELSE "overpressure_minutes"
    IN  /\ MaySetDuration(minutes)
        /\ Apply(IF mode = "boost" THEN SetBoostDuration(minutes) ELSE SetOverpressureDuration(minutes))
        /\ saved' = [saved EXCEPT !.settings[key] = 10 * minutes]
        /\ UNCHANGED clock

PutClock(t) ==
    /\ map' = UnitSetsItsClock(Written(map, SetClock(t)))
    /\ clock' = "right"
    /\ saved' = [saved EXCEPT !.time = [t EXCEPT !.sec = 0]]

(* The unit's clock runs away, or holds no date after a power cut.                      *)
ClockLost ==
    /\ Apply(RegWrite(37, Zeros(6)))
    /\ clock' = "lost"
    /\ saved' = [saved EXCEPT !.time = NoClock]

ClockDrifts ==
    /\ clock = "right" /\ clock' = "wrong"
    /\ UNCHANGED <<map, saved>>

Reports(ladder) ==
    /\ Apply(RegWrite(49, <<Raw(ladder)>>))
    /\ UNCHANGED <<clock, saved>>

Request ==
    \/ \E p \in WeekSaves, ack \in BOOLEAN : PutWeekProgram(p, ack)
    \/ \E p \in YearSaves, ack \in BOOLEAN : PutYearProgram(p, ack)
    \/ \E i \in Removals : DeleteWeekProgram(i) \/ DeleteYearProgram(i)
    \/ \E a \in Asked : SetSetting(a[1], a[2])
    \/ \E c \in Setpoints : PutSetpoint(c)
    \/ \E mode \in {"boost", "overpressure"}, n \in {0, 1, 60, 61} : PutDuration(mode, n)
    \/ \E ec \in BOOLEAN, n \in {FanMin - 1, FanMin, FanMax} : PutFan(ec, n)
    \/ ServiceReset
    \/ \E t \in Moments : PutClock(t)
    \/ ClockDrifts
    \/ ClockLost
    \/ \E ladder \in Ladders : Reports(ladder)

PagesNext == saves < MaxSaves /\ saves' = saves + 1 /\ Request

PagesSpec == PagesInit /\ [][PagesNext]_pageVars

-----------------------------------------------------------------------------------------
(* However many programs are saved, changed and removed, every slot shows the one last  *)
(* saved there, and no entry of the alarm log is touched: the weekly programs end where *)
(* the yearly begin, and those where the log begins (programs.go:16-23, alarms.go:11).  *)
ProgramsReadBack == saves > 0 =>
    /\ ReadWeekPrograms(map) = saved.week
    /\ ReadYearPrograms(map) = saved.year
    /\ ReadAlarms(map) = saved.alarms

(* A value shown is the nearest to the one asked for that the register can hold.        *)
Nearest(shown, asked, scale) == 2 * scale * Abs(shown - asked) <= 10

(* Every setting shows what was last asked for, cold ones included, by whichever page,  *)
(* to the nearest step of its register; both copies of a duration agree as soon as      *)
(* somebody has set it; the setpoint is the tenth nearest to what was asked             *)
(* (settings.go:162-216, command.go:83-131).                                            *)
SettingsReadBack == saves > 0 =>
    /\ \A k \in Keys :
           Nearest(ReadSetting(map, SettingByKey(k)), saved.settings[k], SettingByKey(k).scale)
    /\ At(map, 56) = At(map, 57) \/ \A a \in {56, 57} : At(map, a) = At(Contents, a)
    /\ Abs(10 * Decode(map).setpoint - saved.setpoint) <= 5
    /\ At(map, 53) = saved.fan /\ DecodeClock(map) = saved.time
    /\ DecodeService(map).since = saved.since

(* Whatever limits are set, some setpoint is accepted (command.go:74-86), and what the  *)
(* ladder says is shown as shares of one thing: cooling below zero, recovery up to a    *)
(* hundred, heating beyond (state.go:134-153, 182-205).  The lowest number has no       *)
(* opposite in sixteen bits; it alone shows as nothing at all.  That the register is     *)
(* that ladder is what state.go takes it for, and registers.go:72-88 says it is not.    *)
ReadingsMakeSense == saves > 0 =>
    LET o == ReadOutput(Signed(At(map, 49)))
        ladder == Signed(At(map, 49))
    IN  /\ \E c \in 10..30 : MaySetSetpoint(map, 100 * c)
        /\ o.recovery + o.heating - o.cooling =
               IF ladder = -32768 THEN 0 ELSE Clamp(ladder, -100, 200)
        /\ o.cooling > 0 => o.recovery = 0 /\ o.heating = 0
        /\ o.heating > 0 => o.recovery = 100

(* Nothing a page writes spills over into what another shows, whatever the order.       *)
EverythingReadsBack == ProgramsReadBack /\ SettingsReadBack
=========================================================================================

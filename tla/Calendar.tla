------------------------------ MODULE Calendar ------------------------------
(***************************************************************************)
(* The temporal arithmetic of the runtime (runtime/src/temporal.rs): a     *)
(* Date is a count of days from 1970-01-01, a Time the second of a day, a  *)
(* DateTime a count of seconds read off no clock.                          *)
(***************************************************************************)
EXTENDS Integers

CONSTANTS MinYear, MaxYear      \* the years a Date holds
ASSUME YearAssumption == MinYear \in Int /\ MaxYear \in Int /\ MinYear <= MaxYear

SecondsPerDay == 86400
Years == MinYear..MaxYear

Truncated(n, by) == IF n < 0 THEN -((-n) \div by) ELSE n \div by

DaysFromCivil(y, month, day) ==
    LET year == IF month <= 2 THEN y - 1 ELSE y
        era == year \div 400
        yearOfEra == year - era * 400
        monthFromMarch == IF month > 2 THEN month - 3 ELSE month + 9
        dayOfYear == (153 * monthFromMarch + 2) \div 5 + day - 1
        dayOfEra == yearOfEra * 365 + yearOfEra \div 4 - yearOfEra \div 100 + dayOfYear
    IN era * 146097 + dayOfEra - 719468

\* The year, the month and the day a count of days names.
CivilFromDays(days) ==
    LET era == (days + 719468) \div 146097
        dayOfEra == days + 719468 - era * 146097
        yearOfEra == (dayOfEra - dayOfEra \div 1460 + dayOfEra \div 36524 - dayOfEra \div 146096) \div 365
        dayOfYear == dayOfEra - (365 * yearOfEra + yearOfEra \div 4 - yearOfEra \div 100)
        monthFromMarch == (5 * dayOfYear + 2) \div 153
        day == dayOfYear - (153 * monthFromMarch + 2) \div 5 + 1
        month == IF monthFromMarch < 10 THEN monthFromMarch + 3 ELSE monthFromMarch - 9
        year == yearOfEra + era * 400
    IN <<IF month <= 2 THEN year + 1 ELSE year, month, day>>

IsLeap(year) == year % 4 = 0 /\ (year % 100 # 0 \/ year % 400 = 0)
MonthLength(year, month) ==
    CASE month \in {1, 3, 5, 7, 8, 10, 12} -> 31
      [] month \in {4, 6, 9, 11} -> 30
      [] OTHER -> IF IsLeap(year) THEN 29 ELSE 28

Days == DaysFromCivil(MinYear, 1, 1)..DaysFromCivil(MaxYear, 12, 31)
MinLocal == DaysFromCivil(MinYear, 1, 1) * SecondsPerDay
MaxLocal == DaysFromCivil(MaxYear, 12, 31) * SecondsPerDay + SecondsPerDay - 1
HeldLocal(second) == second >= MinLocal /\ second <= MaxLocal

\* What an operation writes: one value, or none where it has no answer.
Written(answers, value) == IF answers THEN <<value>> ELSE <<>>
Clamped(year, month, day) ==
    DaysFromCivil(year, month, IF day < MonthLength(year, month) THEN day ELSE MonthLength(year, month))

CivilDay(year, month, day) ==
    Written(year \in Years /\ month \in 1..12 /\ day \in 1..MonthLength(year, month),
            DaysFromCivil(year, month, day))
ClockSecond(hour, minute, second) ==
    Written(hour \in 0..23 /\ minute \in 0..59 /\ second \in 0..59, hour * 3600 + minute * 60 + second)

AddDays(days, date) == Written(date + days \in Days, date + days)
\* A shift by months or by years lands on the last day of a month that has no such day.
AddMonths(months, date) ==
    LET civil == CivilFromDays(date)
        counted == civil[1] * 12 + civil[2] - 1 + months
    IN Written(counted \div 12 \in Years, Clamped(counted \div 12, (counted % 12) + 1, civil[3]))
AddYears(years, date) ==
    LET civil == CivilFromDays(date)
    IN Written(civil[1] + years \in Years, Clamped(civil[1] + years, civil[2], civil[3]))
Shifted(datetime, unit, count) ==
    Written(HeldLocal(datetime + count * unit), datetime + count * unit)

MinutesBetween(from, to) == Truncated(to - from, 60)
ToDate(datetime) == datetime \div SecondsPerDay
ToTime(datetime) == datetime % SecondsPerDay
FromDateAndTime(date, time) == date * SecondsPerDay + time
=============================================================================

------------------------------ MODULE TimeStamp ------------------------------
(***************************************************************************)
(* TimeDelta and TimeStamp (include/TimeStamp.h, src/TimeStamp.cc): a      *)
(* delta and an instant are counts of microseconds in an int64_t.          *)
(*                                                                         *)
(* The limits of the integer types and the units are constants, so that    *)
(* TLC can use a small clock.  The calendar (timegm, gmtime_r and their    *)
(* local versions) is external: months of given lengths, and a zone that   *)
(* is a fixed offset.  Floating point values are left out.                 *)
(*                                                                         *)
(* Arithmetic that leaves its type wraps around, which is what the build   *)
(* (two's complement, no trap) does; in C++ it is undefined.               *)
(***************************************************************************)
EXTENDS Integers, Sequences

CONSTANTS Int64Max, IntMax,
          kNanosecondsPerMicrosecond, kMicrosecondsPerMillisecond, kMillisecondsPerSecond,
          SecondsPerMinute, MinutesPerHour, kHoursPerDay,
          MonthDays,            \* the days of the months of a year
          Zone,                 \* local time is this many seconds ahead of UTC
          MaxYear               \* timegm fails for years beyond

Int64Min == -Int64Max - 1
kMicrosecondsPerSecond == kMicrosecondsPerMillisecond * kMillisecondsPerSecond
kMicrosecondsPerMinute == kMicrosecondsPerSecond * SecondsPerMinute
kMicrosecondsPerHour == kMicrosecondsPerMinute * MinutesPerHour
kMicrosecondsPerDay == kMicrosecondsPerHour * kHoursPerDay
Int64 == Int64Min .. Int64Max

ASSUME UnitsAssumption ==
    /\ Int64Max \in Nat /\ IntMax \in Nat
    /\ kNanosecondsPerMicrosecond \in Nat \ {0}
    /\ kMicrosecondsPerMillisecond \in Nat \ {0} /\ kMillisecondsPerSecond \in Nat \ {0}

\* Division of C++: towards zero; Rem has the sign of a.
Div(a, b) == IF a >= 0 THEN a \div b ELSE -((-a) \div b)
Rem(a, b) == a - b * Div(a, b)

\* The value of n in a signed type whose largest value is max.
Wrapped(n, max) ==
    IF n \in -max - 1 .. max THEN n ELSE ((n + max + 1) % (2 * (max + 1))) - max - 1
AsInt64(n) == Wrapped(n, Int64Max)

-----------------------------------------------------------------------------
(* TimeDelta.                                                              *)

from_product(value, positive_value) ==
    IF value > Div(Int64Max, positive_value) THEN Int64Max
    ELSE IF value < Div(Int64Min, positive_value) THEN Int64Min
    ELSE value * positive_value

from_seconds(secs) == from_product(secs, kMicrosecondsPerSecond)
from_milliseconds(ms) == from_product(ms, kMicrosecondsPerMillisecond)

\* from_days, from_hours and from_minutes take an int and do not test the product.
FromInt(n, unit) == IF n = IntMax THEN Int64Max ELSE AsInt64(n * unit)
from_days(days) == FromInt(days, kMicrosecondsPerDay)
from_hours(hours) == FromInt(hours, kMicrosecondsPerHour)
from_minutes(minutes) == FromInt(minutes, kMicrosecondsPerMinute)

\* divide_or_max<T>; TMax is the largest T, to which the quotient is cast.
divide_or_max(delta, divisor, TMax) ==
    IF delta = Int64Max THEN TMax ELSE Wrapped(Div(delta, divisor), TMax)
in_days(delta) == divide_or_max(delta, kMicrosecondsPerDay, IntMax)
in_hours(delta) == divide_or_max(delta, kMicrosecondsPerHour, IntMax)
in_minutes(delta) == divide_or_max(delta, kMicrosecondsPerMinute, IntMax)
in_seconds(delta) == divide_or_max(delta, kMicrosecondsPerSecond, Int64Max)
in_milliseconds(delta) == divide_or_max(delta, kMicrosecondsPerMillisecond, Int64Max)

\* TimeDelta::to_timeval.  max() has in_seconds() = Int64Max, and the product overflows.
delta_to_timeval(delta) ==
    LET seconds == IF delta >= kMicrosecondsPerSecond THEN in_seconds(delta) ELSE 0
    IN [tv_sec |-> seconds, tv_usec |-> AsInt64(delta - AsInt64(seconds * kMicrosecondsPerSecond))]

delta_from_timeval(tv) == AsInt64(AsInt64(tv.tv_sec * kMicrosecondsPerSecond) + tv.tv_usec)

delta_to_timespec(delta) ==
    LET seconds == IF delta >= kMicrosecondsPerSecond THEN in_seconds(delta) ELSE 0
    IN [tv_sec |-> seconds,
        tv_nsec |-> AsInt64(AsInt64(delta - AsInt64(seconds * kMicrosecondsPerSecond))
                            * kNanosecondsPerMicrosecond)]

delta_from_timespec(ts) ==
    AsInt64(AsInt64(ts.tv_sec * kMicrosecondsPerSecond) + Div(ts.tv_nsec, kNanosecondsPerMicrosecond))

-----------------------------------------------------------------------------
(* TimeStamp.                                                              *)

from_time_t(tt) == IF tt = 0 THEN 0 ELSE IF tt = Int64Max THEN Int64Max ELSE from_seconds(tt)
to_time_t(us) ==
    IF us = 0 THEN 0 ELSE IF us = Int64Max THEN Int64Max ELSE Div(us, kMicrosecondsPerSecond)

from_timeval(tv) ==
    IF tv.tv_usec = 0 /\ tv.tv_sec = 0 THEN 0
    ELSE IF tv.tv_usec = kMicrosecondsPerSecond - 1 /\ tv.tv_sec = Int64Max THEN Int64Max
    ELSE AsInt64(AsInt64(tv.tv_sec * kMicrosecondsPerSecond) + tv.tv_usec)

to_timeval(us) ==
    IF us = 0 THEN [tv_sec |-> 0, tv_usec |-> 0]
    ELSE IF us = Int64Max THEN [tv_sec |-> Int64Max, tv_usec |-> kMicrosecondsPerSecond - 1]
    ELSE [tv_sec |-> Div(us, kMicrosecondsPerSecond), tv_usec |-> Rem(us, kMicrosecondsPerSecond)]

to_timespec(us) ==
    IF us = 0 THEN [tv_sec |-> 0, tv_nsec |-> 0]
    ELSE IF us = Int64Max
         THEN [tv_sec |-> Int64Max,
               tv_nsec |-> kMicrosecondsPerSecond * kNanosecondsPerMicrosecond - 1]
    ELSE [tv_sec |-> Div(us, kMicrosecondsPerSecond),
          tv_nsec |-> Rem(us, kMicrosecondsPerSecond) * kNanosecondsPerMicrosecond]

-----------------------------------------------------------------------------
(* The calendar, external.                                                 *)

SecondsPerDay == SecondsPerMinute * MinutesPerHour * kHoursPerDay
Months == DOMAIN MonthDays
DaysBefore[m \in Nat] == IF m <= 1 THEN 0 ELSE DaysBefore[m - 1] + MonthDays[m - 1]
DaysPerYear == DaysBefore[Len(MonthDays) + 1]

gmtime(seconds) ==
    LET day == seconds \div SecondsPerDay
        in_year == day % DaysPerYear
        month == CHOOSE m \in Months :
                    in_year \in DaysBefore[m] .. DaysBefore[m] + MonthDays[m] - 1
        second == seconds % SecondsPerDay
    IN [year |-> 1970 + day \div DaysPerYear, month |-> month,
        day_of_month |-> in_year - DaysBefore[month] + 1,
        hour |-> second \div (SecondsPerMinute * MinutesPerHour),
        minute |-> (second \div SecondsPerMinute) % MinutesPerHour,
        second |-> second % SecondsPerMinute]

\* A day beyond the end of its month is one of the next; -1 is also the failure.
Representable(tm) == tm.year - 1970 \in -(MaxYear - 1970) .. MaxYear - 1970
timegm(tm) ==
    ((tm.year - 1970) * DaysPerYear + DaysBefore[tm.month] + tm.day_of_month - 1) * SecondsPerDay
    + (tm.hour * MinutesPerHour + tm.minute) * SecondsPerMinute + tm.second

time_t_to_tm(t, is_local) == gmtime(IF is_local THEN t + Zone ELSE t)
time_t_from_tm(tm, is_local) ==
    IF ~Representable(tm) THEN -1 ELSE timegm(tm) - (IF is_local THEN Zone ELSE 0)

-----------------------------------------------------------------------------
(* Exploded: the tm and a millisecond.                                     *)

MutantExplodeTowardsZero(us, is_local) ==
    LET milliseconds == Div(us, kMicrosecondsPerMillisecond)
    IN [tm |-> time_t_to_tm(Div(milliseconds, kMillisecondsPerSecond), is_local),
        millisecond |-> Rem(milliseconds, kMillisecondsPerSecond)]

\* to_explode: rounds down, by C++ divisions.
to_explode(us, is_local) ==
    LET milliseconds ==
            IF us >= 0 THEN Div(us, kMicrosecondsPerMillisecond)
            ELSE Div(AsInt64(us - kMicrosecondsPerMillisecond + 1), kMicrosecondsPerMillisecond)
        seconds ==
            IF us >= 0 THEN Div(milliseconds, kMillisecondsPerSecond)
            ELSE Div(AsInt64(milliseconds - kMillisecondsPerSecond + 1), kMillisecondsPerSecond)
        rem == Rem(milliseconds, kMillisecondsPerSecond)
    IN [tm |-> time_t_to_tm(seconds, is_local),
        millisecond |-> IF us < 0 /\ rem < 0 THEN rem + kMillisecondsPerSecond ELSE rem]

\* The seconds since the epoch: -1 is looked at again with both values of tm_isdst,
\* which say the same in a zone without daylight saving.
UnexplodedSeconds(tm, is_local) ==
    LET again == time_t_from_tm(tm, is_local)
        isdst0 == again  isdst1 == again
    IN IF again # -1 THEN again
       ELSE IF isdst0 < 0 THEN isdst1 ELSE isdst0

exploded_mostly_equals(lhs, rhs) ==
    /\ lhs.millisecond = rhs.millisecond
    /\ \A field \in {"year", "month", "day_of_month", "hour", "minute", "second"} :
            lhs.tm[field] = rhs.tm[field]

\* Exploded::is_valid: any month may have the days of the longest, and a minute a leap
\* second.
Exploded_is_valid(e) ==
    /\ e.tm.month \in Months
    /\ \E m \in Months : e.tm.day_of_month \in 1 .. MonthDays[m]
    /\ e.tm.hour \in 0 .. kHoursPerDay - 1 /\ e.tm.minute \in 0 .. MinutesPerHour - 1
    /\ e.tm.second \in 0 .. SecondsPerMinute
    /\ e.millisecond \in 0 .. kMillisecondsPerSecond - 1

\* from_exploded: a time timegm has no seconds for is clamped to what an int32_t has
\* (IntMax), and one that does not explode to the same fields is refused.
from_exploded(exploded, is_local) ==
    LET seconds == UnexplodedSeconds(exploded.tm, is_local)
        year == exploded.tm.year
        milliseconds ==
            IF seconds = -1 /\ (year < 1969 \/ year > 1970)
            THEN IF year < 1969 THEN AsInt64((-IntMax - 1) * kMillisecondsPerSecond)
                 ELSE AsInt64(AsInt64(IntMax * kMillisecondsPerSecond) + kMillisecondsPerSecond - 1)
            ELSE AsInt64(AsInt64(seconds * kMillisecondsPerSecond) + exploded.millisecond)
        us == AsInt64(milliseconds * kMicrosecondsPerMillisecond)
    IN IF exploded_mostly_equals(to_explode(us, is_local), exploded) THEN [ok |-> TRUE, us |-> us]
       ELSE [ok |-> FALSE, us |-> 0]

\* midnight: NOTREACHED if the time cannot be put together again.
midnight(us, is_local) ==
    LET exploded == to_explode(us, is_local)
    IN from_exploded([exploded EXCEPT !.tm.hour = 0, !.tm.minute = 0, !.tm.second = 0,
                                      !.millisecond = 0], is_local)
===============================================================================

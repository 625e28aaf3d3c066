------------------------------- MODULE Times -------------------------------
(* base/time: points in time and durations as counts of microseconds.  The    *)
(* units are parameters: TLC checks every instant of a range with few          *)
(* nanoseconds to the microsecond, microseconds to the millisecond and so on,  *)
(* the proofs take any.  TimeMax is the greatest int64_t, TimeTMax the         *)
(* greatest time_t, IntMax the greatest int.  A product or sum that leaves     *)
(* int64_t, which C++ leaves undefined, wraps around, as on the machines this  *)
(* is built for; sums near its ends in Explode and FromExploded are left out.  *)
EXTENDS Integers

CONSTANTS
    kNanosecondsPerMicrosecond, kMicrosecondsPerMillisecond, kMillisecondsPerSecond,
    SecondsPerMinute, MinutesPerHour, kHoursPerDay,
    kWindowsEpochDeltaSeconds,  \* from the epoch of 1601 to that of 1970
    TimeMax, TimeTMax, IntMax,
    DstShift, DstBegins, DstEnds

kMicrosecondsPerSecond == kMicrosecondsPerMillisecond * kMillisecondsPerSecond
kNanosecondsPerSecond == kNanosecondsPerMicrosecond * kMicrosecondsPerSecond
kMicrosecondsPerMinute == kMicrosecondsPerSecond * SecondsPerMinute
kMicrosecondsPerHour == kMicrosecondsPerMinute * MinutesPerHour
kMicrosecondsPerDay == kMicrosecondsPerHour * kHoursPerDay
kTimeTToMicrosecondsOffset == kWindowsEpochDeltaSeconds * kMicrosecondsPerSecond

\* Units are positive, time_t reaches further than microseconds in int64_t do, and
\* the clock is not changed before 1970.
ASSUME TimesAssumption ==
    /\ kNanosecondsPerMicrosecond \in Nat \ {0} /\ kMicrosecondsPerMillisecond \in Nat \ {0}
    /\ kMillisecondsPerSecond \in Nat \ {0} /\ SecondsPerMinute \in Nat \ {0}
    /\ MinutesPerHour \in Nat \ {0} /\ kHoursPerDay \in Nat \ {0}
    /\ kWindowsEpochDeltaSeconds \in Nat
    /\ IntMax \in Nat /\ TimeMax \in Nat /\ TimeTMax \in Nat
    /\ TimeMax < TimeTMax * kMicrosecondsPerSecond
    /\ DstShift \in Nat /\ DstBegins \in Nat /\ DstEnds \in Nat

\* Division and remainder of C++ truncate towards zero.
Quot(a, b) == IF a >= 0 THEN a \div b ELSE -((-a) \div b)
Rem(a, b) == a - b * Quot(a, b)

\* A signed type whose greatest value is max: what it holds, and what n becomes in it.
Holds(max, n) == n \in (-max - 1)..max
Wrapped(max, n) == ((n + max + 1) % (2 * (max + 1))) - (max + 1)

(* ------------------------------- TimeDelta ------------------------------- *)

UnitNames == {"days", "hours", "minutes", "seconds", "milliseconds", "microseconds"}
Unit == [days |-> kMicrosecondsPerDay, hours |-> kMicrosecondsPerHour,
         minutes |-> kMicrosecondsPerMinute, seconds |-> kMicrosecondsPerSecond,
         milliseconds |-> kMicrosecondsPerMillisecond, microseconds |-> 1]
\* FromDays .. FromMilliseconds multiply, InDays .. InMilliseconds truncate; InDays,
\* InHours and InMinutes cast the result to int.
DeltaFrom(unit, n) == Wrapped(TimeMax, n * Unit[unit])
Result(unit) == IF unit \in {"days", "hours", "minutes"} THEN IntMax ELSE TimeMax
DeltaIn(unit, delta) == Wrapped(Result(unit), Quot(delta, Unit[unit]))
FromNanoseconds(n) == Quot(n, kNanosecondsPerMicrosecond)
InNanoseconds(delta) == Wrapped(TimeMax, delta * kNanosecondsPerMicrosecond)

\* struct timespec, for a duration.  The result is not ok where a DCHECK fails, which
\* ends the process: 0 <= tv_nsec < kNanosecondsPerSecond.
ValidTimespec(ts) == ts.nsec \in 0..kNanosecondsPerSecond - 1
Microseconds(ts) ==
  Wrapped(TimeMax, ts.sec * kMicrosecondsPerSecond + Quot(ts.nsec, kNanosecondsPerMicrosecond))
DeltaFromTimespec(ts) == [ok |-> ValidTimespec(ts), us |-> Microseconds(ts)]
DeltaToTimespec(delta) ==
  [sec |-> Quot(delta, kMicrosecondsPerSecond),
   nsec |-> Rem(delta, kMicrosecondsPerSecond) * kNanosecondsPerMicrosecond]

(* ---------------------------------- Time ---------------------------------- *)

IsNull(us) == us = 0
IsMax(us) == us = TimeMax

\* Zero and the greatest value are the same on both sides.
TimeFromTimespec(ts) ==
  [ok |-> ValidTimespec(ts),
   us |-> CASE ts = [sec |-> 0, nsec |-> 0] -> 0
            [] ts = [sec |-> TimeTMax, nsec |-> kNanosecondsPerSecond - 1] -> TimeMax
            [] OTHER -> Microseconds(ts)]
TimeToTimespec(us) ==
  CASE IsNull(us) -> [sec |-> 0, nsec |-> 0]
    [] IsMax(us) -> [sec |-> TimeTMax, nsec |-> kNanosecondsPerSecond - 1]
    [] OTHER -> DeltaToTimespec(us)

ValidTimeval(tv) == tv.usec \in 0..kMicrosecondsPerSecond - 1
FromTimeval(tv) ==
  [ok |-> ValidTimeval(tv),
   us |-> CASE tv = [sec |-> 0, usec |-> 0] -> 0
            [] tv = [sec |-> TimeTMax, usec |-> kMicrosecondsPerSecond - 1] -> TimeMax
            [] OTHER -> Wrapped(TimeMax, tv.sec * kMicrosecondsPerSecond + tv.usec)]
ToTimeval(us) ==
  CASE IsNull(us) -> [sec |-> 0, usec |-> 0]
    [] IsMax(us) -> [sec |-> TimeTMax, usec |-> kMicrosecondsPerSecond - 1]
    [] OTHER -> [sec |-> Quot(us, kMicrosecondsPerSecond), usec |-> Rem(us, kMicrosecondsPerSecond)]

\* time_t is converted with the offset of the epoch of 1601.
FromTimeT(tt) ==
  CASE tt = 0 -> 0
    [] tt = TimeTMax -> TimeMax
    [] OTHER -> Wrapped(TimeMax, kTimeTToMicrosecondsOffset + DeltaFrom("seconds", tt))
ToTimeT(us) ==
  CASE IsNull(us) -> 0
    [] IsMax(us) \/ TimeMax - kTimeTToMicrosecondsOffset <= us -> TimeTMax
    [] OTHER -> Quot(Wrapped(TimeMax, us - kTimeTToMicrosecondsOffset), kMicrosecondsPerSecond)

(* ---------------------------- calendar fields ---------------------------- *)

\* The zone of the C library: the clock goes forward by DstShift seconds at
\* DstBegins and back at DstEnds.  A civil time is the wall clock's reading, all
\* the fields from year to second as one count.
InDst(t) == t >= DstBegins /\ t < DstEnds
\* localtime_r
CivilOf(t) == IF InDst(t) THEN t + DstShift ELSE t
\* mktime with tm_isdst -1, 0 or 1: -1 asks the library to find out.
mktime(civil, isdst) ==
  CASE isdst = 0 -> civil
    [] isdst = 1 -> civil - DstShift
    [] OTHER -> IF ~InDst(civil) THEN civil
                ELSE IF InDst(civil - DstShift) THEN civil - DstShift ELSE civil
\* Whether tm_year is outside 1969..1970, and on which side of it.
YearBefore1969(civil) == civil < -30
YearAfter1970(civil) == civil > 30
MinSeconds == -1000
MaxSeconds == 1000

\* Faulty variant: times before 1970 are not rounded down.
ExplodeTruncating(us) ==
  LET milli == Quot(us - kTimeTToMicrosecondsOffset, kMicrosecondsPerMillisecond)
      rest  == Rem(milli, kMillisecondsPerSecond)
  IN [civil |-> CivilOf(Quot(milli, kMillisecondsPerSecond)),
      millisecond |-> IF rest < 0 THEN rest + kMillisecondsPerSecond ELSE rest]

\* Explode: milliseconds and seconds are rounded down before 1970.
Explode(us) ==
  LET micro  == us - kTimeTToMicrosecondsOffset
      milli  == IF micro >= 0 THEN Quot(micro, kMicrosecondsPerMillisecond)
                ELSE Quot(micro - kMicrosecondsPerMillisecond + 1, kMicrosecondsPerMillisecond)
      second == IF micro >= 0 THEN Quot(milli, kMillisecondsPerSecond)
                ELSE Quot(milli - kMillisecondsPerSecond + 1, kMillisecondsPerSecond)
      rest   == Rem(milli, kMillisecondsPerSecond)
  IN [civil |-> CivilOf(second),
      millisecond |-> IF rest < 0 THEN rest + kMillisecondsPerSecond ELSE rest]

\* FromExploded: -1 may mean an error, so both daylight settings are tried; the
\* result counts only if exploding it gives the fields back.
FromExploded(e) ==
  LET first   == mktime(e.civil, -1)
      isdst0  == mktime(e.civil, 0)
      isdst1  == mktime(e.civil, 1)
      seconds == CASE first # -1 -> first
                   [] first = -1 /\ isdst0 < 0 -> isdst1
                   [] first = -1 /\ isdst0 >= 0 /\ isdst1 < 0 -> isdst0
                   [] OTHER -> IF isdst0 < isdst1 THEN isdst0 ELSE isdst1
      milli   == CASE seconds = -1 /\ YearBefore1969(e.civil) -> MinSeconds * kMillisecondsPerSecond
                   [] seconds = -1 /\ YearAfter1970(e.civil) ->
                        MaxSeconds * kMillisecondsPerSecond + kMillisecondsPerSecond - 1
                   [] OTHER -> seconds * kMillisecondsPerSecond + e.millisecond
      time    == milli * kMicrosecondsPerMillisecond + kTimeTToMicrosecondsOffset
  IN IF Explode(time) = e THEN [ok |-> TRUE, time |-> time] ELSE [ok |-> FALSE, time |-> 0]

(* -------------------------------- TimeTicks -------------------------------- *)

\* HighResolutionNow adds one, so a reading is never null.
TicksNow(ts) == Microseconds(ts) + 1
=============================================================================

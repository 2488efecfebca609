----------------------------- MODULE FbTemporal -----------------------------
(***************************************************************************)
(* Dates, times and time zones between time.Time and the wire: Modified    *)
(* Julian days, ticks of 100 microseconds, zone identifiers and offsets.   *)
(*                                                                         *)
(* A time.Time is [day, ns, offset]: the UTC day since 1970-01-01, the     *)
(* second and nanosecond of that day, and the zone's offset in seconds.    *)
(***************************************************************************)
EXTENDS Integers, Sequences

CONSTANT NamedZones   \* identifiers of the named zones: 64898..65535

\* Go's division and remainder truncate toward zero.
GoQuo(a, b) == IF a >= 0 THEN a \div b ELSE -((-a) \div b)
GoRem(a, b) == a - b * GoQuo(a, b)

timeTicksPerSecond == 10000
unixToMJDOffset == 40587
offsetBase == 1439

----------------------------------------------------------------------------
(* Dates *)

\* The 400-year cycle of a year, the floor of the quotient; the first is cut
\* toward zero.
eraTruncated(y) == GoQuo(y, 400)
eraOf(y) == GoQuo(y, 400) - (IF y < 0 /\ GoRem(y, 400) # 0 THEN 1 ELSE 0)

\* civilToUnixDays: days since 1970-01-01 of a date of the Gregorian calendar.
civilToUnixDays(y0, m, d) ==
  LET y == IF m <= 2 THEN y0 - 1 ELSE y0
      era == eraOf(y)
      yoe == y - era * 400
      mp == IF m > 2 THEN m - 3 ELSE m + 9
      doy == (153 * mp + 2) \div 5 + d - 1
      doe == yoe * 365 + (yoe \div 4) - (yoe \div 100) + doy
  IN era * 146097 + doe - 719468

DateToMJD(date) == civilToUnixDays(date[1], date[2], date[3]) + unixToMJDOffset

\* The calendar itself, for reference.
IsLeap(y) == y % 4 = 0 /\ (y % 100 # 0 \/ y % 400 = 0)
DaysIn(y, m) == CASE m \in {4, 6, 9, 11} -> 30
                  [] m = 2              -> IF IsLeap(y) THEN 29 ELSE 28
                  [] OTHER              -> 31
NextDay(date) ==
  LET y == date[1]
      m == date[2]
      d == date[3]
  IN IF d < DaysIn(y, m) THEN <<y, m, d + 1>>
     ELSE IF m < 12 THEN <<y, m + 1, 1>> ELSE <<y + 1, 1, 1>>

\* The next day has the next number, over ends of months, leap years and
\* centuries and before year zero, and the epochs are where they should be:
\* so every date has its own number, and AddDate inverts DateToMJD.
DatesAreConsecutive(date) ==
  /\ DateToMJD(NextDay(date)) = DateToMJD(date) + 1
  /\ DateToMJD(<<1858, 11, 17>>) = 0 /\ DateToMJD(<<1970, 1, 1>>) = unixToMJDOffset

----------------------------------------------------------------------------
(* Times *)

\* TimeToTicks reads the clock of t's own zone and cuts to 100 microseconds.
TimeToTicks(h, m, s, ns) == (h * 3600 + m * 60 + s) * timeTicksPerSecond + ns \div 100000

\* TicksToTime
TicksToTime(ticks) ==
  LET sec == ticks \div timeTicksPerSecond
  IN <<sec \div 3600, (sec % 3600) \div 60, sec % 60, (ticks % timeTicksPerSecond) * 100000>>

----------------------------------------------------------------------------
(* Time zones *)

\* formatOffset and offsetLocationName: the name of an offset in minutes.
formatOffset(minutes) ==
  LET abs == IF minutes < 0 THEN -minutes ELSE minutes
  IN <<IF minutes < 0 THEN "-" ELSE "+", abs \div 60, abs % 60>>

\* tzOffsetToID
tzOffsetToID(seconds) == GoQuo(seconds, 60) + offsetBase

UTC == <<"UTC">>

\* The name the table has for an identifier, "" if it has none.
namedZoneName(tz) == IF tz \in NamedZones THEN <<"named", tz>> ELSE <<>>

\* timezone.Resolve: the zone of an identifier.  A named zone that the Go
\* installation does not know, and an unknown identifier, is UTC.
Resolve(tz, loadable) ==
  IF tz < 2880 THEN [name |-> formatOffset(tz - offsetBase), offset |-> (tz - offsetBase) * 60]
  ELSE IF namedZoneName(tz) # <<>> /\ tz \in loadable
  THEN [name |-> namedZoneName(tz), offset |-> 0]
  ELSE [name |-> UTC, offset |-> 0]

\* fixedLocationForTZ: the server's offset decides, the zone gives the name.
fixedLocationForTZ(tz, minutes, loadable) ==
  LET name == Resolve(tz, loadable).name
  IN [name |-> IF name = UTC /\ minutes # 0 THEN formatOffset(minutes) ELSE name,
      offset |-> minutes * 60]

\* An instant: UTC day and second of that day, the ticks of the second.
Shift(day, sec, by) == <<day + ((sec + by) \div 86400), (sec + by) % 86400>>
SecOf(t) == t[1] * 3600 + t[2] * 60 + t[3]

\* EncodeValue for TIMESTAMP WITH TIME ZONE: timezoneParts gives UTC, the
\* offset in seconds and in minutes.
encodeTimestampTZ(day, sec, ns, offset) ==
  [day |-> day, ticks |-> sec * timeTicksPerSecond + ns \div 100000,
   tz |-> tzOffsetToID(offset), minutes |-> GoQuo(offset, 60)]

\* TimestampTZExToTime: the UTC instant shown at the explicit offset.
TimestampTZExToTime(w, loadable) ==
  LET t == TicksToTime(w.ticks)
      loc == fixedLocationForTZ(w.tz, w.minutes, loadable)
  IN [day |-> w.day, sec |-> SecOf(t), ns |-> t[4], loc |-> loc,
      wall |-> Shift(w.day, SecOf(t), loc.offset)]

\* A TIMESTAMP WITH TIME ZONE that was stored and read is the same instant to
\* 100 microseconds, in a zone whose name and offset agree with each other and,
\* if the offset is whole minutes, with the zone it was stored in.
TimestampTZIsKept(day, sec, ns, offset, loadable) ==
  LET t == TimestampTZExToTime(encodeTimestampTZ(day, sec, ns, offset), loadable)
  IN /\ t.day = day /\ t.sec = sec
     /\ t.ns <= ns /\ ns < t.ns + 100000
     /\ t.loc.name = formatOffset(GoQuo(t.loc.offset, 60))
     /\ GoRem(offset, 60) = 0 => t.loc.offset = offset /\ t.wall = Shift(day, sec, offset)
     /\ Resolve(tzOffsetToID(offset), loadable).offset = t.loc.offset

\* What the server sends keeps its instant and offset whatever zones the Go
\* installation knows, and is never named UTC at another offset.
ServerZoneIsKept(tz, minutes, loadable) ==
  LET loc == fixedLocationForTZ(tz, minutes, loadable)
  IN loc.offset = minutes * 60 /\ (loc.name = UTC => minutes = 0)

\* A TIME or TIMESTAMP without zone keeps its wall clock, cut to 100 microseconds.
WallClockIsKept(h, m, s, ns) ==
  TicksToTime(TimeToTicks(h, m, s, ns)) = <<h, m, s, ns - (ns % 100000)>>
=============================================================================

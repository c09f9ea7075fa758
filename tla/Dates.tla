------------------------------- MODULE Dates -------------------------------
(***************************************************************************)
(* The calendar of src/datatypes/dateutil.ts, the values of src/datatypes/ *)
(* datetime.ts and their codecs, src/codecs/datetime.ts.  NoDate is what   *)
(* throws.                                                                 *)
(*                                                                         *)
(* A count of microseconds is a record [sec, us] with 0 <= us < 10^6: it   *)
(* stands for sec * 10^6 + us.  That of a date and time is [day, sec, us], *)
(* day counted from 2000-01-01.                                            *)
(***************************************************************************)
EXTENDS Integers, Sequences, FiniteSets, Doubles

CONSTANT NoDate

Million == 1000000

Abs(n) == IF n < 0 THEN -n ELSE n
Sign(n) == IF n = 0 THEN 0 ELSE IF n < 0 THEN -1 ELSE 1

\* Math.trunc(a / b) and a % b in JavaScript, of b > 0.
Trunc(a, b) == Sign(a) * (Abs(a) \div b)
Rem(a, b) == a - b * Trunc(a, b)

-----------------------------------------------------------------------------
(* The calendar.                                                           *)

\* Faulty variant: the rule of the centuries is forgotten.
JulianLeapYear(year) == year % 4 = 0
IsLeapYear(year) == year % 4 = 0 /\ (year % 100 # 0 \/ year % 400 = 0)

MonthDays == <<31, 28, 31, 30, 31, 30, 31, 31, 30, 31, 30, 31>>
DaysInMonth(year, month) ==
    IF month = 2 /\ IsLeapYear(year) THEN 29 ELSE MonthDays[month]

DaysBeforeYear(year) ==
    LET y == year - 1 IN y * 365 + Trunc(y, 4) - Trunc(y, 100) + Trunc(y, 400)

\* _DAYS_BEFORE_MONTH.
MonthStart == LET upTo[m \in 1..12] == IF m = 1 THEN 0 ELSE upTo[m - 1] + MonthDays[m - 1]
              IN  upTo
DaysBeforeMonth(year, month) ==
    MonthStart[month] + IF month > 2 /\ IsLeapYear(year) THEN 1 ELSE 0

\* ymd2ord().
Ymd2Ord(year, month, day) == DaysBeforeYear(year) + DaysBeforeMonth(year, month) + day

\* The month of the n-th day of a year and the days before it, by an estimate
\* that is at most one too large.
MonthOf(n, leap) ==
    LET guess     == (n + 50) \div 32
        before(m) == MonthStart[m] + IF m > 2 /\ leap THEN 1 ELSE 0
        month     == IF before(guess) > n THEN guess - 1 ELSE guess
    IN  [month |-> month, before |-> before(month)]

\* ord2ymd(): cycles of 400, 100, 4 years and 1 year, then the month.
Ord2Ymd(ord) ==
    LET n400 == (ord - 1) \div DaysBeforeYear(401)
        r400 == (ord - 1) % DaysBeforeYear(401)
        n100 == r400 \div DaysBeforeYear(101)
        r100 == r400 % DaysBeforeYear(101)
        n4   == r100 \div DaysBeforeYear(5)
        r4   == r100 % DaysBeforeYear(5)
        n1   == r4 \div 365
        n    == r4 % 365
        year == n400 * 400 + 1 + n100 * 100 + n4 * 4 + n1
        leap == n1 = 3 /\ (n4 # 24 \/ n100 = 3)
        in   == MonthOf(n, leap)
    IN  IF n1 = 4 \/ n100 = 4 THEN <<year - 1, 12, 31>>
        ELSE <<year, in.month, n - in.before + 1>>

-----------------------------------------------------------------------------
(* The values.                                                             *)

\* The values of a field of a time.
UpTo(most) == 0..most

\* new LocalTime().
LocalTime(hour, minute, second, ms, us, ns) ==
    IF hour \in UpTo(23) /\ minute \in UpTo(59) /\ second \in UpTo(59)
       /\ ms \in UpTo(999) /\ us \in UpTo(999) /\ ns \in UpTo(999)
    THEN [hour |-> hour, minute |-> minute, second |-> second, ms |-> ms, us |-> us, ns |-> ns]
    ELSE NoDate

\* The years that new LocalDate() takes.
LowestYear == -271820
HighestYear == 275759

\* new LocalDate(): Date.UTC() takes the years 0 to 99 for 1900 to 1999, then
\* the year alone is set right.
LocalDate(year, month, day) ==
    LET over == day - DaysInMonth(1900 + year, month)
    IN  IF year < LowestYear \/ year > HighestYear \/ month \notin 1..12
           \/ day \notin 1..DaysInMonth(year, month)
        THEN NoDate
        ELSE IF year >= 0 /\ year <= 99 /\ over > 0
        THEN [year |-> year, month |-> month + 1, day |-> over]
        ELSE [year |-> year, month |-> month, day |-> day]

DayOfYear(date) == DaysBeforeMonth(date.year, date.month) + date.day
DaysInYear(date) == IF IsLeapYear(date.year) THEN 366 ELSE 365

\* new LocalDateTime().
LocalDateTime(date, time) ==
    IF date = NoDate \/ time = NoDate THEN NoDate ELSE [date |-> date, time |-> time]

DateFields == <<"years", "months", "weeks", "days">>
TimeFields == <<"hours", "minutes", "seconds", "ms", "us">>
RelativeFields == DateFields \o TimeFields
DurationFields == RelativeFields \o <<"ns">>

ValuesOf(d, fields) == {d[fields[i]] : i \in DOMAIN fields}

\* Faulty variant: any signs.
AnySigns(d) == TRUE

\* The loop over the fields: no two of them have opposite signs.
OneSign(d) == ~\E v, w \in ValuesOf(d, DurationFields) : v < 0 /\ w > 0

\* new Duration(), of integers.
Duration(d) == IF OneSign(d) THEN d ELSE NoDate

SignOf(d) == IF \E v \in ValuesOf(d, DurationFields) : v # 0
             THEN Sign(CHOOSE v \in ValuesOf(d, DurationFields) : v # 0) ELSE 0

-----------------------------------------------------------------------------
(* The text of a duration: the parts of durationRegex, NoDate where there  *)
(* is none; a fraction is counted in billionths.                           *)

\* Faulty variant: the nanoseconds are forgotten.
WithoutNanoseconds(d) == Abs(d.ms) * Million + Abs(d.us) * 1000

\* The amount below a second, and the seconds that it makes.
Nanoseconds(d) == Abs(d.ms) * Million + Abs(d.us) * 1000 + Abs(d.ns)

\* Duration.toString(), in exact integers.
DurationText(d) ==
    LET abs(f) == IF d[f] = 0 THEN NoDate ELSE Abs(d[f])
        ns     == Nanoseconds(d)
        blank  == \A v \in ValuesOf(d, DateFields \o <<"hours", "minutes">>) : v = 0
        secs   == blank \/ d.seconds # 0 \/ ns # 0
        frac   == ns % Billion
    IN  [negative |-> SignOf(d) = -1,
         years |-> abs("years"), months |-> abs("months"), weeks |-> abs("weeks"), days |-> abs("days"),
         hours |-> abs("hours"), fHours |-> NoDate, minutes |-> abs("minutes"), fMinutes |-> NoDate,
         seconds |-> IF secs THEN Abs(d.seconds) + ns \div Billion ELSE NoDate,
         fSeconds |-> IF secs /\ frac # 0 THEN frac ELSE NoDate]

\* Without hours, minutes and seconds a text has no T, whose absence from() does
\* not expect, or nothing after it, which it refuses.
Timed(t) == {t.hours, t.minutes, t.seconds} # {NoDate}

\* Only the smallest unit can be fractional.
Fractional(t) ==
    /\ t.fHours # NoDate => {t.minutes, t.fMinutes, t.seconds, t.fSeconds} = {NoDate}
    /\ t.fMinutes # NoDate => {t.seconds, t.fSeconds} = {NoDate}

\* Duration.from() of the parts of a text; minutes and what is smaller are doubles.
DurationFrom(t) ==
    LET sign == IF t.negative THEN -1 ELSE 1
        num(v) == IF v = NoDate THEN 0 ELSE v
        minutes == IF t.fHours # NoDate THEN Product(Number(t.fHours), 60) ELSE Integral(num(t.minutes))
        seconds == IF t.fMinutes # NoDate THEN Product(Number(t.fMinutes), 60)
                   ELSE IF t.seconds # NoDate THEN Integral(t.seconds)
                   ELSE Product(Fraction(minutes), 60)
        ms == Product(IF t.fSeconds # NoDate THEN Number(t.fSeconds) ELSE Fraction(seconds), 1000)
        us == Product(Fraction(ms), 1000)
        ns == Product(Fraction(us), 1000)
    IN  IF ~Timed(t) \/ ~Fractional(t) THEN NoDate
        ELSE Duration([years |-> sign * num(t.years), months |-> sign * num(t.months),
                       weeks |-> sign * num(t.weeks), days |-> sign * num(t.days),
                       hours |-> sign * num(t.hours), minutes |-> sign * Floor(minutes),
                       seconds |-> sign * Floor(seconds), ms |-> sign * Floor(ms),
                       us |-> sign * Floor(us), ns |-> sign * Floor(ns)])

-----------------------------------------------------------------------------
(* The codecs.                                                             *)

\* sec * 10^6 + us, us not below 10^6 or negative.
Micros(sec, us) == [sec |-> sec + us \div Million, us |-> us % Million]

Negative(c) == c.sec < 0

\* The absolute value.
Magnitude(c) ==
    IF ~Negative(c) THEN c
    ELSE IF c.us = 0 THEN [sec |-> -c.sec, us |-> 0]
    ELSE [sec |-> -c.sec - 1, us |-> Million - c.us]

TimeMicros(t) ==
    Micros(t.hour * 3600 + t.minute * 60 + t.second, t.ms * 1000 + t.us)

DateShift == Ymd2Ord(2000, 1, 1)

\* LocalDateCodec.
EncodeLocalDate(date) == Ymd2Ord(date.year, date.month, date.day) - DateShift
DecodeLocalDate(ord) ==
    LET ymd == Ord2Ymd(ord + DateShift) IN LocalDate(ymd[1], ymd[2], ymd[3])

\* LocalTimeCodec; the nanoseconds are not sent.
EncodeLocalTime(time) == TimeMicros(time)
DecodeLocalTime(c) ==
    LET minutes == c.sec \div 60
    IN  LocalTime(minutes \div 60, minutes % 60, c.sec % 60, c.us \div 1000, c.us % 1000, 0)

\* LocalDateTimeCodec: the day is that of the Date, the time is added.
EncodeLocalDateTime(dt) ==
    LET c == TimeMicros(dt.time) IN [day |-> EncodeLocalDate(dt.date), sec |-> c.sec, us |-> c.us]

\* The division by 1000 of a count before 2000 rounds up: what remains of it
\* is negative, and so are the microseconds.
DecodeLocalDateTime(c) ==
    LET up   == c.day < 0 /\ c.us % 1000 # 0
        time == LocalTime(c.sec \div 3600, (c.sec \div 60) % 60, c.sec % 60, c.us \div 1000,
                          (c.us % 1000) - IF up THEN 1000 ELSE 0, 0)
    IN  LocalDateTime(DecodeLocalDate(c.day), time)

\* DateTimeCodec: a Date holds milliseconds [day, sec, ms]; what is decoded is
\* cut towards 1970, day -10957.
EncodeDateTime(date) == [day |-> date.day, sec |-> date.sec, us |-> date.ms * 1000]
DecodeDateTime(c) ==
    LET ms == c.us \div 1000 + IF c.day < -10957 /\ c.us % 1000 # 0 THEN 1 ELSE 0
        sec == c.sec + ms \div 1000
    IN  [day |-> c.day + sec \div 86400, sec |-> sec % 86400, ms |-> ms % 1000]

DurationMicros(d) ==
    Micros(d.hours * 3600 + d.minutes * 60 + d.seconds, d.ms * 1000 + d.us)

\* The fields of a count of microseconds, all of its sign.
\* Faulty variant: the sign is forgotten.
UnsignedFields(c) ==
    LET m == Magnitude(c)
    IN  [hours |-> m.sec \div 3600, minutes |-> (m.sec \div 60) % 60, seconds |-> m.sec % 60,
         ms |-> m.us \div 1000, us |-> m.us % 1000]
TimeOf(c) ==
    LET sign == IF Negative(c) THEN -1 ELSE 1
        m    == Magnitude(c)
    IN  [hours |-> sign * (m.sec \div 3600), minutes |-> sign * ((m.sec \div 60) % 60),
         seconds |-> sign * (m.sec % 60), ms |-> sign * (m.us \div 1000), us |-> sign * (m.us % 1000)]

Joined(date, time) ==
    [f \in {RelativeFields[i] : i \in DOMAIN RelativeFields} |->
        IF f \in DOMAIN date THEN date[f] ELSE time[f]]

\* DurationCodec; the nanoseconds are not sent.
EncodeDuration(d) ==
    IF ValuesOf(d, DateFields) # {0} THEN NoDate
    ELSE [micros |-> DurationMicros(d), days |-> 0, months |-> 0]
DecodeDuration(c) ==
    IF c.days # 0 \/ c.months # 0 THEN NoDate
    ELSE LET part == TimeOf(c.micros)
         IN  Duration([f \in {DurationFields[i] : i \in DOMAIN DurationFields} |->
                          IF f \in DOMAIN part THEN part[f] ELSE 0])

\* RelativeDurationCodec.
EncodeRelative(d) ==
    [micros |-> DurationMicros(d), days |-> d.days + 7 * d.weeks, months |-> d.months + 12 * d.years]
DecodeRelative(c) ==
    Joined([years |-> Trunc(c.months, 12), months |-> Rem(c.months, 12),
            weeks |-> Trunc(c.days, 7), days |-> Rem(c.days, 7)], TimeOf(c.micros))
=============================================================================

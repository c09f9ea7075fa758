------------------------------ MODULE Calendar ------------------------------
(***************************************************************************)
(* What the dates, times and durations of Dates promise: they mean the     *)
(* same after their codecs and in their texts.                             *)
(***************************************************************************)
EXTENDS Dates, Cases

\* The reference: one day after the other.
NextDay(date) ==
    IF date.day < DaysInMonth(date.year, date.month) THEN [date EXCEPT !.day = @ + 1]
    ELSE IF date.month < 12 THEN [date EXCEPT !.month = @ + 1, !.day = 1]
    ELSE [year |-> date.year + 1, month |-> 1, day |-> 1]

\* A date survives the wire, and its day is just before that of the next date.
DaySound(date) ==
    /\ DecodeLocalDate(EncodeLocalDate(date)) = date
    /\ EncodeLocalDate(NextDay(date)) = EncodeLocalDate(date) + 1
    /\ DayOfYear(date) \in 1..DaysInYear(date)
    /\ DaysBeforeYear(date.year) + DayOfYear(date) = Ymd2Ord(date.year, date.month, date.day)

\* What a client can hold survives the wire: a time of microseconds, a Date of
\* milliseconds.  A count of microseconds before 2000 is refused when it is not
\* one of milliseconds.
TimeSound(day, time) ==
    LET dt   == LocalDateTime(day, time)
        date == [day |-> EncodeLocalDate(day), sec |-> TimeMicros(time).sec, ms |-> time.ms]
    IN  /\ DecodeLocalTime(EncodeLocalTime(time)) = time
        /\ day.year >= 2000 \/ time.us = 0 => DecodeLocalDateTime(EncodeLocalDateTime(dt)) = dt
        /\ DecodeDateTime(EncodeDateTime(date)) = date

-----------------------------------------------------------------------------
FieldNames == {DurationFields[i] : i \in DOMAIN DurationFields}

\* A time, counted in microseconds and the nanoseconds that make none.
Elapsed(sec, ms, us, ns) ==
    [count |-> Micros(sec + ms \div 1000, (ms % 1000) * 1000 + us + ns \div 1000), ns |-> ns % 1000]

\* All that a duration adds up to, whatever its sign, and what it would with less
\* nanoseconds.
AmountLess(d, ns) ==
    <<Abs(d.years), Abs(d.months), Abs(d.weeks), Abs(d.days),
      Elapsed(Abs(d.hours) * 3600 + Abs(d.minutes) * 60 + Abs(d.seconds), Abs(d.ms), Abs(d.us), Abs(d.ns) - ns)>>
Amount(d) == AmountLess(d, 0)

\* What a text says, digit by digit: the decimals of an hour, a minute or a second
\* are taken three at a time.
Meant(t) ==
    LET num(v) == IF v = NoDate THEN 0 ELSE v
        unit   == IF t.fHours # NoDate THEN 3600 ELSE IF t.fMinutes # NoDate THEN 60 ELSE 1
        frac   == num(t.fHours) + num(t.fMinutes) + num(t.fSeconds)
    IN  <<num(t.years), num(t.months), num(t.weeks), num(t.days),
          Elapsed(num(t.hours) * 3600 + num(t.minutes) * 60 + num(t.seconds),
                  unit * (frac \div Million), unit * ((frac \div 1000) % 1000), unit * (frac % 1000))>>

Mixed(d, fields) == \E f, g \in fields : d[f] < 0 /\ d[g] > 0

\* A duration of mixed signs cannot be made; the text of any other says what it
\* adds up to, and one of whole seconds is read back from it.  On the wire it is
\* normalised once.  What has days, or more, is no duration of the server.
DurationSound(d) ==
    LET text    == DurationText(d)
        again   == DurationFrom(text)
        decoded == DecodeDuration(EncodeDuration(d))
        back    == DecodeRelative(EncodeRelative(d))
    IN  IF Mixed(d, FieldNames) THEN Duration(d) = NoDate
        ELSE /\ Duration(d) = d
             /\ Meant(text) = Amount(d) /\ (text.negative <=> SignOf(d) = -1)
             /\ Timed(text) /\ d.ms = 0 /\ d.us = 0 /\ d.ns = 0 => again = d
             /\ IF \E f \in {"years", "months", "weeks", "days"} : d[f] # 0
                THEN EncodeDuration(d) = NoDate
                ELSE decoded # NoDate /\ DurationMicros(decoded) = DurationMicros(d)
             /\ EncodeRelative(back) = EncodeRelative(d)
             /\ ~Mixed(back, FieldNames \ {"ns"})
             /\ back.minutes \in -59..59 /\ back.seconds \in -59..59

\* from() makes of a text that it takes the duration that the text says, of its
\* sign, or one of a nanosecond less where a fraction is read in doubles.  The
\* fields hold what is below the next larger one.
TextSound(t) ==
    LET d == DurationFrom(t)
    IN  IF ~Timed(t) \/ ~Fractional(t) THEN d = NoDate
        ELSE /\ d # NoDate
             /\ \/ Meant(t) = Amount(d)
                \/ {t.fHours, t.fMinutes, t.fSeconds} # {NoDate} /\ Meant(t) = AmountLess(d, -1)
             /\ SignOf(d) \in {0, IF t.negative THEN -1 ELSE 1}
             /\ \A f \in {"ms", "us", "ns"} : Abs(d[f]) \in UpTo(999)

-----------------------------------------------------------------------------
\* Dates, times and durations mean the same after their codecs, and the text of a
\* duration says what it is (datatypes/datetime.ts, codecs/datetime.ts).
CalendarSound ==
    /\ case.of = "day" => DaySound(case.input)
    /\ case.of = "time" => TimeSound(case.input.day, case.input.time)
    /\ case.of = "duration" => DurationSound(case.input)
=============================================================================

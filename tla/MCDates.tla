------------------------------ MODULE MCDates ------------------------------
(* Bounded inputs for the dates, times and durations of Dates.             *)
EXTENDS Calendar

\* Years around the exceptions of the leap year rule and the ends of cycles.
Years == {1, 4, 99, 100, 101, 399, 400, 401, 1899, 1900, 1999, 2000, 2001, 2003, 2004, 2100, 9999}
Days  == {LocalDate(y, m, d) : y \in Years, m \in 1..12, d \in 1..31} \ {NoDate}

\* The days around 1970 and 2000.
Epochs == {LocalDate(y, 12, 31) : y \in {1969, 1999}} \cup {LocalDate(y, 1, 1) : y \in {1970, 2000}}
Times  == {LocalTime(h, mi, s, ms, us, 0) :
              h \in {0, 1, 23}, mi \in {0, 59}, s \in {0, 1, 59}, ms \in {0, 1, 999}, us \in {0, 1, 999}}

DurationOf(sign, days, h, mi, s, t) ==
    [f \in FieldNames |->
        sign * (CASE f = "days" -> days [] f = "hours" -> h [] f = "minutes" -> mi
                  [] f = "seconds" -> s [] f = "ms" -> t[1] [] f = "us" -> t[2]
                  [] f = "ns" -> t[3] [] OTHER -> 0)]

\* Fractions of a second that a double holds exactly, that it does not, and that
\* make more than a second.
Durations ==
    {DurationOf(sign, whole[1], whole[2], whole[3], s, t) :
        sign \in {-1, 1}, whole \in {<<0, 0, 0>>, <<0, 0, 60>>, <<0, 25, 60>>, <<3, 25, 0>>}, s \in {0, 1, 61},
        t \in {<<0, 0, 0>>, <<500, 0, 0>>, <<1, 400, 0>>, <<1, 953, 125>>, <<1500, 0, 1>>, <<999, 1999, 1000>>}}
    \cup {[DurationOf(1, 0, h, 0, 1, <<0, 0, 0>>) EXCEPT !.days = d] : h \in {-1, 1}, d \in {-1, 1}}

Billionths == {0, 1, 10, 1400000, 1953125, 29000000, 100000000, 123456789, 333333333, 500000000,
               567800000, 700000000, 999999999}

\* A unit that is not in a text, that is whole, or that has a fraction.
NoUnit == <<NoDate, NoDate>>
Units(wholes, fractions) == {NoUnit} \cup (wholes \X ({NoDate} \cup fractions))

TextOf(negative, days, h, m, s) ==
    [negative |-> negative, years |-> NoDate, months |-> NoDate, weeks |-> NoDate, days |-> days,
     hours |-> h[1], fHours |-> h[2], minutes |-> m[1], fMinutes |-> m[2],
     seconds |-> s[1], fSeconds |-> s[2]]

\* Texts with a fraction of each unit, with two, and with none.
Texts ==
    {TextOf(negative, IF negative THEN 3 ELSE NoDate, u[1], u[2], u[3]) :
        negative \in BOOLEAN,
        u \in (Units({25}, {}) \X Units({5}, {}) \X Units({1}, Billionths))
              \cup (Units({25}, {}) \X Units({5}, Billionths) \X Units({0}, {0}))
              \cup (Units({25}, Billionths) \X Units({0}, {0}) \X Units({1}, {}))}
=============================================================================

----------------------------- MODULE ValueText -----------------------------
(***************************************************************************)
(* The two values that have to be computed before they can be shown: a     *)
(* date from its days since 1970-01-01, written by Display or read as a    *)
(* chrono::NaiveDate, and a decimal from its unscaled integer.  The days   *)
(* and the year have the widths of i64 and i32, scaled down.               *)
(***************************************************************************)
EXTENDS Integers, Sequences

CONSTANTS
  Days,    \* payloads of Value::Date
  Wholes,  \* unscaled integers of Value::Decimal
  Scales,  \* scales of Value::Decimal
  DayLimit,    \* an i64 holds the integers from -DayLimit to DayLimit - 1
  YearLimit,   \* an i32 those from -YearLimit to YearLimit - 1
  ChronoFirst, \* the first year a chrono::NaiveDate can have
  ChronoLast   \* and the last

\* The integers of a signed type with this limit, and what `as` makes of n in it.
Signed(limit)  == -limit .. limit - 1
Wrap(n, limit) == ((n + limit) % (2 * limit)) - limit

VARIABLES
  value,  \* the value that is written
  text    \* what it has been written or read as, NoText before

vars == <<value, text>>

Dates    == [type : {"DATE"}, days : Days]
Decimals == [type : {"DECIMAL"}, whole : Wholes, scale : Scales]
NoText   == [kind |-> "none"]

Init == value \in Dates \cup Decimals /\ text = NoText

-----------------------------------------------------------------------------
(* Dates.                                                                  *)

\* Division in Rust, which cuts off towards zero.
Quotient(a, b) == IF a >= 0 THEN a \div b ELSE -((-a) \div b)

\* Bug: days before the era's first are not brought below it.
EraTruncated(z) == Quotient(z, 146097)

\* The 400-year era of day z, counted from 0000-03-01.
Era(z) == Quotient(IF z >= 0 THEN z ELSE Wrap(z - 146096, DayLimit), 146097)

\* The year of era in which day `doe` of it lies, of years that begin in March.
YearOfEra(doe) == (doe - doe \div 1460 + doe \div 36524 - doe \div 146096) \div 365

\* Day `doy` of year `yoe` of an era, its year, which begins in March, not yet an
\* i32.
DayOfYear(era, yoe, doy) ==
  LET mp == (5 * doy + 2) \div 153
      m  == IF mp < 10 THEN mp + 3 ELSE mp - 9
  IN [year  |-> yoe + era * 400 + (IF m <= 2 THEN 1 ELSE 0),
      month |-> m,
      day   |-> doy - (153 * mp + 2) \div 5 + 1]

\* The date of day z, counted from 0000-03-01.
Civil(z) ==
  LET doe == Wrap(z - Era(z) * 146097, DayLimit)
      yoe == YearOfEra(doe)
  IN DayOfYear(Era(z), yoe, doe - (365 * yoe + yoe \div 4 - yoe \div 100))

Panic == [kind |-> "panic"]

\* What civil_from_days may return: where its first addition overflows, a build
\* with overflow checks panics and another goes on with the wrapped sum.
CivilFromDays(days) ==
  LET date(z) == [kind |-> "date", year |-> Wrap(Civil(z).year, YearLimit),
                  month |-> Civil(z).month, day |-> Civil(z).day]
  IN IF days + 719468 \in Signed(DayLimit) THEN {date(days + 719468)}
     ELSE {date(Wrap(days + 719468, DayLimit)), Panic}

OutOfRange == [kind |-> "OutOfRange"]

\* Bug: a date chrono cannot hold is read as the same day of its last year.
NaiveClamped(date) ==
  IF date = Panic THEN Panic
  ELSE [date EXCEPT !.kind = "naive",
                    !.year = IF @ \in ChronoFirst .. ChronoLast THEN @ ELSE ChronoLast]

\* NaiveDate::from_ymd_opt of what as_date_ymd returns, or else the error.
Naive(date) ==
  IF date = Panic THEN Panic
  ELSE IF date.year \in ChronoFirst .. ChronoLast THEN [date EXCEPT !.kind = "naive"]
  ELSE OutOfRange

-----------------------------------------------------------------------------
(* Decimals.                                                               *)

\* The decimal digits of each number up to n, and of n.
DigitsUpTo(n) ==
  LET digits[k \in 0 .. n] ==
        IF k < 10 THEN <<k>> ELSE Append(digits[k \div 10], k % 10)
  IN digits

Digits(n) == DigitsUpTo(n)[n]

Zeros(n) == [k \in 1 .. n |-> 0]

\* Bug: a number with as many digits as the scale is split too, before its first.
FormatDecimalBare(whole, scale) ==
  LET digits == Digits(IF whole < 0 THEN -whole ELSE whole)
      split  == Len(digits) - scale
  IN [kind |-> "decimal", negative |-> whole < 0,
      units    |-> IF split >= 0 THEN SubSeq(digits, 1, split) ELSE <<0>>,
      fraction |-> IF split >= 0 THEN SubSeq(digits, split + 1, Len(digits))
                   ELSE Zeros(-split) \o digits]

FormatDecimal(whole, scale) ==
  LET digits == Digits(IF whole < 0 THEN -whole ELSE whole)
      split  == Len(digits) - scale
  IN [kind |-> "decimal", negative |-> whole < 0,
      units    |-> IF split > 0 THEN SubSeq(digits, 1, split) ELSE <<0>>,
      fraction |-> IF split > 0 THEN SubSeq(digits, split + 1, Len(digits))
                   ELSE Zeros(-split) \o digits]

-----------------------------------------------------------------------------
WriteDate ==
  /\ text = NoText /\ value.type = "DATE"
  /\ text' \in CivilFromDays(value.days)
  /\ UNCHANGED value

\* FromValue for chrono::NaiveDate.
ReadNaiveDate ==
  /\ text = NoText /\ value.type = "DATE"
  /\ \E date \in CivilFromDays(value.days) : text' = Naive(date)
  /\ UNCHANGED value

WriteDecimal ==
  /\ text = NoText /\ value.type = "DECIMAL"
  /\ text' = FormatDecimal(value.whole, value.scale)
  /\ UNCHANGED value

Next == WriteDate \/ ReadNaiveDate \/ WriteDecimal

Spec == Init /\ [][Next]_vars

-----------------------------------------------------------------------------
(* References, in the other direction: from the text to the number.        *)

IsLeap(year) == (year % 4 = 0 /\ year % 100 # 0) \/ year % 400 = 0

MonthLength(year, month) ==
  CASE month = 2               -> IF IsLeap(year) THEN 29 ELSE 28
    [] month \in {4, 6, 9, 11} -> 30
    [] OTHER                   -> 31

\* Days in the first m months of `year`.
DaysUpTo(year) ==
  LET upTo[m \in 0 .. 12] ==
        IF m = 0 THEN 0 ELSE upTo[m - 1] + MonthLength(year, m)
  IN upTo

\* Days of `year` before the first of `month`.
BeforeMonth(year, month) == DaysUpTo(year)[month - 1]

\* Days from 1970-01-01 to 1 January of `year`; 477 leap days precede 1970.
BeforeYear(year) ==
  LET last == year - 1
  IN 365 * (year - 1970) + last \div 4 - last \div 100 + last \div 400 - 477

\* The days of all years that an i32 holds, and an era more, fit an i64, also when
\* they are counted from 0000-03-01.
ASSUME LimitsAssumption ==
  /\ YearLimit \in Nat \ {0} /\ DayLimit \in Nat
  /\ DayLimit >= 719468 + 146097 /\ DayLimit >= 719468 + BeforeYear(YearLimit)
  /\ Days \subseteq Signed(DayLimit) /\ Wholes \subseteq Int /\ Scales \subseteq Nat
  /\ ChronoFirst \in Signed(YearLimit) /\ ChronoLast \in Signed(YearLimit)

\* Whether the year of a day lies from `first` to `last`.
Fits(day, first, last) == BeforeYear(first) <= day /\ day < BeforeYear(last + 1)

FitsYear(day)   == Fits(day, -YearLimit, YearLimit - 1)
FitsChrono(day) == Fits(day, ChronoFirst, ChronoLast)

IsItsDay ==
  /\ text.month \in 1 .. 12
  /\ text.day \in 1 .. MonthLength(text.year, text.month)
  /\ BeforeYear(text.year) + BeforeMonth(text.year, text.month) + text.day - 1
       = value.days

\* A date whose year fits an i32 is written as, and read into a NaiveDate as, the
\* day of the Gregorian calendar, extended to all years, that lies that many days
\* after 1970-01-01; it is out of range only where chrono's years end, and no
\* date of such a year panics (civil_from_days, FromValue for NaiveDate).
DateIsItsDays ==
  value.type = "DATE" /\ text # NoText /\ FitsYear(value.days) =>
    IF text.kind \in {"date", "naive"} THEN IsItsDay
    ELSE text = OutOfRange /\ ~FitsChrono(value.days)

\* The number that the first k digits stand for, and that all do.
NumberUpTo(digits) ==
  LET upTo[k \in 0 .. Len(digits)] ==
        IF k = 0 THEN 0 ELSE 10 * upTo[k - 1] + digits[k]
  IN upTo

Number(digits) == NumberUpTo(digits)[Len(digits)]

\* "Read `value`, or explain why it does not fit" (convert.rs:12): the NaiveDate a
\* date is read as is that date.
DateReadsOrFails == text.kind = "naive" => IsItsDay

\* A decimal is written with exactly `scale` digits after the point and at
\* least one, without leading zeros, before it, and reads back as itself
\* (format_decimal).
DecimalReadsBack ==
  text.kind = "decimal" =>
    /\ Len(text.fraction) = value.scale
    /\ text.units # <<>> /\ (Len(text.units) > 1 => text.units[1] # 0)
    /\ (IF text.negative THEN -1 ELSE 1) * Number(text.units \o text.fraction)
         = value.whole
=============================================================================

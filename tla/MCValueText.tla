---------------------------- MODULE MCValueText ----------------------------
(* Every day from 1567 to 2372, which holds a full era of the calendar on   *)
(* either side of 1970, the days around 0000-03-01, where the divisions see *)
(* negative numbers, the turns of every era of 6000 years either way, and   *)
(* the days at which a year stops to fit and the days themselves end.       *)
EXTENDS ValueText

MCDayLimit  == 2 ^ 23
MCYearLimit == 2 ^ 13
MCChronoFirst == -6000

Around(day) == (day - 70 .. day + 70) \cap Signed(MCDayLimit)

\* The first days of the years at which the years of an i32 and of chrono end, and
\* of one so far beyond that it wraps to year 0.
Turns == {BeforeYear(y) : y \in {-8192, 8192, -6000, 6000, 16384}}

MCDays ==
  -146900 .. 146900
    \cup Around(-719468) \cup Around(-719468 - 36524) \cup Around(-719468 - 1461)
    \cup UNION {Around(-719468 + era * 146097) : era \in -15 .. 15}
    \cup UNION {Around(day) : day \in Turns}
    \cup Around(2 ^ 23 - 1) \cup Around(2 ^ 23 - 1 - 719468) \cup Around(-(2 ^ 23))

MCWholes == -1200 .. 1200
MCScales == 0 .. 5
=============================================================================

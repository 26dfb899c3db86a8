SPECIFICATION Spec
CONSTANTS
  Days <- MCDays
  Wholes <- MCWholes
  Scales <- MCScales
  DayLimit <- MCDayLimit
  YearLimit <- MCYearLimit
  ChronoFirst <- MCChronoFirst
  ChronoLast = 5999
INVARIANTS DateIsItsDays DecimalReadsBack
CHECK_DEADLOCK FALSE

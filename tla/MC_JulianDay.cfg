SPECIFICATION ClockSpec
CONSTANTS
    LastYear = 0
    MaxDays = 2
    Times <- DayEdges
INVARIANTS
    JulianDayNumber

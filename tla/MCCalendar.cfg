SPECIFICATION Walk
CONSTANT MAX_DAY = 160000
INVARIANTS DateOfEveryDay DayOfEveryDate
CHECK_DEADLOCK FALSE

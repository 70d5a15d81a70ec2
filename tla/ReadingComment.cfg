SPECIFICATION ReadingSpec
CONSTANTS
    MaxFragments = 3
    Fragments <- SomeFragments
    ViewFilters <- SomeViewFilters
    Words <- SomeWords
    Number <- SomeNumbers
    StoredTasks <- SomeTasks
    Zone = 1
    TicksPerHour = 2
    HoursPerDay = 2
    Anchors <- AroundLeapDay
    Factors <- SomeFactors
    MaxBusinessDays = 6
    MaxAdjustments = 2
    SentDates <- AroundMonthsEnd
    Intervals = {0, 6}
    Reminders <- NoReminders
    Clocks <- TwoMornings
    LastMoment <- TwoMonthsOn
INVARIANTS Narrowed
CHECK_DEADLOCK FALSE

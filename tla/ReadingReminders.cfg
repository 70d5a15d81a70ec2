SPECIFICATION ReadingSpec
CONSTANTS
    MaxFragments = 4
    Fragments <- SomeFragments
    ViewFilters <- SomeViewFilters
    Words <- SomeWords
    Number <- SomeNumbers
    StoredTasks <- SomeTasks
    Zone = 1
    TicksPerHour = 2
    HoursPerDay = 2
    Anchors <- AroundLeapDay
    Factors <- SomeFactors
    MaxBusinessDays = 6
    MaxAdjustments = 2
    SentDates <- AroundMonthsEnd
    Intervals = {0, 6}
    Reminders <- BeforeDue
    Clocks <- TwoMornings
    LastMoment <- TwoMonthsOn
INVARIANTS RemindersFollow
CHECK_DEADLOCK FALSE

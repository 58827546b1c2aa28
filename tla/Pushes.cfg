SPECIFICATION MCSpec
CONSTANTS
    s1 = s1
    s2 = s2
    r1 = r1
    r2 = r2
    Episodes <- MCEpisodes
    Stuck = {d1, d2, d3}
    NoId = NoId
    Calls = {c1, c2}
    Quiet = 2
    Max = 3
    Day = 2
    SeenLimit = 2
    Requests = {r1, r2}
    Films = {r1}
    KeyOf <- MCKeyOf
    Dates <- MCDates
    Airs <- MCAirs
    Asked <- MCAsked
    Take = 1
    Days = 1
    LastDay = 2
    Full = 1
    Slow = {r2}
INVARIANTS
    OnePushEach
    SaysWhatItHas
    NeverPastMax
    SentWhenQuietOrFull
    StopFlushes
PROPERTIES
    StuckOnceADay
    GatheredIsSent
    ToldOnce
    SlowIsNotDead
    LateIsTold

SPECIFICATION MCSpec
CONSTANTS
    Titles = {t, u}
    Tracked = {t}
    Seasons = {s1, s2}
    All = All
    Calls = {c1, c2}
    Requests = 2
    MaxRows = 2
    Departures = 1
    PageSize = 1
    LastPage = 10
    m1 = m1
    n1 = n1
    Films = {m1}
    Series = {n1}
    TmdbId <- MCTmdbId
    Hopeless = {}
INVARIANTS
    TypesOK
    CancelHolds
PROPERTIES
    OnlyItsOwn
    OnlyGoneAreForgotten
    AskedInTurn
    UnwantedIsForgotten

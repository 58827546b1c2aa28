SPECIFICATION FairSpec
CONSTANTS
    p1 = p1
    p2 = p2
    stranger = stranger
    horror = horror
    adult = adult
    People <- MCPeople
    Strangers <- MCStrangers
    Keywords <- MCKeywords
    AdultTags <- MCAdultTags
    Asks <- MCAsks
    Requests = {r1, r2}
    NoFile = NoFile
    Half = Half
INVARIANTS
    NeverHalfAFile
    ListsOnlyTheFiltered
    ChainSafe
PROPERTIES
    EveryChangeIsTried
    ImplementsRegister

SPECIFICATION MCSpec
CONSTANTS
    r1 = r1
    t1 = t1
    t3 = t3
    kid = kid
    k = k
    Requests = {r1, r2}
    Users = {boss, kid}
    Managers = {boss}
    Anonymous = anonymous
    Titles = {t1, t2, t3}
    Keywords = {k}
    KeywordsOf <- MCKeywordsOf
    Unknown = Unknown
    Limit = 1
INVARIANTS
    TypeOK
    
    SlotsAccounted
PROPERTIES
    EveryRequestIsAnswered
    QueuedGetsASlot

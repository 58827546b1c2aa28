SPECIFICATION FairSpec
CONSTANTS
    k1 = k1
    k2 = k2
    People = {admin, kid}
    Librarian = admin
    Items = {i1, i2}
    Keywords = {k1, k2}
    KeywordsOf <- MCKeywordsOf
    HandTags = {t}
    EditsMidRun = FALSE
    MaxSaves = 2
INVARIANTS
    ByHandIsKept
    PassEnforces
    LibrarianCanRead
PROPERTIES
    PassNeverUncovers
    Converges

SPECIFICATION Spec
CONSTANTS
    k1 = k1
    k2 = k2
    People = {admin, kid}
    Librarian = admin
    Items = {i1}
    Keywords = {k1}
    KeywordsOf <- MCKeywordsOf
    HandTags = {t}
    EditsMidRun = TRUE
    MaxSaves = 1
INVARIANTS
    ByHandIsKept

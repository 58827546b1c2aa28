SPECIFICATION Spec
CONSTANTS
    k1 = k1
    k2 = k2
    People = {admin, kid}
    Librarian = admin
    Items = {i1, i2}
    Keywords = {k1}
    KeywordsOf <- MCKeywordsOf
    HandTags = {}
    EditsMidRun = FALSE
    MaxSaves = 2
PROPERTIES
    LibrarianRestored

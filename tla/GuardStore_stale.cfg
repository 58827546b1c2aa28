SPECIFICATION Spec
CONSTANTS
    Calls = {c1, c2}
    Recheck = 1
    MaxVersion = 3
INVARIANTS
    FreshAnswer

SPECIFICATION FairSpec
CONSTANTS
    Runs = {r1, r2}
    Settle = 1
    Cooldown = 4
    Day = 9
    MaxRepairs = 2
    Longest = 2
    Troubles = 4
PROPERTIES
    RepairsSpaced
    SecondLook
    Mended

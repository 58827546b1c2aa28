SPECIFICATION MCSpec
CONSTANTS
    boss = boss
    kid = kid
    People = {boss, kid}
    Linked = {kid}
    Powers <- MCPowers
    Asks <- MCAsks
    Nobody = Nobody
    None = None
    Calls = {c1, c2}
    Ttl = 2
    NobodyTtl = 1
    Patience = 1
    Room = 1
PROPERTIES
    HomeOnly
    ChangedByRight
SYMMETRY Alike

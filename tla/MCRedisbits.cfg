CONSTANTS
    Clients = {c1, c2}
    Sets = {"changed", "justified"}
    Pairs <- MCPairs
    Capacity = 5
    WordBits = 4
    ByteBits = 2
    AddedIds = {3, 4, 6}
    MaxAdds = 3
    MaxCalls = 2
    Faults = TRUE
SPECIFICATION Spec
SYMMETRY Symmetry
INVARIANTS TypeOK NoMemberLost NoFalseMember OnlyCrashesLeak BitsetAgrees

CONSTANTS
    Clients = {c1}
    Sets = {"changed", "justified"}
    Pairs <- MCPairs
    Capacity = 5
    WordBits = 4
    ByteBits = 2
    AddedIds = {0}
    MaxAdds = 1
    MaxCalls = 1
    Faults = TRUE
SPECIFICATION Spec
INVARIANTS NothingLeaks

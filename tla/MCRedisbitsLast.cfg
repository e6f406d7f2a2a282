CONSTANTS
    Clients = {c1}
    Sets = {"changed", "justified"}
    Pairs <- MCPairs
    Capacity = 5
    WordBits = 4
    ByteBits = 2
    AddedIds = {0, 4}
    MaxAdds = 2
    MaxCalls = 1
    Faults = FALSE
SPECIFICATION Spec
INVARIANTS LastIdIsKept

CONSTANTS
    Keys <- MCKeys
    Goroutines = {g1}
    MaxStored = 0
    Characters <- MCCharacters
    Replicas <- MCReplicas
SPECIFICATION Spec
INVARIANTS ChecksumsDecide

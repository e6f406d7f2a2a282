CONSTANTS
    Keys <- MCKeys
    Goroutines = {g1, g2}
    MaxStored = 2
    Characters <- MCCharacters
    Replicas <- MCReplicas
SPECIFICATION Spec
SYMMETRY Swap
INVARIANTS TypeOK OneIdPerKey ReturnedIdsName AcceptedSnapshotsAgree  ChecksumsSeparate
PROPERTIES NeverReassigned

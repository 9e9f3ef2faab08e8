SPECIFICATION Spec
CONSTANTS
    Sample = {0, 1}
    Capacity = 5
INVARIANTS BufferTypeOK RegionsPartition RollIsSound
PROPERTIES ImplementsQueue PackEnds

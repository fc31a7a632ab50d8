SPECIFICATION Spec
CONSTANTS
    Sizes = {1, 2}
    Faults = {"write"}
    Ids = {1, 2, 3}
    MaxBatches = 1
    MaxGens = 1
    MaxUses = 1
    MaxResets = 0
INVARIANT NeverReencrypts

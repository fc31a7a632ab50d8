SPECIFICATION Spec
CONSTANTS
    Sizes = {1, 2}
    Faults = {"none", "write"}
    Ids = {1, 2, 3}
    MaxBatches = 1
    MaxGens = 2
    MaxUses = 2
    MaxResets = 1
INVARIANTS TypeOK IdentityKept NoKeyReuse

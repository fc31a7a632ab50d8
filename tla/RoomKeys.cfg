SPECIFICATION Spec
CONSTANTS
    Users = {u1, u2}
    Chunk = 1
    MaxRetries = 1
    Worlds = {{}, {"net", "rejoin"}}
    MaxSessions = 2
    MaxMsgs = 3
    MaxChanges = 3
    MaxResets = 0
SYMMETRY UserSymmetry
INVARIANTS TypeOK Rotated AudienceOnly RecipientCanRead EveryMemberKeyed

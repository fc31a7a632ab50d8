SPECIFICATION Spec
CONSTANTS
    Users = {u1, u2}
    Chunk = 1
    MaxRetries = 1
    Worlds = {{"full"}}
    MaxSessions = 1
    MaxMsgs = 2
    MaxChanges = 2
    MaxResets = 0
INVARIANT DepartedLockedOut

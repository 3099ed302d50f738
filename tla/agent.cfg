SPECIFICATION Spec
CONSTANTS
    Sessions = {s1}
    NoSession = NoSession
    MaxKeys = 2
    MaxPending = 1
    LateVerbs = {"commit", "run", "close"}
INVARIANTS
    OnlyPeopleGrant
    
    

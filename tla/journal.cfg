SPECIFICATION Spec
CONSTANTS
    Plans <- SomePlans
    Asked = {"run_test", "commit"}
    Noted = {"owner_changed"}
    MaxJournal = 4
INVARIANTS
    
    ListingIsFresh
    PagesReachTheEnd
CHECK_DEADLOCK FALSE

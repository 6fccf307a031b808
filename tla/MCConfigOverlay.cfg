SPECIFICATION Spec
CONSTANTS
    Admins = {a1}
    Keys = {budget}
    Entries <- TwoSpellings
    NoEntry = NoEntry
    NoJob = NoJob
    File <- OneEach
    Failing = FALSE
INVARIANT StoredOverridesFile

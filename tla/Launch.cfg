SPECIFICATION Spec
CONSTANTS
    first = first
    second = second
    good = good
    evil = evil
    vast = vast
    Scan = {first, second}
    Content = {good, evil, vast}
    Malicious = {evil, vast}
    Large = {vast}
    RulesLoaded = TRUE
    MaxEdits = 2
    Condition <- MCCondition
    Depth <- MCDepth
    Event <- MCEvent
    Lower <- MCLower
    FactsOf <- MCFactsOf
    Platforms = {"unix", "windows"}
    ExcludedBy <- MCExcludedBy
    VendorTrusted <- MCVendorTrusted
    Rules <- MCRules
    FieldsOf <- MCFieldsOf
INVARIANTS
    CacheSound
    ClassifiedAsLaunched
    MalwareIsNotCleared
    SigmaDecides
CHECK_DEADLOCK FALSE

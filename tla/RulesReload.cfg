SPECIFICATION LiveSpec
CONSTANTS
    wallet = wallet
    cookies = cookies
    vault = vault
    cli = cli
    File = {wallet, cookies}
    Early = {cookies}
    Dir = {vault}
    MaxVersion = 2
    FlagsOf <- MCFlagsOf
    DirsOf <- MCDirsOf
    Command = {cli}
    NestedReads = TRUE
INVARIANTS
    TypeOK
    EveryRuleRegistered
    FlagsAreCurrent
PROPERTIES
    RulesNeverGoBack
    NewestComesInForce
CHECK_DEADLOCK FALSE

SPECIFICATION LiveSpec
CONSTANTS
    wallet = wallet
    cookies = cookies
    vault = vault
    cli = cli
    File = {wallet}
    Early = {wallet}
    Dir = {vault}
    MaxVersion = 1
    FlagsOf <- MCFlagsOf
    DirsOf <- MCDirsOf
    Command = {}
    NestedReads = TRUE
PROPERTIES
    HotReloads
CHECK_DEADLOCK FALSE

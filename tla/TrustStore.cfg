SPECIFICATION Spec
CONSTANTS
    app = app
    tool = tool
    old = old
    new = new
    command = command
    prompt = prompt
    Path = {app, tool}
    Content = {old, new}
    Inode = {1, 2, 3}
    Owned = {tool}
    Installed <- MCInstalled
    Task = {command, prompt}
    Platforms = {"unix", "windows"}
    MaxEdits = 1
    MaxDecisions = 3
    MaxStops = 1
INVARIANTS
    TrustIsVerified
    PromisesKept
PROPERTIES
    AllowListKept
    DenyListKept
CHECK_DEADLOCK FALSE

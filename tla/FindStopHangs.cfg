\* The engine as built: the first ordinary process that stops.
SPECIFICATION LiveSpec
CONSTANTS
    app = app
    npm = npm
    wallet = wallet
    diary = diary
    page = page
    binary = binary
    crontab = crontab
    socket = socket
    NoEntry = NoEntry
    Pid <- Pids2
    Boot <- Boot1
    MaxTime = 2
    Image = {app}
    Installer = {}
    File = {wallet}
    CategoryOf <- MCCategoryOf
    Owner <- MCOwner
    ProtectedDir = {}
    ProtectedWriter = {}
    PersistencePath = {}
    CredentialPath = {}
    RuntimeSocket = {}
    ShardOf <- MCShardOf
    AuditMode = FALSE
    Gui = {FALSE}
    Tmux = {FALSE}
    Verdict = {FALSE}
    Sigma = {FALSE}
    Spoof = {}
    Emits <- ReadsAndStops
    Commands = {}
    PidReuse = FALSE
    IterPinsShard = TRUE
    ConsumerInRuntime = FALSE
    QueueCap = 2
    MaxPrompts = 1
PROPERTIES
    FinishedStatesCleaned
CHECK_DEADLOCK FALSE

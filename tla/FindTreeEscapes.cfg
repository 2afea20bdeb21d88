\* Which processes a tree suspension reaches.
SPECIFICATION Spec
CONSTANTS
    app = app
    npm = npm
    wallet = wallet
    diary = diary
    page = page
    binary = binary
    crontab = crontab
    socket = socket
    NoEntry = NoEntry
    Pid <- Pids3
    Boot <- Boot1
    MaxTime = 3
    Image = {app}
    Installer = {}
    File = {wallet}
    CategoryOf <- MCCategoryOf
    Owner <- MCOwner
    ProtectedDir = {}
    ProtectedWriter = {}
    PersistencePath = {}
    CredentialPath = {}
    RuntimeSocket = {}
    ShardOf <- MCShardOf
    AuditMode = FALSE
    Gui = {FALSE}
    Tmux = {FALSE}
    Verdict = {FALSE}
    Sigma = {FALSE}
    Spoof = {}
    Emits <- Reads
    Commands = {}
    PidReuse = FALSE
    IterPinsShard = TRUE
    ConsumerInRuntime = FALSE
    QueueCap = 2
    MaxPrompts = 1
PROPERTIES
    TreeSuspended
CHECK_DEADLOCK FALSE

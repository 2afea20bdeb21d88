\* A desktop session that may be there or not: prompts answered early,
\* late, after a release, or never.
SPECIFICATION Spec
CONSTANTS
    app = app
    npm = npm
    wallet = wallet
    diary = diary
    page = page
    binary = binary
    crontab = crontab
    socket = socket
    NoEntry = NoEntry
    Pid <- Pids2
    Boot <- Boot1
    MaxTime = 2
    Image = {app}
    Installer = {}
    File = {diary}
    CategoryOf <- MCCategoryOf
    Owner <- MCOwner
    ProtectedDir = {}
    ProtectedWriter = {}
    PersistencePath = {}
    CredentialPath = {}
    RuntimeSocket = {}
    ShardOf <- MCShardOf
    AuditMode = FALSE
    Gui <- Booleans
    Tmux = {FALSE}
    Verdict <- Booleans
    Sigma = {FALSE}
    Spoof = {}
    Emits = {"ProcessCreate", "ProcessStop", "FileRead", "NetworkConnect", "MemoryProtect"}
    Commands = {"Release", "TrustOnce"}
    PidReuse = FALSE
    IterPinsShard = FALSE
    ConsumerInRuntime = TRUE
    QueueCap = 1
    MaxPrompts = 2
INVARIANTS
    TypeOK
    DetectionReported
    ContainmentEnforced
    StoppedIsReleasable
PROPERTIES
    CasesKept

\* The engine as built, headless, enforcing: one process under observation
\* that reads, connects and ptraces, every command of the administrator.
SPECIFICATION Spec
CONSTANTS
    app = app
    npm = npm
    wallet = wallet
    diary = diary
    page = page
    binary = binary
    crontab = crontab
    socket = socket
    NoEntry = NoEntry
    Pid <- Pids2
    Boot <- Boot1
    MaxTime = 2
    Image = {app}
    Installer = {}
    File = {wallet, diary}
    CategoryOf <- MCCategoryOf
    Owner <- MCOwner
    ProtectedDir = {}
    ProtectedWriter = {}
    PersistencePath = {}
    CredentialPath = {}
    RuntimeSocket = {}
    ShardOf <- MCShardOf
    AuditMode = FALSE
    Gui = {FALSE}
    Tmux = {FALSE}
    Verdict <- Booleans
    Sigma <- Booleans
    Spoof = {}
    Emits = {"ProcessCreate", "ProcessStop", "FileRead", "NetworkConnect", "PtraceAttach"}
    Commands <- AllCommands
    PidReuse = FALSE
    IterPinsShard = TRUE
    ConsumerInRuntime = FALSE
    QueueCap = 2
    MaxPrompts = 1
INVARIANTS
    DetectionReported
    ContainmentEnforced
    StoppedIsReleasable
CHECK_DEADLOCK FALSE

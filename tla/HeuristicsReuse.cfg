\* A pid handed out again while events of its last holder are queued.
SPECIFICATION Spec
CONSTANTS
    app = app
    npm = npm
    wallet = wallet
    diary = diary
    page = page
    binary = binary
    crontab = crontab
    socket = socket
    NoEntry = NoEntry
    Pid <- Pids2
    Boot <- Boot1
    MaxTime = 4
    Image = {app}
    Installer = {}
    File = {wallet}
    CategoryOf <- MCCategoryOf
    Owner <- MCOwner
    ProtectedDir = {}
    ProtectedWriter = {}
    PersistencePath = {}
    CredentialPath = {}
    RuntimeSocket = {}
    ShardOf <- MCShardOf
    AuditMode = FALSE
    Gui = {FALSE}
    Tmux = {FALSE}
    Verdict = {FALSE}
    Sigma = {FALSE}
    Spoof = {}
    Emits = {"ProcessCreate", "ProcessStop", "FileRead", "NetworkConnect"}
    Commands = {}
    PidReuse = TRUE
    IterPinsShard = FALSE
    ConsumerInRuntime = TRUE
    QueueCap = 3
    MaxPrompts = 1
INVARIANTS
    TerminatedMeansGone
PROPERTIES
    EvictsOnlyFinished
    ChargedToActor
    CasesKept

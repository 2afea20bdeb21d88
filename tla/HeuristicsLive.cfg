\* Every ended process is forgotten and every unauthorised read answered,
\* with process_stop's two defects repaired and a user who
\* closes popups, or does not.
SPECIFICATION LiveSpec
CONSTANTS
    app = app
    npm = npm
    wallet = wallet
    diary = diary
    page = page
    binary = binary
    crontab = crontab
    socket = socket
    NoEntry = NoEntry
    Pid <- Pids2
    Boot <- Boot1
    MaxTime = 2
    Image = {app, npm}
    Installer = {npm}
    File = {crontab, wallet}
    CategoryOf <- MCCategoryOf
    Owner <- MCOwner
    ProtectedDir = {}
    ProtectedWriter = {}
    PersistencePath = {crontab}
    CredentialPath = {}
    RuntimeSocket = {}
    ShardOf <- MCShardOf
    AuditMode = FALSE
    Gui = {FALSE}
    Tmux <- Booleans
    Verdict = {FALSE}
    Sigma = {FALSE}
    Spoof = {}
    Emits = {"ProcessCreate", "ProcessStop", "FileRead", "FileWrite", "NetworkConnect"}
    Commands = {"Release"}
    PidReuse = FALSE
    IterPinsShard = FALSE
    ConsumerInRuntime = TRUE
    QueueCap = 2
    MaxPrompts = 1
PROPERTIES
    UnauthorisedReadAnswered
    FinishedStatesCleaned
